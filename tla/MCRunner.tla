-------------------------------- MODULE MCRunner --------------------------------
(***************************************************************************)
(* Three migration steps, the middle one for portal clients, and one step  *)
(* of sync mode.  The portal step may get stuck.                           *)
(***************************************************************************)
EXTENDS Runner

MCSteps ==
    [first |-> <<"clients">>, portal |-> <<"portal_clients">>, rest |-> <<"conversations">>]
MCSyncSteps ==
    [first |-> <<>>, portal |-> <<>>, rest |-> <<"sync_conversations">>]
MCMayStick == {"portal_clients"}
================================================================================
