------------------------------- MODULE MCClients -------------------------------
(***************************************************************************)
(* Six clients: three are there, in a full page and one that is not, and   *)
(* three come later.                                                       *)
(***************************************************************************)
EXTENDS Clients

MCClientSet == 1..6
MCOld == 1..3
MCEnvironments == [quiet : BOOLEAN, migrates : BOOLEAN]
================================================================================
