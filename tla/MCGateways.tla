------------------------------- MODULE MCGateways -------------------------------
(***************************************************************************)
(* Four providers: three at first, in a full page and one that is not, and *)
(* one later.  One has an app only; the others have Facebook and WhatsApp, *)
(* so that most pages have rows for every insert.  One client may use an   *)
(* old provider and the new one, another the new one.                      *)
(***************************************************************************)
EXTENDS Gateways

MCProviders == 1..4
MCOld == 1..3
MCBothKinds == {1, 3, 4}
MCAppOnly == {2}
MCClients == {"c1", "c2"}
MCChannels == {<<"c1", 1>>, <<"c1", 4>>, <<"c2", 4>>}

Fine == [migrates |-> TRUE, quiet |-> TRUE, graph |-> TRUE, answered |-> TRUE]
MCEnvironments ==
    {Fine, [Fine EXCEPT !.migrates = FALSE],
     [Fine EXCEPT !.quiet = FALSE], [Fine EXCEPT !.quiet = FALSE, !.migrates = FALSE],
     [Fine EXCEPT !.graph = FALSE], [Fine EXCEPT !.answered = FALSE, !.migrates = FALSE]}
================================================================================
