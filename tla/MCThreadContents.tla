---------------------------- MODULE MCThreadContents ----------------------------
(***************************************************************************)
(* Small legacy databases for ThreadContents.                              *)
(***************************************************************************)
EXTENDS ThreadContents

\* Five groups, the first of two conversations.  When conversation 2 is late its group
\* has a thread already; when 4 is, it is alone in its group.
MCConvs == 1..6
MCGroupOf == [c \in MCConvs |-> IF c = 1 THEN 1 ELSE c - 1]
MCFlowOf == [g \in 1..5 |-> IF g \in {1, 2} THEN "menu" ELSE "sales"]
MCUsersOf == [c \in MCConvs |-> CASE c \in {1, 3} -> {"ann"} [] c = 5 -> {"ann", "bob"}
                                  [] c = 2 -> {"bob"} [] OTHER -> {}]

\* Nothing late, with no group, a group and a page of groups whose initiator has no
\* contact, and with everybody known or a flow and a user that are not; and
\* conversations that close late.
MCEnvironments ==
    [late : {{}}, orphans : {{}, {4}, {3, 4}}, unknown : {{}, {"menu", "ann"}}] \cup
    [late : {{2, 4}}, orphans : {{4}}, unknown : {{}}]

LateEnvironments == {[late |-> {4}, orphans |-> {}, unknown |-> {}]}
================================================================================
