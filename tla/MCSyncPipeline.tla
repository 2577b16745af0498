----------------------------- MODULE MCSyncPipeline -----------------------------
(***************************************************************************)
(* Small legacy databases for SyncPipeline.                                *)
(***************************************************************************)
EXTENDS SyncPipeline

AnyStep == SyncSteps
ButMembers == SyncSteps \ {"members"}

\* Conversation 1 is migrated; 2 is a new one of its group; 3 is of a new group.  One
\* user takes part in 1 and 3, another in 2.
FewConvs == 1..3
FewGroupOf == [c \in FewConvs |-> IF c <= 2 THEN 2 ELSE 1]
FewUsersOf == [c \in FewConvs |-> IF c = 2 THEN {"bob"} ELSE {"ann"}]

\* One more, 4, of another new group: two of one page of two.
MCConvs == 1..4
MCGroupOf == [c \in MCConvs |-> CASE c <= 2 -> 2 [] c = 3 -> 1 [] c = 4 -> 3]
MCUsersOf == [c \in MCConvs |-> IF c \in {1, 3} THEN {"ann"} ELSE {"bob"}]

\* A quiet database with failures, in any step or in all but members, without and with a
\* conversation of an old thread that only the bot answered (2); and a live one with it.
QuietEnvironments == [quiet : {TRUE}, faulty : {AnyStep}, botOnly : {{}}]
CalmMembersEnvironments == [quiet : {TRUE}, faulty : {ButMembers}, botOnly : {{}}]
BotOnlyEnvironments == [quiet : {TRUE}, faulty : {AnyStep}, botOnly : {{2}}]
LiveEnvironments == [quiet : {FALSE}, faulty : {{}}, botOnly : {{2}}]

MCEnvironments == UNION {QuietEnvironments, CalmMembersEnvironments,
                         BotOnlyEnvironments, LiveEnvironments}
================================================================================
