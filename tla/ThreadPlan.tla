------------------------------ MODULE ThreadPlan ------------------------------
(***************************************************************************)
(* What the `conversations' step promises, with no pages, cursor, process  *)
(* or retry in it: conversations get their thread in batches, a thread is  *)
(* made at most once for each (initiator, flow) group, a conversation is   *)
(* mapped at most once, and the step is over only when every conversation  *)
(* that was there to migrate is mapped.                                    *)
(***************************************************************************)
EXTENDS Naturals

CONSTANTS Convs,      \* conversations of the legacy database
          GroupOf,    \* the group of each
          Due         \* the ones the step must not leave behind

VARIABLES threads,    \* how many threads each group has
          mapped,     \* the threads, by number, that each conversation is mapped to
          over        \* the step is recorded as completed

vars == <<threads, mapped, over>>

Groups == {GroupOf[c] : c \in Convs}

Init ==
    /\ threads = [g \in Groups |-> 0]
    /\ mapped = [c \in Convs |-> {}]
    /\ over = FALSE

MigrateBatch(batch) ==
    /\ ~over
    /\ batch # {}
    /\ \A c \in batch : threads[GroupOf[c]] = 0 /\ mapped[c] = {}
    /\ threads' = [g \in Groups |->
                      IF \E c \in batch : GroupOf[c] = g THEN threads[g] + 1 ELSE threads[g]]
    /\ mapped' = [c \in Convs |-> IF c \in batch THEN {1} ELSE mapped[c]]
    /\ UNCHANGED over

Complete ==
    /\ ~over
    /\ \A c \in Due : mapped[c] # {}
    /\ over' = TRUE
    /\ UNCHANGED <<threads, mapped>>

Next == Complete \/ \E batch \in SUBSET Convs : MigrateBatch(batch)

Spec == Init /\ [][Next]_vars

================================================================================
