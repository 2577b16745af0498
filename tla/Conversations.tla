----------------------------- MODULE Conversations -----------------------------
(***************************************************************************)
(* The `conversations' step of migration mode (MigrateConversations in     *)
(* service/conversations.go): page through the closed legacy conversations,*)
(* grouped by (initiator, flow), make one chat thread for each group, and  *)
(* commit the page and its cursor together.                                *)
(*                                                                         *)
(* A key is the pair <<initiator, flow>>.  The legacy query orders keys by *)
(* number and keeps those above the cursor by comparing the flow as TEXT;  *)
(* TextRank says where the decimal text of a flow stands in text order.    *)
(* The process may be killed between any two statements, any statement may *)
(* fail, a COMMIT may be applied though its answer is lost, and legacy     *)
(* conversations may close meanwhile.  IsMaxKeyAny and LastPageOffByOne    *)
(* are bugs the code might have; no action uses them.                      *)
(***************************************************************************)
EXTENDS Naturals, FiniteSets, StepTable

CONSTANTS Convs,          \* legacy conversations that have a flow
          GroupOf,        \* the key <<initiator, flow>> of each conversation
          OpenAtStart,    \* conversations that are still open at first
          PerPage,        \* page size
          TextRank        \* position of each flow's decimal text in text order

Groups == {GroupOf[c] : c \in Convs}
Origin == <<0, 0>>        \* where the first page starts
Keys   == Groups \cup {Origin}
Flows  == {k[2] : k \in Keys}

ASSUME GroupsAssumption ==
    /\ IsFiniteSet(Convs)
    /\ OpenAtStart \subseteq Convs
    /\ GroupOf \in [Convs -> (Nat \ {0}) \X Nat]
ASSUME PerPageAssumption  == PerPage \in Nat \ {0}
ASSUME TextRankAssumption ==
    /\ TextRank \in [Flows -> Nat]
    /\ \A f, h \in Flows : TextRank[f] = TextRank[h] => f = h
ASSUME NoCursorAssumption == NoCursor \notin Keys

VARIABLES row,        \* chat_migration_step row of the step
          threads,    \* number of im_thread threads made for each group
          convRows,   \* the threads its conversation_thread migration rows give a conversation
          closed,     \* legacy conversations with closed_at set
          pc,         \* where the process is: down, fetch, commit or done
          cursor,     \* lastInitiator and lastFlowID
          batch       \* conversations of the page in the open transaction

db == <<row, threads, convRows>>
process == <<pc, cursor, batch>>
vars == <<row, threads, convRows, closed, pc, cursor, batch>>

--------------------------------------------------------------------------------

NumLess(a, b) == a[1] < b[1] \/ (a[1] = b[1] /\ a[2] < b[2])

TextLess(a, b) == a[1] < b[1] \/ (a[1] = b[1] /\ TextRank[a[2]] < TextRank[b[2]])

\* The rows the query has before its LIMIT.
Remaining(after) == {g \in {GroupOf[c] : c \in closed} : TextLess(after, g)}

\* page is what ORDER BY initiator, flow LIMIT PerPage leaves of found.
IsPage(page, found) ==
    IF Cardinality(found) < PerPage
    THEN page = found
    ELSE /\ page \subseteq found
         /\ Cardinality(page) = PerPage
         /\ \A p \in page, q \in found \ page : NumLess(p, q)

GroupsOf(convs) == {GroupOf[c] : c \in convs}

IsMaxKeyAny(k, keys) == k \in keys

IsMaxKey(k, keys) == k \in keys /\ \A j \in keys : ~NumLess(k, j)

LastPageOffByOne(count) == count <= PerPage

\* A page that is not full is the last one.
LastPage(count) == count < PerPage

--------------------------------------------------------------------------------

Init ==
    /\ row = AbsentRow
    /\ threads = [g \in Groups |-> 0]
    /\ convRows = [c \in Convs |-> {}]
    /\ closed = Convs \ OpenAtStart
    /\ pc = "down"
    /\ cursor = Origin
    /\ batch = {}

Die == pc' = "down" /\ cursor' = Origin /\ batch' = {}

\* fail(): the error ends the run, whether or not it could be recorded.
Fail(r) ==
    /\ Die
    /\ row' \in {r, MarkStepFailed(r, 0)}

\* The runner starts the step unless its row says completed.
Start ==
    /\ pc = "down"
    /\ ~IsCompleted(row)
    /\ cursor' = GetCursorProgress(row, Origin)
    /\ pc' = "fetch"
    /\ UNCHANGED <<db, closed, batch>>

Fetch ==
    /\ pc = "fetch"
    /\ \E page \in SUBSET Remaining(cursor) :
          /\ IsPage(page, Remaining(cursor))
          /\ batch' = {c \in closed : GroupOf[c] \in page}
          /\ pc' = IF page = {} THEN "done" ELSE "commit"
    /\ UNCHANGED <<db, closed, cursor>>

\* The rows the transaction of a page inserts.  The threads of a group are
\* numbered in the order they are made, so each thread has a fresh name.
WritePage ==
    /\ threads' = [g \in Groups |->
                      IF g \in GroupsOf(batch) THEN threads[g] + 1 ELSE threads[g]]
    /\ convRows' = [c \in Convs |->
                       IF c \in batch THEN convRows[c] \cup {threads[GroupOf[c]] + 1}
                                      ELSE convRows[c]]

Commit ==
    /\ pc = "commit"
    /\ \E last \in GroupsOf(batch) :
          /\ IsMaxKey(last, GroupsOf(batch))
          /\ WritePage
          /\ row' = SaveCursorProgress(row, last)
          /\ cursor' = last
    /\ pc' = IF LastPage(Cardinality(GroupsOf(batch))) THEN "done" ELSE "fetch"
    /\ batch' = {}
    /\ UNCHANGED closed

\* The server commits, the answer is lost, and the code takes the error path.
CommitAnswerLost ==
    /\ pc = "commit"
    /\ \E last \in GroupsOf(batch) :
          /\ IsMaxKey(last, GroupsOf(batch))
          /\ WritePage
          /\ Fail(SaveCursorProgress(row, last))
    /\ UNCHANGED closed

\* A statement fails; the transaction, if there is one, is rolled back.
Error ==
    /\ pc \in {"fetch", "commit"}
    /\ Fail(row)
    /\ UNCHANGED <<threads, convRows, closed>>

Crash ==
    /\ pc # "down"
    /\ Die
    /\ UNCHANGED <<db, closed>>

\* Run returned nil; the runner records it.  The time does not matter here.
Complete ==
    /\ pc = "done"
    /\ row' = MarkStepCompleted(row, 1)
    /\ Die
    /\ UNCHANGED <<threads, convRows, closed>>

\* The live legacy service closes a conversation.
LegacyClose(c) ==
    /\ c \notin closed
    /\ closed' = closed \cup {c}
    /\ UNCHANGED <<db, process>>

Next ==
    \/ Start \/ Fetch \/ Commit \/ CommitAnswerLost \/ Error \/ Crash \/ Complete
    \/ \E c \in Convs : LegacyClose(c)

Spec == Init /\ [][Next]_vars

(***************************************************************************)
(* The operator restarts a failed tool, and a statement that is retried    *)
(* over and over is not refused every time: no weaker fairness ends a step *)
(* that any failure may interrupt.                                         *)
(***************************************************************************)
Fairness ==
    /\ WF_vars(Start)
    /\ SF_vars(Fetch)
    /\ SF_vars(Commit)
    /\ SF_vars(Complete)

FairSpec == Spec /\ Fairness

--------------------------------------------------------------------------------
(* Properties. *)

\* Conversations the step must migrate: they were there, closed, before it ran.
Due == Convs \ OpenAtStart

\* Text order and number order agree on the flows of this database.
OrdersAgree == \A f, h \in Flows : f < h <=> TextRank[f] < TextRank[h]

\* Every variable has its type.
TypeOK ==
    /\ row \in StepRow(Keys)
    /\ threads \in [Groups -> Nat]
    /\ convRows \in [Convs -> SUBSET Nat]
    /\ closed \in SUBSET Convs
    /\ pc \in {"down", "fetch", "commit", "done"}
    /\ cursor \in Keys
    /\ batch \in SUBSET Convs

\* However often the step is killed, fails, loses the answer of a commit and is
\* restarted, a group has at most one thread and a conversation one row.
NoDuplicates ==
    /\ \A g \in Groups : threads[g] <= 1
    /\ \A c \in Convs : \A m, n \in convRows[c] : m = n

\* When the step is recorded as completed, and it is never run again then, each
\* conversation that was closed before the step first ran has been migrated.
NothingLeftBehind == IsCompleted(row) => \A c \in Due : convRows[c] # {}

\* What the row says to resume from is the last committed page, at every moment:
\* all the groups with a thread are at or below it and all due ones are done.
ResumesFromLastPage ==
    LET saved == GetCursorProgress(row, Origin)
    IN  ~IsCompleted(row) =>
            \A c \in Due : convRows[c] # {} <=> ~NumLess(saved, GroupOf[c])

\* The inductive invariant behind the last three, under OrdersAgree.
Saved == GetCursorProgress(row, Origin)
Ahead(c) == NumLess(Saved, GroupOf[c])

DueIsClosed == Due \subseteq closed
OneThread   == \A g \in Groups : threads[g] <= 1
RowsOfThread ==
    \A c \in Convs : convRows[c] = {} \/ (convRows[c] = {1} /\ threads[GroupOf[c]] = 1)
ThreadsBehindCursor ==
    ~IsCompleted(row) => \A g \in Groups : threads[g] > 0 => ~NumLess(Saved, g)
DueBehindCursor ==
    ~IsCompleted(row) => \A c \in Due : ~Ahead(c) => convRows[c] # {}
CursorInMemory == pc # "down" => ~IsCompleted(row) /\ cursor = Saved
\* A due conversation ahead of the cursor is in the page or, if the page is full, after it.
PageIsNext ==
    pc = "commit" =>
        /\ batch # {}
        /\ \A c \in batch : NumLess(cursor, GroupOf[c])
        /\ \A c \in Due : NumLess(cursor, GroupOf[c]) =>
               \/ c \in batch
               \/ /\ \A b \in batch : NumLess(GroupOf[b], GroupOf[c])
                  /\ Cardinality(GroupsOf(batch)) = PerPage
DoneMeansAll == pc = "done" => \A c \in Due : convRows[c] # {}

IInv ==
    /\ TypeOK /\ DueIsClosed /\ OneThread /\ RowsOfThread
    /\ ThreadsBehindCursor /\ DueBehindCursor /\ CursorInMemory
    /\ PageIsNext /\ DoneMeansAll /\ NothingLeftBehind

\* No write of the step, not the record of a failure either, takes a saved cursor
\* back or drops it, but the record of the completion.
CursorOnlyAdvances ==
    [][row.cursor # NoCursor =>
          \/ IsCompleted(row')
          \/ row'.cursor # NoCursor /\ ~TextLess(row'.cursor, row.cursor)]_vars

\* The step is completed in the end, whatever the two orders are.
EventuallyCompleted == <>IsCompleted(row)

\* The step does what ThreadPlan says a migration of conversations does.
Plan == INSTANCE ThreadPlan
            WITH mapped <- convRows, over <- IsCompleted(row)
ImplementsPlan == Plan!Spec
================================================================================
