------------------------- MODULE ConversationsProofs -------------------------
(***************************************************************************)
(* Theorems about Conversations, for every database, page size and set of  *)
(* conversations that close while the step runs.                           *)
(***************************************************************************)
EXTENDS Conversations, FiniteSetTheorems, TLAPS

(* Keys and their order. *)

LEMMA KeyFacts ==
    /\ Groups \subseteq Keys /\ Origin \in Keys /\ NoCursor \notin Keys
    /\ \A c \in Convs : GroupOf[c] \in Groups
    /\ \A k \in Keys : k[1] \in Nat /\ k[2] \in Flows /\ k[2] \in Nat
    /\ \A g \in Groups : g[1] > 0
BY GroupsAssumption, NoCursorAssumption DEF Groups, Keys, Origin, Flows

LEMMA NumLessStrict ==
    /\ \A a \in Keys : ~NumLess(a, a)
    /\ \A a, b, d \in Keys : NumLess(a, b) /\ NumLess(b, d) => NumLess(a, d)
    /\ \A g \in Groups : NumLess(Origin, g)
BY KeyFacts DEF NumLess, Origin

\* Where text order and number order agree on flows they agree on keys.
LEMMA OrdersAgreeOnKeys ==
    ASSUME OrdersAgree
    PROVE  \A a, b \in Keys : TextLess(a, b) <=> NumLess(a, b)
BY KeyFacts DEF OrdersAgree, TextLess, NumLess

LEMMA GroupsOfFacts ==
    ASSUME NEW S \in SUBSET Convs
    PROVE  /\ GroupsOf(S) \subseteq Groups
           /\ \A c \in S : GroupOf[c] \in GroupsOf(S)
           /\ \A g \in GroupsOf(S) : \E c \in S : GroupOf[c] = g
BY DEF GroupsOf, Groups

(* The row of the step. *)

LEMMA SavedType ==
    ASSUME row \in StepRow(Keys)
    PROVE  Saved \in Keys
BY KeyFacts DEF StepRow, Saved, GetCursorProgress

LEMMA FailedRow ==
    ASSUME NEW r \in StepRow(Keys), NEW offset \in Nat
    PROVE  LET f == MarkStepFailed(r, offset)
           IN  f \in StepRow(Keys) /\ ~IsCompleted(f) /\ f.cursor = r.cursor
BY DEF StepRow, MarkStepFailed, IsCompleted, Statuses

LEMMA CursorRow ==
    ASSUME NEW r \in StepRow(Keys), NEW k \in Keys
    PROVE  LET s == SaveCursorProgress(r, k)
           IN  s \in StepRow(Keys) /\ ~IsCompleted(s) /\ s.cursor = k
BY DEF StepRow, SaveCursorProgress, IsCompleted, Statuses

--------------------------------------------------------------------------------

\* The part of the invariant that is about the database and survives the process.
DbInv ==
    /\ row \in StepRow(Keys)
    /\ threads \in [Groups -> Nat]
    /\ convRows \in [Convs -> SUBSET Nat]
    /\ closed \in SUBSET Convs
    /\ DueIsClosed /\ OneThread /\ RowsOfThread
    /\ ThreadsBehindCursor /\ DueBehindCursor /\ NothingLeftBehind

\* A process that is not running breaks nothing.
LEMMA DownIsSafe ==
    ASSUME DbInv', pc' = "down", cursor' = Origin, batch' = {}
    PROVE  IInv'
BY KeyFacts DEF IInv, DbInv, TypeOK, CursorInMemory, PageIsNext, DoneMeansAll

\* A page whose cursor is the largest key of the page leaves the database right.
LEMMA PageWritten ==
    ASSUME IInv, pc = "commit", WritePage, closed' = closed,
           NEW last \in GroupsOf(batch), IsMaxKey(last, GroupsOf(batch)),
           row' \in StepRow(Keys), ~IsCompleted(row)', row'.cursor = last
    PROVE  /\ DbInv'
           /\ Saved' = last
           /\ \A c \in Due : c \in batch => convRows'[c] # {}
           /\ \A c \in Due : convRows[c] # {} => convRows'[c] # {}
<1> DEFINE page == GroupsOf(batch)
<1>1. /\ batch \in SUBSET Convs /\ page \subseteq Groups /\ last \in Keys
      /\ \A c \in batch : GroupOf[c] \in page
  BY GroupsOfFacts, KeyFacts DEF IInv, TypeOK
<1>2. Saved' = last
  BY <1>1, KeyFacts DEF Saved, GetCursorProgress
<1>3. cursor \in Keys /\ cursor = Saved /\ ~IsCompleted(row)
  BY DEF IInv, TypeOK, CursorInMemory
<1>4. \A g \in page : NumLess(cursor, g) /\ ~NumLess(last, g) /\ threads[g] = 0
  <2>1. \A g \in page : NumLess(cursor, g)
    BY GroupsOfFacts, <1>1 DEF IInv, PageIsNext
  <2>2. \A g \in page : ~NumLess(last, g)
    BY DEF IsMaxKey
  <2>3. \A g \in page : threads[g] = 0
    BY <1>1, <1>3, <2>1 DEF IInv, TypeOK, ThreadsBehindCursor
  <2> QED
    BY <2>1, <2>2, <2>3
<1>5. /\ threads' \in [Groups -> Nat] /\ convRows' \in [Convs -> SUBSET Nat]
      /\ \A g \in page : threads'[g] = 1
      /\ \A g \in Groups \ page : threads'[g] = threads[g]
      /\ \A c \in batch : convRows'[c] = {1}
      /\ \A c \in Convs \ batch : convRows'[c] = convRows[c]
  <2>1. /\ threads' \in [Groups -> Nat]
        /\ \A g \in page : threads'[g] = 1
        /\ \A g \in Groups \ page : threads'[g] = threads[g]
    BY <1>1, <1>4 DEF WritePage, IInv, TypeOK
  <2>2. \A c \in batch : convRows[c] = {} /\ threads[GroupOf[c]] = 0
    BY <1>1, <1>4 DEF IInv, RowsOfThread
  <2>3. /\ convRows' \in [Convs -> SUBSET Nat]
        /\ \A c \in batch : convRows'[c] = {1}
        /\ \A c \in Convs \ batch : convRows'[c] = convRows[c]
    <3>1. \A c \in Convs : threads[GroupOf[c]] + 1 \in Nat
      BY KeyFacts DEF IInv, TypeOK
    <3>2. convRows \in [Convs -> SUBSET Nat]
      BY DEF IInv, TypeOK
    <3> QED
      BY <1>1, <2>2, <3>1, <3>2 DEF WritePage
  <2> QED
    BY <2>1, <2>3
<1>6. OneThread'
  BY <1>1, <1>5 DEF IInv, OneThread
<1>7. RowsOfThread'
  <2> SUFFICES ASSUME NEW c \in Convs
               PROVE  convRows'[c] = {} \/ (convRows'[c] = {1} /\ threads'[GroupOf[c]] = 1)
    BY DEF RowsOfThread
  <2>1. CASE c \in batch
    BY <1>1, <1>5, <2>1
  <2>2. CASE c \notin batch
    BY <1>5, <2>2, KeyFacts DEF IInv, RowsOfThread
  <2> QED
    BY <2>1, <2>2
<1>8. ThreadsBehindCursor'
  <2> SUFFICES ASSUME NEW g \in Groups, threads'[g] > 0
               PROVE  ~NumLess(last, g)
    BY <1>2 DEF ThreadsBehindCursor
  <2>1. CASE g \in page
    BY <1>4, <2>1
  <2>2. CASE g \notin page
    <3>1. ~NumLess(cursor, g)
      BY <1>3, <1>5, <2>2 DEF IInv, ThreadsBehindCursor
    <3> QED
      BY <1>1, <1>3, <1>4, <3>1, NumLessStrict, KeyFacts
  <2> QED
    BY <2>1, <2>2
<1>9. DueBehindCursor'
  <2> SUFFICES ASSUME NEW c \in Due, ~NumLess(last, GroupOf[c])
               PROVE  convRows'[c] # {}
    BY <1>2 DEF DueBehindCursor, Ahead
  <2>1. c \in Convs
    BY DEF Due
  <2>2. CASE c \in batch
    BY <1>5, <2>2
  <2>3. CASE c \notin batch
    <3>1. ~NumLess(cursor, GroupOf[c])
      <4>1. PICK b \in batch : GroupOf[b] = last
        BY <1>1, GroupsOfFacts
      <4> QED
        BY <2>3, <4>1 DEF IInv, PageIsNext
    <3>2. convRows[c] # {}
      BY <1>3, <3>1 DEF IInv, DueBehindCursor, Ahead
    <3> QED
      BY <1>5, <2>1, <2>3, <3>2
  <2> QED
    BY <2>2, <2>3
<1>10. \A c \in Due : (c \in batch \/ convRows[c] # {}) => convRows'[c] # {}
  BY <1>5 DEF Due
<1> QED
  BY <1>2, <1>5, <1>6, <1>7, <1>8, <1>9, <1>10
     DEF DbInv, IInv, TypeOK, DueIsClosed, NothingLeftBehind

--------------------------------------------------------------------------------

LEMMA InitSafe == Init => IInv
<1> SUFFICES ASSUME Init PROVE IInv
  OBVIOUS
<1>1. /\ row \in StepRow(Keys) /\ ~IsCompleted(row) /\ Saved = Origin
  BY DEF Init, StepRow, AbsentRow, Statuses, Saved, GetCursorProgress, IsCompleted
<1>2. \A c \in Due : Ahead(c)
  BY <1>1, KeyFacts, NumLessStrict DEF Ahead, Due
<1> QED
  BY <1>1, <1>2, KeyFacts, GroupsAssumption
     DEF Init, IInv, TypeOK, DueIsClosed, Due, OneThread, RowsOfThread,
         ThreadsBehindCursor, DueBehindCursor, CursorInMemory, PageIsNext,
         DoneMeansAll, NothingLeftBehind

LEMMA StartSafe == ASSUME IInv, Start PROVE IInv'
<1>1. Saved' = Saved /\ cursor' = Saved
  BY DEF Start, db, Saved
<1>2. Saved \in Keys
  BY SavedType DEF IInv, TypeOK
<1> QED
  BY <1>1, <1>2
     DEF IInv, Start, db, TypeOK, DueIsClosed, OneThread, RowsOfThread,
         ThreadsBehindCursor, DueBehindCursor, Ahead, CursorInMemory, PageIsNext,
         DoneMeansAll, NothingLeftBehind

LEMMA FetchSafe == ASSUME IInv, OrdersAgree, Fetch PROVE IInv'
<1> PICK page \in SUBSET Remaining(cursor) :
          /\ IsPage(page, Remaining(cursor))
          /\ batch' = {c \in closed : GroupOf[c] \in page}
          /\ pc' = IF page = {} THEN "done" ELSE "commit"
  BY DEF Fetch
<1>1. /\ UNCHANGED <<row, threads, convRows, closed, cursor>> /\ Saved' = Saved
      /\ cursor = Saved /\ cursor \in Keys /\ ~IsCompleted(row)
  BY DEF Fetch, db, Saved, IInv, TypeOK, CursorInMemory
<1>2. /\ batch' \subseteq closed /\ GroupsOf(batch') = page
      /\ \A c \in batch' : NumLess(cursor, GroupOf[c])
  <2>1. \A c \in closed : GroupOf[c] \in Keys
    BY KeyFacts DEF IInv, TypeOK
  <2> QED
    BY <1>1, <2>1, OrdersAgreeOnKeys DEF GroupsOf, Remaining
<1>3. ASSUME NEW c \in Due, NumLess(cursor, GroupOf[c]), c \notin batch'
      PROVE  /\ \A p \in page : NumLess(p, GroupOf[c])
             /\ Cardinality(page) = PerPage
  <2>1. c \in closed /\ GroupOf[c] \in Keys
    BY KeyFacts DEF IInv, TypeOK, DueIsClosed
  <2>2. GroupOf[c] \in Remaining(cursor) \ page
    BY <1>1, <1>3, <2>1, OrdersAgreeOnKeys DEF Remaining
  <2> QED
    BY <2>2 DEF IsPage
<1>4. PageIsNext'
  <2>1. \A c \in Due : NumLess(cursor, GroupOf[c]) =>
               \/ c \in batch'
               \/ /\ \A b \in batch' : NumLess(GroupOf[b], GroupOf[c])
                  /\ Cardinality(GroupsOf(batch')) = PerPage
    BY <1>2, <1>3
  <2>2. pc' = "commit" => batch' # {}
    BY <1>2 DEF GroupsOf
  <2> QED
    BY <1>1, <1>2, <2>1, <2>2 DEF PageIsNext, GroupsOf
<1>5. DoneMeansAll'
  <2> SUFFICES ASSUME pc' = "done", NEW c \in Due PROVE convRows[c] # {}
    BY <1>1 DEF DoneMeansAll
  <2>1. page = {} /\ batch' = {}
    OBVIOUS
  <2>2. Remaining(cursor) = {}
    <3>1. Cardinality({}) = 0
      BY FS_EmptySet
    <3> QED
      BY <2>1, <3>1, PerPageAssumption DEF IsPage
  <2>3. ~NumLess(cursor, GroupOf[c])
    <3>1. c \in closed /\ GroupOf[c] \in Keys
      BY KeyFacts DEF IInv, TypeOK, DueIsClosed
    <3> QED
      BY <1>1, <2>2, <3>1, OrdersAgreeOnKeys DEF Remaining
  <2> QED
    BY <1>1, <2>3 DEF IInv, DueBehindCursor, Ahead
<1>6. batch' \in SUBSET Convs /\ pc' \in {"down", "fetch", "commit", "done"}
  BY <1>2 DEF IInv, TypeOK
<1> QED
  BY <1>1, <1>4, <1>5, <1>6
     DEF IInv, TypeOK, DueIsClosed, OneThread, RowsOfThread, ThreadsBehindCursor,
         DueBehindCursor, Ahead, CursorInMemory, NothingLeftBehind

LEMMA CommitSafe == ASSUME IInv, Commit PROVE IInv'
<1> PICK last \in GroupsOf(batch) :
          /\ IsMaxKey(last, GroupsOf(batch))
          /\ WritePage
          /\ row' = SaveCursorProgress(row, last)
          /\ cursor' = last
  BY DEF Commit
<1>1. pc = "commit" /\ closed' = closed /\ batch' = {} /\ last \in Keys /\ row \in StepRow(Keys)
  BY GroupsOfFacts, KeyFacts DEF Commit, IInv, TypeOK
<1>2. row' \in StepRow(Keys) /\ ~IsCompleted(row)' /\ row'.cursor = last
  BY <1>1, CursorRow DEF IsCompleted
<1>3. /\ DbInv' /\ Saved' = last
      /\ \A c \in Due : c \in batch \/ convRows[c] # {} => convRows'[c] # {}
  BY <1>1, <1>2, PageWritten
<1>4. DoneMeansAll'
  <2> SUFFICES ASSUME pc' = "done", NEW c \in Due PROVE convRows'[c] # {}
    BY DEF DoneMeansAll
  <2>1. Cardinality(GroupsOf(batch)) # PerPage
    BY PerPageAssumption DEF Commit, LastPage
  <2>2. CASE NumLess(cursor, GroupOf[c])
    BY <1>1, <1>3, <2>1, <2>2 DEF IInv, PageIsNext
  <2>3. CASE ~NumLess(cursor, GroupOf[c])
    BY <1>1, <1>3, <2>3 DEF IInv, CursorInMemory, DueBehindCursor, Ahead
  <2> QED
    BY <2>2, <2>3
<1>5. pc' \in {"done", "fetch"}
  BY DEF Commit
<1> QED
  BY <1>1, <1>2, <1>3, <1>4, <1>5
     DEF DbInv, IInv, TypeOK, CursorInMemory, PageIsNext

LEMMA AnswerLostSafe == ASSUME IInv, CommitAnswerLost PROVE IInv'
<1> PICK last \in GroupsOf(batch) :
          /\ IsMaxKey(last, GroupsOf(batch))
          /\ WritePage
          /\ Fail(SaveCursorProgress(row, last))
  BY DEF CommitAnswerLost
<1>1. pc = "commit" /\ closed' = closed /\ last \in Keys /\ row \in StepRow(Keys)
  BY GroupsOfFacts, KeyFacts DEF CommitAnswerLost, IInv, TypeOK
<1>2. row' \in StepRow(Keys) /\ ~IsCompleted(row)' /\ row'.cursor = last
  BY <1>1, CursorRow, FailedRow DEF Fail, IsCompleted
<1>3. DbInv'
  BY <1>1, <1>2, PageWritten
<1> QED
  BY <1>3, DownIsSafe DEF Fail, Die

LEMMA ErrorSafe == ASSUME IInv, Error PROVE IInv'
<1>1. /\ row \in StepRow(Keys) /\ ~IsCompleted(row)
  BY DEF IInv, TypeOK, CursorInMemory, Error
<1>2. row' \in StepRow(Keys) /\ ~IsCompleted(row)' /\ row'.cursor = row.cursor
  BY <1>1, FailedRow DEF Error, Fail, IsCompleted
<1>3. Saved' = Saved
  BY <1>1, <1>2 DEF Saved, GetCursorProgress
<1>4. DbInv'
  BY <1>1, <1>2, <1>3
     DEF Error, IInv, TypeOK, DbInv, DueIsClosed, OneThread, RowsOfThread,
         ThreadsBehindCursor, DueBehindCursor, Ahead, NothingLeftBehind
<1> QED
  BY <1>4, DownIsSafe DEF Error, Fail, Die

LEMMA CrashSafe == ASSUME IInv, Crash PROVE IInv'
<1>1. DbInv'
  BY DEF Crash, db, IInv, TypeOK, DbInv, DueIsClosed, OneThread, RowsOfThread,
         ThreadsBehindCursor, DueBehindCursor, Ahead, Saved, NothingLeftBehind
<1> QED
  BY <1>1, DownIsSafe DEF Crash, Die

LEMMA CompleteSafe == ASSUME IInv, Complete PROVE IInv'
<1>1. row' \in StepRow(Keys) /\ IsCompleted(row)'
  BY DEF Complete, MarkStepCompleted, StepRow, Statuses, IsCompleted
<1>2. DbInv'
  BY <1>1
     DEF Complete, IInv, TypeOK, DbInv, DueIsClosed, OneThread, RowsOfThread,
         ThreadsBehindCursor, DueBehindCursor, DoneMeansAll, NothingLeftBehind
<1> QED
  BY <1>2, DownIsSafe DEF Complete, Die

LEMMA LegacyCloseSafe == ASSUME IInv, NEW c \in Convs, LegacyClose(c) PROVE IInv'
<1>1. Saved' = Saved
  BY DEF LegacyClose, db, Saved
<1> QED
  BY <1>1
     DEF LegacyClose, db, process, IInv, TypeOK, DueIsClosed, OneThread, RowsOfThread,
         ThreadsBehindCursor, DueBehindCursor, Ahead, CursorInMemory, PageIsNext,
         DoneMeansAll, NothingLeftBehind

LEMMA StutterSafe == ASSUME IInv, UNCHANGED vars PROVE IInv'
<1>1. Saved' = Saved
  BY DEF vars, Saved
<1> QED
  BY <1>1
     DEF vars, IInv, TypeOK, DueIsClosed, OneThread, RowsOfThread, ThreadsBehindCursor,
         DueBehindCursor, Ahead, CursorInMemory, PageIsNext, DoneMeansAll, NothingLeftBehind

LEMMA StepSafe == ASSUME IInv, OrdersAgree, [Next]_vars PROVE IInv'
BY StartSafe, FetchSafe, CommitSafe, AnswerLostSafe, ErrorSafe, CrashSafe, CompleteSafe,
   LegacyCloseSafe, StutterSafe DEF Next

\* IInv holds in every state of the step.
THEOREM Invariance == ASSUME OrdersAgree PROVE Spec => []IInv
<1>1. Init => IInv
  BY InitSafe
<1>2. IInv /\ [Next]_vars => IInv'
  BY StepSafe
<1> QED
  BY <1>1, <1>2, PTL DEF Spec

\* No crash, failure, lost answer or restart makes a second thread for a group or
\* a second row for a conversation.
THEOREM NeverDuplicates == ASSUME OrdersAgree PROVE Spec => []NoDuplicates
<1>1. IInv => NoDuplicates
  BY DEF IInv, TypeOK, OneThread, RowsOfThread, NoDuplicates
<1> QED
  BY <1>1, Invariance, PTL

\* A step recorded as completed has migrated what was there when it first ran.
THEOREM NeverLeavesBehind == ASSUME OrdersAgree PROVE Spec => []NothingLeftBehind
BY Invariance, PTL DEF IInv

\* The saved cursor is the boundary between what is migrated and what is not.
THEOREM AlwaysResumes == ASSUME OrdersAgree PROVE Spec => []ResumesFromLastPage
<1>1. IInv => ResumesFromLastPage
  <2> SUFFICES ASSUME IInv, ~IsCompleted(row), NEW c \in Due
               PROVE  convRows[c] # {} <=> ~NumLess(Saved, GroupOf[c])
    BY DEF ResumesFromLastPage, Saved
  <2>1. c \in Convs /\ GroupOf[c] \in Groups
    BY KeyFacts DEF Due
  <2>2. convRows[c] # {} => threads[GroupOf[c]] > 0
    BY <2>1 DEF IInv, RowsOfThread
  <2> QED
    BY <2>1, <2>2 DEF IInv, ThreadsBehindCursor, DueBehindCursor, Ahead
<1> QED
  BY <1>1, Invariance, PTL

--------------------------------------------------------------------------------
(* The saved cursor, whatever the two orders are. *)

CursorInv ==
    /\ TypeOK
    /\ CursorInMemory
    /\ pc = "commit" => \A c \in batch : TextLess(cursor, GroupOf[c])

LEMMA TextLessStrict == \A a, b \in Keys : TextLess(a, b) => ~TextLess(b, a)
BY KeyFacts, TextRankAssumption DEF TextLess

\* After a page the cursor is one of the page's keys, above the one before it.
LEMMA PageAdvances ==
    ASSUME CursorInv, pc = "commit", NEW last \in GroupsOf(batch)
    PROVE  last \in Keys /\ ~TextLess(last, Saved)
<1>1. PICK c \in batch : GroupOf[c] = last
  BY GroupsOfFacts DEF CursorInv, TypeOK
<1>2. last \in Keys /\ cursor \in Keys /\ cursor = Saved /\ TextLess(cursor, last)
  BY <1>1, KeyFacts DEF CursorInv, TypeOK, CursorInMemory
<1> QED
  BY <1>2, TextLessStrict

LEMMA CursorStep ==
    ASSUME CursorInv, [Next]_vars
    PROVE  /\ CursorInv'
           /\ row.cursor # NoCursor =>
                  \/ IsCompleted(row')
                  \/ row'.cursor # NoCursor /\ ~TextLess(row'.cursor, row.cursor)
<1> USE DEF CursorInv
<1> DEFINE Advances == row.cursor # NoCursor =>
                  \/ IsCompleted(row')
                  \/ row'.cursor # NoCursor /\ ~TextLess(row'.cursor, row.cursor)
<1>0. ASSUME row'.cursor = row.cursor PROVE Advances
  <2>1. row.cursor # NoCursor => row.cursor \in Keys
    BY DEF TypeOK, StepRow
  <2> QED
    BY <1>0, <2>1, TextLessStrict
<1>1. ASSUME UNCHANGED row PROVE Saved' = Saved
  BY <1>1 DEF Saved
<1>2. CASE Start
  <2>1. cursor' = Saved /\ Saved \in Keys /\ Saved' = Saved
    BY <1>1, <1>2, SavedType DEF Start, db, Saved, TypeOK
  <2> QED
    BY <1>0, <1>2, <2>1 DEF Start, db, TypeOK, CursorInMemory
<1>3. CASE Fetch
  <2>1. Saved' = Saved
    BY <1>1, <1>3 DEF Fetch, db
  <2>2. batch' \subseteq closed /\ \A c \in batch' : TextLess(cursor, GroupOf[c])
    BY <1>3 DEF Fetch, Remaining
  <2>3. pc' \in {"done", "commit"}
    BY <1>3 DEF Fetch
  <2> QED
    BY <1>0, <1>3, <2>1, <2>2, <2>3 DEF Fetch, db, TypeOK, CursorInMemory
<1>4. ASSUME pc = "commit", WritePage, closed' = closed, NEW last \in GroupsOf(batch),
             row' \in StepRow(Keys), ~IsCompleted(row'), row'.cursor = last
      PROVE  /\ Advances /\ Saved' = last /\ last \in Keys
             /\ threads' \in [Groups -> Nat] /\ convRows' \in [Convs -> SUBSET Nat]
  <2>1. last \in Keys /\ ~TextLess(last, Saved)
    BY <1>4, PageAdvances
  <2>2. Saved' = last
    BY <1>4, <2>1, KeyFacts DEF Saved, GetCursorProgress, IsCompleted
  <2>3. row.cursor # NoCursor => row.cursor = Saved
    BY <1>4 DEF Saved, GetCursorProgress, CursorInMemory
  <2>4. threads' \in [Groups -> Nat]
    BY <1>4 DEF WritePage, TypeOK
  <2>5. convRows' \in [Convs -> SUBSET Nat]
    <3>1. \A c \in Convs : threads[GroupOf[c]] + 1 \in Nat
      BY KeyFacts DEF TypeOK
    <3> QED
      BY <1>4, <3>1 DEF WritePage, TypeOK
  <2> QED
    BY <1>4, <2>1, <2>2, <2>3, <2>4, <2>5, KeyFacts
<1>5. CASE Commit
  <2> PICK last \in GroupsOf(batch) :
          WritePage /\ row' = SaveCursorProgress(row, last) /\ cursor' = last
    BY <1>5 DEF Commit
  <2>1. last \in Keys
    BY <1>5, PageAdvances DEF Commit
  <2>2. row' \in StepRow(Keys) /\ ~IsCompleted(row') /\ row'.cursor = last
    BY <2>1, CursorRow DEF TypeOK
  <2> QED
    BY <1>4, <1>5, <2>1, <2>2 DEF Commit, TypeOK, CursorInMemory, IsCompleted
<1>6. CASE CommitAnswerLost
  <2> PICK last \in GroupsOf(batch) : WritePage /\ Fail(SaveCursorProgress(row, last))
    BY <1>6 DEF CommitAnswerLost
  <2>1. last \in Keys
    BY <1>6, PageAdvances DEF CommitAnswerLost
  <2>2. row' \in StepRow(Keys) /\ ~IsCompleted(row') /\ row'.cursor = last
    BY <2>1, CursorRow, FailedRow DEF TypeOK, Fail
  <2> QED
    BY <1>4, <1>6, <2>2, KeyFacts DEF CommitAnswerLost, Fail, Die, TypeOK, CursorInMemory
<1>7. CASE Error
  <2>1. row' \in StepRow(Keys) /\ row'.cursor = row.cursor
    BY <1>7, FailedRow DEF Error, Fail, TypeOK
  <2> QED
    BY <1>0, <1>7, <2>1, KeyFacts DEF Error, Fail, Die, TypeOK, CursorInMemory
<1>8. CASE Crash
  BY <1>0, <1>8, KeyFacts DEF Crash, Die, db, TypeOK, CursorInMemory
<1>9. CASE Complete
  <2>1. row' \in StepRow(Keys) /\ IsCompleted(row')
    BY <1>9 DEF Complete, MarkStepCompleted, StepRow, Statuses, IsCompleted
  <2> QED
    BY <1>9, <2>1, KeyFacts DEF Complete, Die, TypeOK, CursorInMemory
<1>10. ASSUME NEW c \in Convs, LegacyClose(c) PROVE CursorInv' /\ Advances
  BY <1>0, <1>1, <1>10 DEF LegacyClose, db, process, TypeOK, CursorInMemory
<1>11. CASE UNCHANGED vars
  BY <1>0, <1>1, <1>11 DEF vars, TypeOK, CursorInMemory
<1> QED
  BY <1>2, <1>3, <1>5, <1>6, <1>7, <1>8, <1>9, <1>10, <1>11 DEF Next

\* Every variable keeps its type.
THEOREM TypeCorrect == Spec => []TypeOK
<1>1. Init => CursorInv
  BY KeyFacts, GroupsAssumption
     DEF Init, CursorInv, TypeOK, CursorInMemory, StepRow, AbsentRow, Statuses
<1>2. CursorInv /\ [Next]_vars => CursorInv'
  BY CursorStep
<1>3. CursorInv => TypeOK
  BY DEF CursorInv
<1> QED
  BY <1>1, <1>2, <1>3, PTL DEF Spec

\* A saved cursor never goes back, in text order, before the step completes; no
\* agreement of the orders is assumed.
THEOREM CursorAdvances == Spec => CursorOnlyAdvances
<1>1. Init => CursorInv
  BY KeyFacts, GroupsAssumption
     DEF Init, CursorInv, TypeOK, CursorInMemory, StepRow, AbsentRow, Statuses
<1>2. CursorInv /\ [Next]_vars => CursorInv'
  BY CursorStep
<1>3. CursorInv /\ [Next]_vars =>
          [row.cursor # NoCursor =>
              \/ IsCompleted(row')
              \/ row'.cursor # NoCursor /\ ~TextLess(row'.cursor, row.cursor)]_vars
  BY CursorStep
<1> QED
  BY <1>1, <1>2, <1>3, PTL DEF Spec, CursorOnlyAdvances

--------------------------------------------------------------------------------
(* The step implements ThreadPlan. *)

\* Writing a page, while the step is not completed, is one batch of the plan.
LEMMA PageIsBatch ==
    ASSUME IInv, pc = "commit", WritePage, ~IsCompleted(row')
    PROVE  Plan!MigrateBatch(batch)
<1>1. batch \in SUBSET Convs /\ batch # {} /\ ~IsCompleted(row)
  BY DEF IInv, TypeOK, CursorInMemory, PageIsNext
<1>2. \A c \in batch : threads[GroupOf[c]] = 0 /\ convRows[c] = {}
  <2>1. \A c \in batch : NumLess(Saved, GroupOf[c]) /\ GroupOf[c] \in Groups
    BY <1>1, KeyFacts DEF IInv, PageIsNext, CursorInMemory
  <2>2. \A c \in batch : threads[GroupOf[c]] = 0
    BY <1>1, <2>1 DEF IInv, TypeOK, ThreadsBehindCursor
  <2> QED
    BY <1>1, <2>2 DEF IInv, RowsOfThread
<1>3. threads' = [g \in Groups |->
                     IF \E c \in batch : GroupOf[c] = g THEN threads[g] + 1 ELSE threads[g]]
  BY DEF WritePage, GroupsOf
<1>4. convRows' = [c \in Convs |-> IF c \in batch THEN {1} ELSE convRows[c]]
  BY <1>1, <1>2 DEF WritePage
<1>5. UNCHANGED IsCompleted(row)
  BY <1>1 DEF IsCompleted
<1> QED
  BY <1>1, <1>2, <1>3, <1>4, <1>5 DEF Plan!MigrateBatch, Plan!Groups, Groups

LEMMA StepIsPlanStep ==
    ASSUME IInv, OrdersAgree, [Next]_vars
    PROVE  [Plan!Next]_(Plan!vars)
<1> USE DEF Plan!Next, Plan!vars
<1>1. CASE Commit
  <2>1. ~IsCompleted(row') /\ batch \in SUBSET Convs
    BY <1>1, CursorRow, GroupsOfFacts, KeyFacts DEF Commit, IInv, TypeOK
  <2> QED
    BY <1>1, <2>1, PageIsBatch DEF Commit
<1>2. CASE CommitAnswerLost
  <2> PICK last \in GroupsOf(batch) : WritePage /\ Fail(SaveCursorProgress(row, last))
    BY <1>2 DEF CommitAnswerLost
  <2>1. last \in Keys /\ batch \in SUBSET Convs
    BY GroupsOfFacts, KeyFacts DEF IInv, TypeOK
  <2>2. ~IsCompleted(row')
    BY <2>1, CursorRow, FailedRow DEF IInv, TypeOK, Fail
  <2> QED
    BY <1>2, <2>1, <2>2, PageIsBatch DEF CommitAnswerLost
<1>3. CASE Complete
  <2>1. \A c \in Due : convRows[c] # {}
    BY <1>3 DEF Complete, IInv, DoneMeansAll
  <2>2. ~IsCompleted(row) /\ IsCompleted(row')
    BY <1>3 DEF Complete, IInv, CursorInMemory, MarkStepCompleted, IsCompleted
  <2> QED
    BY <1>3, <2>1, <2>2 DEF Complete, Plan!Complete
<1>4. CASE Error
  <2>1. ~IsCompleted(row) /\ ~IsCompleted(row')
    BY <1>4, FailedRow DEF Error, Fail, IInv, TypeOK, CursorInMemory
  <2>2. UNCHANGED IsCompleted(row)
    BY <2>1 DEF IsCompleted
  <2> QED
    BY <1>4, <2>2 DEF Error
<1>5. CASE Start \/ Fetch \/ Crash \/ (\E c \in Convs : LegacyClose(c)) \/ UNCHANGED vars
  BY <1>5 DEF Start, Fetch, Crash, LegacyClose, db, vars
<1> QED
  BY <1>1, <1>2, <1>3, <1>4, <1>5 DEF Next

\* Seen from its database, the step makes each thread once, maps each conversation
\* once and completes only when nothing due is left: it implements ThreadPlan.
THEOREM Refinement == ASSUME OrdersAgree PROVE Spec => ImplementsPlan
<1>1. Init => Plan!Init
  BY DEF Init, Plan!Init, Plan!Groups, Groups, AbsentRow, IsCompleted
<1>2. IInv /\ [Next]_vars => [Plan!Next]_(Plan!vars)
  BY StepIsPlanStep
<1> QED
  BY <1>1, <1>2, Invariance, PTL DEF Spec, Plan!Spec, ImplementsPlan
==============================================================================
