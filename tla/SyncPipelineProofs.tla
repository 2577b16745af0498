--------------------------- MODULE SyncPipelineProofs ---------------------------
(***************************************************************************)
(* Theorems about SyncPipeline, for any conversations, groups, page sizes  *)
(* and surroundings, and for any number of syncs.                          *)
(***************************************************************************)
EXTENDS SyncPipeline, PageLemmas

(* Groups, rows and the time. *)

LEMMA GroupFacts ==
    /\ \A c \in Convs : GroupOf[c] \in Groups /\ GroupOf[c] \in Nat /\ GroupOf[c] > 0
    /\ \A S \in SUBSET Groups : S \in SUBSET Nat /\ IsFiniteSet(S) /\ Cardinality(S) \in Nat
    /\ \A S \in SUBSET Convs : IsFiniteSet(S) /\ Cardinality(S) \in Nat
    /\ \A c \in Convs : UsersIn(c) \in SUBSET Users
    /\ \A s : Limit(s) \in Nat \ {0}
<1>1. \A c \in Convs : GroupOf[c] \in Groups /\ GroupOf[c] \in Nat /\ GroupOf[c] # 0
  BY SyncAssumption DEF Groups
<1>2. \A c \in Convs : GroupOf[c] \in Groups /\ GroupOf[c] \in Nat /\ GroupOf[c] > 0
  BY <1>1
<1>3. \A S \in SUBSET Groups : S \in SUBSET Nat
  BY <1>1 DEF Groups
<1>4. IsFiniteSet(Groups)
  <2>1. GroupOf \in Surjection(Convs, Groups)
    BY SyncAssumption DEF Surjection, Groups
  <2> QED
    BY <2>1, FS_Surjection, SyncAssumption
<1>5. \A S \in SUBSET Groups : IsFiniteSet(S) /\ Cardinality(S) \in Nat
  BY <1>4, FS_Subset, FS_CardinalityType
<1>6. \A S \in SUBSET Convs : IsFiniteSet(S) /\ Cardinality(S) \in Nat
  BY SyncAssumption, FS_Subset, FS_CardinalityType
<1>7. \A c \in Convs : UsersIn(c) \in SUBSET Users
  BY DEF Users, UsersIn
<1>8. \A s : Limit(s) \in Nat \ {0}
  BY SyncAssumption DEF Limit
<1> QED
  BY <1>2, <1>3, <1>5, <1>6, <1>7, <1>8

LEMMA NowFacts ==
    /\ Created \in SUBSET Convs
    /\ Now \in Nat /\ Cardinality(Created) \in Nat /\ Now = 2 * Cardinality(Created) + 1
<1>1. Created \in SUBSET Convs
  BY DEF Created
<1> QED
  BY <1>1, GroupFacts DEF Now

FullTime == FullMigration.completedAt

WatermarkIn(r) == GetStepCompletedAt(r, FullMigration)

LEMMA WatermarkFacts ==
    /\ FullTime \in Nat
    /\ \A r \in StepRow(Groups) :
          /\ WatermarkIn(r) \in Nat /\ FullTime <= WatermarkIn(r)
          /\ WatermarkIn(r) = IF r.completedAt > FullTime THEN r.completedAt ELSE FullTime
    /\ \A s : Watermark(s) = WatermarkIn(rows[s])
<1>1. FullTime \in Nat
  BY DEF FullTime, FullMigration, AbsentRow, MarkStepCompleted
<1>2. \A r \in StepRow(Groups) : r.completedAt \in Nat
  BY DEF StepRow
<1>3. \A r : WatermarkIn(r) = IF r.completedAt > FullTime THEN r.completedAt ELSE FullTime
  BY DEF WatermarkIn, GetStepCompletedAt, FullTime
<1>4. \A s : Watermark(s) = WatermarkIn(rows[s])
  BY DEF Watermark, WatermarkIn
<1> QED
  BY <1>1, <1>2, <1>3, <1>4

LEMMA SavedFacts ==
    ASSUME TypeOK
    PROVE  \A s \in SyncSteps :
              /\ rows[s] \in StepRow(Groups) /\ Saved(s) = SavedIn(rows[s])
              /\ Saved(s) \in Groups \cup {0} /\ Saved(s) \in Nat /\ Watermark(s) \in Nat
<1>1. \A s \in SyncSteps : /\ rows[s] \in StepRow(Groups) /\ Saved(s) = SavedIn(rows[s])
                           /\ Saved(s) \in Groups \cup {0}
  BY RowFacts DEF TypeOK, Saved, SavedIn
<1>2. \A g \in Groups : g \in Nat
  BY GroupFacts
<1>3. \A s \in SyncSteps : Watermark(s) \in Nat
  BY <1>1, WatermarkFacts
<1> QED
  BY <1>1, <1>2, <1>3

LEMMA SameTime ==
    ASSUME UNCHANGED born
    PROVE  Now' = Now /\ Created' = Created
BY DEF Now, Created

\* One element more.
LEMMA LargerSet ==
    ASSUME NEW A, NEW B, IsFiniteSet(B), A \in SUBSET B, NEW x \in B \ A
    PROVE  Cardinality(A) + 1 <= Cardinality(B) /\ Cardinality(A) \in Nat
<1>1. Cardinality(A) \in Nat /\ Cardinality(B) \in Nat /\ Cardinality(A) <= Cardinality(B)
  BY FS_Subset, FS_CardinalityType
<1>2. Cardinality(A) # Cardinality(B)
  BY FS_Subset
<1> QED
  BY <1>1, <1>2

--------------------------------------------------------------------------------

LEMMA InitIsSafe == Init => IInv
<1> SUFFICES ASSUME Init
             PROVE  IInv
  OBVIOUS
<1>1. /\ born = [c \in Convs |-> IF c \in Old THEN 1 ELSE 0] /\ closed = Old
      /\ convRows = [c \in Convs |-> IF c \in Old THEN 1 ELSE 0] /\ copied = convRows
      /\ threads = [g \in Groups |-> IF g \in {GroupOf[c] : c \in Old} THEN 1 ELSE 0]
      /\ owners = threads /\ tagged = {} /\ Old \in SUBSET Convs
      /\ members = [g \in Groups |-> [u \in Users |->
                       IF \E c \in Old : GroupOf[c] = g /\ u \in UsersIn(c) THEN 1 ELSE 0]]
  BY SyncAssumption DEF Init
<1>2. Created = Old
  BY <1>1 DEF Created
<1>3. \A s \in SyncSteps : rows[s] = AbsentRow
  BY DEF Init
<1>4. TypeOK
  <2>1. AbsentRow \in StepRow(Groups)
    BY DEF AbsentRow, StepRow, Statuses
  <2>2. rows \in [SyncSteps -> StepRow(Groups)]
    BY <2>1 DEF Init
  <2> QED
    BY <1>1, <2>2 DEF Init, TypeOK, SyncSteps
<1>5. \A s \in SyncSteps : /\ Saved(s) = 0 /\ rows[s].cursor = NoCursor
                           /\ Watermark(s) = IF Old = {} THEN 0 ELSE 2
  BY <1>3 DEF AbsentRow, Saved, GetCursorProgress, IsCompleted, Watermark, GetStepCompletedAt,
              FullMigration, MarkStepCompleted
<1>6. Now \in Nat /\ Now >= 1 /\ (Old # {} => Now >= 3)
  <2>1. Old # {} => Cardinality(Old) # 0
    BY <1>1, GroupFacts, FS_EmptySet
  <2> QED
    BY <1>2, <2>1, NowFacts
<1>7. InTime
  BY <1>1, <1>2, <1>5, <1>6 DEF InTime
<1>8. RowsInOrder
  BY <1>5 DEF RowsInOrder
<1>9. \A s \in SyncSteps, c \in Old : Done(s, c)
  BY <1>1, <1>5 DEF Done
<1>10. WrittenBehind
  <2>1. \A c \in Convs : convRows[c] > 0 => c \in Old
    BY <1>1
  <2>2. \A c \in Old : Done("conversations", c) /\ Done("messages", c) /\ Done("members", c)
    BY <1>9 DEF SyncSteps
  <2>3. \A c \in Old : threads[GroupOf[c]] = 1
    BY <1>1, GroupFacts
  <2>4. \A g \in Groups : threads[g] <= 1
    BY <1>1
  <2>5. \A c \in Convs : convRows[c] <= 1 /\ copied[c] <= 1
    BY <1>1
  <2>6. ASSUME NEW g \in Groups, NEW u \in Users
        PROVE  members[g][u] <= Cardinality({c \in Created : /\ GroupOf[c] = g /\ u \in UsersIn(c)
                                                              /\ Done("members", c)})
    <3> DEFINE D == {c \in Created : GroupOf[c] = g /\ u \in UsersIn(c) /\ Done("members", c)}
    <3>1. D \in SUBSET Convs
      BY <1>1, <1>2
    <3>2. IsFiniteSet(D) /\ Cardinality(D) \in Nat
      BY <3>1, GroupFacts
    <3>3. CASE \E c \in Old : GroupOf[c] = g /\ u \in UsersIn(c)
      <4>1. PICK c \in Old : GroupOf[c] = g /\ u \in UsersIn(c)
        BY <3>3
      <4>2. c \in D
        BY <1>2, <2>2, <4>1
      <4>3. members[g][u] = 1
        BY <1>1, <4>1
      <4> HIDE DEF D
      <4>4. Cardinality(D) # 0
        BY <3>2, <4>2, FS_EmptySet
      <4> QED
        BY <3>2, <4>3, <4>4 DEF D
    <3>4. CASE ~(\E c \in Old : GroupOf[c] = g /\ u \in UsersIn(c))
      <4>1. members[g][u] = 0
        BY <1>1, <3>4
      <4> QED
        BY <3>2, <4>1
    <3> QED
      BY <3>3, <3>4
  <2> QED
    BY <1>1, <2>1, <2>2, <2>3, <2>4, <2>5, <2>6 DEF WrittenBehind
<1>11. ServedBehind
  <2>1. Watermark("members") = Watermark("conversations") /\ Watermark("members") \in Nat
    BY <1>5 DEF SyncSteps
  <2>2. \A c \in Created : convRows[c] > 0 /\ copied[c] > 0
    BY <1>1, <1>2
  <2> QED
    BY <1>1, <1>2, <2>1, <2>2 DEF Init, ServedBehind
<1>12. TagsServe
  <2>1. Waiting = {}
    BY <1>1 DEF Waiting
  <2>2. \A g \in Groups : threads[g] \in Nat /\ owners[g] <= threads[g]
    BY <1>1
  <2> QED
    BY <1>1, <1>5, <2>1, <2>2 DEF TagsServe, SyncSteps
<1> QED
  BY <1>4, <1>7, <1>8, <1>10, <1>11, <1>12 DEF Init, IInv, DbInv, InStep, PageIsNext

--------------------------------------------------------------------------------

\* What a write to the row of the running step changes, unless it completes it.
LEMMA RowWritten ==
    ASSUME TypeOK, NEW r \in StepRow(Groups), r.completedAt = rows[step].completedAt,
           rows' = [rows EXCEPT ![step] = r], UNCHANGED born
    PROVE  /\ rows' \in [SyncSteps -> StepRow(Groups)]
           /\ \A s \in SyncSteps : /\ rows'[s] = IF s = step THEN r ELSE rows[s]
                                   /\ Watermark(s)' = Watermark(s)
                                   /\ Saved(s)' = IF s = step THEN SavedIn(r) ELSE Saved(s)
           /\ Now' = Now /\ Created' = Created
<1>1. /\ rows' \in [SyncSteps -> StepRow(Groups)]
      /\ \A s \in SyncSteps : rows'[s] = IF s = step THEN r ELSE rows[s]
  BY DEF TypeOK
<1>2. \A s \in SyncSteps : Saved(s)' = IF s = step THEN SavedIn(r) ELSE Saved(s)
  BY <1>1 DEF Saved, SavedIn
<1>3. \A s \in SyncSteps : rows'[s].completedAt = rows[s].completedAt
  BY <1>1
<1>4. \A s \in SyncSteps : Watermark(s)' = Watermark(s)
  BY <1>3 DEF Watermark, GetStepCompletedAt, FullMigration
<1> QED
  BY <1>1, <1>2, <1>4, SameTime

\* A step that writes nothing but the status of its row leaves the database in order.
LEMMA SameDatabase ==
    ASSUME IInv, UNCHANGED <<env, legacy, convRows, threads, members, copied>>,
           \A s \in SyncSteps : /\ rows'[s] = rows[s] \/ rows'[s].status = "failed"
                                /\ Watermark(s)' = Watermark(s) /\ Saved(s)' = Saved(s),
           step' \in {step, "conversations"}
    PROVE  DbInv' /\ \A s \in SyncSteps, c \in Convs : Done(s, c)' <=> Done(s, c)
<1>1. InTime /\ RowsInOrder /\ WrittenBehind /\ (env.quiet => ServedBehind)
  BY DEF IInv, DbInv
<1>2. Now' = Now /\ Created' = Created /\ Created \in SUBSET Convs
  BY SameTime, NowFacts DEF legacy
<1>3. \A s \in SyncSteps, c \in Convs : Done(s, c)' <=> Done(s, c)
  BY DEF Done, legacy
<1>4. InTime'
  BY <1>1, <1>2 DEF InTime, legacy
<1>5. RowsInOrder'
  BY <1>1 DEF RowsInOrder
<1>6. WrittenBehind'
  <2>1. \A g \in Groups, u \in Users :
           {c \in Created : GroupOf[c] = g /\ u \in UsersIn(c) /\ Done("members", c)}'
           = {c \in Created : GroupOf[c] = g /\ u \in UsersIn(c) /\ Done("members", c)}
    BY <1>2, <1>3 DEF SyncSteps, UsersIn
  <2>2. \A c \in Convs : /\ Done("conversations", c)' <=> Done("conversations", c)
                         /\ Done("messages", c)' <=> Done("messages", c)
    BY <1>3 DEF SyncSteps
  <2> QED
    BY <1>1, <2>1, <2>2 DEF WrittenBehind
<1>7. (env.quiet => ServedBehind)'
  <2>1. \A c \in Convs : /\ Done("conversations", c)' <=> Done("conversations", c)
                         /\ Done("messages", c)' <=> Done("messages", c)
    BY <1>3 DEF SyncSteps
  <2>2. Watermark("members")' = Watermark("members")
        /\ Watermark("conversations")' = Watermark("conversations")
    BY DEF SyncSteps
  <2> QED
    BY <1>1, <1>2, <2>1, <2>2 DEF ServedBehind, legacy
<1> QED
  BY <1>3, <1>4, <1>5, <1>6, <1>7 DEF DbInv

\* Tags, owners and the members step's place as they were.
LEMMA SameTags ==
    ASSUME IInv, Calm, UNCHANGED <<env, born, threads, owners, tagged>>,
           Watermark("members")' = Watermark("members"), Saved("members")' = Saved("members"),
           Saved("conversations")' = Saved("conversations"),
           \/ step' = step
           \/ step' = "conversations" /\ step # "members",
           AboutToClear => AboutToClear'
    PROVE  TagsServe'
<1>1. TagsServe
  BY DEF IInv
<1>2. Created' = Created /\ Created \in SUBSET Convs
  BY SameTime, NowFacts
<1>3. \A c \in Convs : Done("members", c)' <=> Done("members", c)
  BY DEF Done
<1>4. Waiting' = Waiting /\ \A g \in Groups : CreatedIn(g)' = CreatedIn(g)
  BY <1>2 DEF Waiting, CreatedIn
<1>5. \A g \in Groups : CreatedIn(g) \in SUBSET Convs
  BY <1>2 DEF CreatedIn
<1>6. Waiting \in SUBSET Groups /\ tagged \in SUBSET Groups
  BY DEF Waiting, IInv, TypeOK
<1>7. \A g \in Groups : \A c \in CreatedIn(g) : Done("members", c)' <=> Done("members", c)
  BY <1>3, <1>5
<1>8. \A g \in Waiting' : /\ g \in tagged' /\ CreatedIn(g)' # {}
                           /\ \A c \in CreatedIn(g)' : ~Done("members", c)'
  BY <1>1, <1>4, <1>6, <1>7 DEF TagsServe
<1>9. \A g \in tagged' \ Waiting' :
         AboutToClear' \/ \A c \in CreatedIn(g)' : Done("members", c)'
  BY <1>1, <1>4, <1>6, <1>7 DEF TagsServe
<1>10. step' = "messages" \/ (step' = "conversations" /\ Saved("conversations")' = 0)
       => Waiting' = {}
  <2>1. step = "conversations" \/ step = "members" \/ step = "messages"
    BY DEF IInv, TypeOK, SyncSteps
  <2> QED
    BY <1>1, <1>4, <2>1 DEF TagsServe
<1>11. step' # "members" => Saved("members")' = 0
  BY <1>1 DEF TagsServe
<1>12. \A g \in Groups : owners'[g] <= threads'[g] /\ (g \in tagged' => threads'[g] = 1)
  BY <1>1 DEF TagsServe
<1> QED
  BY <1>8, <1>9, <1>10, <1>11, <1>12 DEF TagsServe

\* A process that is gone leaves nothing to say of it.
LEMMA AtRest ==
    ASSUME TypeOK, Die
    PROVE  /\ InStep' /\ PageIsNext'
           /\ step' \in SyncSteps /\ pc' \in {"off", "start", "fetch", "commit", "done"}
           /\ cursor' \in Groups \cup {0} /\ from' \in Nat /\ batch' \in SUBSET Convs
BY DEF TypeOK, Die, InStep, PageIsNext, SyncSteps

\* A run that stops, or fails, without a page.
LEMMA StopIsSafe ==
    ASSUME IInv, pc # "off", Fail(rows[step]) \/ (Die /\ UNCHANGED rows),
           UNCHANGED <<env, legacy, chat>>, Calm => step # "members"
    PROVE  IInv'
<1> DEFINE old == rows[step]
           r == IF rows' = [rows EXCEPT ![step] = old] THEN old ELSE MarkStepFailed(old, 0)
<1>1. TypeOK /\ RowsInOrder /\ InStep /\ Die
  BY DEF IInv, DbInv, Fail
<1>2. old \in StepRow(Groups) /\ step \in SyncSteps
  BY <1>1 DEF TypeOK
<1>3. rows' = [rows EXCEPT ![step] = r]
  <2>1. CASE UNCHANGED rows
    BY <1>1, <2>1 DEF TypeOK
  <2> QED
    BY <2>1 DEF Fail
<1>4. IsCompleted(old) => old.cursor = NoCursor
  BY <1>1, <1>2 DEF RowsInOrder, IsCompleted
<1>5. /\ r \in StepRow(Groups) /\ r.completedAt = old.completedAt /\ SavedIn(r) = SavedIn(old)
      /\ r = old \/ r.status = "failed"
  BY <1>2, <1>4, FailedRow
<1> HIDE DEF r
<1>6. UNCHANGED born
  BY DEF legacy
<1>7. /\ rows' \in [SyncSteps -> StepRow(Groups)]
      /\ \A s \in SyncSteps : /\ rows'[s] = rows[s] \/ rows'[s].status = "failed"
                              /\ Watermark(s)' = Watermark(s) /\ Saved(s)' = Saved(s)
  BY <1>1, <1>3, <1>5, <1>6, RowWritten, SavedFacts
<1>8. step' = "conversations" /\ pc' = "off"
  BY <1>1 DEF Die
<1>9. DbInv'
  BY <1>7, <1>8, SameDatabase DEF chat
<1>10. (Calm => TagsServe)'
  <2> SUFFICES ASSUME Calm
               PROVE  TagsServe'
    BY DEF Calm
  <2>1. Watermark("members")' = Watermark("members") /\ Saved("members")' = Saved("members")
        /\ Saved("conversations")' = Saved("conversations")
    BY <1>7 DEF SyncSteps
  <2>2. AboutToClear => AboutToClear'
    BY <1>8, <2>1 DEF AboutToClear
  <2> QED
    BY <1>8, <2>1, <2>2, SameTags DEF legacy, chat
<1> QED
  BY <1>1, <1>7, <1>9, <1>10, AtRest DEF IInv, TypeOK, legacy, chat

--------------------------------------------------------------------------------

LEMMA LaunchIsSafe ==
    ASSUME IInv, Launch
    PROVE  IInv'
<1>1. TypeOK /\ InStep
  BY DEF IInv
<1>2. /\ pc = "off" /\ pc' = "start"
      /\ UNCHANGED <<env, legacy, rows, chat, step, cursor, from, batch>>
  BY DEF Launch
<1>3. \A s \in SyncSteps : Watermark(s)' = Watermark(s) /\ Saved(s)' = Saved(s)
  BY <1>2 DEF Watermark, Saved, FullMigration
<1>4. DbInv'
  BY <1>2, <1>3, SameDatabase DEF chat
<1>5. (Calm => TagsServe)'
  <2> SUFFICES ASSUME Calm
               PROVE  TagsServe'
    BY <1>2 DEF Calm
  <2>1. Watermark("members")' = Watermark("members") /\ Saved("members")' = Saved("members")
        /\ Saved("conversations")' = Saved("conversations")
    BY <1>3 DEF SyncSteps
  <2>2. AboutToClear => AboutToClear'
    BY <1>2, <2>1 DEF AboutToClear
  <2> QED
    BY <1>2, <2>1, <2>2, SameTags DEF legacy, chat
<1>6. TypeOK' /\ InStep'
  BY <1>1, <1>2 DEF TypeOK, InStep, legacy, chat
<1> QED
  BY <1>2, <1>4, <1>5, <1>6 DEF IInv, PageIsNext

\* The tags that a fresh conversations step clears are tags of threads with owners.
LEMMA StartIsSafe ==
    ASSUME IInv, NEW s \in SyncSteps, StartStep(s)
    PROVE  IInv'
<1>1. TypeOK /\ InStep
  BY DEF IInv
<1>2. /\ pc = "start" /\ step = s /\ pc' = "fetch"
      /\ cursor' = Saved(step) /\ from' = Watermark(step)
      /\ tagged' = IF ClearsTags(step) THEN {} ELSE tagged
      /\ UNCHANGED <<env, legacy, rows, convRows, threads, owners, members, copied, step, batch>>
  BY DEF StartStep, Saved
<1>3. \A t \in SyncSteps : Watermark(t)' = Watermark(t) /\ Saved(t)' = Saved(t)
  BY <1>2 DEF Watermark, Saved, FullMigration
<1>4. DbInv' /\ \A t \in SyncSteps, c \in Convs : Done(t, c)' <=> Done(t, c)
  BY <1>2, <1>3, SameDatabase
<1>5. ClearsTags(step) <=> step = "conversations" /\ Saved("conversations") = 0
  BY DEF ClearsTags, Saved
<1>6. (Calm => TagsServe)'
  <2> SUFFICES ASSUME Calm
               PROVE  TagsServe'
    BY <1>2 DEF Calm
  <2>1. Watermark("members")' = Watermark("members") /\ Saved("members")' = Saved("members")
        /\ Saved("conversations")' = Saved("conversations")
    BY <1>3 DEF SyncSteps
  <2>2. CASE ClearsTags(step)
    <3>1. TagsServe
      BY DEF IInv
    <3>2. Waiting' = Waiting /\ Waiting = {} /\ tagged' = {}
      BY <1>2, <1>5, <2>2, <3>1 DEF Waiting, TagsServe
    <3>3. step' # "members" => Saved("members")' = 0
      BY <1>2, <2>1, <3>1 DEF TagsServe
    <3>4. \A g \in Groups : owners'[g] <= threads'[g]
      BY <1>2, <3>1 DEF TagsServe
    <3> QED
      BY <3>2, <3>3, <3>4 DEF TagsServe
  <2>3. CASE ~ClearsTags(step)
    <3>1. ~AboutToClear
      BY <1>5, <2>3 DEF AboutToClear
    <3> QED
      BY <1>2, <2>1, <2>3, <3>1, SameTags DEF legacy
  <2> QED
    BY <2>2, <2>3
<1>7. TypeOK'
  <2>1. tagged' \in SUBSET Groups
    BY <1>1, <1>2 DEF TypeOK
  <2>2. step \in SyncSteps
    BY <1>1 DEF TypeOK
  <2>3. cursor' \in Groups \cup {0} /\ from' \in Nat
    BY <1>1, <1>2, <2>2, SavedFacts
  <2> QED
    BY <1>1, <1>2, <2>1, <2>3 DEF TypeOK, legacy
<1>8. InStep'
  <2>1. cursor' = Saved(s)' /\ from' = Watermark(s)' /\ step' = s
    BY <1>2, <1>3
  <2>2. (cursor = Saved(step) /\ from = Watermark(step))'
    BY <2>1 DEF Saved, Watermark, FullMigration
  <2> QED
    BY <1>1, <1>2, <2>2 DEF InStep
<1> QED
  BY <1>2, <1>4, <1>6, <1>7, <1>8 DEF IInv, PageIsNext

\* What is left is read in order, and what messages drops of a page has no row, which
\* no conversation is without when a quiet sync comes to it.
LEMMA FetchIsSafe ==
    ASSUME IInv, NEW s \in SyncSteps, Fetch(s)
    PROVE  IInv'
<1> DEFINE n == Limit(step)
           page == {c \in Found : GroupOf[c] \in FirstOf(n, FoundGroups)}
<1>1. TypeOK /\ InTime /\ InStep /\ WrittenBehind /\ (env.quiet => ServedBehind)
  BY DEF IInv, DbInv
<1>2. /\ pc = "fetch" /\ step = s /\ UNCHANGED <<env, legacy, rows, chat, step, cursor, from>>
      /\ batch' = {c \in page : GroupOf[c] \in Kept(step, page)}
      /\ pc' = IF batch' = {} THEN "done" ELSE "commit"
  BY DEF Fetch, FirstGroups, FirstOf, Rank
<1>3. \A t \in SyncSteps : Watermark(t)' = Watermark(t) /\ Saved(t)' = Saved(t)
  BY <1>2 DEF Watermark, Saved, FullMigration
<1>4. DbInv' /\ \A t \in SyncSteps, c \in Convs : Done(t, c)' <=> Done(t, c)
  BY <1>2, <1>3, SameDatabase DEF chat
<1>5. Found \in SUBSET closed /\ closed \in SUBSET Created /\ Created \in SUBSET Convs
      /\ Created' = Created
  BY <1>1, <1>2, NowFacts, SameTime DEF Found, InTime, legacy
<1>6. FoundGroups \in SUBSET Groups /\ n \in Nat \ {0}
  BY <1>5, GroupFacts DEF FoundGroups
<1>7. /\ FirstOf(n, FoundGroups) \in SUBSET FoundGroups
      /\ \A g \in FoundGroups \ FirstOf(n, FoundGroups) :
            /\ \A b \in FirstOf(n, FoundGroups) : b < g
            /\ Cardinality(FirstOf(n, FoundGroups)) >= n
      /\ FoundGroups # {} => FirstOf(n, FoundGroups) # {}
  <2>1. FoundGroups \in SUBSET Nat /\ IsFiniteSet(FoundGroups)
    BY <1>6, GroupFacts
  <2> QED
    BY <1>6, <2>1, FirstPage
<1> HIDE DEF n
<1>8. batch' \in SUBSET page /\ page \in SUBSET Found
  BY <1>2
<1>9. (Calm => TagsServe)'
  <2> SUFFICES ASSUME Calm
               PROVE  TagsServe'
    BY <1>2 DEF Calm
  <2>1. Watermark("members")' = Watermark("members") /\ Saved("members")' = Saved("members")
        /\ Saved("conversations")' = Saved("conversations")
    BY <1>3 DEF SyncSteps
  <2>2. ~AboutToClear
    BY <1>2 DEF AboutToClear
  <2> QED
    BY <1>2, <2>1, <2>2, SameTags DEF legacy, chat
<1>10. TypeOK'
  <2>1. batch' \in SUBSET Convs
    BY <1>5, <1>8
  <2> QED
    BY <1>1, <1>2, <2>1 DEF TypeOK, legacy, chat
<1>11. InStep'
  <2>1. cursor = Saved(s) /\ from = Watermark(s)
    BY <1>1, <1>2 DEF InStep
  <2>2. cursor' = Saved(s)' /\ from' = Watermark(s)' /\ step' = s
    BY <1>2, <1>3, <2>1
  <2>3. (cursor = Saved(step) /\ from = Watermark(step))'
    BY <2>2 DEF Saved, Watermark, FullMigration
  <2>4. \A c \in batch' : c \in Created' /\ born[c] >= from /\ GroupOf[c] > cursor
    BY <1>5, <1>8 DEF Found
  <2> QED
    BY <1>2, <2>3, <2>4 DEF InStep, legacy
<1>12. (env.quiet => PageIsNext)'
  <2> SUFFICES ASSUME env.quiet
               PROVE  PageIsNext'
    BY <1>2
  <2>1. closed = Created /\ cursor = Saved(step) /\ from = Watermark(step) /\ step \in SyncSteps
    BY <1>1, <1>2 DEF ServedBehind, InStep, TypeOK
  <2>2. ASSUME NEW c \in Created, ~Done(step, c)
        PROVE  c \in Found
    <3>1. c \in Convs
      BY <1>5
    <3>2. born[c] \in Nat /\ GroupOf[c] \in Nat /\ from \in Nat /\ cursor \in Nat
      BY <1>1, <3>1, <2>1, GroupFacts, SavedFacts DEF TypeOK
    <3> QED
      BY <2>1, <2>2, <3>2 DEF Done, Found
  <2>3. batch' = page
    <3> SUFFICES ASSUME step = "messages", NEW c \in page
                 PROVE  convRows[c] > 0
      BY <1>2, <1>8 DEF Kept
    <3>1. c \in Created /\ c \in Convs
      BY <1>5, <1>8
    <3>2. Watermark("conversations") = Now /\ born[c] < Now
      BY <1>1, <3>1 DEF ServedBehind, InTime
    <3>3. Done("conversations", c)
      BY <3>2 DEF Done
    <3> QED
      BY <1>1, <3>1, <3>3 DEF ServedBehind
  <2>4. PageGroups' = FirstOf(n, FoundGroups)
    <3>1. PageGroups' = {GroupOf[c] : c \in page}
      BY <2>3 DEF PageGroups
    <3>2. \A g \in FirstOf(n, FoundGroups) : \E c \in Found : g = GroupOf[c]
      BY <1>7 DEF FoundGroups
    <3> QED
      BY <3>1, <3>2
  <2>5. \A c \in Created : (Done(step, c))' <=> Done(step, c)
    BY <1>2 DEF Done, Watermark, Saved, FullMigration, legacy
  <2>6. ASSUME NEW c \in Created \ batch', ~Done(step, c)
        PROVE  /\ \A b \in batch' : GroupOf[b] < GroupOf[c]
               /\ Cardinality(PageGroups') >= n
    <3>1. c \in Found /\ c \notin page
      BY <2>2, <2>3, <2>6
    <3>2. GroupOf[c] \in FoundGroups \ FirstOf(n, FoundGroups)
      BY <3>1 DEF FoundGroups
    <3> QED
      BY <1>7, <1>8, <2>4, <3>2
  <2>7. batch' = {} => Found = {}
    <3>1. ASSUME batch' = {}, NEW c \in Found
          PROVE  FALSE
      <4>1. FoundGroups # {}
        BY DEF FoundGroups
      <4>2. PICK g \in FirstOf(n, FoundGroups) : TRUE
        BY <1>7, <4>1
      <4>3. PICK d \in Found : g = GroupOf[d]
        BY <1>7, <4>2 DEF FoundGroups
      <4> QED
        BY <2>3, <3>1, <4>3
    <3> QED
      BY <3>1
  <2>8. Limit(step)' = n /\ Limit(step') = n
    BY <1>2 DEF n, Limit
  <2> QED
    BY <1>2, <1>5, <2>2, <2>5, <2>6, <2>7, <2>8 DEF PageIsNext
<1> QED
  BY <1>4, <1>9, <1>10, <1>11, <1>12 DEF IInv

--------------------------------------------------------------------------------
(* Pages.  With the page, `last' is saved as the cursor in the step's row, which   *)
(* becomes r: in progress, or failed by the error that came after.                 *)

PageSaved(last, r) ==
    /\ pc = "commit" /\ IsLargest(last, PageGroups)
    /\ r \in StepRow(Groups) /\ r.status \in {"in_progress", "failed"}
    /\ r.completedAt = rows[step].completedAt /\ SavedIn(r) = last
    /\ rows' = [rows EXCEPT ![step] = r]
    /\ UNCHANGED <<env, legacy>>

\* Afterwards the conversations of the page are behind the step, which they were not,
\* and in a quiet database no others.
LEMMA PageIsBehind ==
    ASSUME IInv, NEW last, NEW r, PageSaved(last, r)
    PROVE  /\ rows' \in [SyncSteps -> StepRow(Groups)] /\ RowsInOrder'
           /\ Now' = Now /\ Created' = Created /\ Created \in SUBSET Convs
           /\ batch \in SUBSET Created /\ last \in Groups /\ last > 0 /\ step \in SyncSteps
           /\ \A s \in SyncSteps : /\ Watermark(s)' = Watermark(s)
                                   /\ Saved(s)' = IF s = step THEN last ELSE Saved(s)
           /\ \A s \in SyncSteps, c \in Convs :
                 /\ Done(s, c) => Done(s, c)'
                 /\ s # step => (Done(s, c)' <=> Done(s, c))
                 /\ s = step /\ c \in batch => ~Done(s, c) /\ Done(s, c)'
                 /\ s = step /\ c \in Created /\ env.quiet /\ Done(s, c)'
                    => Done(s, c) \/ c \in batch
<1>1. TypeOK /\ RowsInOrder /\ InStep /\ (env.quiet => PageIsNext)
  BY DEF IInv, DbInv
<1>2. /\ step \in SyncSteps /\ last \in PageGroups /\ PageGroups \in SUBSET Groups
      /\ \A b \in batch : b \in Convs /\ GroupOf[b] <= last
  BY <1>1, GroupFacts DEF TypeOK, PageSaved, IsLargest, PageGroups
<1>3. /\ rows' \in [SyncSteps -> StepRow(Groups)]
      /\ \A s \in SyncSteps : /\ rows'[s] = IF s = step THEN r ELSE rows[s]
                              /\ Watermark(s)' = Watermark(s)
                              /\ Saved(s)' = IF s = step THEN last ELSE Saved(s)
      /\ Now' = Now /\ Created' = Created /\ UNCHANGED <<born, closed>>
  <2>1. UNCHANGED <<born, closed>>
    BY DEF PageSaved, legacy
  <2> QED
    BY <1>1, <2>1, RowWritten DEF PageSaved
<1>4. RowsInOrder'
  BY <1>1, <1>3 DEF RowsInOrder, PageSaved
<1>5. batch \in SUBSET Created /\ last \in Groups /\ last > 0 /\ Created \in SUBSET Convs
  BY <1>1, <1>2, GroupFacts, NowFacts DEF InStep, PageGroups
<1>6. /\ cursor = Saved(step) /\ from = Watermark(step)
      /\ \A b \in batch : born[b] >= from /\ GroupOf[b] > cursor
  BY <1>1 DEF PageSaved, InStep
<1>7. /\ last \in Nat /\ \A c \in Convs : born[c] \in Nat /\ GroupOf[c] \in Nat
      /\ \A s \in SyncSteps : Saved(s) \in Nat /\ Watermark(s) \in Nat
  BY <1>1, <1>5, GroupFacts, SavedFacts DEF TypeOK
<1>8. Saved(step) < last
  <2>1. PICK b \in batch : GroupOf[b] = last
    BY <1>2 DEF PageGroups
  <2> QED
    BY <1>2, <1>6, <1>7, <2>1
<1>9. ASSUME NEW s \in SyncSteps, NEW c \in Convs
      PROVE  /\ Done(s, c)' <=> born[c] < Watermark(s) \/ GroupOf[c] <= Saved(s)'
             /\ s # step => (Done(s, c)' <=> Done(s, c))
             /\ s = step => (Done(s, c)' <=> born[c] < Watermark(s) \/ GroupOf[c] <= last)
  BY <1>3 DEF Done
<1>10. ASSUME NEW c \in Convs
       PROVE  /\ Done(step, c) => born[c] < Watermark(step) \/ GroupOf[c] <= last
              /\ c \in batch => ~Done(step, c) /\ GroupOf[c] <= last
              /\ c \in Created /\ env.quiet /\ (born[c] < Watermark(step) \/ GroupOf[c] <= last)
                 => Done(step, c) \/ c \in batch
  <2>1. Done(step, c) => born[c] < Watermark(step) \/ GroupOf[c] <= last
    BY <1>2, <1>7, <1>8 DEF Done
  <2>2. c \in batch => ~Done(step, c) /\ GroupOf[c] <= last
    BY <1>2, <1>6, <1>7 DEF Done
  <2>3. ASSUME c \in Created \ batch, env.quiet, ~Done(step, c)
        PROVE  ~(born[c] < Watermark(step)) /\ ~(GroupOf[c] <= last)
    <3>1. PICK b \in batch : GroupOf[b] = last
      BY <1>2 DEF PageGroups
    <3>2. GroupOf[b] < GroupOf[c]
      BY <1>1, <2>3, <3>1 DEF PageIsNext, PageSaved
    <3> QED
      BY <1>7, <2>3, <3>1, <3>2 DEF Done
  <2> QED
    BY <2>1, <2>2, <2>3
<1> QED
  BY <1>2, <1>3, <1>4, <1>5, <1>9, <1>10

\* What a page leaves in order whatever it writes.
LEMMA PageInTime ==
    ASSUME IInv, NEW last, NEW r, PageSaved(last, r),
           \A c \in Convs : convRows'[c] > 0 \/ copied'[c] > 0 => c \in Created
    PROVE  InTime'
<1>1. InTime
  BY DEF IInv, DbInv
<1>2. Now' = Now /\ Created' = Created /\ \A s \in SyncSteps : Watermark(s)' = Watermark(s)
  BY PageIsBehind
<1> QED
  BY <1>1, <1>2 DEF InTime, PageSaved, legacy

\* A page of conversations: one row for each, and a thread where there is none.
LEMMA ConversationsPage ==
    ASSUME IInv, NEW last, NEW r, PageSaved(last, r), step = "conversations", WriteConversations,
           step' = "conversations"
    PROVE  /\ convRows' \in [Convs -> Nat] /\ threads' \in [Groups -> Nat]
           /\ tagged' \in SUBSET Groups
           /\ \A c \in batch : convRows[c] = 0
           /\ \A g \in Groups : threads'[g] <= 1 /\ threads[g] <= threads'[g]
           /\ DbInv'
<1>1. TypeOK /\ InTime /\ WrittenBehind /\ (env.quiet => ServedBehind)
  BY DEF IInv, DbInv
<1>2. /\ RowsInOrder' /\ Now' = Now /\ Created' = Created /\ Created \in SUBSET Convs
      /\ batch \in SUBSET Created
      /\ \A s \in SyncSteps : Watermark(s)' = Watermark(s)
      /\ \A s \in SyncSteps, c \in Convs :
            /\ Done(s, c) => Done(s, c)'
            /\ s # step => (Done(s, c)' <=> Done(s, c))
            /\ s = step /\ c \in batch => ~Done(s, c) /\ Done(s, c)'
            /\ s = step /\ c \in Created /\ env.quiet /\ Done(s, c)' => Done(s, c) \/ c \in batch
  BY PageIsBehind
<1>3. \A c \in Convs : /\ Done("conversations", c) => Done("conversations", c)'
                       /\ Done("members", c)' <=> Done("members", c)
                       /\ Done("messages", c)' <=> Done("messages", c)
                       /\ c \in batch => ~Done("conversations", c) /\ Done("conversations", c)'
                       /\ c \in Created /\ env.quiet /\ Done("conversations", c)'
                          => Done("conversations", c) \/ c \in batch
  BY <1>2 DEF SyncSteps
<1>4. /\ convRows' = [c \in Convs |-> IF c \in batch THEN convRows[c] + 1 ELSE convRows[c]]
      /\ threads' = [g \in Groups |->
                       IF g \in PageGroups /\ threads[g] = 0 THEN 1 ELSE threads[g]]
      /\ tagged' = tagged \cup {g \in PageGroups : threads[g] = 0}
      /\ UNCHANGED <<owners, members, copied>>
  BY DEF WriteConversations
<1>5. /\ \A c \in Convs : convRows[c] \in Nat /\ GroupOf[c] \in Groups
      /\ \A g \in Groups : threads[g] \in Nat
      /\ PageGroups \in SUBSET Groups /\ tagged \in SUBSET Groups /\ batch \in SUBSET Convs
  BY <1>1, GroupFacts DEF TypeOK, PageGroups
<1>6. convRows' \in [Convs -> Nat] /\ threads' \in [Groups -> Nat] /\ tagged' \in SUBSET Groups
  BY <1>4, <1>5
<1>7. \A c \in batch : convRows[c] = 0
  <2> SUFFICES ASSUME NEW c \in batch
               PROVE  convRows[c] = 0
    OBVIOUS
  <2>1. c \in Convs /\ convRows[c] \in Nat /\ ~Done("conversations", c)
    BY <1>3, <1>5
  <2>2. ~(convRows[c] > 0)
    BY <1>1, <2>1 DEF WrittenBehind
  <2> QED
    BY <2>1, <2>2
<1>8. \A g \in Groups : threads'[g] <= 1 /\ threads[g] <= threads'[g]
  BY <1>1, <1>4, <1>5 DEF WrittenBehind
<1>9. \A c \in Convs : convRows'[c] = IF c \in batch THEN 1 ELSE convRows[c]
  BY <1>4, <1>7
<1>10. InTime'
  <2>1. \A c \in Convs : convRows'[c] > 0 \/ copied'[c] > 0 => c \in Created
    BY <1>1, <1>2, <1>4, <1>9 DEF InTime
  <2> QED
    BY <2>1, PageInTime
<1>11. WrittenBehind'
  <2>1. ASSUME NEW c \in Convs, convRows'[c] > 0
        PROVE  Done("conversations", c)' /\ threads'[GroupOf[c]] = 1
    <3>1. CASE c \in batch
      <4>1. GroupOf[c] \in PageGroups /\ GroupOf[c] \in Groups
        BY <1>5, <3>1 DEF PageGroups
      <4>2. threads[GroupOf[c]] <= 1 /\ threads[GroupOf[c]] \in Nat
        BY <1>1, <1>5, <4>1 DEF WrittenBehind
      <4>3. threads'[GroupOf[c]] = 1
        BY <1>4, <4>1, <4>2
      <4> QED
        BY <1>3, <3>1, <4>3
    <3>2. CASE c \notin batch
      <4>1. Done("conversations", c) /\ threads[GroupOf[c]] = 1
        BY <1>1, <1>9, <2>1, <3>2 DEF WrittenBehind
      <4> QED
        BY <1>3, <1>4, <1>5, <4>1
    <3> QED
      BY <3>1, <3>2
  <2>2. \A g \in Groups, u \in Users :
           {c \in Created : GroupOf[c] = g /\ u \in UsersIn(c) /\ Done("members", c)}'
           = {c \in Created : GroupOf[c] = g /\ u \in UsersIn(c) /\ Done("members", c)}
    BY <1>2, <1>3 DEF PageSaved, UsersIn
  <2>3. \A c \in Convs : convRows'[c] <= 1 /\ copied'[c] <= 1
    BY <1>1, <1>4, <1>9 DEF WrittenBehind
  <2>4. \A c \in Convs : copied'[c] > 0 => Done("messages", c)'
    BY <1>1, <1>3, <1>4 DEF WrittenBehind
  <2> QED
    BY <1>1, <1>4, <1>8, <2>1, <2>2, <2>3, <2>4 DEF WrittenBehind
<1>12. (env.quiet => ServedBehind)'
  <2> SUFFICES ASSUME env.quiet
               PROVE  ServedBehind'
    BY DEF PageSaved
  <2>1. \A c \in Created : Done("conversations", c)' => convRows'[c] > 0
    BY <1>1, <1>2, <1>3, <1>9 DEF ServedBehind
  <2>2. \A c \in Created : Done("messages", c)' => copied'[c] > 0
    BY <1>1, <1>2, <1>3, <1>4 DEF ServedBehind
  <2>3. Watermark("members")' <= Watermark("conversations")'
    BY <1>1, <1>2 DEF ServedBehind, SyncSteps
  <2> QED
    BY <1>1, <1>2, <2>1, <2>2, <2>3 DEF ServedBehind, PageSaved, legacy
<1> QED
  BY <1>2, <1>6, <1>7, <1>8, <1>10, <1>11, <1>12 DEF DbInv

\* A page of members: a dialog more for a user is a conversation more behind the step.
LEMMA MembersPage ==
    ASSUME IInv, NEW last, NEW r, PageSaved(last, r), step = "members", WriteMembers,
           step' \in {step, "conversations"}
    PROVE  /\ owners' \in [Groups -> Nat] /\ members' \in [Groups -> [Users -> Nat]]
           /\ DbInv'
<1>1. TypeOK /\ InTime /\ WrittenBehind /\ (env.quiet => ServedBehind)
  BY DEF IInv, DbInv
<1>2. /\ RowsInOrder' /\ Now' = Now /\ Created' = Created /\ Created \in SUBSET Convs
      /\ batch \in SUBSET Created
      /\ \A s \in SyncSteps : Watermark(s)' = Watermark(s)
      /\ \A s \in SyncSteps, c \in Convs :
            /\ Done(s, c) => Done(s, c)'
            /\ s # step => (Done(s, c)' <=> Done(s, c))
            /\ s = step /\ c \in batch => ~Done(s, c) /\ Done(s, c)'
            /\ s = step /\ c \in Created /\ env.quiet /\ Done(s, c)' => Done(s, c) \/ c \in batch
  BY PageIsBehind
<1>3. \A c \in Convs : /\ Done("members", c) => Done("members", c)'
                       /\ Done("conversations", c)' <=> Done("conversations", c)
                       /\ Done("messages", c)' <=> Done("messages", c)
                       /\ c \in batch => ~Done("members", c) /\ Done("members", c)'
  BY <1>2 DEF SyncSteps
<1>4. /\ owners' = [g \in Groups |->
                      IF g \in PageGroups \cap tagged THEN owners[g] + 1 ELSE owners[g]]
      /\ members' = [g \in Groups |-> [u \in Users |->
                        IF \E c \in batch : GroupOf[c] = g /\ u \in UsersIn(c)
                        THEN members[g][u] + 1 ELSE members[g][u]]]
      /\ UNCHANGED <<convRows, threads, tagged, copied>>
  BY DEF WriteMembers
<1>5. \A g \in Groups : owners[g] \in Nat /\ \A u \in Users : members[g][u] \in Nat
  BY <1>1 DEF TypeOK
<1>6. owners' \in [Groups -> Nat] /\ members' \in [Groups -> [Users -> Nat]]
  <2>1. owners' \in [Groups -> Nat]
    BY <1>4, <1>5
  <2>2. \A g \in Groups : [u \in Users |-> IF \E c \in batch : GroupOf[c] = g /\ u \in UsersIn(c)
                                          THEN members[g][u] + 1 ELSE members[g][u]]
                         \in [Users -> Nat]
    BY <1>5
  <2> QED
    BY <1>4, <2>1, <2>2
<1>7. InTime'
  BY <1>1, <1>4, PageInTime DEF InTime
<1>8. ASSUME NEW g \in Groups, NEW u \in Users
      PROVE  (members[g][u] <= Cardinality({c \in Created : /\ GroupOf[c] = g /\ u \in UsersIn(c)
                                                             /\ Done("members", c)}))'
  <2> DEFINE D == {c \in Created : GroupOf[c] = g /\ u \in UsersIn(c) /\ Done("members", c)}
             E == {c \in Created : GroupOf[c] = g /\ u \in UsersIn(c) /\ Done("members", c)'}
  <2>1. members[g][u] <= Cardinality(D)
    BY <1>1 DEF WrittenBehind
  <2>2. D \in SUBSET E /\ E \in SUBSET Convs
    BY <1>2, <1>3
  <2>3. IsFiniteSet(D) /\ IsFiniteSet(E) /\ Cardinality(D) \in Nat /\ Cardinality(E) \in Nat
    BY <2>2, GroupFacts
  <2>4. members'[g][u] <= Cardinality(E)
    <3>1. CASE \E c \in batch : GroupOf[c] = g /\ u \in UsersIn(c)
      <4>1. PICK c \in batch : GroupOf[c] = g /\ u \in UsersIn(c)
        BY <3>1
      <4>2. c \in E \ D
        BY <1>2, <1>3, <4>1
      <4>3. members'[g][u] = members[g][u] + 1
        BY <1>4, <4>1
      <4> HIDE DEF D, E
      <4> QED
        BY <1>5, <2>1, <2>2, <2>3, <4>2, <4>3, LargerSet
    <3>2. CASE ~(\E c \in batch : GroupOf[c] = g /\ u \in UsersIn(c))
      <4>1. members'[g][u] = members[g][u]
        BY <1>4, <3>2
      <4> HIDE DEF D, E
      <4>2. Cardinality(D) <= Cardinality(E)
        BY <2>2, <2>3, FS_Subset
      <4> QED
        BY <1>5, <2>1, <2>3, <4>1, <4>2
    <3> QED
      BY <3>1, <3>2
  <2>5. {c \in Created : GroupOf[c] = g /\ u \in UsersIn(c) /\ Done("members", c)}' = E
    BY <1>2 DEF PageSaved, UsersIn
  <2> QED
    BY <2>4, <2>5
<1>9. WrittenBehind'
  BY <1>1, <1>3, <1>4, <1>8 DEF WrittenBehind
<1>10. (env.quiet => ServedBehind)'
  <2> SUFFICES ASSUME env.quiet
               PROVE  ServedBehind'
    BY DEF PageSaved
  <2>1. \A c \in Created : /\ Done("conversations", c)' => convRows'[c] > 0
                           /\ Done("messages", c)' => copied'[c] > 0
    BY <1>1, <1>2, <1>3, <1>4 DEF ServedBehind
  <2>2. Watermark("members")' = Watermark("members")
        /\ Watermark("conversations")' = Watermark("conversations")
    BY <1>2 DEF SyncSteps
  <2> QED
    BY <1>1, <1>2, <2>1, <2>2 DEF ServedBehind, PageSaved, legacy
<1> QED
  BY <1>2, <1>6, <1>7, <1>9, <1>10 DEF DbInv

\* A page of messages: each conversation of it is copied for the first time.
LEMMA MessagesPage ==
    ASSUME IInv, NEW last, NEW r, PageSaved(last, r), step = "messages", WriteMessages,
           step' \in {step, "conversations"}
    PROVE  copied' \in [Convs -> Nat] /\ DbInv'
<1>1. TypeOK /\ InTime /\ WrittenBehind /\ (env.quiet => ServedBehind)
  BY DEF IInv, DbInv
<1>2. /\ RowsInOrder' /\ Now' = Now /\ Created' = Created /\ Created \in SUBSET Convs
      /\ batch \in SUBSET Created
      /\ \A s \in SyncSteps : Watermark(s)' = Watermark(s)
      /\ \A s \in SyncSteps, c \in Convs :
            /\ Done(s, c) => Done(s, c)'
            /\ s # step => (Done(s, c)' <=> Done(s, c))
            /\ s = step /\ c \in batch => ~Done(s, c) /\ Done(s, c)'
            /\ s = step /\ c \in Created /\ env.quiet /\ Done(s, c)' => Done(s, c) \/ c \in batch
  BY PageIsBehind
<1>3. \A c \in Convs : /\ Done("messages", c) => Done("messages", c)'
                       /\ Done("conversations", c)' <=> Done("conversations", c)
                       /\ Done("members", c)' <=> Done("members", c)
                       /\ c \in batch => ~Done("messages", c) /\ Done("messages", c)'
                       /\ c \in Created /\ env.quiet /\ Done("messages", c)'
                          => Done("messages", c) \/ c \in batch
  BY <1>2 DEF SyncSteps
<1>4. /\ copied' = [c \in Convs |-> IF c \in batch THEN copied[c] + 1 ELSE copied[c]]
      /\ UNCHANGED <<convRows, threads, tagged, owners, members>>
  BY DEF WriteMessages
<1>5. \A c \in Convs : copied[c] \in Nat
  BY <1>1 DEF TypeOK
<1>6. \A c \in batch : copied[c] = 0
  <2> SUFFICES ASSUME NEW c \in batch
               PROVE  copied[c] = 0
    OBVIOUS
  <2>1. c \in Convs /\ copied[c] \in Nat /\ ~Done("messages", c)
    BY <1>2, <1>3, <1>5
  <2>2. ~(copied[c] > 0)
    BY <1>1, <2>1 DEF WrittenBehind
  <2> QED
    BY <2>1, <2>2
<1>7. \A c \in Convs : copied'[c] = IF c \in batch THEN 1 ELSE copied[c]
  BY <1>4, <1>6
<1>8. copied' \in [Convs -> Nat]
  BY <1>4, <1>5
<1>9. InTime'
  <2>1. \A c \in Convs : convRows'[c] > 0 \/ copied'[c] > 0 => c \in Created
    BY <1>1, <1>2, <1>4, <1>7 DEF InTime
  <2> QED
    BY <2>1, PageInTime
<1>10. WrittenBehind'
  <2>1. \A g \in Groups, u \in Users :
           {c \in Created : GroupOf[c] = g /\ u \in UsersIn(c) /\ Done("members", c)}'
           = {c \in Created : GroupOf[c] = g /\ u \in UsersIn(c) /\ Done("members", c)}
    BY <1>2, <1>3 DEF PageSaved, UsersIn
  <2>2. \A c \in Convs : /\ convRows'[c] <= 1 /\ copied'[c] <= 1
                         /\ copied'[c] > 0 => Done("messages", c)'
    BY <1>1, <1>3, <1>4, <1>7 DEF WrittenBehind
  <2> QED
    BY <1>1, <1>3, <1>4, <2>1, <2>2 DEF WrittenBehind
<1>11. (env.quiet => ServedBehind)'
  <2> SUFFICES ASSUME env.quiet
               PROVE  ServedBehind'
    BY DEF PageSaved
  <2>1. \A c \in Created : /\ Done("conversations", c)' => convRows'[c] > 0
                           /\ Done("messages", c)' => copied'[c] > 0
    BY <1>1, <1>2, <1>3, <1>4, <1>7 DEF ServedBehind
  <2>2. Watermark("members")' = Watermark("members")
        /\ Watermark("conversations")' = Watermark("conversations")
    BY <1>2 DEF SyncSteps
  <2> QED
    BY <1>1, <1>2, <2>1, <2>2 DEF ServedBehind, PageSaved, legacy
<1> QED
  BY <1>2, <1>8, <1>9, <1>10, <1>11 DEF DbInv

\* Threads that a page of conversations makes are new to the members step as well.
LEMMA ConversationsTags ==
    ASSUME IInv, Calm, NEW last, NEW r, PageSaved(last, r), step = "conversations",
           WriteConversations, step' = "conversations"
    PROVE  TagsServe'
<1>1. TypeOK /\ InStep /\ WrittenBehind /\ ServedBehind /\ TagsServe /\ pc = "commit"
  BY DEF IInv, DbInv, Calm, PageSaved
<1>2. /\ Created' = Created /\ Created \in SUBSET Convs /\ batch \in SUBSET Created
      /\ Saved("conversations")' > 0 /\ Saved("members")' = Saved("members")
      /\ \A c \in Convs : Done("members", c)' <=> Done("members", c)
  BY PageIsBehind DEF SyncSteps
<1>3. /\ threads' \in [Groups -> Nat] /\ tagged' \in SUBSET Groups
      /\ \A g \in Groups : threads'[g] <= 1 /\ threads[g] <= threads'[g]
  BY ConversationsPage
<1>4. /\ threads' = [g \in Groups |->
                       IF g \in PageGroups /\ threads[g] = 0 THEN 1 ELSE threads[g]]
      /\ tagged' = tagged \cup {g \in PageGroups : threads[g] = 0}
      /\ owners' = owners
  BY DEF WriteConversations
<1>5. /\ \A g \in Groups : threads[g] \in Nat /\ owners[g] \in Nat /\ owners[g] <= threads[g]
      /\ \A g \in tagged : threads[g] = 1
      /\ PageGroups \in SUBSET Groups /\ tagged \in SUBSET Groups
  BY <1>1, GroupFacts DEF TypeOK, PageGroups, TagsServe
<1>6. ~AboutToClear
  BY <1>1 DEF AboutToClear
<1>7. \A g \in Groups : /\ CreatedIn(g)' = CreatedIn(g) /\ CreatedIn(g) \in SUBSET Convs
                        /\ \A c \in CreatedIn(g) : Done("members", c)' <=> Done("members", c)
  BY <1>2 DEF CreatedIn
<1>8. \A g \in Groups : owners'[g] <= threads'[g] /\ (g \in tagged' => threads'[g] = 1)
  <2> SUFFICES ASSUME NEW g \in Groups
               PROVE  owners[g] <= threads'[g] /\ (g \in tagged' => threads'[g] = 1)
    BY <1>4
  <2>1. threads'[g] \in Nat /\ threads'[g] <= 1 /\ threads[g] <= threads'[g]
    BY <1>3
  <2> QED
    BY <1>4, <1>5, <2>1
<1>9. ASSUME NEW g \in Waiting', g \notin Waiting
      PROVE  /\ g \in Groups /\ g \in tagged' /\ CreatedIn(g) # {}
             /\ \A c \in CreatedIn(g) : ~Done("members", c)
  <2>1. g \in Groups /\ g \in PageGroups /\ threads[g] = 0 /\ g \in tagged'
    BY <1>4, <1>9 DEF Waiting
  <2>2. PICK b \in batch : GroupOf[b] = g
    BY <2>1 DEF PageGroups
  <2>3. CreatedIn(g) # {}
    BY <1>2, <2>2 DEF CreatedIn
  <2>4. ASSUME NEW c \in CreatedIn(g), Done("members", c)
        PROVE  FALSE
    <3>1. c \in Convs /\ c \in Created /\ GroupOf[c] = g /\ GroupOf[c] \in Nat /\ GroupOf[c] > 0
      BY <1>2, GroupFacts DEF CreatedIn
    <3>2. Saved("members") = 0
      BY <1>1 DEF TagsServe
    <3>3. born[c] < Watermark("members")
      BY <2>4, <3>1, <3>2 DEF Done
    <3>4. born[c] < Watermark("conversations")
      <4>1. Watermark("members") <= Watermark("conversations")
        BY <1>1 DEF ServedBehind
      <4>2. /\ born[c] \in Nat
            /\ Watermark("members") \in Nat /\ Watermark("conversations") \in Nat
        BY <1>1, <3>1, SavedFacts DEF TypeOK, SyncSteps
      <4> QED
        BY <3>3, <4>1, <4>2
    <3>5. convRows[c] > 0
      BY <1>1, <3>1, <3>4 DEF ServedBehind, Done
    <3>6. threads[g] = 1
      BY <1>1, <3>1, <3>5 DEF WrittenBehind
    <3> QED
      BY <2>1, <3>6
  <2> QED
    BY <2>1, <2>3, <2>4
<1>10. \A g \in Waiting' : /\ g \in tagged' /\ CreatedIn(g)' # {}
                           /\ \A c \in CreatedIn(g)' : ~Done("members", c)'
  <2> SUFFICES ASSUME NEW g \in Waiting'
               PROVE  /\ g \in tagged' /\ CreatedIn(g) # {}
                      /\ \A c \in CreatedIn(g) : ~Done("members", c)'
    BY <1>7 DEF Waiting
  <2>1. g \in Groups
    BY DEF Waiting
  <2>2. CASE g \in Waiting
    BY <1>1, <1>4, <1>7, <2>1, <2>2 DEF TagsServe
  <2>3. CASE g \notin Waiting
    BY <1>7, <1>9, <2>3
  <2> QED
    BY <2>2, <2>3
<1>11. ASSUME NEW g \in tagged' \ Waiting'
       PROVE  \A c \in CreatedIn(g)' : Done("members", c)'
  <2>1. g \in Groups /\ threads'[g] = 1
    BY <1>3, <1>8
  <2>2. g \in tagged
    <3>1. ASSUME g \notin tagged
          PROVE  FALSE
      <4>1. g \in PageGroups /\ threads[g] = 0
        BY <1>4, <3>1
      <4>2. owners[g] = 0
        BY <1>5, <2>1, <4>1
      <4> QED
        BY <1>4, <2>1, <4>2 DEF Waiting
    <3> QED
      BY <3>1
  <2>3. g \notin Waiting
    BY <1>4, <2>1 DEF Waiting
  <2> QED
    BY <1>1, <1>6, <1>7, <2>1, <2>2, <2>3 DEF TagsServe
<1>12. Saved("members")' = 0 /\ Saved("conversations")' # 0
  <2>1. Saved("members") = 0
    BY <1>1 DEF TagsServe
  <2> QED
    BY <1>2, <2>1
<1> QED
  BY <1>8, <1>10, <1>11, <1>12 DEF TagsServe

\* A tagged thread of a page of members waits for its owners, and gets them.
LEMMA MembersTags ==
    ASSUME IInv, Calm, NEW last, NEW r, PageSaved(last, r), step = "members",
           WriteMembers, step' = "members"
    PROVE  TagsServe'
<1>1. TypeOK /\ InStep /\ TagsServe /\ pc = "commit" /\ env.quiet
      /\ IsLargest(last, PageGroups)
  BY DEF IInv, Calm, PageSaved
<1>2. /\ Created' = Created /\ Created \in SUBSET Convs /\ batch \in SUBSET Created
      /\ Saved("members")' = last
      /\ \A c \in Convs : /\ Done("members", c) => Done("members", c)'
                          /\ c \in batch => ~Done("members", c)
                          /\ c \in Created /\ Done("members", c)'
                             => Done("members", c) \/ c \in batch
  BY <1>1, PageIsBehind DEF SyncSteps
<1>3. /\ owners' = [g \in Groups |->
                      IF g \in PageGroups \cap tagged THEN owners[g] + 1 ELSE owners[g]]
      /\ threads' = threads /\ tagged' = tagged
  BY DEF WriteMembers
<1>4. /\ \A g \in Groups : threads[g] \in Nat /\ owners[g] \in Nat /\ owners[g] <= threads[g]
      /\ \A g \in tagged : threads[g] = 1
      /\ PageGroups \in SUBSET Groups /\ tagged \in SUBSET Groups
  BY <1>1, GroupFacts DEF TypeOK, PageGroups, TagsServe
<1>5. \A g \in Groups : CreatedIn(g)' = CreatedIn(g) /\ CreatedIn(g) \in SUBSET Created
  BY <1>2 DEF CreatedIn
<1>6. \A g \in PageGroups \cap tagged : g \in Waiting
  <2> SUFFICES ASSUME NEW g \in PageGroups \cap tagged, g \notin Waiting
               PROVE  FALSE
    OBVIOUS
  <2>1. PICK b \in batch : GroupOf[b] = g
    BY DEF PageGroups
  <2>2. b \in CreatedIn(g) /\ ~Done("members", b)
    BY <1>2, <2>1 DEF CreatedIn
  <2>3. ~AboutToClear
    BY <1>1 DEF AboutToClear
  <2> QED
    BY <1>1, <2>2, <2>3 DEF TagsServe
<1>7. \A g \in Groups : owners'[g] <= threads'[g] /\ (g \in tagged' => threads'[g] = 1)
  <2> SUFFICES ASSUME NEW g \in Groups
               PROVE  owners'[g] <= threads[g]
    BY <1>3, <1>4
  <2>1. g \in Waiting => owners[g] = 0 /\ threads[g] = 1
    BY DEF Waiting
  <2> QED
    BY <1>3, <1>4, <1>6, <2>1
<1>8. Waiting' = Waiting \ PageGroups
  <2>1. \A g \in Waiting : g \in tagged
    BY <1>1 DEF TagsServe
  <2>2. \A g \in Groups : g \in Waiting <=> threads[g] = 1 /\ owners[g] = 0
    BY DEF Waiting
  <2>3. \A g \in Groups : g \in Waiting' <=> threads[g] = 1 /\ owners'[g] = 0
    BY <1>3 DEF Waiting
  <2>4. \A g \in Groups : g \in Waiting' <=> g \in Waiting /\ g \notin PageGroups
    BY <1>3, <1>4, <1>6, <2>1, <2>2, <2>3
  <2> QED
    BY <2>4 DEF Waiting
<1>9. ASSUME NEW g \in Waiting'
      PROVE  /\ g \in tagged' /\ CreatedIn(g)' # {}
             /\ \A c \in CreatedIn(g)' : ~Done("members", c)'
  <2>1. g \in Groups /\ g \in Waiting /\ g \notin PageGroups
    BY <1>8 DEF Waiting
  <2>2. \A c \in CreatedIn(g) : c \notin batch
    BY <2>1 DEF CreatedIn, PageGroups
  <2> QED
    BY <1>1, <1>2, <1>3, <1>5, <2>1, <2>2 DEF TagsServe
<1>10. ASSUME NEW g \in tagged' \ Waiting', NEW c \in CreatedIn(g)'
       PROVE  Done("members", c)'
  <2>1. g \in Groups /\ g \in tagged /\ c \in CreatedIn(g) /\ c \in Convs /\ GroupOf[c] = g
    BY <1>2, <1>3, <1>4, <1>5 DEF CreatedIn
  <2>2. CASE g \in Waiting
    <3>1. g \in PageGroups
      BY <1>8, <2>2
    <3>2. GroupOf[c] <= last
      BY <1>1, <2>1, <3>1 DEF IsLargest
    <3> QED
      BY <1>2, <3>2 DEF Done
  <2>3. CASE g \notin Waiting
    <3>1. ~AboutToClear
      BY <1>1 DEF AboutToClear
    <3> QED
      BY <1>1, <1>2, <2>1, <2>3, <3>1 DEF TagsServe
  <2> QED
    BY <2>2, <2>3
<1> QED
  BY <1>7, <1>9, <1>10 DEF TagsServe

\* Where nothing interrupts it, the members step finds a thread for each group, and a
\* user for each conversation.
LEMMA MembersNeverStops ==
    ASSUME IInv, Calm, pc = "commit", step = "members"
    PROVE  MembersResolved /\ SomeDialog
<1>1. TypeOK /\ InTime /\ InStep /\ WrittenBehind /\ ServedBehind /\ env.botOnly = {}
  BY DEF IInv, DbInv, Calm
<1>2. batch # {} /\ batch \in SUBSET Created /\ batch \in SUBSET Convs
  BY <1>1 DEF InStep, TypeOK
<1>3. \A c \in batch : threads[GroupOf[c]] = 1
  <2> SUFFICES ASSUME NEW c \in batch
               PROVE  threads[GroupOf[c]] = 1
    OBVIOUS
  <2>1. born[c] < Now /\ Watermark("conversations") = Now
    BY <1>1, <1>2 DEF InTime, ServedBehind
  <2>2. convRows[c] > 0
    BY <1>1, <1>2, <2>1 DEF ServedBehind, Done
  <2> QED
    BY <1>1, <1>2, <2>2 DEF WrittenBehind
<1>4. \A c \in batch : UsersIn(c) # {}
  BY <1>1, <1>2, UsersAssumption DEF UsersIn
<1> QED
  BY <1>2, <1>3, <1>4 DEF MembersResolved, SomeDialog, PageGroups

--------------------------------------------------------------------------------

\* What the committed page of any of the steps leaves of tables and tags.
LEMMA PageIsSafe ==
    ASSUME IInv, NEW last, NEW r, PageSaved(last, r), WritePage(step),
           \/ step' = step
           \/ step' = "conversations" /\ step \in env.faulty
    PROVE  /\ DbInv' /\ (Calm => TagsServe)'
           /\ convRows' \in [Convs -> Nat] /\ threads' \in [Groups -> Nat]
           /\ tagged' \in SUBSET Groups /\ owners' \in [Groups -> Nat]
           /\ members' \in [Groups -> [Users -> Nat]] /\ copied' \in [Convs -> Nat]
<1>1. TypeOK /\ UNCHANGED <<env, born>> /\ pc = "commit"
  BY DEF IInv, PageSaved, legacy
<1>2. CASE step = "conversations"
  <2>1. WriteConversations /\ step' = "conversations" /\ UNCHANGED <<owners, members, copied>>
    BY <1>2 DEF WritePage, WriteConversations
  <2>2. (Calm => TagsServe)'
    BY <1>1, <1>2, <2>1, ConversationsTags DEF Calm
  <2> QED
    BY <1>1, <1>2, <2>1, <2>2, ConversationsPage DEF TypeOK
<1>3. CASE step = "members"
  <2>1. WriteMembers /\ UNCHANGED <<convRows, threads, tagged, copied>>
    BY <1>3 DEF WritePage, WriteMembers
  <2>2. (Calm => TagsServe)'
    BY <1>1, <1>3, <2>1, MembersTags DEF Calm
  <2> QED
    BY <1>1, <1>3, <2>1, <2>2, MembersPage DEF TypeOK
<1>4. CASE step = "messages"
  <2>1. WriteMessages /\ UNCHANGED <<convRows, threads, tagged, owners, members>>
    BY <1>4 DEF WritePage, WriteMessages
  <2>2. (Calm => TagsServe)'
    <3> SUFFICES ASSUME Calm
                 PROVE  TagsServe'
      BY <1>1 DEF Calm
    <3>1. /\ Watermark("members")' = Watermark("members") /\ Saved("members")' = Saved("members")
          /\ Saved("conversations")' = Saved("conversations")
      BY <1>4, PageIsBehind DEF SyncSteps
    <3>2. ~AboutToClear
      BY <1>4 DEF AboutToClear
    <3> QED
      BY <1>1, <1>4, <2>1, <3>1, <3>2, SameTags
  <2> QED
    BY <1>1, <1>4, <2>1, <2>2, MessagesPage DEF TypeOK
<1> QED
  BY <1>1, <1>2, <1>3, <1>4 DEF TypeOK, SyncSteps

LEMMA CommitIsSafe ==
    ASSUME IInv, NEW s \in SyncSteps, Commit(s)
    PROVE  IInv'
<1>1. PICK last \in PageGroups :
         /\ IsLargest(last, PageGroups) /\ cursor' = last
         /\ rows' = [rows EXCEPT ![step] = SaveCursorProgress(@, last)]
  BY DEF Commit
<1>2. /\ TypeOK /\ InStep /\ (env.quiet => PageIsNext)
      /\ pc = "commit" /\ step = s /\ WritePage(step)
      /\ UNCHANGED <<env, legacy, step, from>> /\ batch' = {}
      /\ pc' = IF Cardinality(PageGroups) < Limit(s) THEN "done" ELSE "fetch"
  BY DEF Commit, IInv
<1>3. /\ rows[step] \in StepRow(Groups) /\ PageGroups \in SUBSET Groups /\ last \in Groups
      /\ NoCursor \notin Groups
  BY <1>2, GroupFacts, NoCursorAssumption DEF TypeOK, PageGroups
<1> DEFINE r == SaveCursorProgress(rows[step], last)
<1>4. /\ r \in StepRow(Groups) /\ r.status = "in_progress" /\ SavedIn(r) = last
      /\ r.completedAt = rows[step].completedAt
  BY <1>3, CursorRow
<1>5. rows' = [rows EXCEPT ![step] = r]
  BY <1>1
<1> HIDE DEF r
<1>6. PageSaved(last, r)
  BY <1>1, <1>2, <1>4, <1>5 DEF PageSaved
<1>7. /\ DbInv' /\ (Calm => TagsServe)'
      /\ convRows' \in [Convs -> Nat] /\ threads' \in [Groups -> Nat]
      /\ tagged' \in SUBSET Groups /\ owners' \in [Groups -> Nat]
      /\ members' \in [Groups -> [Users -> Nat]] /\ copied' \in [Convs -> Nat]
  BY <1>2, <1>6, PageIsSafe
<1>8. /\ rows' \in [SyncSteps -> StepRow(Groups)] /\ Created' = Created /\ Created \in SUBSET Convs
      /\ Watermark(s)' = Watermark(s) /\ Saved(s)' = last
      /\ \A c \in Convs : /\ Done(s, c) => Done(s, c)'
                          /\ c \in batch => Done(s, c)'
  BY <1>2, <1>6, PageIsBehind
<1>9. TypeOK'
  BY <1>1, <1>2, <1>3, <1>7, <1>8 DEF TypeOK, legacy
<1>10. InStep'
  <2>1. from = Watermark(s)
    BY <1>2 DEF InStep
  <2>2. cursor' = Saved(s)' /\ from' = Watermark(s)' /\ step' = s
    BY <1>1, <1>2, <1>8, <2>1
  <2>3. (cursor = Saved(step) /\ from = Watermark(step))'
    BY <2>2 DEF Saved, Watermark, FullMigration
  <2>4. pc' # "commit" /\ pc' # "off"
    BY <1>2
  <2> QED
    BY <1>2, <2>3, <2>4 DEF InStep
<1>11. (env.quiet => PageIsNext)'
  <2> SUFFICES ASSUME env.quiet, Cardinality(PageGroups) < Limit(s), NEW c \in Created
               PROVE  (Done(step, c))'
    BY <1>2, <1>8 DEF PageIsNext
  <2>1. c \in Convs
    BY <1>8
  <2>2. Cardinality(PageGroups) \in Nat /\ Limit(s) \in Nat
    BY <1>3, GroupFacts
  <2>3. c \in batch \/ Done(s, c)
    BY <1>2, <2>2 DEF PageIsNext
  <2>4. Done(s, c)' /\ step' = s
    BY <1>2, <1>8, <2>1, <2>3
  <2> QED
    BY <2>4 DEF Done, Saved, Watermark, FullMigration
<1> QED
  BY <1>7, <1>9, <1>10, <1>11 DEF IInv

LEMMA CommitAndFailIsSafe ==
    ASSUME IInv, NEW s \in SyncSteps, CommitAndFail(s)
    PROVE  IInv'
<1>1. PICK last \in PageGroups :
         IsLargest(last, PageGroups) /\ Fail(SaveCursorProgress(rows[step], last))
  BY DEF CommitAndFail
<1>2. /\ TypeOK /\ pc = "commit" /\ step \in env.faulty /\ WritePage(step)
      /\ UNCHANGED <<env, legacy>> /\ Die
  BY <1>1 DEF CommitAndFail, IInv, Fail
<1>3. /\ rows[step] \in StepRow(Groups) /\ PageGroups \in SUBSET Groups /\ last \in Groups
      /\ NoCursor \notin Groups
  BY <1>2, GroupFacts, NoCursorAssumption DEF TypeOK, PageGroups
<1> DEFINE saved == SaveCursorProgress(rows[step], last)
           r == IF rows' = [rows EXCEPT ![step] = saved] THEN saved ELSE MarkStepFailed(saved, 0)
<1>4. rows' = [rows EXCEPT ![step] = r]
  BY <1>1 DEF Fail
<1>5. /\ saved \in StepRow(Groups) /\ saved.status = "in_progress" /\ SavedIn(saved) = last
      /\ saved.completedAt = rows[step].completedAt
  BY <1>3, CursorRow
<1>6. /\ MarkStepFailed(saved, 0) \in StepRow(Groups)
      /\ MarkStepFailed(saved, 0).status = "failed" /\ SavedIn(MarkStepFailed(saved, 0)) = last
      /\ MarkStepFailed(saved, 0).completedAt = rows[step].completedAt
  <2> HIDE DEF saved
  <2> QED
    BY <1>5, FailedRow DEF IsCompleted
<1>7. /\ r \in StepRow(Groups) /\ r.status \in {"in_progress", "failed"} /\ SavedIn(r) = last
      /\ r.completedAt = rows[step].completedAt
  <2> HIDE DEF saved
  <2> QED
    BY <1>5, <1>6
<1> HIDE DEF r
<1>8. PageSaved(last, r)
  BY <1>1, <1>2, <1>4, <1>7 DEF PageSaved
<1>9. step' = "conversations"
  BY <1>2 DEF Die
<1>10. /\ DbInv' /\ (Calm => TagsServe)'
       /\ convRows' \in [Convs -> Nat] /\ threads' \in [Groups -> Nat]
       /\ tagged' \in SUBSET Groups /\ owners' \in [Groups -> Nat]
       /\ members' \in [Groups -> [Users -> Nat]] /\ copied' \in [Convs -> Nat]
  BY <1>2, <1>8, <1>9, PageIsSafe
<1>11. rows' \in [SyncSteps -> StepRow(Groups)]
  BY <1>8, PageIsBehind
<1> QED
  BY <1>2, <1>10, <1>11, AtRest DEF IInv, TypeOK, legacy

LEMMA FailOrCrashIsSafe ==
    ASSUME IInv, NEW s \in SyncSteps, FailOrCrash(s)
    PROVE  IInv'
<1>1. /\ pc # "off" /\ step = s /\ s \in env.faulty /\ UNCHANGED <<env, legacy, chat>>
      /\ Fail(rows[step]) \/ (Die /\ UNCHANGED rows)
  BY DEF FailOrCrash
<1>2. Calm => step # "members"
  BY <1>1 DEF Calm
<1> QED
  BY <1>1, <1>2, StopIsSafe

LEMMA MembersUnresolvedIsSafe ==
    ASSUME IInv, MembersUnresolved
    PROVE  IInv'
BY StopIsSafe, MembersNeverStops DEF MembersUnresolved

LEMMA MembersPanicIsSafe ==
    ASSUME IInv, MembersPanic
    PROVE  IInv'
BY StopIsSafe, MembersNeverStops DEF MembersPanic

--------------------------------------------------------------------------------

\* When a step completes, everything created so far is behind it.
LEMMA CompleteIsSafe ==
    ASSUME IInv, NEW s \in SyncSteps, Complete(s)
    PROVE  IInv'
<1>1. /\ TypeOK /\ InTime /\ RowsInOrder /\ InStep /\ WrittenBehind
      /\ (env.quiet => ServedBehind /\ PageIsNext) /\ (Calm => TagsServe)
  BY DEF IInv, DbInv
<1>2. /\ pc = "done" /\ step = s /\ UNCHANGED <<env, legacy, chat>>
      /\ rows' = [rows EXCEPT ![s] = MarkStepCompleted(@, Now)]
      /\ \/ s = "conversations" /\ step' = "members"  /\ pc' = "start"
         \/ s = "members"       /\ step' = "messages" /\ pc' = "start"
         \/ s = "messages"      /\ step' = "conversations" /\ pc' = "off"
      /\ cursor' = 0 /\ from' = 0 /\ batch' = {}
  BY DEF Complete
<1>3. rows[s] \in StepRow(Groups) /\ Now \in Nat /\ Created \in SUBSET Convs
  BY <1>1, NowFacts DEF TypeOK
<1> DEFINE r == MarkStepCompleted(rows[s], Now)
<1>4. /\ r \in StepRow(Groups) /\ r.status = "completed" /\ r.cursor = NoCursor
      /\ r.completedAt = Now
  BY <1>3, CompletedRow
<1>5. rows' = [rows EXCEPT ![s] = r]
  BY <1>2
<1> HIDE DEF r
<1>6. /\ rows' \in [SyncSteps -> StepRow(Groups)]
      /\ \A t \in SyncSteps : rows'[t] = IF t = s THEN r ELSE rows[t]
  BY <1>1, <1>4, <1>5 DEF TypeOK
<1>7. Now' = Now /\ Created' = Created
  BY <1>2, SameTime DEF legacy
<1>8. \A t \in SyncSteps : /\ Watermark(t)' = IF t = s THEN Now ELSE Watermark(t)
                           /\ Saved(t)' = IF t = s THEN 0 ELSE Saved(t)
  <2>1. Watermark(s) <= Now /\ Watermark(s) = WatermarkIn(rows[s])
    BY <1>1, WatermarkFacts DEF InTime
  <2>2. FullTime \in Nat /\ FullTime <= WatermarkIn(rows[s]) /\ WatermarkIn(rows[s]) \in Nat
    BY <1>3, WatermarkFacts
  <2>3. WatermarkIn(r) = Now
    BY <1>3, <1>4, <2>1, <2>2, WatermarkFacts
  <2>4. \A t \in SyncSteps : Watermark(t)' = IF t = s THEN WatermarkIn(r) ELSE Watermark(t)
    BY <1>6 DEF Watermark, WatermarkIn, FullMigration
  <2>5. SavedIn(r) = 0
    BY <1>4 DEF SavedIn, GetCursorProgress
  <2>6. \A t \in SyncSteps : Saved(t)' = IF t = s THEN SavedIn(r) ELSE Saved(t)
    BY <1>6 DEF Saved, SavedIn
  <2> QED
    BY <2>3, <2>4, <2>5, <2>6
<1>9. /\ \A c \in Convs : Done(s, c)'
      /\ \A t \in SyncSteps \ {s}, c \in Convs : Done(t, c)' <=> Done(t, c)
  <2>1. UNCHANGED born /\ \A c \in Convs : born[c] < Now
    BY <1>1, <1>2 DEF legacy, InTime
  <2>2. \A c \in Convs : Done(s, c)'
    BY <1>8, <2>1 DEF Done
  <2>3. \A t \in SyncSteps \ {s}, c \in Convs : Done(t, c)' <=> Done(t, c)
    BY <1>8, <2>1 DEF Done
  <2> QED
    BY <2>2, <2>3
<1>10. \A t \in SyncSteps, c \in Convs : Done(t, c) => Done(t, c)'
  BY <1>9
<1>11. InTime'
  <2>1. \A t \in SyncSteps : Watermark(t)' <= Now
    BY <1>1, <1>3, <1>8 DEF InTime
  <2> QED
    BY <1>1, <1>2, <1>7, <2>1 DEF InTime, legacy, chat
<1>12. RowsInOrder'
  BY <1>1, <1>4, <1>6 DEF RowsInOrder
<1>13. WrittenBehind'
  <2>1. ASSUME NEW g \in Groups, NEW u \in Users
        PROVE  (members[g][u] <= Cardinality({c \in Created : /\ GroupOf[c] = g /\ u \in UsersIn(c)
                                                               /\ Done("members", c)}))'
    <3> DEFINE D == {c \in Created : GroupOf[c] = g /\ u \in UsersIn(c) /\ Done("members", c)}
               E == {c \in Created : GroupOf[c] = g /\ u \in UsersIn(c) /\ Done("members", c)'}
    <3>1. members[g][u] <= Cardinality(D) /\ members[g][u] \in Nat
      BY <1>1 DEF WrittenBehind, TypeOK
    <3>2. D \in SUBSET E /\ E \in SUBSET Convs
      BY <1>3, <1>10 DEF SyncSteps
    <3>3. /\ Cardinality(D) <= Cardinality(E)
          /\ Cardinality(D) \in Nat /\ Cardinality(E) \in Nat
      <4>1. IsFiniteSet(E)
        BY <3>2, GroupFacts
      <4> HIDE DEF D, E
      <4> QED
        BY <3>2, <4>1, FS_Subset, FS_CardinalityType
    <3>4. members[g][u] <= Cardinality(E)
      BY <3>1, <3>3
    <3>5. {c \in Created : GroupOf[c] = g /\ u \in UsersIn(c) /\ Done("members", c)}' = E
      BY <1>2, <1>7 DEF UsersIn
    <3> QED
      BY <1>2, <3>4, <3>5 DEF chat
  <2>2. \A c \in Convs : /\ Done("conversations", c) => Done("conversations", c)'
                         /\ Done("messages", c) => Done("messages", c)'
    BY <1>10 DEF SyncSteps
  <2> QED
    BY <1>1, <1>2, <2>1, <2>2 DEF WrittenBehind, chat
<1>14. ASSUME env.quiet
       PROVE  ServedBehind'
  <2>1. \A c \in Created : Done(s, c)
    BY <1>1, <1>2, <1>14 DEF PageIsNext
  <2>2. \A t \in SyncSteps, c \in Created : Done(t, c)' <=> Done(t, c)
    BY <1>3, <1>9, <2>1
  <2>3. \A c \in Created : /\ Done("conversations", c)' => convRows'[c] > 0
                           /\ Done("messages", c)' => copied'[c] > 0
    BY <1>1, <1>2, <1>14, <2>2 DEF ServedBehind, chat, SyncSteps
  <2>4. /\ Watermark("members")' <= Watermark("conversations")'
        /\ step' # "conversations" => Watermark("conversations")' = Now'
    <3>1. Watermark("members") <= Now /\ Watermark("members") <= Watermark("conversations")
          /\ (s # "conversations" => Watermark("conversations") = Now)
      BY <1>1, <1>2, <1>14 DEF InTime, ServedBehind, SyncSteps
    <3> QED
      BY <1>2, <1>3, <1>7, <1>8, <3>1 DEF SyncSteps
  <2> QED
    BY <1>1, <1>2, <1>7, <1>14, <2>3, <2>4 DEF ServedBehind, legacy
<1>15. ASSUME Calm
       PROVE  TagsServe'
  <2>1. TagsServe /\ ~AboutToClear /\ \A c \in Created : Done(s, c)
    BY <1>1, <1>2, <1>15 DEF AboutToClear, PageIsNext, Calm
  <2>2. \A g \in Groups : CreatedIn(g)' = CreatedIn(g) /\ CreatedIn(g) \in SUBSET Created
    BY <1>7 DEF CreatedIn
  <2>3. Waiting' = Waiting /\ Waiting \in SUBSET Groups /\ tagged \in SUBSET Groups
    BY <1>1, <1>2 DEF Waiting, TypeOK, chat
  <2>4. \A c \in Created : Done("members", c)' <=> Done("members", c)
    BY <1>3, <1>9, <2>1 DEF SyncSteps
  <2>5. s = "members" => Waiting = {}
    <3>1. ASSUME s = "members", NEW g \in Waiting
          PROVE  FALSE
      <4>1. PICK c \in CreatedIn(g) : TRUE
        BY <2>1 DEF TagsServe
      <4>2. c \in Created /\ ~Done("members", c)
        BY <2>1, <2>2, <2>3, <4>1 DEF TagsServe
      <4> QED
        BY <2>1, <3>1, <4>2
    <3> QED
      BY <3>1
  <2>6. s = "messages" => Waiting = {}
    BY <1>2, <2>1 DEF TagsServe
  <2>7. step' # "members" => Saved("members")' = 0
    BY <1>2, <1>8, <2>1 DEF TagsServe, SyncSteps
  <2>8. step' = "messages" \/ (step' = "conversations" /\ Saved("conversations")' = 0)
        => Waiting' = {}
    BY <1>2, <2>3, <2>5, <2>6
  <2>9. \A g \in Waiting' : /\ g \in tagged' /\ CreatedIn(g)' # {}
                            /\ \A c \in CreatedIn(g)' : ~Done("members", c)'
    BY <1>2, <2>1, <2>2, <2>3, <2>4 DEF TagsServe, chat
  <2>10. \A g \in tagged' \ Waiting' : \A c \in CreatedIn(g)' : Done("members", c)'
    BY <1>2, <2>1, <2>2, <2>3, <2>4 DEF TagsServe, chat
  <2>11. \A g \in Groups : owners'[g] <= threads'[g] /\ (g \in tagged' => threads'[g] = 1)
    BY <1>2, <2>1 DEF TagsServe, chat
  <2> QED
    BY <2>7, <2>8, <2>9, <2>10, <2>11 DEF TagsServe
<1>16. TypeOK' /\ InStep' /\ PageIsNext'
  BY <1>1, <1>2, <1>6 DEF TypeOK, InStep, PageIsNext, SyncSteps, legacy, chat
<1> QED
  BY <1>2, <1>11, <1>12, <1>13, <1>14, <1>15, <1>16 DEF IInv, DbInv, Calm

--------------------------------------------------------------------------------

\* A conversation created now is ahead of every step.
LEMMA CreateIsSafe ==
    ASSUME IInv, NEW c \in Convs, LegacyCreate(c)
    PROVE  IInv'
<1>1. /\ TypeOK /\ InTime /\ RowsInOrder /\ InStep /\ WrittenBehind
      /\ (env.quiet => ServedBehind) /\ (Calm => TagsServe)
  BY DEF IInv, DbInv
<1>2. /\ born[c] = 0 /\ (env.quiet => Settled) /\ born' = [born EXCEPT ![c] = Now + 1]
      /\ closed' \in {closed, closed \cup {c}} /\ (env.quiet => c \in closed')
      /\ UNCHANGED <<env, rows, chat, process>>
  BY DEF LegacyCreate
<1>3. born \in [Convs -> Nat] /\ Now \in Nat
  BY <1>1, NowFacts DEF TypeOK
<1>4. \A d \in Convs : born'[d] = IF d = c THEN Now + 1 ELSE born[d]
  BY <1>2, <1>3
<1>5. Created' = Created \cup {c} /\ c \notin Created /\ Created \in SUBSET Convs
  BY <1>2, <1>3, <1>4 DEF Created
<1>6. Now' = Now + 2
  <2>1. IsFiniteSet(Created)
    BY <1>5, GroupFacts
  <2>2. Cardinality(Created') = Cardinality(Created) + 1
    BY <1>5, <2>1, FS_AddElement
  <2>3. Now' = 2 * Cardinality(Created') + 1
    BY DEF Now
  <2> QED
    BY <2>2, <2>3, NowFacts
<1>7. \A s \in SyncSteps : /\ Watermark(s)' = Watermark(s) /\ Saved(s)' = Saved(s)
                           /\ Watermark(s) \in Nat /\ Watermark(s) <= Now
  BY <1>1, <1>2, SavedFacts DEF Watermark, Saved, FullMigration, InTime
<1>8. \A s \in SyncSteps : \A d \in Convs \ {c} : Done(s, d)' <=> Done(s, d)
  BY <1>4, <1>7 DEF Done
<1>9. InTime'
  <2>1. \A d \in Convs : born'[d] < Now'
    BY <1>1, <1>3, <1>4, <1>6 DEF InTime
  <2>2. \A s \in SyncSteps : Watermark(s)' <= Now'
    BY <1>3, <1>6, <1>7
  <2> QED
    BY <1>1, <1>2, <1>5, <2>1, <2>2 DEF InTime, chat
<1>10. RowsInOrder'
  BY <1>1, <1>2 DEF RowsInOrder
<1>11. WrittenBehind'
  <2>1. \A d \in Convs : /\ convRows[d] > 0 => Done("conversations", d)'
                         /\ copied[d] > 0 => Done("messages", d)'
    BY <1>1, <1>5, <1>8 DEF WrittenBehind, InTime, SyncSteps
  <2>2. ASSUME NEW g \in Groups, NEW u \in Users
        PROVE  (members[g][u] <= Cardinality({d \in Created : /\ GroupOf[d] = g /\ u \in UsersIn(d)
                                                               /\ Done("members", d)}))'
    <3> DEFINE D == {d \in Created : GroupOf[d] = g /\ u \in UsersIn(d) /\ Done("members", d)}
               E == {d \in Created' : GroupOf[d] = g /\ u \in UsersIn(d) /\ Done("members", d)'}
    <3>1. members[g][u] <= Cardinality(D) /\ members[g][u] \in Nat
      BY <1>1 DEF WrittenBehind, TypeOK
    <3>2. D \in SUBSET E /\ E \in SUBSET Convs
      BY <1>5, <1>8 DEF SyncSteps
    <3>3. /\ Cardinality(D) <= Cardinality(E)
          /\ Cardinality(D) \in Nat /\ Cardinality(E) \in Nat
      <4>1. IsFiniteSet(E)
        BY <3>2, GroupFacts
      <4> HIDE DEF D, E
      <4> QED
        BY <3>2, <4>1, FS_Subset, FS_CardinalityType
    <3>4. members[g][u] <= Cardinality(E)
      BY <3>1, <3>3
    <3>5. {d \in Created : GroupOf[d] = g /\ u \in UsersIn(d) /\ Done("members", d)}' = E
      BY <1>2 DEF UsersIn
    <3> QED
      BY <1>2, <3>4, <3>5 DEF chat
  <2> QED
    BY <1>1, <1>2, <2>1, <2>2 DEF WrittenBehind, chat
<1>12. ASSUME env.quiet
       PROVE  /\ pc = "off" /\ step = "conversations"
              /\ \A s \in SyncSteps : Saved(s) = 0 /\ Saved(s)' = 0 /\ ~Done(s, c)'
  <2>1. pc = "off" /\ step = "conversations"
    BY <1>1, <1>2, <1>12 DEF Settled, InStep
  <2>2. \A s \in SyncSteps : Saved(s) = 0
    BY <1>1, <1>2, <1>12 DEF Settled, RowsInOrder, Saved, GetCursorProgress
  <2>3. \A s \in SyncSteps : ~(born'[c] < Watermark(s)')
    BY <1>3, <1>4, <1>7
  <2>4. GroupOf[c] \in Nat /\ GroupOf[c] > 0
    BY GroupFacts
  <2>5. \A s \in SyncSteps : ~(GroupOf[c] <= Saved(s)')
    BY <1>7, <2>2, <2>4
  <2>6. \A s \in SyncSteps : ~Done(s, c)'
    BY <2>3, <2>5 DEF Done
  <2> QED
    BY <1>7, <2>1, <2>2, <2>6
<1>13. ASSUME env.quiet
       PROVE  ServedBehind'
  <2>1. closed' = Created'
    BY <1>1, <1>2, <1>5, <1>13 DEF ServedBehind
  <2>2. \A d \in Created' : /\ Done("conversations", d)' => convRows'[d] > 0
                            /\ Done("messages", d)' => copied'[d] > 0
    BY <1>1, <1>2, <1>5, <1>8, <1>12, <1>13 DEF ServedBehind, SyncSteps, chat
  <2>3. Watermark("members")' <= Watermark("conversations")'
    BY <1>1, <1>7, <1>13 DEF ServedBehind, SyncSteps
  <2>4. step' = "conversations"
    BY <1>2, <1>12, <1>13 DEF process
  <2> QED
    BY <2>1, <2>2, <2>3, <2>4 DEF ServedBehind
<1>14. ASSUME Calm
       PROVE  TagsServe'
  <2>1. TagsServe /\ env.quiet /\ pc' = "off" /\ step' = "conversations"
    BY <1>1, <1>2, <1>12, <1>14 DEF Calm, process
  <2>2. Saved("conversations") = 0 /\ Saved("conversations")' = 0 /\ Saved("members")' = 0
    BY <1>12, <2>1 DEF SyncSteps
  <2>3. Waiting' = {}
    BY <1>2, <1>12, <2>1, <2>2 DEF Waiting, TagsServe, chat
  <2>4. \A g \in Groups : owners'[g] <= threads'[g] /\ (g \in tagged' => threads'[g] = 1)
    BY <1>2, <2>1 DEF TagsServe, chat
  <2>5. AboutToClear'
    BY <2>1, <2>2 DEF AboutToClear
  <2> QED
    BY <2>2, <2>3, <2>4, <2>5 DEF TagsServe
<1>15. TypeOK'
  <2>1. born' \in [Convs -> Nat] /\ closed' \in SUBSET Convs
    BY <1>1, <1>2, <1>3 DEF TypeOK
  <2> QED
    BY <1>1, <1>2, <2>1 DEF TypeOK, chat, process
<1>16. InStep'
  <2>1. \A d \in batch' : d \in Created' /\ born'[d] >= from' /\ GroupOf[d] > cursor'
    BY <1>1, <1>2, <1>4, <1>5 DEF InStep, process
  <2> QED
    BY <1>1, <1>2, <2>1 DEF InStep, process, Saved, Watermark, FullMigration
<1>17. (env.quiet => PageIsNext)'
  BY <1>2, <1>12 DEF PageIsNext, process
<1> QED
  BY <1>2, <1>9, <1>10, <1>11, <1>13, <1>14, <1>15, <1>16, <1>17 DEF IInv, DbInv, Calm

LEMMA CloseIsSafe ==
    ASSUME IInv, NEW c \in Convs, LegacyClose(c)
    PROVE  IInv'
<1>1. /\ TypeOK /\ InTime /\ RowsInOrder /\ InStep /\ WrittenBehind
      /\ (env.quiet => ServedBehind)
  BY DEF IInv, DbInv
<1>2. /\ born[c] > 0 /\ c \notin closed /\ closed' = closed \cup {c}
      /\ UNCHANGED <<env, born, rows, chat, process>>
  BY DEF LegacyClose
<1>3. ~env.quiet
  BY <1>1, <1>2 DEF ServedBehind, Created
<1>4. /\ Now' = Now /\ Created' = Created
      /\ \A s : Watermark(s)' = Watermark(s) /\ Saved(s)' = Saved(s)
      /\ \A s, d : Done(s, d)' <=> Done(s, d)
  BY <1>2, SameTime DEF Watermark, Saved, FullMigration, Done
<1>5. InTime'
  BY <1>1, <1>2, <1>4 DEF InTime, Created, chat
<1>6. RowsInOrder'
  BY <1>1, <1>2 DEF RowsInOrder
<1>7. WrittenBehind'
  <2>1. \A g \in Groups, u \in Users :
           {d \in Created : GroupOf[d] = g /\ u \in UsersIn(d) /\ Done("members", d)}'
           = {d \in Created : GroupOf[d] = g /\ u \in UsersIn(d) /\ Done("members", d)}
    BY <1>2, <1>4 DEF UsersIn
  <2> QED
    BY <1>1, <1>2, <1>4, <2>1 DEF WrittenBehind, chat
<1>8. TypeOK' /\ InStep'
  BY <1>1, <1>2, <1>4 DEF TypeOK, InStep, chat, process, Saved, Watermark, FullMigration
<1> QED
  BY <1>2, <1>3, <1>5, <1>6, <1>7, <1>8 DEF IInv, DbInv, Calm

--------------------------------------------------------------------------------

LEMMA StandingStill ==
    ASSUME IInv, UNCHANGED vars
    PROVE  IInv'
<1>1. UNCHANGED <<env, legacy, rows, chat, process>>
  BY DEF vars
<1>2. \A s \in SyncSteps : Watermark(s)' = Watermark(s) /\ Saved(s)' = Saved(s)
  BY <1>1 DEF Watermark, Saved, FullMigration
<1>3. DbInv'
  BY <1>1, <1>2, SameDatabase DEF chat, process
<1>4. (Calm => TagsServe)'
  <2>1. /\ Watermark("members")' = Watermark("members") /\ Saved("members")' = Saved("members")
        /\ Saved("conversations")' = Saved("conversations")
    BY <1>2 DEF SyncSteps
  <2>2. AboutToClear => AboutToClear'
    BY <1>1, <2>1 DEF AboutToClear, process
  <2> QED
    BY <1>1, <2>1, <2>2, SameTags DEF Calm, legacy, chat, process
<1>5. TypeOK' /\ InStep'
  BY <1>1 DEF IInv, TypeOK, InStep, Created, Saved, Watermark, FullMigration, legacy, chat, process
<1>6. (env.quiet => PageIsNext)'
  BY <1>1 DEF IInv, PageIsNext, Created, Done, Saved, Watermark, FullMigration, PageGroups, Limit,
              legacy, chat, process
<1> QED
  BY <1>3, <1>4, <1>5, <1>6 DEF IInv

LEMMA NextIsSafe == IInv /\ [Next]_vars => IInv'
<1> SUFFICES ASSUME IInv, [Next]_vars
             PROVE  IInv'
  OBVIOUS
<1>1. ASSUME NEW c \in Convs, LegacyCreate(c)
      PROVE  IInv'
  BY <1>1, CreateIsSafe
<1>2. ASSUME NEW c \in Convs, LegacyClose(c)
      PROVE  IInv'
  BY <1>2, CloseIsSafe
<1>3. CASE Launch
  BY <1>3, LaunchIsSafe
<1>4. ASSUME NEW s \in SyncSteps, StartStep(s)
      PROVE  IInv'
  BY <1>4, StartIsSafe
<1>5. ASSUME NEW s \in SyncSteps, Fetch(s)
      PROVE  IInv'
  BY <1>5, FetchIsSafe
<1>6. ASSUME NEW s \in SyncSteps, Commit(s)
      PROVE  IInv'
  BY <1>6, CommitIsSafe
<1>7. ASSUME NEW s \in SyncSteps, CommitAndFail(s)
      PROVE  IInv'
  BY <1>7, CommitAndFailIsSafe
<1>8. ASSUME NEW s \in SyncSteps, FailOrCrash(s)
      PROVE  IInv'
  BY <1>8, FailOrCrashIsSafe
<1>9. ASSUME NEW s \in SyncSteps, Complete(s)
      PROVE  IInv'
  BY <1>9, CompleteIsSafe
<1>10. CASE MembersUnresolved
  BY <1>10, MembersUnresolvedIsSafe
<1>11. CASE MembersPanic
  BY <1>11, MembersPanicIsSafe
<1>12. CASE UNCHANGED vars
  BY <1>12, StandingStill
<1> QED
  BY <1>1, <1>2, <1>3, <1>4, <1>5, <1>6, <1>7, <1>8, <1>9, <1>10, <1>11, <1>12 DEF Next

LEMMA NothingTwice == IInv => CopiedOnce
<1> SUFFICES ASSUME IInv
             PROVE  CopiedOnce
  OBVIOUS
<1>1. TypeOK /\ WrittenBehind
  BY DEF IInv, DbInv
<1>2. ASSUME NEW g \in Groups, NEW u \in Users
      PROVE  members[g][u] <= Cardinality({c \in Convs : GroupOf[c] = g /\ u \in UsersIn(c)})
  <2> DEFINE D == {c \in Created : GroupOf[c] = g /\ u \in UsersIn(c) /\ Done("members", c)}
             E == {c \in Convs : GroupOf[c] = g /\ u \in UsersIn(c)}
  <2>1. members[g][u] <= Cardinality(D) /\ members[g][u] \in Nat
    BY <1>1 DEF WrittenBehind, TypeOK
  <2>2. D \in SUBSET E /\ E \in SUBSET Convs
    BY NowFacts
  <2>3. Cardinality(D) <= Cardinality(E) /\ Cardinality(D) \in Nat /\ Cardinality(E) \in Nat
    <3>1. IsFiniteSet(E)
      BY <2>2, GroupFacts
    <3> HIDE DEF D, E
    <3> QED
      BY <2>2, <3>1, FS_Subset, FS_CardinalityType
  <2> QED
    BY <2>1, <2>3
<1> QED
  BY <1>1, <1>2 DEF WrittenBehind, CopiedOnce

LEMMA OwnersAreThere == IInv => OwnersOnce
<1> SUFFICES ASSUME IInv, Calm, NEW c \in Created, born[c] < Watermark("members")
             PROVE  owners[GroupOf[c]] = 1
  BY DEF OwnersOnce, OwnersAdded, Calm
<1>1. TypeOK /\ WrittenBehind /\ ServedBehind /\ TagsServe
  BY DEF IInv, DbInv, Calm
<1> DEFINE g == GroupOf[c]
<1>2. c \in Convs /\ g \in Groups /\ c \in CreatedIn(g)
  BY GroupFacts, NowFacts DEF CreatedIn
<1>3. born[c] < Watermark("conversations")
  <2>1. /\ born[c] \in Nat /\ Watermark("members") <= Watermark("conversations")
        /\ Watermark("members") \in Nat /\ Watermark("conversations") \in Nat
    BY <1>1, <1>2, SavedFacts DEF TypeOK, ServedBehind, SyncSteps
  <2> QED
    BY <2>1
<1>4. convRows[c] > 0
  BY <1>1, <1>3 DEF ServedBehind, Done
<1>5. threads[g] = 1
  BY <1>1, <1>2, <1>4 DEF WrittenBehind
<1>6. Done("members", c)
  BY DEF Done
<1>7. g \notin Waiting
  BY <1>1, <1>2, <1>6 DEF TagsServe
<1>8. owners[g] \in Nat /\ owners[g] # 0 /\ owners[g] <= 1
  BY <1>1, <1>2, <1>5, <1>7 DEF TypeOK, TagsServe, Waiting
<1> QED
  BY <1>8

\* The inductive invariant holds, however syncs are interrupted and run again.
THEOREM Invariance == Spec => []IInv
BY InitIsSafe, NextIsSafe, PTL DEF Spec

\* Every variable has its type.
THEOREM TypeCorrect == Spec => []TypeOK
<1>1. IInv => TypeOK
  BY DEF IInv
<1> QED
  BY Invariance, <1>1, PTL

\* However often syncs are run, killed and run again, a conversation gets one mapping row,
\* its messages are copied once, and a user gets no more dialogs in a thread than the
\* conversations the user took part in: a page is never before what its step has saved.
THEOREM NothingIsCopiedTwice == Spec => []CopiedOnce
BY Invariance, NothingTwice, PTL

\* If the legacy service is still while a sync is not finished, what was created before
\* the time from which a step will read has been written by it.
THEOREM NothingIsLeftBehind == Spec => []NothingBehindWatermark
<1>1. IInv => NothingBehindWatermark
  BY DEF IInv, DbInv, ServedBehind, Done, NothingBehindWatermark, PicksUpAll
<1> QED
  BY Invariance, <1>1, PTL

\* If nothing interrupts the members step either, a thread that lies behind it has its
\* owners, once, wherever the steps around it fail: no tag is cleared that it waits for.
THEOREM OwnersAreAddedOnce == Spec => []OwnersOnce
BY Invariance, OwnersAreThere, PTL
--------------------------------------------------------------------------------

\* A page as it is committed, by a run that goes on or by one that fails then.
LEMMA CommittedPage ==
    ASSUME IInv, NEW s \in SyncSteps, Commit(s) \/ CommitAndFail(s)
    PROVE  /\ pc = "commit" /\ step = s /\ WritePage(s)
           /\ \E last, r : PageSaved(last, r)
<1>1. PICK last \in PageGroups :
         /\ IsLargest(last, PageGroups)
         /\ \/ rows' = [rows EXCEPT ![step] = SaveCursorProgress(@, last)]
            \/ Fail(SaveCursorProgress(rows[step], last))
  BY DEF Commit, CommitAndFail
<1>2. /\ TypeOK /\ pc = "commit" /\ step = s /\ WritePage(s) /\ UNCHANGED <<env, legacy>>
  BY DEF Commit, CommitAndFail, IInv
<1>3. /\ rows[step] \in StepRow(Groups) /\ last \in Groups /\ NoCursor \notin Groups
  BY <1>2, GroupFacts, NoCursorAssumption DEF TypeOK, PageGroups
<1> DEFINE saved == SaveCursorProgress(rows[step], last)
           r == IF rows' = [rows EXCEPT ![step] = saved] THEN saved ELSE MarkStepFailed(saved, 0)
<1>4. rows' = [rows EXCEPT ![step] = r]
  BY <1>1 DEF Fail
<1>5. /\ saved \in StepRow(Groups) /\ saved.status = "in_progress" /\ SavedIn(saved) = last
      /\ saved.completedAt = rows[step].completedAt
  BY <1>3, CursorRow
<1> HIDE DEF saved
<1>6. /\ MarkStepFailed(saved, 0) \in StepRow(Groups)
      /\ MarkStepFailed(saved, 0).status = "failed" /\ SavedIn(MarkStepFailed(saved, 0)) = last
      /\ MarkStepFailed(saved, 0).completedAt = rows[step].completedAt
  BY <1>5, FailedRow DEF IsCompleted
<1>7. /\ r \in StepRow(Groups) /\ r.status \in {"in_progress", "failed"} /\ SavedIn(r) = last
      /\ r.completedAt = rows[step].completedAt
  BY <1>5, <1>6
<1> HIDE DEF r
<1>8. PageSaved(last, r)
  BY <1>1, <1>2, <1>4, <1>7 DEF PageSaved
<1> QED
  BY <1>2, <1>8

\* A failure without a page leaves the row's time and place.
LEMMA FailKeepsPlace ==
    ASSUME IInv, Fail(rows[step]), UNCHANGED legacy
    PROVE  \A s \in SyncSteps : Watermark(s)' = Watermark(s) /\ Saved(s)' = Saved(s)
<1> DEFINE old == rows[step]
           r == IF rows' = [rows EXCEPT ![step] = old] THEN old ELSE MarkStepFailed(old, 0)
<1>1. TypeOK /\ RowsInOrder
  BY DEF IInv, DbInv
<1>2. old \in StepRow(Groups) /\ step \in SyncSteps
  BY <1>1 DEF TypeOK
<1>3. rows' = [rows EXCEPT ![step] = r]
  BY DEF Fail
<1>4. IsCompleted(old) => old.cursor = NoCursor
  BY <1>1, <1>2 DEF RowsInOrder, IsCompleted
<1>5. r \in StepRow(Groups) /\ r.completedAt = old.completedAt /\ SavedIn(r) = SavedIn(old)
  BY <1>2, <1>4, FailedRow
<1> HIDE DEF r
<1> QED
  BY <1>1, <1>3, <1>5, RowWritten, SavedFacts DEF legacy

LEMMA PlacesGoForward ==
    ASSUME IInv, [Next]_vars
    PROVE  \A s \in SyncSteps : /\ Watermark(s) <= Watermark(s)'
                                /\ \A c \in Created : Done(s, c) => Done(s, c)'
<1> DEFINE Places == \A s \in SyncSteps : /\ Watermark(s) <= Watermark(s)'
                                          /\ \A c \in Created : Done(s, c) => Done(s, c)'
<1>0. /\ TypeOK /\ InTime /\ Created \in SUBSET Convs /\ Now \in Nat
      /\ \A s \in SyncSteps : Watermark(s) \in Nat /\ Saved(s) \in Nat
      /\ \A c \in Convs : born[c] \in Nat /\ born[c] < Now /\ GroupOf[c] \in Nat
  BY SavedFacts, NowFacts, GroupFacts DEF IInv, DbInv, InTime, TypeOK
<1>1. ASSUME \A c \in Created : born'[c] = born[c],
             \A s \in SyncSteps : Watermark(s)' = Watermark(s) /\ Saved(s)' = Saved(s)
      PROVE  Places
  BY <1>0, <1>1 DEF Done
<1>2. ASSUME NEW c \in Convs, LegacyCreate(c)
      PROVE  Places
  <2>1. \A d \in Created : born'[d] = born[d]
    BY <1>0, <1>2 DEF LegacyCreate, TypeOK, Created
  <2>2. \A s \in SyncSteps : Watermark(s)' = Watermark(s) /\ Saved(s)' = Saved(s)
    BY <1>2 DEF LegacyCreate, Watermark, Saved, FullMigration
  <2> QED
    BY <1>1, <2>1, <2>2
<1>3. ASSUME NEW s \in SyncSteps, Commit(s) \/ CommitAndFail(s)
      PROVE  Places
  <2>1. PICK last, r : PageSaved(last, r)
    BY <1>3, CommittedPage
  <2> QED
    BY <1>0, <2>1, PageIsBehind
<1>4. CASE Fail(rows[step]) /\ UNCHANGED legacy
  BY <1>1, <1>4, FailKeepsPlace DEF legacy
<1>5. ASSUME NEW s \in SyncSteps, Complete(s)
      PROVE  Places
  <2>1. /\ UNCHANGED born /\ rows' = [rows EXCEPT ![s] = MarkStepCompleted(@, Now)]
        /\ rows[s] \in StepRow(Groups)
    BY <1>0, <1>5 DEF Complete, legacy, TypeOK
  <2> DEFINE r == MarkStepCompleted(rows[s], Now)
  <2>2. r \in StepRow(Groups) /\ r.completedAt = Now
    BY <1>0, <2>1, CompletedRow
  <2>3. \A t \in SyncSteps : rows'[t] = IF t = s THEN r ELSE rows[t]
    BY <1>0, <2>1 DEF TypeOK
  <2> HIDE DEF r
  <2>4. Watermark(s)' = Now
    <3>1. Watermark(s)' = WatermarkIn(r)
      BY <2>3 DEF Watermark, WatermarkIn, FullMigration
    <3>2. FullTime <= Watermark(s) /\ FullTime \in Nat /\ Watermark(s) <= Now
      BY <1>0, <2>1, WatermarkFacts DEF InTime
    <3> QED
      BY <1>0, <2>2, <3>1, <3>2, WatermarkFacts
  <2>5. \A t \in SyncSteps : t # s => Watermark(t)' = Watermark(t) /\ Saved(t)' = Saved(t)
    BY <2>3 DEF Watermark, Saved, FullMigration
  <2>6. ASSUME NEW t \in SyncSteps
        PROVE  Watermark(t) <= Watermark(t)' /\ \A c \in Created : Done(t, c) => Done(t, c)'
    <3>1. CASE t = s
      BY <1>0, <2>1, <2>4, <3>1 DEF Done, InTime
    <3>2. CASE t # s
      BY <1>0, <2>1, <2>5, <3>2 DEF Done
    <3> QED
      BY <3>1, <3>2
  <2> QED
    BY <2>6
<1>6. CASE UNCHANGED <<legacy, rows>>
  <2>1. \A s \in SyncSteps : Watermark(s)' = Watermark(s) /\ Saved(s)' = Saved(s)
    BY <1>6 DEF Watermark, Saved, FullMigration
  <2> QED
    BY <1>1, <1>6, <2>1 DEF legacy
<1>7. ASSUME NEW c \in Convs, LegacyClose(c)
      PROVE  Places
  <2>1. \A s \in SyncSteps : Watermark(s)' = Watermark(s) /\ Saved(s)' = Saved(s)
    BY <1>7 DEF LegacyClose, Watermark, Saved, FullMigration
  <2> QED
    BY <1>1, <1>7, <2>1 DEF LegacyClose
<1> QED
  BY <1>2, <1>3, <1>4, <1>5, <1>6, <1>7 DEF Next, Launch, StartStep, Fetch, FailOrCrash,
     MembersUnresolved, MembersPanic, vars

LEMMA WrittenStays ==
    ASSUME IInv, [Next]_vars
    PROVE  /\ \A c \in Convs : /\ convRows[c] > 0 => convRows'[c] = convRows[c]
                               /\ copied[c] > 0 => copied'[c] = copied[c]
           /\ \A g \in Groups : threads[g] > 0 => threads'[g] = threads[g]
<1> DEFINE Stays == /\ \A c \in Convs : /\ convRows[c] > 0 => convRows'[c] = convRows[c]
                                        /\ copied[c] > 0 => copied'[c] = copied[c]
                    /\ \A g \in Groups : threads[g] > 0 => threads'[g] = threads[g]
<1>1. CASE UNCHANGED <<convRows, copied, threads>>
  BY <1>1
<1>2. ASSUME NEW s \in SyncSteps, Commit(s) \/ CommitAndFail(s)
      PROVE  Stays
  <2>0. TypeOK /\ WrittenBehind
    BY DEF IInv, DbInv
  <2>1. PICK last, r : PageSaved(last, r)
    BY <1>2, CommittedPage
  <2>2. pc = "commit" /\ step = s /\ WritePage(s)
    BY <1>2, CommittedPage
  <2>3. \A c \in batch : c \in Convs /\ ~Done(step, c)
    BY <2>0, <2>1, PageIsBehind DEF TypeOK
  <2>4. CASE s = "conversations"
    <3>1. WriteConversations /\ \A c \in batch : convRows[c] = 0
      BY <2>0, <2>2, <2>3, <2>4 DEF WritePage, WrittenBehind, TypeOK
    <3> QED
      BY <2>0, <3>1 DEF WriteConversations, TypeOK
  <2>5. CASE s = "members"
    BY <2>2, <2>5 DEF WritePage, WriteMembers
  <2>6. CASE s = "messages"
    <3>1. WriteMessages /\ \A c \in batch : copied[c] = 0
      BY <2>0, <2>2, <2>3, <2>6 DEF WritePage, WrittenBehind, TypeOK
    <3> QED
      BY <3>1 DEF WriteMessages
  <2> QED
    BY <2>4, <2>5, <2>6 DEF SyncSteps
<1> QED
  BY <1>1, <1>2 DEF Next, LegacyCreate, LegacyClose, Launch, StartStep, Fetch, FailOrCrash,
     Complete, MembersUnresolved, MembersPanic, chat, vars

\* No failure, no completion and nothing the legacy service does takes a step back to a
\* conversation it was past, or changes what is written of one.
THEOREM NothingIsTakenBack == Spec => OnlyForward
<1> DEFINE Forward ==
             /\ \A s \in SyncSteps : /\ Watermark(s) <= Watermark(s)'
                                     /\ \A c \in Created : Done(s, c) => Done(s, c)'
             /\ \A c \in Convs : /\ convRows[c] > 0 => convRows'[c] = convRows[c]
                                 /\ copied[c] > 0 => copied'[c] = copied[c]
             /\ \A g \in Groups : threads[g] > 0 => threads'[g] = threads[g]
<1>1. IInv /\ [Next]_vars => [Forward]_vars
  BY PlacesGoForward, WrittenStays
<1> QED
  BY <1>1, Invariance, PTL DEF Spec, OnlyForward
================================================================================
