-------------------------- MODULE ThreadContentsProofs --------------------------
(***************************************************************************)
(* Theorems about ThreadContents, for any legacy database, page sizes and  *)
(* surroundings.                                                           *)
(***************************************************************************)
EXTENDS ThreadContents, PageLemmas

LEMMA GroupFacts ==
    /\ \A c \in Convs : GroupOf[c] \in Groups /\ GroupOf[c] \in Nat /\ GroupOf[c] > 0
    /\ \A S \in SUBSET Groups : S \in SUBSET Nat /\ IsFiniteSet(S) /\ Cardinality(S) \in Nat
    /\ \A g \in Groups : FlowOf[g] \in Flows
    /\ \A c \in Convs : UsersOf[c] \in SUBSET Users
    /\ \A s : Limit(s) \in Nat \ {0}
<1>1. \A c \in Convs : GroupOf[c] \in Groups /\ GroupOf[c] \in Nat /\ GroupOf[c] # 0
  BY ContentsAssumption DEF Groups
<1>2. \A c \in Convs : GroupOf[c] \in Groups /\ GroupOf[c] \in Nat /\ GroupOf[c] > 0
  BY <1>1
<1>3. \A S \in SUBSET Groups : S \in SUBSET Nat
  BY <1>1 DEF Groups
<1>4. IsFiniteSet(Groups)
  <2>1. GroupOf \in Surjection(Convs, Groups)
    BY ContentsAssumption DEF Surjection, Groups
  <2> QED
    BY <2>1, FS_Surjection, ContentsAssumption
<1>5. \A S \in SUBSET Groups : IsFiniteSet(S) /\ Cardinality(S) \in Nat
  BY <1>4, FS_Subset, FS_CardinalityType
<1>6. \A g \in Groups : FlowOf[g] \in Flows
  BY DEF Flows
<1>7. \A c \in Convs : UsersOf[c] \in SUBSET Users
  BY DEF Users
<1>8. \A s : Limit(s) \in Nat \ {0}
  BY ContentsAssumption DEF Limit
<1> QED
  BY <1>2, <1>3, <1>5, <1>6, <1>7, <1>8

LEMMA SavedFacts ==
    ASSUME TypeOK
    PROVE  \A s \in ContentSteps :
              /\ rows[s] \in StepRow(Groups) /\ Saved(s) = SavedIn(rows[s])
              /\ Saved(s) \in Groups \cup {0} /\ Saved(s) \in Nat
<1>1. \A s \in ContentSteps : /\ rows[s] \in StepRow(Groups) /\ Saved(s) = SavedIn(rows[s])
                              /\ Saved(s) \in Groups \cup {0}
  BY RowFacts DEF TypeOK, Saved, SavedIn
<1>2. \A g \in Groups : g \in Nat
  BY GroupFacts
<1> QED
  BY <1>1, <1>2

--------------------------------------------------------------------------------

LEMMA InitIsSafe == Init => IInv
<1> SUFFICES ASSUME Init
             PROVE  IInv
  OBVIOUS
<1>1. \A s \in ContentSteps : /\ rows[s] = AbsentRow /\ rows[s].status = "absent"
                              /\ rows[s].cursor = NoCursor /\ Saved(s) = 0
                              /\ ~IsCompleted(rows[s])
  BY DEF Init, AbsentRow, Saved, GetCursorProgress, IsCompleted
<1>2. TypeOK
  <2>1. AbsentRow \in StepRow(Groups)
    BY DEF AbsentRow, StepRow, Statuses
  <2> QED
    BY <2>1 DEF Init, TypeOK, ContentSteps, Mapped
<1>3. \A s \in ContentSteps, c \in Convs : ~Passed(s, GroupOf[c])
  BY <1>1, GroupFacts DEF Passed
<1>4. RowsInOrder
  BY <1>1 DEF Init, RowsInOrder, ContentSteps
<1>5. WrittenBehind /\ FilledOnce
  BY DEF Init, WrittenBehind, FilledOnce
<1>6. ServedBehind
  BY <1>3 DEF Init, ServedBehind, ContentSteps, Mapped
<1> QED
  BY <1>2, <1>4, <1>5, <1>6 DEF Init, IInv, DbInv, InStep, PageIsNext

\* What a write to the row of the running step changes, unless it completes it.
LEMMA RowWritten ==
    ASSUME TypeOK, InStep, RowsInOrder, pc # "off",
           NEW r \in StepRow(Groups), r.status \in {"absent", "in_progress", "failed"},
           r.status = "absent" => r.cursor = NoCursor,
           rows' = [rows EXCEPT ![step] = r]
    PROVE  /\ rows' \in [ContentSteps -> StepRow(Groups)]
           /\ \A s \in ContentSteps : rows'[s] = IF s = step THEN r ELSE rows[s]
           /\ \A s \in ContentSteps, g \in Groups :
                 Passed(s, g)' <=> IF s = step THEN g <= SavedIn(r) ELSE Passed(s, g)
           /\ IsCompleted(rows'["members"]) <=> IsCompleted(rows["members"])
           /\ \A s \in ContentSteps :
                 rows'[s].status \in {"absent", "completed"} => rows'[s].cursor = NoCursor
           /\ rows'["messages"].status # "absent" => IsCompleted(rows'["members"])
<1>1. /\ rows' \in [ContentSteps -> StepRow(Groups)] /\ step \in ContentSteps
      /\ \A s \in ContentSteps : rows'[s] = IF s = step THEN r ELSE rows[s]
  BY DEF TypeOK
<1>2. ~IsCompleted(r) /\ ~IsCompleted(rows[step])
  BY DEF IsCompleted, InStep
<1>3. IsCompleted(rows'["members"]) <=> IsCompleted(rows["members"])
  BY <1>1, <1>2 DEF ContentSteps
<1>4. rows'["messages"].status # "absent" => IsCompleted(rows'["members"])
  <2>1. step = "messages" => IsCompleted(rows["members"])
    BY DEF InStep
  <2>2. step # "messages" => rows'["messages"] = rows["messages"]
    BY <1>1 DEF ContentSteps
  <2> QED
    BY <1>3, <2>1, <2>2 DEF RowsInOrder
<1>5. \A s \in ContentSteps :
         rows'[s].status \in {"absent", "completed"} => rows'[s].cursor = NoCursor
  BY <1>1 DEF RowsInOrder
<1>6. \A s \in ContentSteps, g \in Groups :
         Passed(s, g)' <=> IF s = step THEN g <= SavedIn(r) ELSE Passed(s, g)
  BY <1>1, <1>2 DEF Passed, Saved, SavedIn
<1> QED
  BY <1>1, <1>3, <1>4, <1>5, <1>6

LEMMA RunningIsOpen ==
    ASSUME TypeOK, InStep, RowsInOrder, pc # "off"
    PROVE  /\ step \in ContentSteps /\ rows[step] \in StepRow(Groups)
           /\ rows[step].status \in {"absent", "in_progress", "failed"}
           /\ rows[step].status = "absent" => rows[step].cursor = NoCursor
           /\ \A g \in Groups : Passed(step, g) <=> g <= cursor
           /\ SavedIn(rows[step]) = cursor
           /\ cursor \in Nat
<1>1. step \in ContentSteps /\ rows[step] \in StepRow(Groups) /\ ~IsCompleted(rows[step])
  BY DEF TypeOK, InStep
<1>2. rows[step].status \in {"absent", "in_progress", "failed"}
  BY <1>1 DEF IsCompleted, StepRow, Statuses
<1>3. rows[step].status = "absent" => rows[step].cursor = NoCursor
  BY <1>1 DEF RowsInOrder
<1>4. cursor = Saved(step) /\ SavedIn(rows[step]) = Saved(step) /\ cursor \in Nat
  BY <1>1, SavedFacts DEF InStep
<1>5. \A g \in Groups : Passed(step, g) <=> g <= cursor
  BY <1>1, <1>4 DEF Passed
<1> QED
  BY <1>1, <1>2, <1>3, <1>4, <1>5

LEMMA SameDatabase ==
    ASSUME IInv, UNCHANGED <<env, closed, rows, chat>>
    PROVE  /\ DbInv'
           /\ \A s \in ContentSteps, g \in Groups : Passed(s, g)' = Passed(s, g)
           /\ \A s \in ContentSteps : Saved(s)' = Saved(s)
           /\ \A c \in Convs : HasMembers(c)' = HasMembers(c)
<1>1. /\ \A s \in ContentSteps, g \in Groups : Passed(s, g)' = Passed(s, g)
      /\ \A s \in ContentSteps : Saved(s)' = Saved(s)
  BY DEF Passed, Saved
<1>2. \A c \in Convs : HasMembers(c)' = HasMembers(c)
  BY DEF HasMembers, chat
<1>3. RowsInOrder' /\ FilledOnce' /\ Mapped' = Mapped
  BY DEF IInv, DbInv, RowsInOrder, FilledOnce, chat, Mapped
<1>4. WrittenBehind'
  BY <1>1, GroupFacts DEF IInv, DbInv, WrittenBehind, ContentSteps, chat
<1>5. ServedBehind'
  BY <1>1, <1>2, <1>3, GroupFacts DEF IInv, DbInv, ServedBehind, ContentSteps, chat, Mapped
<1> QED
  BY <1>1, <1>2, <1>3, <1>4, <1>5 DEF DbInv

LEMMA AtRest ==
    ASSUME TypeOK, Die
    PROVE  /\ InStep' /\ PageIsNext'
           /\ step' \in ContentSteps /\ pc' \in {"off", "fetch", "commit", "done"}
           /\ cursor' \in Groups \cup {0} /\ batch' \in SUBSET Convs
BY DEF TypeOK, Die, InStep, PageIsNext

\* A run that stops, or fails, without a page leaves the database in order.
LEMMA StopIsSafe ==
    ASSUME IInv, pc # "off", Fail(rows[step]), UNCHANGED <<env, closed, chat>>
    PROVE  DbInv' /\ rows' \in [ContentSteps -> StepRow(Groups)]
<1> DEFINE old == rows[step]
           r == IF rows' = [rows EXCEPT ![step] = old] THEN old ELSE MarkStepFailed(old, 0)
<1>1. /\ TypeOK /\ RowsInOrder /\ InStep /\ WrittenBehind /\ ServedBehind /\ FilledOnce
  BY DEF IInv, DbInv
<1>2. /\ old \in StepRow(Groups) /\ step \in ContentSteps /\ ~IsCompleted(old)
      /\ old.status \in {"absent", "in_progress", "failed"}
      /\ old.status = "absent" => old.cursor = NoCursor
      /\ SavedIn(old) = cursor
      /\ \A g \in Groups : Passed(step, g) <=> g <= cursor
  BY <1>1, RunningIsOpen DEF IsCompleted
<1>3. rows' = [rows EXCEPT ![step] = r]
  BY DEF Fail
<1>4. /\ r \in StepRow(Groups) /\ r.status \in {"absent", "in_progress", "failed"}
      /\ r.status = "absent" => r.cursor = NoCursor
      /\ SavedIn(r) = cursor
  BY <1>2, FailedRow
<1> HIDE DEF r, old
<1>5. /\ rows' \in [ContentSteps -> StepRow(Groups)]
      /\ \A s \in ContentSteps, g \in Groups : Passed(s, g)' <=> Passed(s, g)
      /\ IsCompleted(rows'["members"]) <=> IsCompleted(rows["members"])
      /\ \A s \in ContentSteps :
            rows'[s].status \in {"absent", "completed"} => rows'[s].cursor = NoCursor
      /\ rows'["messages"].status # "absent" => IsCompleted(rows'["members"])
  BY <1>1, <1>2, <1>3, <1>4, RowWritten
<1>6. RowsInOrder' /\ FilledOnce'
  BY <1>1, <1>5 DEF RowsInOrder, FilledOnce, chat
<1>7. WrittenBehind'
  BY <1>1, <1>5, GroupFacts DEF WrittenBehind, ContentSteps, chat
<1>8. ServedBehind'
  <2>1. \A c \in Convs : HasMembers(c)' = HasMembers(c)
    BY DEF HasMembers, chat
  <2>2. Mapped' = Mapped /\ Mapped \in SUBSET Convs
    BY DEF Mapped
  <2> QED
    BY <1>1, <1>5, <2>1, <2>2, GroupFacts DEF ServedBehind, ContentSteps, chat
<1> QED
  BY <1>5, <1>6, <1>7, <1>8 DEF DbInv
--------------------------------------------------------------------------------

LEMMA PageFacts ==
    ASSUME TypeOK, InStep, RowsInOrder, pc # "off"
    PROVE  /\ PageGroups \in SUBSET Groups /\ IsFiniteSet(PageGroups)
           /\ Cardinality(PageGroups) \in Nat
           /\ \A c \in batch : c \in Convs /\ GroupOf[c] \in PageGroups
           /\ \A g \in PageGroups : g \in Nat /\ g > cursor /\ ~Passed(step, g)
           /\ \A g \in PageGroups : \E c \in batch : GroupOf[c] = g
<1>1. batch \in SUBSET Convs
  BY DEF TypeOK
<1>2. PageGroups \in SUBSET Groups
  BY <1>1, GroupFacts DEF PageGroups
<1>3. \A c \in batch : c \in Convs /\ GroupOf[c] \in PageGroups
  BY <1>1 DEF PageGroups
<1>4. \A g \in PageGroups : \E c \in batch : GroupOf[c] = g
  BY DEF PageGroups
<1>5. \A g \in PageGroups : g \in Groups /\ g \in Nat /\ g > cursor
  BY <1>2, <1>4, GroupFacts DEF InStep
<1>6. \A g \in PageGroups : ~Passed(step, g)
  BY <1>5, RunningIsOpen
<1> QED
  BY <1>2, <1>3, <1>4, <1>5, <1>6, GroupFacts

\* The conversations with a thread up to the last group of a page are behind the
\* cursor or on the page.
LEMMA PageCovers ==
    ASSUME IInv, pc = "commit", NEW last \in PageGroups, NEW c \in Mapped, GroupOf[c] <= last
    PROVE  Passed(step, GroupOf[c]) \/ c \in batch
<1>1. TypeOK /\ InStep /\ RowsInOrder /\ PageIsNext
  BY DEF IInv, DbInv
<1>2. c \in Convs /\ GroupOf[c] \in Groups /\ GroupOf[c] \in Nat
  BY GroupFacts DEF Mapped
<1>3. last \in Nat /\ cursor \in Nat
  BY <1>1, PageFacts, RunningIsOpen
<1>4. CASE GroupOf[c] <= cursor
  BY <1>1, <1>2, <1>4, RunningIsOpen
<1>5. CASE ~(GroupOf[c] <= cursor) /\ c \notin batch
  <2>1. PICK b \in batch : GroupOf[b] = last
    BY <1>1, PageFacts
  <2>2. GroupOf[c] > cursor
    BY <1>2, <1>3, <1>5
  <2>3. last < GroupOf[c]
    BY <1>1, <1>5, <2>1, <2>2 DEF PageIsNext
  <2> QED
    BY <1>2, <1>3, <2>3
<1> QED
  BY <1>4, <1>5

LEMMA MembersWritten ==
    ASSUME IInv, pc = "commit", step = "members", WriteMembers
    PROVE  /\ owners' \in [Groups -> Nat] /\ dialogs' \in [Groups -> [Users -> Nat]]
           /\ contacts' \in SUBSET (Flows \cup Users) /\ copied' = copied
           /\ FilledOnce'
           /\ \A g \in Groups : owners'[g] > 0 => owners[g] > 0 \/ g \in PageGroups
           /\ \A g \in Groups, u \in Users :
                 dialogs'[g][u] > 0 => dialogs[g][u] > 0 \/ g \in PageGroups
           /\ \A c \in Mapped : HasMembers(c) => HasMembers(c)'
           /\ \A c \in batch : GroupOf[c] \notin env.orphans => HasMembers(c)'
<1>1. /\ TypeOK /\ InStep /\ RowsInOrder /\ FilledOnce /\ WrittenBehind
      /\ owners \in [Groups -> Nat] /\ dialogs \in [Groups -> [Users -> Nat]]
      /\ batch \in SUBSET Convs /\ contacts \in SUBSET (Flows \cup Users)
  BY DEF IInv, DbInv, TypeOK
<1>2. /\ Served \in SUBSET batch
      /\ \A c \in batch : GroupOf[c] \notin env.orphans => c \in Served
  BY DEF Served
<1>3. /\ owners' = [g \in Groups |->
                       IF \E c \in Served : GroupOf[c] = g THEN owners[g] + 1 ELSE owners[g]]
      /\ dialogs' = [g \in Groups |-> [u \in Users |->
                        IF \E c \in Served : GroupOf[c] = g /\ u \in UsersOf[c]
                        THEN dialogs[g][u] + 1 ELSE dialogs[g][u]]]
      /\ contacts' = contacts \cup RestoredBots \cup RestoredUsers
      /\ copied' = copied
  BY DEF WriteMembers
<1>4. \A c \in Served : c \in batch /\ c \in Convs /\ GroupOf[c] \in PageGroups
  BY <1>1, <1>2, PageFacts
<1>5. \A g \in Groups : /\ owners[g] \in Nat
                        /\ owners'[g] = owners[g] \/ (g \in PageGroups /\ owners'[g] = owners[g] + 1)
  BY <1>1, <1>3, <1>4
<1>6. \A g \in Groups, u \in Users :
         /\ dialogs[g][u] \in Nat
         /\ \/ dialogs'[g][u] = dialogs[g][u]
            \/ g \in PageGroups /\ dialogs'[g][u] = dialogs[g][u] + 1
  BY <1>1, <1>3, <1>4
<1>7. owners' \in [Groups -> Nat] /\ dialogs' \in [Groups -> [Users -> Nat]]
  <2>1. \A g \in Groups, u \in Users : dialogs[g][u] + 1 \in Nat /\ dialogs[g][u] \in Nat
    BY <1>6
  <2>2. \A g \in Groups : owners[g] + 1 \in Nat /\ owners[g] \in Nat
    BY <1>5
  <2>3. dialogs' \in [Groups -> [Users -> Nat]]
    BY <1>3, <2>1
  <2> QED
    BY <1>3, <2>2, <2>3
<1>8. contacts' \in SUBSET (Flows \cup Users)
  BY <1>1, <1>3, <1>4, GroupFacts DEF RestoredBots, RestoredUsers
<1>9. \A g \in PageGroups : /\ g \in Groups /\ owners[g] = 0
                            /\ \A u \in Users : dialogs[g][u] = 0
  <2> SUFFICES ASSUME NEW g \in PageGroups
               PROVE  g \in Groups /\ owners[g] = 0 /\ \A u \in Users : dialogs[g][u] = 0
    OBVIOUS
  <2>1. g \in Groups /\ ~Passed("members", g)
    BY <1>1, PageFacts
  <2>2. ~(owners[g] > 0) /\ \A u \in Users : ~(dialogs[g][u] > 0)
    BY <1>1, <2>1 DEF WrittenBehind
  <2> QED
    BY <1>5, <1>6, <2>1, <2>2
<1>10. FilledOnce'
  <2>1. \A g \in Groups : owners'[g] <= 1
    BY <1>1, <1>5, <1>9 DEF FilledOnce
  <2>2. \A g \in Groups, u \in Users : dialogs'[g][u] <= 1
    BY <1>1, <1>6, <1>9 DEF FilledOnce
  <2> QED
    BY <1>1, <1>3, <2>1, <2>2 DEF FilledOnce
<1>11. \A c \in Mapped : HasMembers(c) => HasMembers(c)'
  <2> SUFFICES ASSUME NEW c \in Mapped, HasMembers(c)
               PROVE  HasMembers(c)'
    OBVIOUS
  <2>1. GroupOf[c] \in Groups /\ UsersOf[c] \in SUBSET Users
    BY GroupFacts DEF Mapped
  <2>2. owners'[GroupOf[c]] > 0
    BY <1>5, <2>1 DEF HasMembers
  <2>3. \A u \in UsersOf[c] : dialogs'[GroupOf[c]][u] > 0
    BY <1>6, <2>1 DEF HasMembers
  <2> QED
    BY <1>3, <2>2, <2>3 DEF HasMembers
<1>12. \A c \in batch : GroupOf[c] \notin env.orphans => HasMembers(c)'
  <2> SUFFICES ASSUME NEW c \in Served
               PROVE  HasMembers(c)'
    BY <1>2
  <2>1. GroupOf[c] \in Groups /\ UsersOf[c] \in SUBSET Users
    BY <1>4, GroupFacts
  <2>2. owners'[GroupOf[c]] > 0
    <3>1. owners'[GroupOf[c]] = owners[GroupOf[c]] + 1
      BY <1>3, <2>1
    <3> QED
      BY <1>5, <2>1, <3>1
  <2>3. \A u \in UsersOf[c] : dialogs'[GroupOf[c]][u] > 0
    <3>1. \A u \in UsersOf[c] : dialogs'[GroupOf[c]][u] = dialogs[GroupOf[c]][u] + 1
      BY <1>3, <2>1
    <3> QED
      BY <1>6, <2>1, <3>1
  <2>4. FlowOf[GroupOf[c]] \in contacts' /\ UsersOf[c] \in SUBSET contacts'
    BY <1>3 DEF RestoredBots, RestoredUsers
  <2> QED
    BY <2>2, <2>3, <2>4 DEF HasMembers
<1>13. \A g \in Groups : owners'[g] > 0 => owners[g] > 0 \/ g \in PageGroups
  BY <1>5
<1>14. \A g \in Groups, u \in Users : dialogs'[g][u] > 0 => dialogs[g][u] > 0 \/ g \in PageGroups
  BY <1>6
<1> QED
  BY <1>3, <1>7, <1>8, <1>10, <1>11, <1>12, <1>13, <1>14

\* A committed page of members, with the row that goes with it, leaves the database in
\* order, and every conversation up to its last group has its members.
LEMMA MembersPageIsSafe ==
    ASSUME IInv, pc = "commit", step = "members", WriteMembers, UNCHANGED <<env, closed>>,
           NEW last \in PageGroups, IsLargest(last, PageGroups),
           NEW r \in StepRow(Groups), r.status \in {"in_progress", "failed"}, SavedIn(r) = last,
           rows' = [rows EXCEPT ![step] = r]
    PROVE  /\ DbInv' /\ rows' \in [ContentSteps -> StepRow(Groups)]
           /\ \A c \in Mapped : GroupOf[c] \notin env.orphans /\ GroupOf[c] <= last => HasMembers(c)'
<1>1. /\ TypeOK /\ RowsInOrder /\ InStep /\ WrittenBehind /\ ServedBehind
      /\ \A c \in Mapped : c \in Convs
  BY DEF IInv, DbInv, Mapped
<1>2. /\ rows' \in [ContentSteps -> StepRow(Groups)]
      /\ \A g \in Groups : Passed("members", g)' <=> g <= last
      /\ \A g \in Groups : Passed("messages", g)' <=> Passed("messages", g)
      /\ IsCompleted(rows'["members"]) <=> IsCompleted(rows["members"])
      /\ \A s \in ContentSteps :
            rows'[s].status \in {"absent", "completed"} => rows'[s].cursor = NoCursor
      /\ rows'["messages"].status # "absent" => IsCompleted(rows'["members"])
  BY <1>1, RowWritten DEF ContentSteps
<1>3. /\ owners' \in [Groups -> Nat] /\ FilledOnce' /\ copied' = copied
      /\ \A g \in Groups : owners'[g] > 0 => owners[g] > 0 \/ g \in PageGroups
      /\ \A g \in Groups, u \in Users :
            dialogs'[g][u] > 0 => dialogs[g][u] > 0 \/ g \in PageGroups
      /\ \A c \in Mapped : HasMembers(c) => HasMembers(c)'
      /\ \A c \in batch : GroupOf[c] \notin env.orphans => HasMembers(c)'
  BY MembersWritten
<1>4. \A g \in Groups : Passed("members", g) \/ g \in PageGroups => g <= last
  <2>1. \A g \in PageGroups : g <= last
    BY DEF IsLargest
  <2>2. \A g \in Groups : g \in Nat /\ (Passed("members", g) => g <= cursor)
    BY <1>1, GroupFacts, RunningIsOpen
  <2>3. cursor < last /\ cursor \in Nat /\ last \in Nat
    BY <1>1, PageFacts, RunningIsOpen
  <2> QED
    BY <2>1, <2>2, <2>3
<1>5. RowsInOrder'
  BY <1>1, <1>2, <1>3 DEF RowsInOrder
<1>6. WrittenBehind'
  <2>1. \A g \in Groups : owners'[g] > 0 => Passed("members", g)'
    BY <1>1, <1>2, <1>3, <1>4 DEF WrittenBehind
  <2>2. \A g \in Groups, u \in Users : dialogs'[g][u] > 0 => Passed("members", g)'
    BY <1>1, <1>2, <1>3, <1>4 DEF WrittenBehind
  <2>3. \A c \in Convs : copied'[c] > 0 => Passed("messages", GroupOf[c])'
    BY <1>1, <1>2, <1>3, GroupFacts DEF WrittenBehind
  <2> QED
    BY <2>1, <2>2, <2>3 DEF WrittenBehind
<1>7. ASSUME NEW c \in Mapped, GroupOf[c] \notin env.orphans, GroupOf[c] <= last
      PROVE  HasMembers(c)'
  <2>1. CASE c \in batch
    BY <1>3, <1>7, <2>1
  <2>2. CASE Passed("members", GroupOf[c])
    BY <1>1, <1>3, <1>7, <2>2 DEF ServedBehind
  <2> QED
    BY <1>7, <2>1, <2>2, PageCovers
<1>8. ServedBehind'
  <2>1. Mapped' = Mapped
    BY DEF Mapped
  <2>2. \A c \in Mapped :
           GroupOf[c] \notin env.orphans /\ Passed("members", GroupOf[c])' => HasMembers(c)'
    BY <1>1, <1>2, <1>7, GroupFacts
  <2>3. env.late = {} => \A c \in Convs : Passed("messages", GroupOf[c])' => copied'[c] > 0
    BY <1>1, <1>2, <1>3, GroupFacts DEF ServedBehind
  <2> QED
    BY <1>1, <2>1, <2>2, <2>3 DEF ServedBehind
<1> QED
  BY <1>2, <1>3, <1>5, <1>6, <1>7, <1>8 DEF DbInv

LEMMA MessagesWritten ==
    ASSUME IInv, pc = "commit", step = "messages", WriteMessages
    PROVE  /\ copied' \in [Convs -> Nat] /\ UNCHANGED <<owners, dialogs, contacts>>
           /\ FilledOnce'
           /\ \A c \in Convs : copied'[c] > 0 <=> copied[c] > 0 \/ c \in batch
<1>1. /\ TypeOK /\ InStep /\ RowsInOrder /\ FilledOnce /\ WrittenBehind
      /\ copied \in [Convs -> Nat]
  BY DEF IInv, DbInv, TypeOK
<1>2. /\ copied' = [c \in Convs |-> IF c \in batch THEN copied[c] + 1 ELSE copied[c]]
      /\ UNCHANGED <<owners, dialogs, contacts>>
  BY DEF WriteMessages
<1>3. \A c \in batch : c \in Convs /\ copied[c] = 0
  <2> SUFFICES ASSUME NEW c \in batch
               PROVE  c \in Convs /\ copied[c] = 0
    OBVIOUS
  <2>1. c \in Convs /\ ~Passed("messages", GroupOf[c])
    BY <1>1, PageFacts
  <2>2. copied[c] \in Nat /\ ~(copied[c] > 0)
    BY <1>1, <2>1 DEF WrittenBehind
  <2> QED
    BY <2>1, <2>2
<1>4. copied' \in [Convs -> Nat]
  BY <1>1, <1>2
<1>5. \A c \in Convs : copied'[c] <= 1
  BY <1>1, <1>2, <1>3 DEF FilledOnce
<1>6. \A c \in Convs : copied'[c] > 0 <=> copied[c] > 0 \/ c \in batch
  BY <1>1, <1>2
<1> QED
  BY <1>1, <1>2, <1>4, <1>5, <1>6 DEF FilledOnce

\* A committed page of messages, with the row that goes with it, leaves the database in
\* order, and if none closed late every conversation up to its last group is copied.
LEMMA MessagesPageIsSafe ==
    ASSUME IInv, pc = "commit", step = "messages", WriteMessages, UNCHANGED <<env, closed>>,
           NEW last \in PageGroups, IsLargest(last, PageGroups),
           NEW r \in StepRow(Groups), r.status \in {"in_progress", "failed"}, SavedIn(r) = last,
           rows' = [rows EXCEPT ![step] = r]
    PROVE  /\ DbInv' /\ rows' \in [ContentSteps -> StepRow(Groups)]
           /\ env.late = {} => \A c \in Convs : GroupOf[c] <= last => copied'[c] > 0
<1>1. /\ TypeOK /\ RowsInOrder /\ InStep /\ WrittenBehind /\ ServedBehind
      /\ \A c \in Mapped : c \in Convs
  BY DEF IInv, DbInv, Mapped
<1>2. /\ rows' \in [ContentSteps -> StepRow(Groups)]
      /\ \A g \in Groups : Passed("messages", g)' <=> g <= last
      /\ \A g \in Groups : Passed("members", g)' <=> Passed("members", g)
      /\ IsCompleted(rows'["members"]) <=> IsCompleted(rows["members"])
      /\ \A s \in ContentSteps :
            rows'[s].status \in {"absent", "completed"} => rows'[s].cursor = NoCursor
      /\ rows'["messages"].status # "absent" => IsCompleted(rows'["members"])
  BY <1>1, RowWritten DEF ContentSteps
<1>3. /\ FilledOnce' /\ UNCHANGED <<owners, dialogs, contacts>>
      /\ \A c \in Convs : copied'[c] > 0 <=> copied[c] > 0 \/ c \in batch
  BY MessagesWritten
<1>4. \A g \in Groups : Passed("messages", g) \/ g \in PageGroups => g <= last
  <2>1. \A g \in PageGroups : g <= last
    BY DEF IsLargest
  <2>2. \A g \in Groups : g \in Nat /\ (Passed("messages", g) => g <= cursor)
    BY <1>1, GroupFacts, RunningIsOpen
  <2>3. cursor < last /\ cursor \in Nat /\ last \in Nat
    BY <1>1, PageFacts, RunningIsOpen
  <2> QED
    BY <2>1, <2>2, <2>3
<1>5. RowsInOrder'
  <2>1. IsCompleted(rows'["members"])
    BY <1>1, <1>2 DEF InStep
  <2> QED
    BY <1>2, <2>1 DEF RowsInOrder
<1>6. WrittenBehind'
  <2>1. \A c \in Convs : copied'[c] > 0 => Passed("messages", GroupOf[c])'
    <3>1. \A c \in batch : GroupOf[c] \in PageGroups
      BY <1>1, PageFacts
    <3> QED
      BY <1>1, <1>2, <1>3, <1>4, <3>1, GroupFacts DEF WrittenBehind
  <2> QED
    BY <1>1, <1>2, <1>3, <2>1 DEF WrittenBehind
<1>7. ASSUME env.late = {}, NEW c \in Convs, GroupOf[c] <= last
      PROVE  copied'[c] > 0
  <2>1. c \in Mapped
    BY <1>7 DEF Mapped
  <2>2. CASE c \in batch
    BY <1>3, <2>2
  <2>3. CASE Passed("messages", GroupOf[c])
    BY <1>1, <1>3, <1>7, <2>3 DEF ServedBehind
  <2> QED
    BY <1>7, <2>1, <2>2, <2>3, PageCovers
<1>8. ServedBehind'
  <2>1. Mapped' = Mapped /\ \A c \in Convs : HasMembers(c)' = HasMembers(c)
    BY <1>3 DEF Mapped, HasMembers
  <2>2. env.late = {} => \A c \in Convs : Passed("messages", GroupOf[c])' => copied'[c] > 0
    BY <1>2, <1>7, GroupFacts
  <2> QED
    BY <1>1, <1>2, <2>1, <2>2, GroupFacts DEF ServedBehind
<1> QED
  BY <1>2, <1>3, <1>5, <1>6, <1>7, <1>8 DEF DbInv
--------------------------------------------------------------------------------

LEMMA LaunchIsSafe ==
    ASSUME IInv, Launch
    PROVE  IInv'
<1>1. TypeOK /\ InStep
  BY DEF IInv
<1>2. PICK s \in ContentSteps : /\ ~IsCompleted(rows[s])
                                /\ s = "messages" => IsCompleted(rows["members"])
                                /\ step' = s /\ cursor' = Saved(s)
  BY DEF Launch, Saved
<1>3. /\ UNCHANGED <<env, closed, rows, chat, batch>> /\ pc = "off" /\ pc' = "fetch"
      /\ batch' = {}
  BY <1>1 DEF Launch, InStep
<1>4. DbInv' /\ Saved(s)' = Saved(s)
  BY <1>2, <1>3, SameDatabase
<1>5. TypeOK'
  BY <1>1, <1>2, <1>3, SavedFacts DEF TypeOK, chat
<1>6. InStep'
  BY <1>2, <1>3, <1>4 DEF InStep
<1> QED
  BY <1>3, <1>4, <1>5, <1>6 DEF IInv, PageIsNext

\* The groups that are left are read in order.  A conversation with a thread that is on
\* the page stays there when the groups without one are dropped.
LEMMA FetchIsSafe ==
    ASSUME IInv, NEW s \in ContentSteps, Fetch(s)
    PROVE  IInv'
<1> DEFINE first == FirstGroups(Limit(s))
           page == {c \in Found : GroupOf[c] \in first}
           whole == s = "members" \/ env.late = {}
<1>1. TypeOK /\ InStep /\ ServedBehind /\ Mapped \in SUBSET closed
  BY DEF IInv, DbInv, ServedBehind
<1>2. /\ UNCHANGED <<env, closed, rows, chat, step, cursor>> /\ pc = "fetch" /\ step = s
      /\ batch' = {c \in page : GroupOf[c] \in Kept(s, page)}
      /\ pc' = IF batch' = {} THEN "done" ELSE "commit"
  BY DEF Fetch
<1>3. /\ DbInv' /\ Mapped' = Mapped
      /\ \A c \in Convs : HasMembers(c)' = HasMembers(c)
      /\ \A t \in ContentSteps : Saved(t)' = Saved(t)
  BY <1>2, SameDatabase DEF Mapped
<1>4. /\ Found \in SUBSET Convs /\ Found \in SUBSET closed /\ FoundGroups \in SUBSET Groups
      /\ \A c \in Found : GroupOf[c] \in FoundGroups
      /\ \A g \in FoundGroups : \E c \in Found : GroupOf[c] = g
  BY <1>1, GroupFacts DEF TypeOK, Found, FoundGroups
<1>5. /\ first \in SUBSET FoundGroups
      /\ \A g \in FoundGroups \ first : (\A h \in first : h < g) /\ Cardinality(first) >= Limit(s)
      /\ FoundGroups # {} => first # {}
  <2>1. FoundGroups \in SUBSET Nat /\ IsFiniteSet(FoundGroups) /\ Limit(s) \in Nat \ {0}
    BY <1>4, GroupFacts
  <2>2. first = FirstOf(Limit(s), FoundGroups)
    BY DEF FirstGroups, FirstOf, Rank
  <2> HIDE DEF first
  <2> QED
    BY <2>1, <2>2, FirstPage
<1> HIDE DEF first
<1>6. batch' \in SUBSET page /\ \A c \in page \cap Mapped : c \in batch'
  BY <1>2 DEF Kept
<1>7. whole => batch' = page /\ PageGroups' = first
  <2> SUFFICES ASSUME whole
               PROVE  batch' = page /\ PageGroups' = first
    OBVIOUS
  <2>1. s # "messages" \/ page \in SUBSET Mapped
    BY <1>2, <1>4 DEF Mapped, ContentSteps
  <2>2. batch' = page
    BY <1>2, <2>1 DEF Kept
  <2>3. PageGroups' = {GroupOf[c] : c \in page}
    BY <2>2 DEF PageGroups
  <2> QED
    BY <1>4, <1>5, <2>2, <2>3
<1>8. TypeOK'
  BY <1>1, <1>2, <1>4, <1>6 DEF TypeOK, chat
<1>9. InStep'
  <2>1. \A c \in batch' : GroupOf[c] > cursor
    BY <1>6 DEF Found
  <2>2. /\ ~IsCompleted(rows[step]) /\ cursor = Saved(step)
        /\ step = "messages" => IsCompleted(rows["members"])
    BY <1>1, <1>2 DEF InStep
  <2> QED
    BY <1>1, <1>2, <1>3, <2>1, <2>2 DEF InStep, TypeOK
<1>10. ASSUME NEW c \in Mapped \ batch', GroupOf[c] > cursor
       PROVE  /\ \A b \in batch' : GroupOf[b] < GroupOf[c]
              /\ whole => Cardinality(first) >= Limit(s)
  <2>1. c \in Found
    BY <1>1, <1>10 DEF Found
  <2>2. GroupOf[c] \in FoundGroups \ first
    BY <1>4, <1>6, <2>1
  <2>3. \A b \in batch' : GroupOf[b] \in first
    BY <1>6
  <2> QED
    BY <1>5, <2>2, <2>3
<1>11. ASSUME batch' = {}, whole
       PROVE  IF s = "members" THEN \A c \in Mapped : GroupOf[c] \notin env.orphans => HasMembers(c)
                               ELSE \A c \in Convs : copied[c] > 0
  <2>1. Found = {}
    BY <1>4, <1>5, <1>7, <1>11
  <2>2. \A c \in Mapped : c \in Convs /\ Passed(s, GroupOf[c])
    <3> SUFFICES ASSUME NEW c \in Mapped
                 PROVE  c \in Convs /\ Passed(s, GroupOf[c])
      OBVIOUS
    <3>1. c \in Convs /\ GroupOf[c] \in Nat
      BY GroupFacts DEF Mapped
    <3>2. ~(GroupOf[c] > cursor)
      BY <1>1, <2>1 DEF Found
    <3>3. cursor = Saved(s) /\ cursor \in Nat
      BY <1>1, <1>2, SavedFacts DEF InStep
    <3> QED
      BY <3>1, <3>2, <3>3 DEF Passed
  <2>3. CASE s = "members"
    BY <1>1, <2>2, <2>3 DEF ServedBehind
  <2>4. CASE s # "members"
    <3>1. s = "messages" /\ env.late = {} /\ Mapped = Convs
      BY <1>11, <2>4 DEF ContentSteps, Mapped
    <3> QED
      BY <1>1, <2>2, <3>1 DEF ServedBehind
  <2> QED
    BY <2>3, <2>4
<1>12. PageIsNext'
  <2>1. /\ step' = s /\ env' = env /\ cursor' = cursor /\ copied' = copied
        /\ (step' = "members" \/ env'.late = {}) = whole
    BY <1>2 DEF chat
  <2>2. \A c \in Mapped : c \in Convs
    BY DEF Mapped
  <2>3. CASE batch' = {}
    <3>1. pc' = "done"
      BY <1>2, <2>3
    <3> QED
      BY <1>3, <1>11, <2>1, <2>2, <2>3, <3>1 DEF PageIsNext
  <2>4. CASE batch' # {}
    <3>1. pc' = "commit"
      BY <1>2, <2>4
    <3>2. Limit(s)' = Limit(s)
      BY DEF Limit
    <3>3. \A c \in Mapped \ batch' : GroupOf[c] > cursor =>
             /\ \A b \in batch' : GroupOf[b] < GroupOf[c]
             /\ whole => Cardinality(PageGroups') >= Limit(s)
      BY <1>7, <1>10
    <3> QED
      BY <1>3, <2>1, <3>1, <3>3 DEF PageIsNext
  <2> QED
    BY <2>3, <2>4
<1> QED
  BY <1>3, <1>8, <1>9, <1>12 DEF IInv

LEMMA CloseIsSafe ==
    ASSUME IInv, NEW c \in Convs, LegacyClose(c)
    PROVE  IInv'
<1>1. UNCHANGED <<env, rows, chat, step, pc, cursor, batch>> /\ closed' = closed \cup {c}
  BY DEF LegacyClose, process
<1>2. /\ \A s \in ContentSteps, g \in Groups : Passed(s, g)' = Passed(s, g)
      /\ \A s \in ContentSteps : Saved(s)' = Saved(s)
      /\ \A d \in Convs : HasMembers(d)' = HasMembers(d)
      /\ Mapped' = Mapped
  BY <1>1 DEF Passed, Saved, HasMembers, chat, Mapped
<1>3. TypeOK' /\ RowsInOrder' /\ FilledOnce'
  BY <1>1 DEF IInv, DbInv, TypeOK, RowsInOrder, FilledOnce, chat
<1>4. WrittenBehind'
  BY <1>1, <1>2, GroupFacts DEF IInv, DbInv, WrittenBehind, ContentSteps, chat
<1>5. ServedBehind'
  BY <1>1, <1>2, GroupFacts DEF IInv, DbInv, ServedBehind, ContentSteps, chat, Mapped
<1>6. InStep'
  BY <1>1, <1>2 DEF IInv, TypeOK, InStep
<1>7. PageIsNext'
  <2>1. PageGroups' = PageGroups /\ Limit(step)' = Limit(step)
    BY <1>1 DEF PageGroups, Limit
  <2>2. \A d \in Mapped : d \in Convs
    BY DEF Mapped
  <2> QED
    BY <1>1, <1>2, <2>1, <2>2 DEF IInv, PageIsNext, chat
<1> QED
  BY <1>3, <1>4, <1>5, <1>6, <1>7 DEF IInv, DbInv

\* The page of either step, written with the row that goes with it.
LEMMA PageIsSafe ==
    ASSUME IInv, pc = "commit", NEW s \in ContentSteps, step = s, WritePage(s),
           UNCHANGED <<env, closed>>, NEW last \in PageGroups, IsLargest(last, PageGroups),
           NEW r \in StepRow(Groups), r.status \in {"in_progress", "failed"}, SavedIn(r) = last,
           rows' = [rows EXCEPT ![s] = r]
    PROVE  /\ DbInv' /\ rows' \in [ContentSteps -> StepRow(Groups)]
           /\ owners' \in [Groups -> Nat] /\ dialogs' \in [Groups -> [Users -> Nat]]
           /\ contacts' \in SUBSET (Flows \cup Users) /\ copied' \in [Convs -> Nat]
           /\ s = "members" =>
                 \A c \in Mapped :
                    GroupOf[c] \notin env.orphans /\ GroupOf[c] <= last => HasMembers(c)'
           /\ s = "messages" /\ env.late = {} =>
                 \A c \in Convs : GroupOf[c] <= last => copied'[c] > 0
<1>1. TypeOK
  BY DEF IInv
<1>2. CASE s = "members"
  <2>1. WriteMembers /\ step = "members" /\ rows' = [rows EXCEPT ![step] = r]
    BY <1>2 DEF WritePage
  <2>2. /\ owners' \in [Groups -> Nat] /\ dialogs' \in [Groups -> [Users -> Nat]]
        /\ contacts' \in SUBSET (Flows \cup Users) /\ copied' = copied
    BY <2>1, MembersWritten
  <2>3. /\ DbInv' /\ rows' \in [ContentSteps -> StepRow(Groups)]
        /\ \A c \in Mapped : GroupOf[c] \notin env.orphans /\ GroupOf[c] <= last => HasMembers(c)'
    BY <2>1, MembersPageIsSafe
  <2> QED
    BY <1>1, <1>2, <2>2, <2>3 DEF TypeOK
<1>3. CASE s = "messages"
  <2>1. WriteMessages /\ step = "messages" /\ rows' = [rows EXCEPT ![step] = r]
    BY <1>3 DEF WritePage
  <2>2. copied' \in [Convs -> Nat] /\ UNCHANGED <<owners, dialogs, contacts>>
    BY <2>1, MessagesWritten
  <2>3. /\ DbInv' /\ rows' \in [ContentSteps -> StepRow(Groups)]
        /\ env.late = {} => \A c \in Convs : GroupOf[c] <= last => copied'[c] > 0
    BY <2>1, MessagesPageIsSafe
  <2> QED
    BY <1>1, <1>3, <2>2, <2>3 DEF TypeOK
<1> QED
  BY <1>2, <1>3 DEF ContentSteps

LEMMA CommitIsSafe ==
    ASSUME IInv, NEW s \in ContentSteps, Commit(s)
    PROVE  IInv'
<1>1. PICK last \in PageGroups : /\ IsLargest(last, PageGroups) /\ cursor' = last
                                 /\ rows' = [rows EXCEPT ![s] = SaveCursorProgress(@, last)]
  BY DEF Commit
<1>2. /\ TypeOK /\ InStep /\ RowsInOrder /\ PageIsNext
      /\ pc = "commit" /\ step = s /\ WritePage(s) /\ UNCHANGED <<env, closed, step>>
      /\ batch' = {} /\ pc' = IF LastPage(s) THEN "done" ELSE "fetch"
  BY DEF Commit, IInv, DbInv
<1>3. /\ rows[s] \in StepRow(Groups) /\ last \in Groups /\ last \in Nat
      /\ cursor \in Nat /\ cursor < last
  BY <1>2, PageFacts, RunningIsOpen DEF TypeOK
<1> DEFINE r == SaveCursorProgress(rows[s], last)
<1>4. r \in StepRow(Groups) /\ r.status = "in_progress" /\ SavedIn(r) = last
  BY <1>3, CursorRow, NoCursorAssumption
<1>5. rows' = [rows EXCEPT ![s] = r]
  BY <1>1
<1> HIDE DEF r
<1>6. /\ DbInv' /\ rows' \in [ContentSteps -> StepRow(Groups)]
      /\ owners' \in [Groups -> Nat] /\ dialogs' \in [Groups -> [Users -> Nat]]
      /\ contacts' \in SUBSET (Flows \cup Users) /\ copied' \in [Convs -> Nat]
      /\ s = "members" =>
            \A c \in Mapped : GroupOf[c] \notin env.orphans /\ GroupOf[c] <= last => HasMembers(c)'
      /\ s = "messages" /\ env.late = {} =>
            \A c \in Convs : GroupOf[c] <= last => copied'[c] > 0
  BY <1>1, <1>2, <1>4, <1>5, PageIsSafe
<1>7. TypeOK'
  BY <1>1, <1>2, <1>3, <1>6 DEF TypeOK
<1>8. InStep'
  <2>1. /\ \A t \in ContentSteps : rows'[t] = IF t = s THEN r ELSE rows[t]
        /\ IsCompleted(rows'["members"]) <=> IsCompleted(rows["members"])
    BY <1>2, <1>4, <1>5, RowWritten
  <2>2. ~IsCompleted(rows'[s]) /\ SavedIn(rows'[s]) = last
    BY <1>4, <2>1 DEF IsCompleted
  <2>3. s = "messages" => IsCompleted(rows'["members"])
    BY <1>2, <2>1 DEF InStep
  <2>4. step' = s /\ cursor' = last /\ batch' = {} /\ pc' # "commit"
    BY <1>1, <1>2
  <2> QED
    BY <2>2, <2>3, <2>4 DEF InStep, Saved, SavedIn
<1>9. ASSUME LastPage(s), s = "members" \/ env.late = {}, NEW c \in Mapped
      PROVE  c \in Convs /\ GroupOf[c] <= last
  <2>1. c \in Convs /\ GroupOf[c] \in Nat
    BY GroupFacts DEF Mapped
  <2> SUFFICES ASSUME GroupOf[c] > last
               PROVE  FALSE
    BY <1>3, <2>1
  <2>2. GroupOf[c] > cursor
    BY <1>3, <2>1
  <2>3. c \notin batch
    <3>1. \A g \in PageGroups : g <= last
      BY <1>1 DEF IsLargest
    <3>2. c \in batch => GroupOf[c] \in PageGroups
      BY DEF PageGroups
    <3> QED
      BY <1>3, <2>1, <3>1, <3>2
  <2>4. Cardinality(PageGroups) >= Limit(s)
    BY <1>2, <1>9, <2>2, <2>3 DEF PageIsNext
  <2>5. Cardinality(PageGroups) \in Nat /\ Limit(s) \in Nat
    BY <1>2, PageFacts, GroupFacts
  <2> QED
    BY <1>9, <2>4, <2>5 DEF LastPage
<1>10. PageIsNext'
  <2>1. Mapped' = Mapped /\ step' = s /\ env' = env
    BY <1>2 DEF Mapped
  <2>2. CASE ~LastPage(s)
    BY <1>2, <2>2 DEF PageIsNext
  <2>3. CASE LastPage(s) /\ s = "members"
    BY <1>2, <1>6, <1>9, <2>1, <2>3 DEF PageIsNext
  <2>4. CASE LastPage(s) /\ s = "messages" /\ env.late = {}
    <3>1. Mapped = Convs
      BY <2>4 DEF Mapped
    <3> QED
      BY <1>2, <1>6, <1>9, <2>1, <2>4, <3>1 DEF PageIsNext
  <2>5. CASE LastPage(s) /\ s = "messages" /\ env.late # {}
    BY <1>2, <2>1, <2>5 DEF PageIsNext
  <2> QED
    BY <2>2, <2>3, <2>4, <2>5 DEF ContentSteps
<1> QED
  BY <1>6, <1>7, <1>8, <1>10 DEF IInv

LEMMA CommitAndFailIsSafe ==
    ASSUME IInv, NEW s \in ContentSteps, CommitAndFail(s)
    PROVE  IInv'
<1>1. PICK last \in PageGroups : /\ IsLargest(last, PageGroups)
                                 /\ Fail(SaveCursorProgress(rows[s], last))
  BY DEF CommitAndFail
<1>2. /\ TypeOK /\ InStep /\ RowsInOrder /\ pc = "commit" /\ step = s /\ WritePage(s)
      /\ UNCHANGED <<env, closed>> /\ Die
  BY <1>1 DEF CommitAndFail, IInv, DbInv, Fail
<1>3. rows[s] \in StepRow(Groups) /\ last \in Groups
  BY <1>2, PageFacts DEF TypeOK
<1> DEFINE saved == SaveCursorProgress(rows[s], last)
           r == IF rows' = [rows EXCEPT ![s] = saved] THEN saved ELSE MarkStepFailed(saved, 0)
<1>4. rows' = [rows EXCEPT ![s] = r]
  BY <1>1, <1>2 DEF Fail
<1>5. saved \in StepRow(Groups) /\ saved.status = "in_progress" /\ SavedIn(saved) = last
  BY <1>3, CursorRow, NoCursorAssumption
<1> HIDE DEF saved
<1>6. /\ MarkStepFailed(saved, 0) \in StepRow(Groups)
      /\ MarkStepFailed(saved, 0).status = "failed" /\ SavedIn(MarkStepFailed(saved, 0)) = last
  BY <1>5, FailedRow DEF IsCompleted
<1>7. r \in StepRow(Groups) /\ r.status \in {"in_progress", "failed"} /\ SavedIn(r) = last
  BY <1>5, <1>6
<1> HIDE DEF r
<1>8. /\ DbInv' /\ rows' \in [ContentSteps -> StepRow(Groups)]
      /\ owners' \in [Groups -> Nat] /\ dialogs' \in [Groups -> [Users -> Nat]]
      /\ contacts' \in SUBSET (Flows \cup Users) /\ copied' \in [Convs -> Nat]
  BY <1>1, <1>2, <1>4, <1>7, PageIsSafe
<1> QED
  BY <1>2, <1>8, AtRest DEF IInv, TypeOK

\* A statement that fails, a thread that is not found and a page of which nothing is left.
LEMMA FailuresAreSafe ==
    ASSUME IInv, FailOrCrash \/ MembersUnresolved \/ MembersPanic
    PROVE  IInv'
<1>1. TypeOK /\ pc # "off" /\ UNCHANGED <<env, closed, chat>> /\ Die
  BY DEF IInv, FailOrCrash, MembersUnresolved, MembersPanic, Fail
<1>2. Fail(rows[step]) \/ UNCHANGED rows
  BY DEF FailOrCrash, MembersUnresolved, MembersPanic
<1>3. DbInv' /\ rows' \in [ContentSteps -> StepRow(Groups)]
  <2>1. CASE Fail(rows[step])
    BY <1>1, <2>1, StopIsSafe
  <2>2. CASE UNCHANGED rows
    BY <1>1, <2>2, SameDatabase DEF TypeOK
  <2> QED
    BY <1>2, <2>1, <2>2
<1> QED
  BY <1>1, <1>3, AtRest DEF IInv, TypeOK, chat

\* A step that is recorded as completed has been past every conversation it should see.
LEMMA CompleteIsSafe ==
    ASSUME IInv, NEW s \in ContentSteps, Complete(s)
    PROVE  IInv'
<1>1. /\ TypeOK /\ RowsInOrder /\ InStep /\ PageIsNext /\ WrittenBehind /\ ServedBehind
      /\ FilledOnce
  BY DEF IInv, DbInv
<1>2. /\ pc = "done" /\ step = s /\ Die /\ UNCHANGED <<env, closed, chat>>
      /\ rows' = [rows EXCEPT ![s] = MarkStepCompleted(@, 1)]
  BY DEF Complete
<1> DEFINE r == MarkStepCompleted(rows[s], 1)
<1>3. r \in StepRow(Groups) /\ r.status = "completed" /\ r.cursor = NoCursor
  BY <1>1, CompletedRow DEF TypeOK
<1>4. rows' = [rows EXCEPT ![s] = r]
  BY <1>2
<1> HIDE DEF r
<1>5. /\ rows' \in [ContentSteps -> StepRow(Groups)]
      /\ \A t \in ContentSteps : rows'[t] = IF t = s THEN r ELSE rows[t]
  BY <1>1, <1>3, <1>4 DEF TypeOK
<1>6. \A t \in ContentSteps : \A g : Passed(t, g)' <=> t = s \/ Passed(t, g)
  BY <1>3, <1>5 DEF Passed, Saved, IsCompleted
<1>7. IsCompleted(rows'["members"])
  <2>1. s = "messages" => IsCompleted(rows["members"])
    BY <1>1, <1>2 DEF InStep
  <2> QED
    BY <1>3, <1>5, <2>1 DEF IsCompleted, ContentSteps
<1>8. RowsInOrder'
  BY <1>1, <1>3, <1>5, <1>7 DEF RowsInOrder
<1>9. WrittenBehind' /\ FilledOnce'
  BY <1>1, <1>2, <1>6 DEF WrittenBehind, FilledOnce, ContentSteps, chat
<1>10. ServedBehind'
  <2>1. Mapped' = Mapped /\ \A c \in Convs : HasMembers(c)' = HasMembers(c)
    BY <1>2 DEF Mapped, HasMembers, chat
  <2>2. \A c \in Mapped : c \in Convs
    BY DEF Mapped
  <2>3. \A c \in Mapped :
           GroupOf[c] \notin env.orphans /\ Passed("members", GroupOf[c])' => HasMembers(c)
    BY <1>1, <1>2, <1>6 DEF ServedBehind, PageIsNext, ContentSteps
  <2>4. env.late = {} => \A c \in Convs : Passed("messages", GroupOf[c])' => copied[c] > 0
    BY <1>1, <1>2, <1>6 DEF ServedBehind, PageIsNext, ContentSteps
  <2> QED
    BY <1>1, <1>2, <2>1, <2>2, <2>3, <2>4 DEF ServedBehind, chat
<1> QED
  BY <1>1, <1>2, <1>5, <1>8, <1>9, <1>10, AtRest DEF IInv, DbInv, TypeOK, chat

--------------------------------------------------------------------------------

LEMMA NextIsSafe == IInv /\ [Next]_vars => IInv'
<1> SUFFICES ASSUME IInv, [Next]_vars
             PROVE  IInv'
  OBVIOUS
<1>1. CASE Launch
  BY <1>1, LaunchIsSafe
<1>2. ASSUME NEW s \in ContentSteps, Fetch(s)
      PROVE  IInv'
  BY <1>2, FetchIsSafe
<1>3. ASSUME NEW s \in ContentSteps, Commit(s)
      PROVE  IInv'
  BY <1>3, CommitIsSafe
<1>4. ASSUME NEW s \in ContentSteps, CommitAndFail(s)
      PROVE  IInv'
  BY <1>4, CommitAndFailIsSafe
<1>5. ASSUME NEW s \in ContentSteps, Complete(s)
      PROVE  IInv'
  BY <1>5, CompleteIsSafe
<1>6. CASE FailOrCrash \/ MembersUnresolved \/ MembersPanic
  BY <1>6, FailuresAreSafe
<1>7. ASSUME NEW c \in Convs, LegacyClose(c)
      PROVE  IInv'
  BY <1>7, CloseIsSafe
<1>8. CASE UNCHANGED vars
  <2>1. /\ DbInv' /\ Mapped' = Mapped /\ PageGroups' = PageGroups /\ Limit(step)' = Limit(step)
        /\ \A s \in ContentSteps : Saved(s)' = Saved(s)
        /\ \A c \in Convs : HasMembers(c)' = HasMembers(c)
    BY <1>8, SameDatabase DEF vars, chat, process, Mapped, PageGroups, Limit
  <2>2. TypeOK' /\ InStep'
    BY <1>8, <2>1 DEF vars, chat, process, IInv, TypeOK, InStep
  <2>3. PageIsNext'
    <3>1. \A c \in Mapped : c \in Convs
      BY DEF Mapped
    <3> QED
      BY <1>8, <2>1, <3>1 DEF vars, chat, process, IInv, PageIsNext
  <2> QED
    BY <2>1, <2>2, <2>3 DEF IInv
<1> QED
  BY <1>1, <1>2, <1>3, <1>4, <1>5, <1>6, <1>7, <1>8 DEF Next

\* The inductive invariant holds, whatever is interrupted and whatever closes late.
THEOREM Invariance == Spec => []IInv
BY InitIsSafe, NextIsSafe, PTL DEF Spec

\* Every variable has its type.
THEOREM TypeCorrect == Spec => []TypeOK
<1>1. IInv => TypeOK
  BY DEF IInv
<1> QED
  BY Invariance, <1>1, PTL

\* No interruption makes a step write a page twice: a thread has its owners once, a user
\* one dialog in it, and messages are copied once.
THEOREM NothingIsFilledTwice == Spec => []FilledOnce
<1>1. IInv => FilledOnce
  BY DEF IInv, DbInv
<1> QED
  BY Invariance, <1>1, PTL

\* A step that is completed has served every conversation, if none closed late.
THEOREM NoneIsLeftBehind == Spec => []NothingLeftBehind
<1>1. ASSUME IInv, env.late = {}
      PROVE  ServesAll
  <2>1. Mapped = Convs /\ ServedBehind
    BY <1>1 DEF IInv, DbInv, Mapped
  <2>2. IsCompleted(rows["members"]) =>
           \A g \in {GroupOf[c] : c \in Mapped} \ env.orphans : owners[g] > 0
    BY <2>1 DEF ServedBehind, Passed, HasMembers
  <2>3. IsCompleted(rows["messages"]) => \A c \in Mapped : copied[c] > 0
    BY <1>1, <2>1 DEF ServedBehind, Passed
  <2> QED
    BY <2>2, <2>3 DEF ServesAll
<1>2. IInv => NothingLeftBehind
  BY <1>1 DEF NothingLeftBehind
<1> QED
  BY Invariance, <1>2, PTL

\* Who has written a message that is copied is a member of the thread, also when the
\* group's other conversations close late.
THEOREM SendersHaveDialogs == Spec => []SendersAreMembers
<1>1. IInv => SendersAreMembers
  <2> SUFFICES ASSUME IInv, NEW c \in Mapped, copied[c] > 0, GroupOf[c] \notin env.orphans
               PROVE  HasMembers(c)
    BY DEF SendersAreMembers, HasMembers
  <2>1. c \in Convs /\ IsCompleted(rows["members"]) /\ ServedBehind
    BY DEF IInv, DbInv, RowsInOrder, Mapped
  <2> QED
    BY <2>1 DEF ServedBehind, Passed
<1> QED
  BY Invariance, <1>1, PTL

--------------------------------------------------------------------------------

\* A page, a failure or both leave what the running step is past behind it.
LEMMA RowGoesForward ==
    ASSUME TypeOK, InStep, RowsInOrder, pc # "off", NEW r \in StepRow(Groups),
           r.status \in {"absent", "in_progress", "failed"},
           r.status = "absent" => r.cursor = NoCursor, SavedIn(r) >= cursor,
           rows' = [rows EXCEPT ![step] = r] \/ Fail(r)
    PROVE  \A s \in ContentSteps :
              /\ IsCompleted(rows[s]) => IsCompleted(rows'[s])
              /\ \A g \in Groups : Passed(s, g) => Passed(s, g)'
<1> DEFINE f == IF rows' = [rows EXCEPT ![step] = r] THEN r ELSE MarkStepFailed(r, 0)
<1>1. rows' = [rows EXCEPT ![step] = f]
  BY DEF Fail
<1>2. /\ f \in StepRow(Groups) /\ f.status \in {"absent", "in_progress", "failed"}
      /\ f.status = "absent" => f.cursor = NoCursor
      /\ SavedIn(f) = SavedIn(r)
  BY FailedRow DEF IsCompleted
<1> HIDE DEF f
<1>3. /\ step \in ContentSteps /\ ~IsCompleted(rows[step]) /\ cursor \in Nat
      /\ \A g \in Groups : Passed(step, g) <=> g <= cursor
  BY RunningIsOpen DEF InStep
<1>4. /\ \A s \in ContentSteps : rows'[s] = IF s = step THEN f ELSE rows[s]
      /\ \A s \in ContentSteps, g \in Groups :
            Passed(s, g)' <=> IF s = step THEN g <= SavedIn(r) ELSE Passed(s, g)
  BY <1>1, <1>2, RowWritten
<1>5. SavedIn(r) \in Nat /\ \A g \in Groups : g \in Nat
  <2>1. \A g \in Groups : g \in Nat
    BY GroupFacts
  <2> QED
    BY <2>1, RowFacts
<1> QED
  BY <1>3, <1>4, <1>5

\* Nothing of a page is written yet.
LEMMA PageIsNew ==
    ASSUME IInv, pc = "commit"
    PROVE  /\ step = "members" => \A g \in PageGroups : owners[g] = 0
           /\ step = "messages" => \A c \in batch : copied[c] = 0
<1>1. TypeOK /\ InStep /\ RowsInOrder /\ WrittenBehind
  BY DEF IInv, DbInv
<1>2. /\ \A g \in PageGroups : g \in Groups /\ ~Passed(step, g)
      /\ \A c \in batch : c \in Convs /\ GroupOf[c] \in PageGroups
  BY <1>1, PageFacts
<1> QED
  BY <1>1, <1>2 DEF WrittenBehind, TypeOK

\* Neither a failure nor the next step takes back what a step has reached; a thread
\* that has its owners is not written to again.
THEOREM NothingIsTakenBack == Spec => OnlyForward
<1> DEFINE Rows == \A s \in ContentSteps :
                     /\ IsCompleted(rows[s]) => IsCompleted(rows'[s])
                     /\ \A g \in Groups : Passed(s, g) => Passed(s, g)'
           Threads == \A g \in Groups :
                        owners[g] > 0 => owners'[g] = owners[g] /\ dialogs'[g] = dialogs[g]
           Copies == \A c \in Convs : copied[c] > 0 => copied'[c] = copied[c]
<1>1. ASSUME IInv, [Next]_vars
      PROVE  Rows
  <2>0. TypeOK /\ RowsInOrder /\ InStep
    BY <1>1 DEF IInv, DbInv
  <2>1. CASE rows' = rows
    BY <2>1 DEF Passed, Saved
  <2>2. ASSUME NEW s \in ContentSteps, Commit(s) \/ CommitAndFail(s)
        PROVE  Rows
    <3>1. PICK last \in PageGroups :
            \/ rows' = [rows EXCEPT ![s] = SaveCursorProgress(@, last)]
            \/ Fail(SaveCursorProgress(rows[s], last))
      BY <2>2 DEF Commit, CommitAndFail
    <3>2. pc = "commit" /\ step = s /\ rows[s] \in StepRow(Groups)
      BY <2>0, <2>2 DEF Commit, CommitAndFail, TypeOK
    <3>3. last \in Groups /\ last \in Nat /\ cursor \in Nat /\ last > cursor
      BY <2>0, <3>2, PageFacts, RunningIsOpen
    <3> DEFINE r == SaveCursorProgress(rows[s], last)
    <3>4. r \in StepRow(Groups) /\ r.status = "in_progress" /\ SavedIn(r) = last
      BY <3>2, <3>3, CursorRow, NoCursorAssumption
    <3>5. rows' = [rows EXCEPT ![step] = r] \/ Fail(r)
      BY <3>1, <3>2
    <3> HIDE DEF r
    <3> QED
      BY <2>0, <3>2, <3>3, <3>4, <3>5, RowGoesForward
  <2>3. CASE Fail(rows[step]) /\ pc # "off"
    BY <2>0, <2>3, RunningIsOpen, RowGoesForward
  <2>4. ASSUME NEW s \in ContentSteps, Complete(s)
        PROVE  Rows
    <3>1. IsCompleted(rows'[s]) /\ \A t \in ContentSteps : t # s => rows'[t] = rows[t]
      BY <2>0, <2>4 DEF Complete, TypeOK, MarkStepCompleted, IsCompleted
    <3> QED
      BY <3>1 DEF Passed, Saved
  <2> QED
    BY <1>1, <2>1, <2>2, <2>3, <2>4 DEF Next, Launch, Fetch, FailOrCrash, MembersUnresolved,
       MembersPanic, LegacyClose, vars
<1>2. ASSUME IInv, [Next]_vars
      PROVE  Threads /\ Copies
  <2>1. ASSUME NEW s \in ContentSteps, Commit(s) \/ CommitAndFail(s)
        PROVE  Threads /\ Copies
    <3>1. pc = "commit" /\ step = s /\ WritePage(s) /\ TypeOK
      BY <1>2, <2>1 DEF Commit, CommitAndFail, IInv
    <3>2. CASE s = "members"
      <4>1. WriteMembers /\ \A g \in PageGroups : owners[g] = 0
        BY <1>2, <3>1, <3>2, PageIsNew DEF WritePage
      <4>2. \A c \in Served : GroupOf[c] \in PageGroups
        BY DEF Served, PageGroups
      <4>3. ASSUME NEW g \in Groups, owners[g] > 0
            PROVE  owners'[g] = owners[g] /\ dialogs'[g] = dialogs[g]
        <5>1. \A c \in Served : GroupOf[c] # g
          BY <4>1, <4>2, <4>3
        <5>2. owners'[g] = owners[g] /\ dialogs'[g] = [u \in Users |-> dialogs[g][u]]
          BY <4>1, <5>1 DEF WriteMembers
        <5>3. dialogs[g] \in [Users -> Nat]
          BY <3>1 DEF TypeOK
        <5> QED
          BY <5>2, <5>3
      <4> QED
        BY <4>1, <4>3 DEF WriteMembers
    <3>3. CASE s = "messages"
      BY <1>2, <3>1, <3>3, PageIsNew DEF WritePage, WriteMessages
    <3> QED
      BY <3>2, <3>3 DEF ContentSteps
  <2>2. CASE UNCHANGED chat
    BY <2>2 DEF chat
  <2> QED
    BY <1>2, <2>1, <2>2 DEF Next, Launch, Fetch, FailOrCrash, MembersUnresolved, MembersPanic,
       Complete, LegacyClose, vars
<1>3. IInv /\ [Next]_vars => [Rows /\ Threads /\ Copies]_vars
  BY <1>1, <1>2
<1> QED
  BY <1>3, Invariance, PTL DEF Spec, OnlyForward
================================================================================
