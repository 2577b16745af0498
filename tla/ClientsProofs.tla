----------------------------- MODULE ClientsProofs -----------------------------
(***************************************************************************)
(* Theorems about Clients, for any clients, page size and surroundings.    *)
(***************************************************************************)
EXTENDS Clients, PageLemmas

(* Rows, and the time. *)

LEMMA ClientFacts ==
    /\ \A c \in Clients : c \in Nat /\ c > 0
    /\ \A S \in SUBSET Clients : S \in SUBSET Nat /\ IsFiniteSet(S) /\ Cardinality(S) \in Nat
    /\ PerPage \in Nat \ {0}
<1>1. \A c \in Clients : c \in Nat /\ c # 0
  BY ClientsAssumption
<1>2. \A c \in Clients : c \in Nat /\ c > 0
  BY <1>1
<1>3. \A S \in SUBSET Clients : S \in SUBSET Nat
  BY <1>1
<1>4. \A S \in SUBSET Clients : IsFiniteSet(S) /\ Cardinality(S) \in Nat
  BY ClientsAssumption, FS_Subset, FS_CardinalityType
<1> QED
  BY <1>2, <1>3, <1>4, ClientsAssumption

LEMMA NowFacts ==
    Now \in Nat /\ Cardinality(Created) \in Nat /\ Now = 2 * Cardinality(Created) + 1
<1>1. Created \in SUBSET Clients
  BY DEF Created
<1> QED
  BY <1>1, ClientFacts DEF Now

LEMMA WatermarkFacts ==
    ASSUME TypeOK
    PROVE  /\ Watermark \in Nat
           /\ \A s \in ClientSteps : rows[s].completedAt \in Nat /\ rows[s].completedAt <= Watermark
           /\ \E s \in ClientSteps : Watermark = rows[s].completedAt
<1>1. rows["clients"].completedAt \in Nat /\ rows["sync_clients"].completedAt \in Nat
  BY RowFacts DEF TypeOK, ClientSteps
<1> QED
  BY <1>1 DEF Watermark, GetStepCompletedAt, ClientSteps

LEMMA SavedFacts ==
    ASSUME TypeOK
    PROVE  /\ \A s \in ClientSteps : Saved(s) = SavedIn(rows[s]) /\ Saved(s) \in Clients \cup {0}
           /\ \A s \in ClientSteps : Saved(s) \in Nat /\ Start(s) \in Nat
<1>1. \A s \in ClientSteps : Saved(s) = SavedIn(rows[s]) /\ Saved(s) \in Clients \cup {0}
  BY RowFacts DEF TypeOK, Saved, SavedIn
<1>2. \A s \in ClientSteps : Saved(s) \in Nat /\ Start(s) \in Nat
  BY <1>1, ClientFacts, WatermarkFacts DEF Start
<1> QED
  BY <1>1, <1>2

--------------------------------------------------------------------------------

LEMMA InitIsSafe == Init => IInv
<1> SUFFICES ASSUME Init
             PROVE  IInv
  OBVIOUS
<1> DEFINE upTo(c) == {d \in Old : d <= c}
<1>1. \A c : upTo(c) \in SUBSET Clients /\ IsFiniteSet(upTo(c)) /\ Cardinality(upTo(c)) \in Nat
  BY ClientsAssumption, ClientFacts
<1>2. \A c \in Old : c \in Clients /\ c \in upTo(c) /\ Cardinality(upTo(c)) > 0
  <2> SUFFICES ASSUME NEW c \in Old
               PROVE  c \in Clients /\ c \in upTo(c) /\ Cardinality(upTo(c)) > 0
    OBVIOUS
  <2>1. c \in Clients /\ c \in Nat
    BY ClientsAssumption, ClientFacts
  <2>2. c \in upTo(c)
    BY <2>1
  <2> HIDE DEF upTo
  <2> QED
    BY <1>1, <2>1, <2>2, FS_EmptySet
<1>3. born \in [Clients -> Nat]
  <2>1. \A c : 2 * Cardinality(upTo(c)) \in Nat
    BY <1>1
  <2> QED
    BY <2>1 DEF Init
<1>4. TypeOK
  <2>1. AbsentRow \in StepRow(Clients)
    BY DEF AbsentRow, StepRow, Statuses
  <2> QED
    BY <1>3, <2>1, ClientsAssumption DEF Init, TypeOK, ClientSteps
<1>5. Created = Old /\ \A c \in Old : born[c] > 0
  <2>1. \A c \in Clients : born[c] = IF c \in Old THEN 2 * Cardinality(upTo(c)) ELSE 0
    BY DEF Init
  <2> HIDE DEF upTo
  <2>2. \A c \in Clients : born[c] > 0 <=> c \in Old
    BY <1>1, <1>2, <2>1
  <2> QED
    BY <2>2, ClientsAssumption DEF Created
<1>6. \A c \in Clients : born[c] < Now
  <2> SUFFICES ASSUME NEW c \in Clients
               PROVE  born[c] < Now
    OBVIOUS
  <2>1. upTo(c) \in SUBSET Old /\ IsFiniteSet(Old)
    BY ClientsAssumption, ClientFacts
  <2> HIDE DEF upTo
  <2>2. Cardinality(upTo(c)) <= Cardinality(Old)
    BY <2>1, FS_Subset
  <2>3. born[c] = 0 \/ born[c] = 2 * Cardinality(upTo(c))
    BY DEF Init, upTo
  <2> QED
    BY <1>1, <1>5, <2>2, <2>3, NowFacts
<1>7. \A s \in ClientSteps : /\ rows[s] = AbsentRow /\ rows[s].status = "absent"
                             /\ rows[s].completedAt = 0 /\ Saved(s) = 0
  BY DEF Init, AbsentRow, Saved, GetCursorProgress, IsCompleted
<1>8. InTime
  <2>1. \A c \in Clients : c \in chatting \/ contact[c] > 0 => born[c] > 0
    BY <1>5 DEF Init
  <2> QED
    BY <1>6, <1>7, <2>1, NowFacts DEF InTime
<1>9. Watermark = 0
  BY <1>7 DEF Watermark, GetStepCompletedAt, ClientSteps
<1>10. RowsInOrder
  BY <1>7 DEF RowsInOrder, AbsentRow, ClientSteps
<1>11. RowNamesContact /\ ContactsBehind
  BY DEF Init, RowNamesContact, ContactsBehind
<1>12. ServedBehind
  BY <1>5, <1>7, <1>4, ClientFacts DEF Init, ServedBehind, TypeOK
<1>13. NothingBehindWatermark
  BY <1>3, <1>9, ClientsAssumption DEF Init, NothingBehindWatermark
<1> QED
  BY <1>4, <1>8, <1>10, <1>11, <1>12, <1>13 DEF Init, IInv, DbInv, InStep, PageIsNext
--------------------------------------------------------------------------------

\* What a write to the row of the running form changes, unless it completes it.
LEMMA RowWritten ==
    ASSUME TypeOK, NEW r \in StepRow(Clients), r.completedAt = rows[step].completedAt,
           rows' = [rows EXCEPT ![step] = r]
    PROVE  /\ rows' \in [ClientSteps -> StepRow(Clients)]
           /\ \A s \in ClientSteps : rows'[s] = IF s = step THEN r ELSE rows[s]
           /\ \A s \in ClientSteps : rows'[s].completedAt = rows[s].completedAt
           /\ Watermark' = Watermark
           /\ \A s \in ClientSteps : Start(s)' = Start(s)
           /\ \A s \in ClientSteps : Saved(s)' = IF s = step THEN SavedIn(r) ELSE Saved(s)
<1>1. /\ rows' \in [ClientSteps -> StepRow(Clients)]
      /\ \A s \in ClientSteps : rows'[s] = IF s = step THEN r ELSE rows[s]
  BY DEF TypeOK
<1>2. \A s \in ClientSteps : rows'[s].completedAt = rows[s].completedAt
  BY <1>1
<1>3. Watermark' = Watermark
  BY <1>2 DEF Watermark, GetStepCompletedAt, ClientSteps
<1>4. \A s \in ClientSteps : Start(s)' = Start(s)
  BY <1>3 DEF Start
<1>5. \A s \in ClientSteps : Saved(s)' = IF s = step THEN SavedIn(r) ELSE Saved(s)
  BY <1>1 DEF Saved, SavedIn
<1> QED
  BY <1>1, <1>2, <1>3, <1>4, <1>5

LEMMA SameTime ==
    ASSUME UNCHANGED born
    PROVE  Now' = Now /\ Created' = Created
BY DEF Now, Created

\* A run that stops, or fails, without a page leaves the database in order.
LEMMA StopIsSafe ==
    ASSUME IInv, pc # "off", Fail(rows[step]), UNCHANGED <<env, legacy, chat>>
    PROVE  DbInv' /\ rows' \in [ClientSteps -> StepRow(Clients)]
<1> DEFINE old == rows[step]
           r == IF rows' = [rows EXCEPT ![step] = old] THEN old ELSE MarkStepFailed(old, 0)
<1>1. /\ TypeOK /\ InTime /\ RowsInOrder /\ InStep /\ NothingBehindWatermark
      /\ ContactsBehind /\ RowNamesContact /\ (env.quiet => ServedBehind)
  BY DEF IInv, DbInv
<1>2. old \in StepRow(Clients) /\ step \in ClientSteps
  BY <1>1 DEF TypeOK
<1>3. rows' = [rows EXCEPT ![step] = r]
  BY DEF Fail
<1>4. IsCompleted(old) => old.cursor = NoCursor
  BY <1>1, <1>2 DEF RowsInOrder, IsCompleted
<1>5. /\ r \in StepRow(Clients) /\ r.completedAt = old.completedAt /\ SavedIn(r) = SavedIn(old)
      /\ r = old \/ r.status = "failed"
  BY <1>2, <1>4, FailedRow
<1> HIDE DEF r
<1>6. /\ rows' \in [ClientSteps -> StepRow(Clients)]
      /\ \A s \in ClientSteps : rows'[s] = IF s = step THEN r ELSE rows[s]
      /\ \A s \in ClientSteps : rows'[s].completedAt = rows[s].completedAt
      /\ Watermark' = Watermark
      /\ \A s \in ClientSteps : Start(s)' = Start(s) /\ Saved(s)' = Saved(s)
  BY <1>1, <1>3, <1>5, RowWritten, SavedFacts
<1>7. Now' = Now /\ Created' = Created
  BY SameTime DEF legacy
<1>8. InTime'
  BY <1>1, <1>6, <1>7 DEF InTime, legacy, chat
<1>9. RowsInOrder'
  BY <1>1, <1>5, <1>6 DEF RowsInOrder, InStep, ClientSteps
<1>10. MigratedFirst' => MigratedFirst
  BY <1>1, <1>5, <1>6 DEF MigratedFirst, InStep, IsCompleted, ClientSteps
<1>11. ContactsBehind'
  BY <1>1, <1>6, <1>10 DEF ContactsBehind, ClientSteps, legacy, chat
<1>12. (env.quiet => ServedBehind)'
  BY <1>1, <1>6, <1>7 DEF ServedBehind, legacy, chat
<1>13. RowNamesContact' /\ NothingBehindWatermark'
  BY <1>1, <1>6 DEF RowNamesContact, NothingBehindWatermark, legacy, chat
<1> QED
  BY <1>6, <1>8, <1>9, <1>11, <1>12, <1>13 DEF DbInv

\* Nobody on a page has a contact: sync mode goes on behind those who have.
LEMMA PageIsUnserved ==
    ASSUME IInv, pc = "commit", Accepted
    PROVE  \A c \in batch : contact[c] = 0 /\ links[c] = {} /\ NewContact(c) = 1
<1> SUFFICES ASSUME NEW c \in batch
             PROVE  contact[c] = 0 /\ links[c] = {} /\ NewContact(c) = 1
  OBVIOUS
<1>1. TypeOK /\ InStep /\ ContactsBehind /\ RowNamesContact
  BY DEF IInv, DbInv
<1>2. c \in Clients /\ c \in Nat /\ contact[c] \in Nat /\ born[c] \in Nat
  BY <1>1, ClientFacts DEF TypeOK
<1>3. contact[c] = 0
  <2>1. CASE step = "clients"
    BY <2>1 DEF Accepted
  <2>2. CASE step # "clients"
    <3>1. step = "sync_clients" /\ MigratedFirst
      BY <1>1, <2>2 DEF TypeOK, ClientSteps, InStep
    <3>2. from = Watermark /\ cursor = Saved("sync_clients")
      BY <1>1, <3>1 DEF InStep, Start
    <3>3. c > cursor /\ born[c] >= from /\ from \in Nat /\ cursor \in Nat
      BY <1>1, ClientFacts DEF InStep, TypeOK
    <3>4. contact[c] > 0 => born[c] < from \/ c <= cursor
      BY <1>1, <1>2, <3>1, <3>2 DEF ContactsBehind
    <3> QED
      BY <1>2, <3>3, <3>4
  <2> QED
    BY <2>1, <2>2
<1>4. links[c] = {}
  BY <1>1, <1>2, <1>3 DEF RowNamesContact
<1> QED
  BY <1>3, <1>4, FS_EmptySet DEF NewContact

LEMMA PageWritten ==
    ASSUME IInv, pc = "commit", Accepted, WritePage
    PROVE  /\ contact' \in [Clients -> Nat] /\ links' \in [Clients -> SUBSET Nat]
           /\ \A c \in Clients : contact'[c] = IF c \in batch THEN 1 ELSE contact[c]
           /\ RowNamesContact'
<1>1. TypeOK /\ RowNamesContact /\ batch \in SUBSET Clients
  BY DEF IInv, DbInv, TypeOK
<1>2. \A c \in batch : contact[c] = 0 /\ links[c] = {} /\ NewContact(c) = 1
  BY PageIsUnserved
<1>3. /\ contact' = [c \in Clients |-> IF c \in batch THEN 1 ELSE contact[c]]
      /\ links' = [c \in Clients |-> IF c \in batch THEN {1} ELSE links[c]]
  BY <1>2 DEF WritePage
<1>4. contact' \in [Clients -> Nat] /\ links' \in [Clients -> SUBSET Nat]
  BY <1>1, <1>3 DEF TypeOK
<1>5. \A c \in Clients : links'[c] = IF contact'[c] = 0 THEN {} ELSE {contact'[c]}
  BY <1>1, <1>3 DEF RowNamesContact
<1> QED
  BY <1>3, <1>4, <1>5 DEF RowNamesContact

\* The committed page leaves the database in order, and everyone up to its last
\* client served.
LEMMA PageIsSafe ==
    ASSUME IInv, pc = "commit", Accepted, WritePage, NEW last \in batch, IsLast(last),
           NEW r \in StepRow(Clients), r.status \in {"in_progress", "failed"},
           r.completedAt = rows[step].completedAt, SavedIn(r) = last,
           rows' = [rows EXCEPT ![step] = r], UNCHANGED <<env, legacy>>
    PROVE  /\ DbInv' /\ rows' \in [ClientSteps -> StepRow(Clients)]
           /\ env.quiet => \A c \in chatting : born[c] >= from /\ c <= last => contact'[c] > 0
<1>1. /\ TypeOK /\ InTime /\ RowsInOrder /\ InStep /\ NothingBehindWatermark
      /\ ContactsBehind /\ (env.quiet => ServedBehind /\ PageIsNext)
  BY DEF IInv, DbInv
<1>2. /\ step \in ClientSteps /\ batch \in SUBSET Clients /\ chatting \in SUBSET Clients
      /\ last \in Clients /\ last \in Nat /\ cursor \in Nat /\ from \in Nat
      /\ born \in [Clients -> Nat] /\ contact \in [Clients -> Nat]
      /\ \A c \in Clients : c \in Nat
  BY <1>1, ClientFacts DEF TypeOK
<1>3. /\ rows' \in [ClientSteps -> StepRow(Clients)]
      /\ \A s \in ClientSteps : rows'[s] = IF s = step THEN r ELSE rows[s]
      /\ \A s \in ClientSteps : rows'[s].completedAt = rows[s].completedAt
      /\ Watermark' = Watermark
      /\ \A s \in ClientSteps : Start(s)' = Start(s)
      /\ \A s \in ClientSteps : Saved(s)' = IF s = step THEN last ELSE Saved(s)
  BY <1>1, RowWritten
<1>4. /\ \A c \in Clients : contact'[c] = IF c \in batch THEN 1 ELSE contact[c]
      /\ RowNamesContact'
  BY PageWritten
<1>5. /\ cursor < last /\ cursor = Saved(step) /\ from = Start(step)
      /\ \A b \in batch : b \in chatting /\ b > cursor /\ born[b] >= from /\ b <= last
  BY <1>1 DEF InStep, IsLast
<1>6. Now' = Now /\ Created' = Created
  BY SameTime DEF legacy
<1>7. InTime'
  <2>1. \A c \in Clients : c \in chatting \/ contact'[c] > 0 => born[c] > 0
    BY <1>1, <1>4, <1>5 DEF InTime
  <2> QED
    BY <1>1, <1>3, <1>6, <2>1 DEF InTime, legacy
<1>8. RowsInOrder'
  BY <1>1, <1>3 DEF RowsInOrder, InStep, ClientSteps
<1>9. MigratedFirst' => MigratedFirst /\ step = "sync_clients"
  <2>1. rows'["clients"] = IF step = "clients" THEN r ELSE rows["clients"]
    BY <1>3 DEF ClientSteps
  <2>2. step = "clients" => ~MigratedFirst'
    BY <1>1, <2>1 DEF InStep, IsCompleted, MigratedFirst
  <2> QED
    BY <1>2, <2>1, <2>2 DEF MigratedFirst, ClientSteps
<1>10. ContactsBehind'
  <2> SUFFICES ASSUME MigratedFirst', NEW c \in Clients, contact'[c] > 0
               PROVE  born[c] < Watermark \/ c <= last
    BY <1>3, <1>9 DEF ContactsBehind, legacy
  <2>1. CASE c \in batch
    BY <1>5, <2>1
  <2>2. CASE c \notin batch
    <3>1. born[c] < Watermark \/ c <= cursor
      BY <1>1, <1>4, <1>5, <1>9, <2>2 DEF ContactsBehind
    <3> QED
      BY <1>2, <1>5, <3>1
  <2> QED
    BY <2>1, <2>2
<1>11. ASSUME env.quiet
       PROVE  \A c \in chatting : born[c] >= from /\ c <= last => contact'[c] > 0
  <2> SUFFICES ASSUME NEW c \in chatting, born[c] >= from, c <= last, c \notin batch
               PROVE  contact'[c] > 0
    BY <1>2, <1>4
  <2>0. c \in Clients /\ c \in Nat
    BY <1>2
  <2>1. CASE c <= cursor
    BY <1>1, <1>2, <1>4, <1>5, <1>11, <2>0, <2>1 DEF ServedBehind
  <2>2. CASE c > cursor
    <3>1. last < c
      BY <1>1, <1>11, <2>2 DEF PageIsNext
    <3> QED
      BY <1>2, <2>0, <3>1
  <2> QED
    BY <1>2, <2>0, <2>1, <2>2
<1>12. (env.quiet => ServedBehind)'
  <2> SUFFICES ASSUME env.quiet, NEW s \in ClientSteps, NEW c \in chatting,
                      born[c] >= Start(s), c <= Saved(s)'
               PROVE  contact'[c] > 0
    BY <1>1, <1>3, <1>6 DEF ServedBehind, legacy
  <2>1. CASE s = step
    BY <1>3, <1>5, <1>11, <2>1
  <2>2. CASE s # step
    BY <1>1, <1>2, <1>3, <1>4, <2>2 DEF ServedBehind
  <2> QED
    BY <2>1, <2>2
<1>13. NothingBehindWatermark'
  BY <1>1, <1>2, <1>3, <1>4 DEF NothingBehindWatermark, legacy
<1> QED
  BY <1>3, <1>4, <1>7, <1>8, <1>10, <1>11, <1>12, <1>13 DEF DbInv
--------------------------------------------------------------------------------

\* A process that is gone leaves nothing to say of it.
LEMMA AtRest ==
    ASSUME TypeOK, Die
    PROVE  /\ InStep' /\ PageIsNext'
           /\ step' \in ClientSteps /\ pc' \in {"off", "fetch", "commit", "done"}
           /\ cursor' \in Clients \cup {0} /\ from' \in Nat /\ batch' \in SUBSET Clients
BY DEF TypeOK, Die, InStep, PageIsNext

LEMMA SameDatabase ==
    ASSUME IInv, UNCHANGED <<env, legacy, rows, chat>>
    PROVE  /\ DbInv' /\ MigratedFirst' = MigratedFirst
           /\ \A s \in ClientSteps : Saved(s)' = Saved(s) /\ Start(s)' = Start(s)
<1>1. Watermark' = Watermark /\ \A s \in ClientSteps : Saved(s)' = Saved(s) /\ Start(s)' = Start(s)
  BY DEF Watermark, Saved, Start
<1>2. Now' = Now /\ Created' = Created
  BY SameTime DEF legacy
<1>3. MigratedFirst' = MigratedFirst
  BY DEF MigratedFirst
<1>4. InTime' /\ RowsInOrder' /\ RowNamesContact' /\ NothingBehindWatermark'
  BY <1>1, <1>2 DEF IInv, DbInv, InTime, RowsInOrder, RowNamesContact, NothingBehindWatermark,
                    legacy, chat
<1>5. ContactsBehind'
  BY <1>1, <1>3 DEF IInv, DbInv, ContactsBehind, ClientSteps, legacy, chat
<1>6. (env.quiet => ServedBehind)'
  BY <1>1, <1>2 DEF IInv, DbInv, ServedBehind, legacy, chat
<1> QED
  BY <1>1, <1>3, <1>4, <1>5, <1>6 DEF DbInv

LEMMA CreateIsSafe ==
    ASSUME IInv, NEW c \in Clients, LegacyCreate(c)
    PROVE  IInv'
<1>1. /\ TypeOK /\ InTime /\ RowsInOrder /\ InStep /\ NothingBehindWatermark
      /\ ContactsBehind /\ RowNamesContact /\ (env.quiet => ServedBehind /\ PageIsNext)
  BY DEF IInv, DbInv
<1>2. /\ env' = env /\ rows' = rows /\ contact' = contact /\ links' = links
      /\ step' = step /\ pc' = pc /\ cursor' = cursor /\ from' = from /\ batch' = batch
      /\ born[c] = 0 /\ born' = [born EXCEPT ![c] = Now + 1]
      /\ chatting' \in {chatting, chatting \cup {c}}
      /\ env.quiet => Settled /\ c \in chatting'
  BY DEF LegacyCreate, chat, process
<1>3. /\ Created' = Created \cup {c} /\ c \notin Created
      /\ born' \in [Clients -> Nat] /\ born'[c] = Now + 1
      /\ \A d \in Clients : d # c => born'[d] = born[d]
  BY <1>1, <1>2, NowFacts DEF TypeOK, Created
<1>4. Now' = Now + 2 /\ Now \in Nat
  <2>1. Created \in SUBSET Clients
    BY DEF Created
  <2>2. Cardinality(Created \cup {c}) = Cardinality(Created) + 1 /\ Cardinality(Created) \in Nat
    BY <1>3, <2>1, ClientFacts, FS_AddElement
  <2> QED
    BY <1>3, <2>2 DEF Now
<1>5. TypeOK'
  BY <1>1, <1>2, <1>3 DEF TypeOK
<1>6. /\ Watermark' = Watermark /\ Watermark \in Nat /\ Watermark <= Now
      /\ \A s \in ClientSteps : /\ rows'[s] = rows[s] /\ rows[s].completedAt \in Nat
                                /\ Saved(s)' = Saved(s) /\ Start(s)' = Start(s)
  <2>1. Watermark' = Watermark
    BY <1>2 DEF Watermark
  <2>2. Watermark \in Nat /\ Watermark <= Now
    BY <1>1, WatermarkFacts DEF InTime
  <2> QED
    BY <1>1, <1>2, <2>1, <2>2, WatermarkFacts DEF Saved, Start
<1>7. InTime'
  <2>1. \A d \in Clients : born'[d] < Now + 2
    BY <1>1, <1>3, <1>4 DEF InTime, TypeOK
  <2>2. \A s \in ClientSteps : rows'[s].completedAt <= Now + 2
    BY <1>1, <1>4, <1>6 DEF InTime
  <2>3. \A d \in Clients : d \in chatting' \/ contact'[d] > 0 => born'[d] > 0
    BY <1>1, <1>2, <1>3, <1>4 DEF InTime
  <2> QED
    BY <1>4, <2>1, <2>2, <2>3 DEF InTime
<1>8. RowsInOrder' /\ RowNamesContact' /\ MigratedFirst' = MigratedFirst
  BY <1>1, <1>2 DEF RowsInOrder, RowNamesContact, MigratedFirst
<1>9. ContactsBehind'
  <2>1. \A d \in Clients : contact[d] > 0 => d # c
    BY <1>1, <1>2 DEF InTime
  <2> QED
    BY <1>1, <1>2, <1>3, <1>6, <1>8, <2>1 DEF ContactsBehind, ClientSteps
<1>10. (env.quiet => ServedBehind)'
  <2> SUFFICES ASSUME env.quiet
               PROVE  ServedBehind'
    BY <1>2
  <2>1. chatting = Created /\ chatting' = Created'
    BY <1>1, <1>2, <1>3 DEF ServedBehind
  <2>2. \A s \in ClientSteps : Saved(s) = 0
    <3>1. \A s \in ClientSteps : rows[s].status \in {"absent", "completed"}
      BY <1>1, <1>2 DEF Settled, RowsInOrder, IsCompleted, ClientSteps
    <3>2. \A s \in ClientSteps : rows[s] \in StepRow(Clients) /\ rows[s].cursor = NoCursor
      BY <1>1, <3>1 DEF RowsInOrder, TypeOK
    <3> QED
      BY <1>1, <3>2, RowFacts, SavedFacts
  <2>3. \A s \in ClientSteps, d \in Clients : ~(d <= Saved(s))
    BY <2>2, ClientFacts
  <2> QED
    BY <1>5, <1>6, <2>1, <2>3 DEF ServedBehind, TypeOK
<1>11. NothingBehindWatermark'
  <2>1. ~(Now + 1 < Watermark)
    BY <1>4, <1>6
  <2> QED
    BY <1>1, <1>2, <1>3, <1>6, <2>1 DEF NothingBehindWatermark, TypeOK
<1>12. InStep'
  <2>1. \A b \in batch : b \in Clients /\ b # c /\ born'[b] = born[b] /\ b \in chatting'
    <3>1. \A b \in batch : b \in Clients /\ b \in chatting
      BY <1>1 DEF TypeOK, InStep
    <3>2. \A b \in batch : born[b] > 0
      BY <1>1, <3>1 DEF InTime
    <3> QED
      BY <1>2, <1>3, <3>1, <3>2
  <2>2. \A b \in batch : b \in chatting' /\ b > cursor /\ born'[b] >= from
    BY <1>1, <2>1 DEF InStep
  <2>3. pc # "off" =>
          /\ IF step = "clients" THEN env.migrates /\ ~IsCompleted(rows[step]) ELSE MigratedFirst
          /\ cursor = Saved(step) /\ from = Start(step)
    BY <1>1 DEF InStep
  <2>4. IF pc = "commit" THEN batch # {} ELSE batch = {}
    BY <1>1 DEF InStep
  <2> QED
    BY <1>1, <1>2, <1>6, <1>8, <2>2, <2>3, <2>4 DEF InStep, TypeOK
<1>13. (env.quiet => PageIsNext)'
  BY <1>2 DEF Settled, PageIsNext
<1> QED
  BY <1>5, <1>7, <1>8, <1>9, <1>10, <1>11, <1>12, <1>13 DEF IInv, DbInv

LEMMA OpenChannelIsSafe ==
    ASSUME IInv, NEW c \in Clients, LegacyOpenChannel(c)
    PROVE  IInv'
<1>1. /\ TypeOK /\ InTime /\ RowsInOrder /\ InStep
      /\ ContactsBehind /\ RowNamesContact /\ (env.quiet => ServedBehind)
  BY DEF IInv, DbInv
<1>2. /\ UNCHANGED <<env, born, rows, contact, links, step, pc, cursor, from, batch>>
      /\ born[c] > 0 /\ c \notin chatting /\ chatting' = chatting \cup {c}
  BY DEF LegacyOpenChannel, chat, process
<1>3. ~env.quiet
  BY <1>1, <1>2 DEF ServedBehind, Created
<1>4. /\ Watermark' = Watermark /\ MigratedFirst' = MigratedFirst /\ Now' = Now
      /\ \A s \in ClientSteps : Saved(s)' = Saved(s) /\ Start(s)' = Start(s)
  BY <1>2, SameTime DEF Watermark, MigratedFirst, Saved, Start
<1>5. TypeOK' /\ InTime' /\ RowsInOrder' /\ RowNamesContact'
  BY <1>1, <1>2, <1>4 DEF TypeOK, InTime, RowsInOrder, RowNamesContact
<1>6. ContactsBehind'
  BY <1>1, <1>2, <1>4 DEF ContactsBehind, ClientSteps
<1>7. InStep'
  BY <1>1, <1>2, <1>4 DEF InStep, TypeOK
<1> QED
  BY <1>2, <1>3, <1>5, <1>6, <1>7 DEF IInv, DbInv, NothingBehindWatermark

LEMMA LaunchIsSafe ==
    ASSUME IInv, NEW s \in ClientSteps, Launch(s)
    PROVE  IInv'
<1>1. TypeOK /\ InStep
  BY DEF IInv
<1>2. /\ UNCHANGED <<env, legacy, rows, chat, batch>>
      /\ pc = "off" /\ pc' = "fetch" /\ step' = s
      /\ cursor' = Saved(s) /\ from' = Start(s)
      /\ IF s = "clients" THEN env.migrates /\ ~IsCompleted(rows[s]) ELSE MigratedFirst
  BY DEF Launch, Saved, Start, MigratedFirst
<1>3. DbInv' /\ MigratedFirst' = MigratedFirst /\ Saved(s)' = Saved(s) /\ Start(s)' = Start(s)
  BY <1>2, SameDatabase
<1>4. batch' = {}
  BY <1>1, <1>2 DEF InStep
<1>5. TypeOK'
  BY <1>1, <1>2, SavedFacts DEF TypeOK, legacy, chat
<1>6. InStep'
  BY <1>2, <1>3, <1>4 DEF InStep
<1> QED
  BY <1>2, <1>3, <1>5, <1>6 DEF IInv, PageIsNext

\* What is left is read in order: the next page, or nothing when all are served.
LEMMA FetchIsSafe ==
    ASSUME IInv, Fetch
    PROVE  IInv'
<1>1. TypeOK /\ InStep /\ (env.quiet => ServedBehind)
  BY DEF IInv, DbInv
<1>2. /\ UNCHANGED <<env, legacy, rows, chat>>
      /\ pc = "fetch" /\ pc' \in {"done", "commit"} /\ (pc' = "done" <=> batch' = {})
      /\ step' = step /\ cursor' = cursor /\ from' = from
      /\ batch' = FirstOf(PerPage, Found)
  BY DEF Fetch, FirstOf, Rank
<1>3. DbInv' /\ MigratedFirst' = MigratedFirst
      /\ \A s \in ClientSteps : Saved(s)' = Saved(s) /\ Start(s)' = Start(s)
  BY <1>2, SameDatabase
<1>4. Found \in SUBSET Clients /\ Found \in SUBSET chatting
  BY <1>1 DEF Found, TypeOK
<1>5. /\ batch' \in SUBSET Found
      /\ \A c \in Found \ batch' : (\A b \in batch' : b < c) /\ Cardinality(batch') >= PerPage
      /\ Found # {} => batch' # {}
  <2>1. Found \in SUBSET Nat /\ IsFiniteSet(Found) /\ PerPage \in Nat \ {0}
    BY <1>4, ClientFacts
  <2> QED
    BY <1>2, <2>1, FirstPage
<1>6. TypeOK'
  BY <1>1, <1>2, <1>4, <1>5 DEF TypeOK, legacy, chat
<1>7. InStep'
  <2>1. \A b \in batch' : b \in chatting /\ b > cursor /\ born[b] >= from
    BY <1>5 DEF Found
  <2>2. /\ IF step = "clients" THEN env.migrates /\ ~IsCompleted(rows[step]) ELSE MigratedFirst
        /\ cursor = Saved(step) /\ from = Start(step)
    BY <1>1, <1>2 DEF InStep
  <2> QED
    BY <1>1, <1>2, <1>3, <2>1, <2>2 DEF InStep, legacy, TypeOK
<1>8. (env.quiet => PageIsNext)'
  <2> SUFFICES ASSUME env.quiet
               PROVE  PageIsNext'
    BY <1>2
  <2>1. \A c \in chatting : born[c] >= from /\ c > cursor => c \in Found
    BY DEF Found
  <2>2. CASE pc' = "commit"
    BY <1>2, <1>5, <2>1, <2>2 DEF PageIsNext, legacy
  <2>3. CASE pc' = "done"
    <3> SUFFICES ASSUME NEW c \in chatting, born[c] >= from
                 PROVE  contact[c] > 0
      BY <1>2, <2>3 DEF PageIsNext, legacy, chat
    <3>1. c \notin Found
      BY <1>2, <1>5, <2>3
    <3>2. c \in Nat /\ cursor \in Nat
      BY <1>1, ClientFacts DEF TypeOK
    <3>3. c <= cursor
      BY <2>1, <3>1, <3>2
    <3>4. cursor = Saved(step) /\ from = Start(step) /\ step \in ClientSteps
      BY <1>1, <1>2 DEF InStep, TypeOK
    <3> QED
      BY <1>1, <3>3, <3>4 DEF ServedBehind
  <2> QED
    BY <1>2, <2>2, <2>3
<1> QED
  BY <1>3, <1>6, <1>7, <1>8 DEF IInv

LEMMA CommitIsSafe ==
    ASSUME IInv, Commit
    PROVE  IInv'
<1>1. PICK last \in batch : /\ IsLast(last) /\ cursor' = last
                            /\ rows' = [rows EXCEPT ![step] = SaveCursorProgress(@, last)]
  BY DEF Commit
<1>2. /\ TypeOK /\ InStep /\ (env.quiet => PageIsNext)
      /\ pc = "commit" /\ Accepted /\ WritePage /\ UNCHANGED <<env, legacy, step, from>>
      /\ batch' = {} /\ pc' = IF LastPage THEN "done" ELSE "fetch"
  BY DEF Commit, IInv
<1>3. rows[step] \in StepRow(Clients) /\ step \in ClientSteps /\ last \in Clients
  BY <1>2 DEF TypeOK
<1> DEFINE r == SaveCursorProgress(rows[step], last)
<1>4. /\ r \in StepRow(Clients) /\ r.status = "in_progress" /\ SavedIn(r) = last
      /\ r.completedAt = rows[step].completedAt
  BY <1>3, CursorRow, NoCursorAssumption
<1>5. rows' = [rows EXCEPT ![step] = r]
  BY <1>1
<1> HIDE DEF r
<1>6. /\ DbInv' /\ rows' \in [ClientSteps -> StepRow(Clients)]
      /\ env.quiet => \A c \in chatting : born[c] >= from /\ c <= last => contact'[c] > 0
  BY <1>1, <1>2, <1>4, <1>5, PageIsSafe
<1>7. /\ contact' \in [Clients -> Nat] /\ links' \in [Clients -> SUBSET Nat]
      /\ \A c \in Clients : contact'[c] = IF c \in batch THEN 1 ELSE contact[c]
  BY <1>2, PageWritten
<1>8. TypeOK'
  BY <1>2, <1>3, <1>1, <1>6, <1>7 DEF TypeOK, legacy
<1>9. InStep'
  <2>1. /\ \A s \in ClientSteps : rows'[s] = IF s = step THEN r ELSE rows[s]
        /\ Saved(step)' = last /\ Start(step)' = Start(step)
    BY <1>2, <1>3, <1>4, <1>5, RowWritten
  <2>2. from = Start(step)
        /\ IF step = "clients" THEN env.migrates /\ ~IsCompleted(rows[step]) ELSE MigratedFirst
    BY <1>2 DEF InStep
  <2>3. IF step = "clients" THEN env.migrates /\ ~IsCompleted(rows'[step]) ELSE MigratedFirst'
    <3>1. ~IsCompleted(rows'[step])
      BY <1>3, <1>4, <2>1 DEF IsCompleted
    <3>2. step # "clients" => rows'["clients"] = rows["clients"]
      BY <1>3, <2>1 DEF ClientSteps
    <3> QED
      BY <1>2, <2>2, <3>1, <3>2 DEF MigratedFirst
  <2>4. cursor' = Saved(step)' /\ from' = Start(step)'
    BY <1>1, <1>2, <2>1, <2>2
  <2>5. step' = step /\ env' = env /\ pc' # "commit" /\ batch' = {}
    BY <1>2
  <2>6. Saved(step') = Saved(step) /\ Start(step') = Start(step)
    BY <2>5
  <2>7. (cursor = Saved(step))' /\ (from = Start(step))'
    BY <2>4, <2>5, <2>6 DEF Saved, Start
  <2> QED
    BY <2>3, <2>5, <2>7 DEF InStep
<1>10. (env.quiet => PageIsNext)'
  <2> SUFFICES ASSUME env.quiet, LastPage, NEW c \in chatting, born[c] >= from
               PROVE  contact'[c] > 0
    BY <1>2 DEF PageIsNext, legacy
  <2>1. c \in Nat /\ cursor \in Nat /\ last \in Nat /\ c \in Clients /\ cursor < last
    BY <1>2, <1>3, ClientFacts DEF TypeOK, InStep
  <2>2. CASE c <= last
    BY <1>6, <2>2
  <2>3. CASE c \in batch
    BY <1>7, <2>1, <2>3
  <2>4. CASE c > last /\ c \notin batch
    <3>1. Cardinality(batch) >= PerPage
      BY <1>2, <2>1, <2>4 DEF PageIsNext
    <3>2. Cardinality(batch) \in Nat /\ PerPage \in Nat
      BY <1>2, ClientFacts DEF TypeOK
    <3> QED
      BY <3>1, <3>2 DEF LastPage
  <2> QED
    BY <2>1, <2>2, <2>3, <2>4
<1> QED
  BY <1>6, <1>8, <1>9, <1>10 DEF IInv

LEMMA CommitAndFailIsSafe ==
    ASSUME IInv, CommitAndFail
    PROVE  IInv'
<1>1. PICK last \in batch : IsLast(last) /\ Fail(SaveCursorProgress(rows[step], last))
  BY DEF CommitAndFail
<1>2. /\ TypeOK /\ pc = "commit" /\ Accepted /\ WritePage /\ UNCHANGED <<env, legacy>> /\ Die
  BY <1>1 DEF CommitAndFail, IInv, Fail
<1>3. rows[step] \in StepRow(Clients) /\ last \in Clients
  BY <1>2 DEF TypeOK
<1> DEFINE saved == SaveCursorProgress(rows[step], last)
           r == IF rows' = [rows EXCEPT ![step] = saved] THEN saved ELSE MarkStepFailed(saved, 0)
<1>4. rows' = [rows EXCEPT ![step] = r]
  BY <1>1 DEF Fail
<1>5. /\ saved \in StepRow(Clients) /\ saved.status = "in_progress" /\ SavedIn(saved) = last
      /\ saved.completedAt = rows[step].completedAt
  BY <1>3, CursorRow, NoCursorAssumption
<1>6. /\ MarkStepFailed(saved, 0) \in StepRow(Clients)
      /\ MarkStepFailed(saved, 0).status = "failed" /\ SavedIn(MarkStepFailed(saved, 0)) = last
      /\ MarkStepFailed(saved, 0).completedAt = rows[step].completedAt
  <2> HIDE DEF saved
  <2> QED
    BY <1>5, FailedRow DEF IsCompleted
<1>7. /\ r \in StepRow(Clients) /\ r.status \in {"in_progress", "failed"} /\ SavedIn(r) = last
      /\ r.completedAt = rows[step].completedAt
  <2> HIDE DEF saved
  <2> QED
    BY <1>5, <1>6
<1> HIDE DEF r
<1>8. DbInv' /\ rows' \in [ClientSteps -> StepRow(Clients)]
  BY <1>1, <1>2, <1>4, <1>7, PageIsSafe
<1>9. contact' \in [Clients -> Nat] /\ links' \in [Clients -> SUBSET Nat]
  BY <1>2, PageWritten
<1> QED
  BY <1>2, <1>8, <1>9, AtRest DEF IInv, TypeOK, legacy

LEMMA FailOrCrashIsSafe ==
    ASSUME IInv, FailOrCrash
    PROVE  IInv'
<1>1. TypeOK /\ UNCHANGED <<env, legacy, chat>> /\ Die /\ pc # "off"
  BY DEF IInv, FailOrCrash, Fail
<1>2. DbInv' /\ rows' \in [ClientSteps -> StepRow(Clients)]
  <2>1. CASE Fail(rows[step])
    BY <1>1, <2>1, StopIsSafe
  <2>2. CASE UNCHANGED rows
    BY <1>1, <2>2, SameDatabase DEF TypeOK
  <2> QED
    BY <2>1, <2>2 DEF FailOrCrash
<1> QED
  BY <1>1, <1>2, AtRest DEF IInv, TypeOK, legacy, chat

\* The time of the completion is behind nobody who has no contact.
LEMMA CompleteIsSafe ==
    ASSUME IInv, Complete
    PROVE  IInv'
<1>1. /\ TypeOK /\ InTime /\ RowsInOrder /\ InStep /\ NothingBehindWatermark
      /\ RowNamesContact /\ (env.quiet => ServedBehind /\ PageIsNext)
  BY DEF IInv, DbInv
<1>2. /\ pc = "done" /\ Die /\ UNCHANGED <<env, legacy, chat>>
      /\ rows' = [rows EXCEPT ![step] = MarkStepCompleted(@, Now)]
  BY DEF Complete
<1>3. step \in ClientSteps /\ rows[step] \in StepRow(Clients) /\ Now \in Nat
  BY <1>1, NowFacts DEF TypeOK
<1> DEFINE r == MarkStepCompleted(rows[step], Now)
<1>4. /\ r \in StepRow(Clients) /\ r.status = "completed" /\ r.cursor = NoCursor
      /\ r.completedAt = Now
  BY <1>3, CompletedRow
<1>5. rows' = [rows EXCEPT ![step] = r]
  BY <1>2
<1> HIDE DEF r
<1>6. /\ rows' \in [ClientSteps -> StepRow(Clients)]
      /\ \A s \in ClientSteps : rows'[s] = IF s = step THEN r ELSE rows[s]
  BY <1>1, <1>4, <1>5 DEF TypeOK
<1>7. Now' = Now /\ Created' = Created
  BY <1>2, SameTime DEF legacy
<1>8. \A s \in ClientSteps : rows'[s].completedAt <= Now /\ rows'[s].completedAt \in Nat
  BY <1>1, <1>3, <1>4, <1>6, WatermarkFacts DEF InTime
<1>9. Watermark' = Now
  <2>1. rows'["clients"].completedAt = Now \/ rows'["sync_clients"].completedAt = Now
    BY <1>3, <1>4, <1>6 DEF ClientSteps
  <2> QED
    BY <1>3, <1>8, <2>1 DEF Watermark, GetStepCompletedAt, ClientSteps
<1>10. InTime'
  BY <1>1, <1>2, <1>7, <1>8 DEF InTime, legacy, chat
<1>11. RowsInOrder'
  BY <1>1, <1>2, <1>4, <1>6 DEF RowsInOrder, InStep, ClientSteps
<1>12. RowNamesContact'
  BY <1>1, <1>2 DEF RowNamesContact, chat
<1>13. ContactsBehind'
  BY <1>1, <1>2, <1>9 DEF InTime, ContactsBehind, legacy, chat
<1>14. (env.quiet => ServedBehind)'
  <2> SUFFICES ASSUME env.quiet, NEW s \in ClientSteps, NEW c \in chatting,
                      born[c] >= Start(s)', c <= Saved(s)'
               PROVE  contact[c] > 0
    BY <1>1, <1>2, <1>7 DEF ServedBehind, legacy, chat
  <2>1. c \in Clients /\ c \in Nat /\ c > 0 /\ born[c] \in Nat
    BY <1>1, ClientFacts DEF TypeOK
  <2>2. s = "clients"
    <3>1. born[c] < Now
      BY <1>1, <2>1 DEF InTime
    <3>2. s = "sync_clients" => Start(s)' = Now
      BY <1>9 DEF Start
    <3> QED
      BY <1>3, <2>1, <3>1, <3>2 DEF ClientSteps
  <2>3. step = "sync_clients"
    <3>1. step = s => Saved(s)' = 0
      BY <1>4, <1>6, <2>2 DEF Saved, GetCursorProgress
    <3>2. step # s
      BY <2>1, <3>1
    <3> QED
      BY <1>3, <2>2, <3>2 DEF ClientSteps
  <2>4. Saved(s)' = Saved(s) /\ Start(s) = 0
    BY <1>6, <2>2, <2>3 DEF Saved, Start, ClientSteps
  <2> QED
    BY <1>1, <2>1, <2>2, <2>4 DEF ServedBehind
<1>15. NothingBehindWatermark'
  <2> SUFFICES ASSUME env.quiet, NEW c \in chatting
               PROVE  contact[c] > 0
    BY <1>2 DEF NothingBehindWatermark, legacy, chat
  <2>1. c \in Clients /\ born[c] \in Nat /\ Watermark \in Nat
    BY <1>1, WatermarkFacts DEF TypeOK
  <2>2. from = Start(step)
    BY <1>1, <1>2 DEF InStep
  <2>3. CASE born[c] >= from
    BY <1>1, <1>2, <2>3 DEF PageIsNext
  <2>4. CASE ~(born[c] >= from)
    <3>1. from = Watermark
      BY <2>1, <2>2, <2>4 DEF Start
    <3>2. born[c] < Watermark
      BY <2>1, <2>4, <3>1
    <3> QED
      BY <1>1, <3>2 DEF NothingBehindWatermark
  <2> QED
    BY <2>3, <2>4
<1> QED
  BY <1>1, <1>2, <1>6, <1>10, <1>11, <1>12, <1>13, <1>14, <1>15, AtRest
     DEF IInv, DbInv, TypeOK, legacy, chat

--------------------------------------------------------------------------------

LEMMA NextIsSafe == IInv /\ [Next]_vars => IInv'
<1> SUFFICES ASSUME IInv, [Next]_vars
             PROVE  IInv'
  OBVIOUS
<1>1. ASSUME NEW c \in Clients, LegacyCreate(c)
      PROVE  IInv'
  BY <1>1, CreateIsSafe
<1>2. ASSUME NEW c \in Clients, LegacyOpenChannel(c)
      PROVE  IInv'
  BY <1>2, OpenChannelIsSafe
<1>3. ASSUME NEW s \in ClientSteps, Launch(s)
      PROVE  IInv'
  BY <1>3, LaunchIsSafe
<1>4. CASE Fetch
  BY <1>4, FetchIsSafe
<1>5. CASE Commit
  BY <1>5, CommitIsSafe
<1>6. CASE CommitAndFail
  BY <1>6, CommitAndFailIsSafe
<1>7. CASE FailOrCrash
  BY <1>7, FailOrCrashIsSafe
<1>8. CASE Complete
  BY <1>8, CompleteIsSafe
<1>9. CASE UNCHANGED vars
  <2>1. DbInv' /\ MigratedFirst' = MigratedFirst
        /\ \A s \in ClientSteps : Saved(s)' = Saved(s) /\ Start(s)' = Start(s)
    BY <1>9, SameDatabase DEF vars, legacy, chat
  <2>2. TypeOK' /\ PageIsNext' = PageIsNext
    BY <1>9 DEF vars, legacy, chat, process, IInv, TypeOK, PageIsNext
  <2>3. InStep'
    BY <1>9, <2>1 DEF vars, legacy, chat, process, IInv, TypeOK, InStep
  <2> QED
    BY <1>9, <2>1, <2>2, <2>3 DEF vars, IInv
<1> QED
  BY <1>1, <1>2, <1>3, <1>4, <1>5, <1>6, <1>7, <1>8, <1>9 DEF Next

\* The inductive invariant holds, however the runs are interrupted.
THEOREM Invariance == Spec => []IInv
BY InitIsSafe, NextIsSafe, PTL DEF Spec

\* Every variable has its type.
THEOREM TypeCorrect == Spec => []TypeOK
<1>1. IInv => TypeOK
  BY DEF IInv
<1> QED
  BY Invariance, <1>1, PTL

\* A client has one migration row, which names its contact: pages of sync mode, whose
\* insert passes over a contact that is there, never come to a client that has one.
THEOREM OneRowOfContact == Spec => []RowNamesContact
<1>1. IInv => RowNamesContact
  BY DEF IInv, DbInv
<1> QED
  BY Invariance, <1>1, PTL

\* Whoever was created before the time from which the next run looks has a contact.
THEOREM NobodyIsLeftBehind == Spec => []NothingBehindWatermark
<1>1. IInv => NothingBehindWatermark
  BY DEF IInv, DbInv
<1> QED
  BY Invariance, <1>1, PTL

--------------------------------------------------------------------------------

\* A failure leaves the position of its row where the page that was committed put it.
LEMMA FailGoesForward ==
    ASSUME TypeOK, RowsInOrder, NEW r \in StepRow(Clients),
           r.completedAt = rows[step].completedAt, SavedIn(r) >= Saved(step),
           IsCompleted(r) => r.cursor = NoCursor, Fail(r)
    PROVE  \A s \in ClientSteps :
               rows'[s].completedAt >= rows[s].completedAt /\ Saved(s)' >= Saved(s)
<1> DEFINE f == IF rows' = [rows EXCEPT ![step] = r] THEN r ELSE MarkStepFailed(r, 0)
<1>1. rows' = [rows EXCEPT ![step] = f]
  BY DEF Fail
<1>2. /\ f \in StepRow(Clients) /\ f.completedAt = rows[step].completedAt
      /\ SavedIn(f) = SavedIn(r)
  BY FailedRow
<1> HIDE DEF f
<1>3. \A s \in ClientSteps : /\ rows'[s].completedAt = rows[s].completedAt
                             /\ Saved(s)' = IF s = step THEN SavedIn(r) ELSE Saved(s)
  BY <1>1, <1>2, RowWritten
<1> QED
  BY <1>3, SavedFacts, WatermarkFacts

\* Neither a failure, whose record of progress has no cursor, nor a completion takes back
\* what the two forms have reached, and no page touches a contact that is there.
THEOREM NothingIsTakenBack == Spec => OnlyForward
<1> DEFINE Rows == \A s \in ClientSteps :
                     /\ rows'[s].completedAt >= rows[s].completedAt
                     /\ Saved(s)' >= Saved(s) \/ IsCompleted(rows'[s])
           Contacts == \A c \in Clients :
                         contact[c] > 0 => contact'[c] = contact[c] /\ links'[c] = links[c]
<1>1. ASSUME IInv, [Next]_vars
      PROVE  Rows
  <2>0. /\ TypeOK /\ InTime /\ RowsInOrder /\ InStep
        /\ \A s \in ClientSteps : Saved(s) \in Nat /\ rows[s].completedAt \in Nat
    BY <1>1, SavedFacts, WatermarkFacts DEF IInv, DbInv
  <2>1. CASE rows' = rows
    BY <2>0, <2>1 DEF Saved
  <2>2. CASE Commit \/ CommitAndFail
    <3>1. PICK last \in batch :
            \/ rows' = [rows EXCEPT ![step] = SaveCursorProgress(@, last)]
            \/ Fail(SaveCursorProgress(rows[step], last))
      BY <2>2 DEF Commit, CommitAndFail
    <3>2. /\ last \in Clients /\ last \in Nat /\ Saved(step) \in Nat /\ pc = "commit"
          /\ last > Saved(step) /\ rows[step] \in StepRow(Clients)
      BY <2>0, <2>2, ClientFacts DEF TypeOK, InStep, Commit, CommitAndFail
    <3> DEFINE r == SaveCursorProgress(rows[step], last)
    <3>3. /\ r \in StepRow(Clients) /\ SavedIn(r) = last /\ ~IsCompleted(r)
          /\ r.completedAt = rows[step].completedAt
      BY <3>2, CursorRow, NoCursorAssumption DEF IsCompleted
    <3>4. CASE rows' = [rows EXCEPT ![step] = r]
      <4> HIDE DEF r
      <4>1. \A s \in ClientSteps : /\ rows'[s].completedAt = rows[s].completedAt
                                   /\ Saved(s)' = IF s = step THEN last ELSE Saved(s)
        BY <2>0, <3>3, <3>4, RowWritten
      <4> QED
        BY <2>0, <3>2, <4>1
    <3>5. CASE Fail(r)
      <4> HIDE DEF r
      <4> QED
        BY <2>0, <3>2, <3>3, <3>5, FailGoesForward
    <3> QED
      BY <3>1, <3>4, <3>5
  <2>3. CASE FailOrCrash /\ rows' # rows
    <3>1. Fail(rows[step]) /\ step \in ClientSteps
      BY <2>0, <2>3 DEF FailOrCrash, TypeOK
    <3>2. /\ rows[step] \in StepRow(Clients) /\ SavedIn(rows[step]) = Saved(step)
          /\ IsCompleted(rows[step]) => rows[step].cursor = NoCursor
      BY <2>0, <3>1, SavedFacts DEF TypeOK, RowsInOrder, IsCompleted
    <3> QED
      BY <2>0, <3>1, <3>2, FailGoesForward
  <2>4. CASE Complete
    <3>1. /\ rows' = [rows EXCEPT ![step] = MarkStepCompleted(@, Now)]
          /\ step \in ClientSteps /\ rows[step] \in StepRow(Clients) /\ Now \in Nat
      BY <2>0, <2>4, NowFacts DEF Complete, TypeOK
    <3>2. /\ \A s \in ClientSteps : s # step => rows'[s] = rows[s]
          /\ rows'[step].completedAt = Now /\ IsCompleted(rows'[step])
      BY <2>0, <3>1 DEF TypeOK, MarkStepCompleted, IsCompleted
    <3> QED
      BY <2>0, <3>2 DEF InTime, Saved
  <2> QED
    BY <1>1, <2>1, <2>2, <2>3, <2>4 DEF Next, LegacyCreate, LegacyOpenChannel, Launch, Fetch,
       FailOrCrash, vars
<1>2. ASSUME IInv, [Next]_vars
      PROVE  Contacts
  <2>1. CASE Commit \/ CommitAndFail
    <3>1. pc = "commit" /\ Accepted /\ WritePage
      BY <2>1 DEF Commit, CommitAndFail
    <3>2. \A c \in batch : contact[c] = 0
      BY <1>2, <3>1, PageIsUnserved
    <3> QED
      BY <3>1, <3>2 DEF WritePage
  <2>2. CASE contact' = contact /\ links' = links
    BY <2>2
  <2> QED
    BY <1>2, <2>1, <2>2 DEF Next, LegacyCreate, LegacyOpenChannel, Launch, Fetch, FailOrCrash,
       Complete, vars, chat
<1>3. IInv /\ [Next]_vars => [Rows /\ Contacts]_vars
  BY <1>1, <1>2
<1> QED
  BY <1>3, Invariance, PTL DEF Spec, OnlyForward
================================================================================
