------------------------------- MODULE BotsProofs -------------------------------
(***************************************************************************)
(* Theorems about Bots, for any bots, page size and surroundings.          *)
(***************************************************************************)
EXTENDS Bots, PageLemmas

(* Bots, the time and the rows. *)

LEMMA BotFacts ==
    /\ \A b \in Bots : b \in Nat
    /\ \A S \in SUBSET Bots : S \in SUBSET Nat /\ IsFiniteSet(S)
    /\ PerPage \in Nat \ {0}
BY BotsAssumption, SettingsAssumption, FS_Subset

LEMMA RankOfBot ==
    ASSUME NEW S \in SUBSET Bots, NEW b
    PROVE  Rank(b, S) \in Nat
BY BotFacts, RankGrows

LEMMA FoundFacts ==
    \A b, n : /\ Found(n) \in SUBSET Bots /\ Found(n) \in SUBSET Nat /\ IsFiniteSet(Found(n))
              /\ Before(b, n) = Rank(b, Found(n)) /\ Before(b, n) \in Nat
<1> TAKE b, n
<1>1. Found(n) \in SUBSET Bots
  BY DEF Found, Created
<1>2. Before(b, n) = Rank(b, Found(n))
  BY DEF Before, Rank
<1> QED
  BY <1>1, <1>2, BotFacts, RankGrows

LEMMA MaxFacts ==
    ASSUME NEW f \in [Bots -> Nat]
    PROVE  /\ Max({f[b] : b \in Bots} \cup {0}) \in Nat
           /\ \A b \in Bots : f[b] <= Max({f[b1] : b1 \in Bots} \cup {0})
<1> DEFINE T == {f[b] : b \in Bots}
           S == T \cup {0}
<1>1. IsFiniteSet(S)
  <2>1. f \in Surjection(Bots, T)
    BY DEF Surjection
  <2> HIDE DEF T
  <2> QED
    BY <2>1, BotsAssumption, FS_Surjection, FS_AddElement
<1>2. S \in SUBSET Nat /\ S # {} /\ \A b \in Bots : f[b] \in S
  OBVIOUS
<1> HIDE DEF S
<1>3. PICK m \in S : \A n \in S : n <= m
  BY <1>1, <1>2, NatMax
<1>4. m \in S /\ \A n \in S : m >= n
  BY <1>2, <1>3
<1>5. Max(S) \in S /\ \A n \in S : Max(S) >= n
  BY <1>4 DEF Max
<1>6. Max(S) \in Nat /\ \A b \in Bots : f[b] <= Max(S)
  BY <1>2, <1>5
<1> QED
  BY <1>6 DEF S

LEMMA NowFacts ==
    ASSUME latest \in [Bots -> Nat]
    PROVE  Now \in Nat /\ \A b \in Bots : latest[b] < Now
BY MaxFacts DEF Now

LEMMA NowLaterFacts ==
    ASSUME latest' \in [Bots -> Nat]
    PROVE  Now' \in Nat /\ \A b \in Bots : latest'[b] < Now'
BY MaxFacts DEF Now

LEMMA RowTypes ==
    ASSUME TypeOK
    PROVE  /\ Watermark \in Nat
           /\ \E s \in BotSteps : Watermark = rows[s].completedAt
           /\ \A s \in BotSteps : /\ rows[s] \in StepRow({}) /\ rows[s].completedAt \in Nat
                                  /\ Progress(s) \in Nat /\ Since(s) \in Nat
<1>1. \A s \in BotSteps : /\ rows[s] \in StepRow({}) /\ rows[s].completedAt \in Nat
                          /\ Progress(s) \in Nat
  BY OffsetRowFacts DEF TypeOK, Progress
<1>2. Watermark \in Nat /\ \E s \in BotSteps : Watermark = rows[s].completedAt
  BY <1>1 DEF Watermark, GetStepCompletedAt, BotSteps
<1>3. \A s : Since(s) \in Nat
  BY <1>2 DEF Since
<1> QED
  BY <1>1, <1>2, <1>3

LEMMA AwaitedFacts ==
    ASSUME InTime
    PROVE  \A s : Awaited(s) \in SUBSET Created /\ Awaited(s) \in SUBSET Bots
BY DEF InTime, Awaited, Created

--------------------------------------------------------------------------------

LEMMA InitIsSafe == Init => IInv
<1> SUFFICES ASSUME Init
             PROVE  IInv
  OBVIOUS
<1>1. TypeOK
  <2>1. AbsentRow \in StepRow({}) /\ Beginning \in Nat
    BY DEF AbsentRow, StepRow, Statuses, Beginning
  <2> QED
    BY <2>1, BotsAssumption DEF Init, TypeOK, BotSteps
<1>2. \A s \in BotSteps : /\ rows[s] = AbsentRow /\ rows[s].status = "absent"
                          /\ rows[s].offset = 0 /\ rows[s].completedAt = 0 /\ Progress(s) = 0
  BY DEF Init, AbsentRow, Progress, GetStepProgress, IsCompleted
<1>3. /\ \A b \in Bots : latest[b] = IF b \in Old THEN 2 ELSE 0
      /\ \A b \in Bots : botRows[b] = 0 /\ contacts[b] = 0
  BY DEF Init, Beginning
<1>4. InTime
  <2>1. Old \subseteq Created
    BY <1>3, BotsAssumption DEF Created
  <2> QED
    BY <1>1, <1>2, <1>3, <2>1, NowFacts DEF InTime, TypeOK
<1>5. RowsInOrder /\ OneAfterTheOther
  BY <1>2 DEF RowsInOrder, OneAfterTheOther, BotSteps
<1>6. LinkedBehind
  <2>1. \A b, n : ~(Before(b, n) < 0)
    BY FoundFacts
  <2>2. \A b \in Bots : ~(latest[b] < 0)
    BY <1>3
  <2> QED
    BY <1>2, <1>4, <2>1, <2>2, AwaitedFacts DEF LinkedBehind
<1>7. NotLinkedAhead
  BY <1>3, FoundFacts DEF NotLinkedAhead
<1>8. LinkedOnce
  BY <1>3 DEF LinkedOnce, LinkedBot
<1>9. InStep /\ PageIsNext
  BY DEF Init, InStep, PageIsNext
<1> QED
  BY <1>1, <1>4, <1>5, <1>6, <1>7, <1>8, <1>9 DEF IInv, DbInv

--------------------------------------------------------------------------------
(* Writes to the row of the running form. *)

LEMMA OneMayRun ==
    MayRun("bots") => ~MayRun("sync_bots")
BY DEF MayRun

\* What such a write changes, unless it completes the form.
LEMMA RowWritten ==
    ASSUME TypeOK, MayRun(step), RowsInOrder, OneAfterTheOther, UNCHANGED env,
           NEW r \in StepRow({}), r = rows[step] \/ r.status \in {"in_progress", "failed"},
           r.completedAt = rows[step].completedAt, rows' = [rows EXCEPT ![step] = r]
    PROVE  /\ rows' \in [BotSteps -> StepRow({})]
           /\ \A s \in BotSteps : rows'[s].completedAt = rows[s].completedAt
           /\ \A s : Since(s)' = Since(s)
           /\ \A s \in BotSteps : Progress(s)' = IF s = step THEN GetStepProgress(r) ELSE Progress(s)
           /\ \A s : MayRun(s)' = MayRun(s)
           /\ RowsInOrder' /\ OneAfterTheOther'
           /\ rows'["sync_bots"] = AbsentRow => rows["sync_bots"] = AbsentRow
           /\ r # rows[step] => (rows'["sync_bots"] = AbsentRow => step = "bots")
<1>1. /\ rows' \in [BotSteps -> StepRow({})] /\ step \in BotSteps
      /\ \A s \in BotSteps : rows'[s] = IF s = step THEN r ELSE rows[s]
  BY DEF TypeOK
<1>2. \A s \in BotSteps : rows'[s].completedAt = rows[s].completedAt
  BY <1>1
<1>3. \A s : Since(s)' = Since(s)
  BY <1>2 DEF Since, Watermark, GetStepCompletedAt, BotSteps
<1>4. \A s \in BotSteps : Progress(s)' = IF s = step THEN GetStepProgress(r) ELSE Progress(s)
  BY <1>1 DEF Progress
<1>5. IsCompleted(rows["bots"])' = IsCompleted(rows["bots"])
  <2>1. CASE step = "bots"
    <3>1. ~IsCompleted(rows["bots"]) /\ rows'["bots"] = r
      BY <1>1, <2>1 DEF MayRun
    <3>2. ~IsCompleted(r)
      BY <2>1, <3>1 DEF IsCompleted
    <3> QED
      BY <3>1, <3>2 DEF IsCompleted
  <2>2. CASE step = "sync_bots"
    BY <1>1, <2>2 DEF IsCompleted, BotSteps
  <2> QED
    BY <1>1, <2>1, <2>2 DEF BotSteps
<1>6. \A s : MayRun(s)' = MayRun(s)
  BY <1>5 DEF MayRun
<1>7. RowsInOrder'
  <2> SUFFICES ASSUME NEW s \in BotSteps, rows'[s].status \in {"absent", "completed"}
               PROVE  rows'[s].offset = 0
    BY DEF RowsInOrder
  <2>1. rows'[s] = rows[s]
    BY <1>1
  <2> QED
    BY <2>1 DEF RowsInOrder
<1>8. r # rows[step] => r # AbsentRow
  BY DEF AbsentRow
<1>9. OneAfterTheOther'
  <2>1. step = "bots" => env.migrates
    BY DEF MayRun
  <2>2. MayRun("bots") => step # "sync_bots"
    BY OneMayRun
  <2> QED
    BY <1>1, <1>6, <2>1, <2>2 DEF OneAfterTheOther, BotSteps
<1>10. rows'["sync_bots"] = AbsentRow => rows["sync_bots"] = AbsentRow /\ (r # rows[step] => step = "bots")
  BY <1>1, <1>8 DEF BotSteps
<1> QED
  BY <1>1, <1>2, <1>3, <1>4, <1>6, <1>7, <1>9, <1>10

\* Only rows are written, and no saved offset or time of a completion changes.
LEMMA SameDatabase ==
    ASSUME TypeOK, DbInv, UNCHANGED <<env, sources, chat>>,
           \A s \in BotSteps : rows'[s].completedAt = rows[s].completedAt,
           \A s \in BotSteps : Since(s)' = Since(s) /\ Progress(s)' = Progress(s),
           \A s \in BotSteps : MayRun(s)' = MayRun(s),
           RowsInOrder', OneAfterTheOther',
           rows'["sync_bots"] = AbsentRow => rows["sync_bots"] = AbsentRow
    PROVE  DbInv'
<1>1. /\ InTime /\ LinkedBehind /\ (Calm => NotLinkedAhead) /\ LinkedOnce
      /\ UNCHANGED <<env, latest, mapped, contacts, botRows>>
  BY DEF DbInv, sources, chat
<1>2. Now' = Now /\ Created' = Created
  BY <1>1 DEF Now, Created
<1>3. \A n : Found(n)' = Found(n)
  BY <1>1, <1>2 DEF Found
<1>4. \A s \in BotSteps : \A b : Found(Since(s))' = Found(Since(s)) /\ Before(b, Since(s))' = Before(b, Since(s))
  <2> TAKE s \in BotSteps
  <2> TAKE b
  <2>1. Since(s)' = Since(s)
    OBVIOUS
  <2> HIDE DEF Since
  <2> QED
    BY <1>1, <1>2, <2>1 DEF Before, Found
<1>5. \A s : Awaited(s)' = Awaited(s)
  BY <1>1, <1>2 DEF Awaited
<1>6. InTime'
  BY <1>1, <1>2 DEF InTime
<1>7. LinkedBehind'
  BY <1>1, <1>4, <1>5 DEF LinkedBehind
<1>8. (Calm => NotLinkedAhead)'
  BY <1>1, <1>4 DEF Calm, NotLinkedAhead, CameOnce
<1>9. LinkedOnce'
  BY <1>1 DEF LinkedOnce, LinkedBot
<1> QED
  BY <1>6, <1>7, <1>8, <1>9 DEF DbInv

LEMMA NothingWritten ==
    ASSUME TypeOK, DbInv, UNCHANGED <<env, sources, chat, rows>>
    PROVE  /\ DbInv'
           /\ \A s : Since(s)' = Since(s) /\ Progress(s)' = Progress(s) /\ MayRun(s)' = MayRun(s)
<1>1. \A s : Since(s)' = Since(s) /\ Progress(s)' = Progress(s) /\ MayRun(s)' = MayRun(s)
  BY DEF Since, Watermark, Progress, MayRun
<1>2. RowsInOrder' /\ OneAfterTheOther'
  BY <1>1 DEF DbInv, RowsInOrder, OneAfterTheOther
<1> QED
  BY <1>1, <1>2, SameDatabase

\* A run that fails without a page leaves the database in order.
LEMMA StopIsSafe ==
    ASSUME IInv, pc # "off", Fail(rows[step]), UNCHANGED <<env, sources, chat>>
    PROVE  DbInv' /\ rows' \in [BotSteps -> StepRow({})]
<1> DEFINE old == rows[step]
           r == IF rows' = [rows EXCEPT ![step] = old] THEN old ELSE MarkStepFailed(old, offset)
<1>1. TypeOK /\ DbInv /\ RowsInOrder /\ OneAfterTheOther /\ MayRun(step) /\ offset = Progress(step)
  BY DEF IInv, DbInv, InStep
<1>2. old \in StepRow({}) /\ step \in BotSteps /\ offset \in Nat
  BY <1>1 DEF TypeOK
<1>3. rows' = [rows EXCEPT ![step] = r]
  BY DEF Fail, Known
<1>4. /\ r \in StepRow({}) /\ r.completedAt = old.completedAt
      /\ r = old \/ r.status = "failed"
      /\ GetStepProgress(r) = Progress(step)
  <2> HIDE DEF old
  <2>1. /\ MarkStepFailed(old, offset) \in StepRow({})
        /\ MarkStepFailed(old, offset).completedAt = old.completedAt
        /\ MarkStepFailed(old, offset).status = "failed"
        /\ GetStepProgress(MarkStepFailed(old, offset)) = offset
    BY <1>2, OffsetRowFacts, OffsetRowValues
  <2>2. GetStepProgress(old) = Progress(step)
    BY DEF Progress, old
  <2> QED
    BY <1>1, <1>2, <2>1, <2>2
<1> HIDE DEF r
<1>5. /\ rows' \in [BotSteps -> StepRow({})]
      /\ \A s \in BotSteps : rows'[s].completedAt = rows[s].completedAt
      /\ \A s : Since(s)' = Since(s) /\ MayRun(s)' = MayRun(s)
      /\ \A s \in BotSteps : Progress(s)' = IF s = step THEN GetStepProgress(r) ELSE Progress(s)
      /\ RowsInOrder' /\ OneAfterTheOther'
      /\ rows'["sync_bots"] = AbsentRow => rows["sync_bots"] = AbsentRow
  BY <1>1, <1>3, <1>4, RowWritten
<1> QED
  BY <1>1, <1>4, <1>5, SameDatabase

\* Between runs nothing is asked of where a run is.
LEMMA AtRest ==
    ASSUME Die
    PROVE  /\ InStep' /\ PageIsNext'
           /\ TypeOK => /\ step' \in BotSteps /\ pc' \in {"off", "fetch", "commit", "done"}
                        /\ offset' \in Nat /\ from' \in Nat
                        /\ batch' \in SUBSET Bots /\ more' \in BOOLEAN
BY DEF Die, InStep, PageIsNext, TypeOK

--------------------------------------------------------------------------------
(* Pages. *)

LEMMA LaunchIsSafe ==
    ASSUME IInv, NEW s \in BotSteps, Launch(s)
    PROVE  IInv'
<1>1. TypeOK /\ DbInv /\ InStep
  BY DEF IInv
<1>2. /\ UNCHANGED <<env, sources, rows, chat, batch, more>>
      /\ pc = "off" /\ pc' = "fetch" /\ step' = s
      /\ offset' = Progress(s) /\ from' = Since(s)
  BY DEF Launch, Progress, Since
<1>3. MayRun(s)
  BY DEF Launch, MayRun, BotSteps
<1>4. /\ DbInv'
      /\ \A q : Since(q)' = Since(q) /\ Progress(q)' = Progress(q) /\ MayRun(q)' = MayRun(q)
  BY <1>1, <1>2, NothingWritten
<1>5. TypeOK'
  BY <1>1, <1>2, RowTypes DEF TypeOK, sources, chat
<1>6. InStep'
  <2>1. batch' = {}
    BY <1>1, <1>2 DEF InStep
  <2>2. MayRun(s)' /\ offset' = Progress(s)' /\ from' = Since(s)'
    BY <1>2, <1>3, <1>4
  <2>3. MayRun(step)' /\ (offset = Progress(step))' /\ (from = Since(step))'
    BY <1>2, <2>2 DEF MayRun, Progress, Since
  <2> QED
    BY <1>2, <2>1, <2>3 DEF InStep
<1> QED
  BY <1>2, <1>4, <1>5, <1>6 DEF IInv, PageIsNext

\* What lies before the offset is linked: what is not is on the page, or comes after a
\* full one.
LEMMA FetchIsSafe ==
    ASSUME IInv, Fetch
    PROVE  IInv'
<1>1. TypeOK /\ DbInv /\ InStep /\ InTime /\ LinkedBehind
  BY DEF IInv, DbInv
<1>2. /\ UNCHANGED <<env, sources, rows, chat, step, offset, from>>
      /\ pc = "fetch" /\ pc' = "commit" /\ batch' = Page /\ more' = FullPage(Page)
  BY DEF Fetch
<1>3. /\ DbInv'
      /\ \A q : Since(q)' = Since(q) /\ Progress(q)' = Progress(q) /\ MayRun(q)' = MayRun(q)
  BY <1>1, <1>2, NothingWritten
<1>4. /\ Created' = Created /\ Page' = Page
      /\ \A n : Found(n)' = Found(n)
      /\ \A b, n : Before(b, n)' = Before(b, n)
  <2>1. Created' = Created
    BY <1>2 DEF Created, sources
  <2>2. \A n : Found(n)' = Found(n)
    BY <1>2, <2>1 DEF Found, sources
  <2>3. \A b, n : Before(b, n)' = Before(b, n)
    BY <2>2 DEF Before
  <2>4. Found(from)' = Found(from)
    BY <1>2, <2>1 DEF Found, sources
  <2>5. \A b : Before(b, from)' = Before(b, from)
    BY <1>2, <2>4 DEF Before
  <2>6. Page' = Page
    BY <1>2, <2>4, <2>5 DEF Page
  <2> QED
    BY <2>1, <2>2, <2>3, <2>6
<1>5. Page \in SUBSET Created /\ Page \in SUBSET Bots
  BY DEF Page, Found, Created
<1>6. TypeOK'
  BY <1>1, <1>2, <1>5 DEF TypeOK, sources, chat, FullPage
<1>7. InStep'
  <2>1. MayRun(step) /\ offset = Progress(step) /\ from = Since(step)
    BY <1>1, <1>2 DEF InStep
  <2>2. MayRun(step)' /\ (offset = Progress(step))' /\ (from = Since(step))'
    BY <1>2, <2>1 DEF MayRun, Progress, Since, Watermark
  <2> QED
    BY <1>2, <1>4, <1>5, <2>2 DEF InStep
<1>8. PageIsNext'
  <2>1. Awaited(step)' = Awaited(step) /\ Found(from)' = Found(from)
        /\ \A b : Before(b, from)' = Before(b, from)
    <3>1. Found(from)' = Found(from)
      BY <1>2, <1>4 DEF Found, sources
    <3> QED
      BY <1>2, <1>4, <3>1 DEF Awaited, Before
  <2> SUFFICES ASSUME NEW b \in Awaited(step), b \in Found(from), botRows[b] = 0, b \notin Page
               PROVE  FullPage(Page) /\ offset + PerPage <= Before(b, from)
    BY <1>2, <2>1 DEF PageIsNext, chat
  <2>2. /\ Found(from) \in SUBSET Nat /\ IsFiniteSet(Found(from))
        /\ \A c : Before(c, from) = Rank(c, Found(from)) /\ Before(c, from) \in Nat
        /\ offset \in Nat /\ PerPage \in Nat \ {0}
    BY <1>1, FoundFacts, BotFacts DEF TypeOK
  <2>3. offset <= Before(b, from)
    <3>1. /\ offset = Progress(step) /\ from = Since(step) /\ step \in BotSteps
      BY <1>1, <1>2 DEF InStep, TypeOK
    <3>2. ~(Before(b, from) < offset)
      BY <1>1, <3>1 DEF LinkedBehind
    <3> QED
      BY <2>2, <3>2
  <2>4. offset + PerPage <= Before(b, from)
    <3>1. ~(Before(b, from) < offset + PerPage)
      BY <2>3 DEF Page
    <3> QED
      BY <2>2, <3>1
  <2>5. Page = {x \in Found(from) : /\ offset <= Rank(x, Found(from))
                                    /\ Rank(x, Found(from)) < offset + PerPage}
    BY <2>2 DEF Page
  <2>6. Cardinality(Page) >= PerPage
    BY <2>2, <2>4, <2>5, OffsetPage
  <2> QED
    BY <2>4, <2>6 DEF FullPage
<1> QED
  BY <1>3, <1>6, <1>7, <1>8 DEF IInv

LEMMA PageWritten ==
    ASSUME TypeOK, WritePage
    PROVE  /\ contacts' \in [Bots -> Nat] /\ botRows' \in [Bots -> Nat]
           /\ \A b \in Bots : botRows'[b] = IF b \in batch THEN botRows[b] + 1 ELSE botRows[b]
           /\ \A b \in Bots : contacts'[b] = IF b \in Contacted /\ ~PassedOver(b)
                                             THEN contacts[b] + 1 ELSE contacts[b]
           /\ \A b \in Bots : botRows'[b] = 0 => botRows[b] = 0 /\ b \notin batch
           /\ \A b \in Bots : botRows[b] > 0 => botRows'[b] > 0
           /\ \A b \in batch : botRows'[b] > 0
<1>1. \A b \in Bots : contacts[b] \in Nat /\ botRows[b] \in Nat
  BY DEF TypeOK
<1>2. /\ \A b \in Bots : botRows'[b] = IF b \in batch THEN botRows[b] + 1 ELSE botRows[b]
      /\ \A b \in Bots : contacts'[b] = IF b \in Contacted /\ ~PassedOver(b)
                                        THEN contacts[b] + 1 ELSE contacts[b]
  BY DEF WritePage
<1>3. contacts' \in [Bots -> Nat] /\ botRows' \in [Bots -> Nat]
  BY <1>1 DEF WritePage
<1>4. batch \in SUBSET Bots
  BY DEF TypeOK
<1> QED
  BY <1>1, <1>2, <1>3, <1>4

\* A committed page leaves the database in order, with the offset after it or, when the
\* answer is lost, the one before it.
LEMMA PageIsSafe ==
    ASSUME IInv, pc = "commit", Accepted, WritePage,
           NEW r \in StepRow({}), r.status \in {"in_progress", "failed"},
           r.completedAt = rows[step].completedAt,
           \/ GetStepProgress(r) = offset + PerPage
           \/ ~env.answered /\ GetStepProgress(r) = offset,
           rows' = [rows EXCEPT ![step] = r], UNCHANGED <<env, sources>>
    PROVE  DbInv' /\ rows' \in [BotSteps -> StepRow({})]
<1>1. /\ TypeOK /\ InTime /\ RowsInOrder /\ OneAfterTheOther /\ LinkedBehind /\ PageIsNext
      /\ (Calm => NotLinkedAhead) /\ LinkedOnce /\ InStep
      /\ UNCHANGED <<env, latest, mapped>>
  BY DEF IInv, DbInv, sources
<1>2. /\ MayRun(step) /\ offset = Progress(step) /\ from = Since(step)
      /\ batch \in SUBSET Created /\ batch \in SUBSET Bots
      /\ step \in BotSteps /\ offset \in Nat /\ PerPage \in Nat
      /\ env.quiet => batch = Page
  BY <1>1, BotFacts DEF InStep, TypeOK
<1>3. /\ rows' \in [BotSteps -> StepRow({})]
      /\ \A s \in BotSteps : rows'[s].completedAt = rows[s].completedAt
      /\ \A s : Since(s)' = Since(s)
      /\ \A s \in BotSteps : Progress(s)' = IF s = step THEN GetStepProgress(r) ELSE Progress(s)
      /\ \A s : MayRun(s)' = MayRun(s)
      /\ RowsInOrder' /\ OneAfterTheOther'
      /\ rows'["sync_bots"] = AbsentRow => rows["sync_bots"] = AbsentRow
  BY <1>1, <1>2, RowWritten
<1>4. /\ contacts' \in [Bots -> Nat] /\ botRows' \in [Bots -> Nat]
      /\ \A b \in Bots : botRows'[b] = IF b \in batch THEN botRows[b] + 1 ELSE botRows[b]
      /\ \A b \in Bots : contacts'[b] = IF b \in Contacted /\ ~PassedOver(b)
                                        THEN contacts[b] + 1 ELSE contacts[b]
      /\ \A b \in Bots : botRows'[b] = 0 => botRows[b] = 0 /\ b \notin batch
      /\ \A b \in Bots : botRows[b] > 0 => botRows'[b] > 0
      /\ \A b \in batch : botRows'[b] > 0
  BY <1>1, PageWritten
<1>5. Now' = Now /\ Created' = Created /\ \A n : Found(n)' = Found(n)
      /\ \A s : Awaited(s)' = Awaited(s)
  <2>1. Now' = Now /\ Created' = Created
    BY <1>1 DEF Now, Created
  <2> QED
    BY <1>1, <2>1 DEF Found, Awaited
<1>6. \A s, b : Found(Since(s))' = Found(Since(s)) /\ Before(b, Since(s))' = Before(b, Since(s))
  <2> TAKE s, b
  <2>1. Since(s)' = Since(s)
    BY <1>3
  <2> HIDE DEF Since
  <2> QED
    BY <1>1, <1>5, <2>1 DEF Before, Found
<1>7. InTime'
  <2>1. \A b \in Bots : latest[b] = 0 => b \notin batch
    BY <1>2 DEF Created
  <2>2. \A b \in Bots : latest'[b] = 0 => botRows'[b] = 0 /\ contacts'[b] = 0
    BY <1>1, <1>4, <2>1 DEF InTime, Contacted
  <2> QED
    BY <1>1, <1>3, <1>5, <2>2 DEF InTime
<1>8. LinkedBehind'
  <2> SUFFICES ASSUME NEW s \in BotSteps, NEW b \in Awaited(s), botRows'[b] = 0
               PROVE  /\ ~(b \in Found(Since(s)) /\ Before(b, Since(s)) < Progress(s)')
                      /\ ~(latest[b] < rows[s].completedAt)
    <3>1. \A b \in Bots : botRows'[b] \in Nat
      BY <1>4
    <3> QED
      BY <1>1, <1>3, <1>5, <1>6, <3>1, AwaitedFacts DEF LinkedBehind
  <2>1. b \in Bots /\ botRows[b] = 0 /\ b \notin batch
    BY <1>1, <1>4, AwaitedFacts
  <2>2. ~(latest[b] < rows[s].completedAt)
    BY <1>1, <2>1 DEF LinkedBehind
  <2>3. CASE s # step
    BY <1>1, <1>3, <2>1, <2>2, <2>3 DEF LinkedBehind
  <2>4. CASE s = step
    <3>1. b \in Found(from) => offset + PerPage <= Before(b, from)
      BY <1>1, <2>1, <2>4 DEF PageIsNext
    <3>2. Progress(s)' = offset + PerPage \/ Progress(s)' = offset
      BY <1>3, <2>4
    <3>3. Before(b, from) \in Nat
      BY FoundFacts
    <3>4. b \in Found(from) => ~(Before(b, from) < Progress(s)')
      BY <1>2, <3>1, <3>2, <3>3
    <3> QED
      BY <1>2, <2>2, <2>4, <3>4
  <2> QED
    BY <2>3, <2>4
<1>9. Calm => \A b \in batch : /\ b \in Found(from)
                               /\ offset <= Before(b, from) /\ Before(b, from) < offset + PerPage
  BY <1>2 DEF Calm, Page
<1>10. (Calm => NotLinkedAhead)'
  <2> SUFFICES ASSUME Calm, NEW s \in BotSteps, MayRun(s), NEW b \in Found(Since(s)),
                      CameOnce(b), botRows'[b] > 0
               PROVE  Before(b, Since(s)) < Progress(s)'
    BY <1>1, <1>3, <1>6 DEF Calm, NotLinkedAhead, CameOnce
  <2>1. s = step
    BY <1>2, OneMayRun DEF BotSteps
  <2>2. Progress(s)' = offset + PerPage
    BY <1>3, <2>1 DEF Calm
  <2>3. b \in Found(from) /\ b \in Bots /\ Before(b, from) \in Nat /\ Since(s) = from
    BY <1>2, <2>1, FoundFacts
  <2>4. CASE b \in batch
    BY <1>9, <2>2, <2>3, <2>4
  <2>5. CASE b \notin batch
    <3>1. botRows[b] > 0
      BY <1>4, <2>3, <2>5
    <3>2. Before(b, from) < offset
      BY <1>1, <1>2, <2>1, <2>3, <3>1 DEF NotLinkedAhead
    <3> QED
      BY <1>2, <2>2, <2>3, <3>2
  <2> QED
    BY <2>4, <2>5
<1>11. LinkedOnce'
  <2>1. ASSUME env.quiet, env.answered, NEW b \in Bots, CameOnce(b)
        PROVE  LinkedBot(b)'
    <3>1. LinkedBot(b)
      BY <1>1, <2>1 DEF LinkedOnce, CameOnce
    <3>2. CASE b \notin batch
      BY <1>1, <1>4, <3>1, <3>2 DEF LinkedBot, Contacted
    <3>3. CASE b \in batch
      <4>1. botRows[b] = 0
        <5>1. ~(Before(b, from) < offset)
          BY <1>2, <1>9, <2>1, <3>3, FoundFacts DEF Calm
        <5>2. ~(botRows[b] > 0)
          BY <1>1, <1>2, <1>9, <2>1, <3>3, <5>1 DEF Calm, NotLinkedAhead
        <5> QED
          BY <1>1, <5>2 DEF TypeOK
      <4>2. contacts[b] = 0
        BY <3>1, <4>1 DEF LinkedBot
      <4>3. botRows'[b] = 1 /\ contacts'[b] = IF b \in mapped THEN 0 ELSE 1
        BY <1>4, <3>3, <4>1, <4>2 DEF Contacted, PassedOver
      <4> QED
        BY <1>1, <4>3 DEF LinkedBot
    <3> QED
      BY <3>2, <3>3
  <2>2. ASSUME rows'["sync_bots"] = AbsentRow, NEW b \in Bots \ mapped
        PROVE  contacts'[b] = botRows'[b]
    <3>1. step = "bots" /\ contacts[b] = botRows[b]
      <4>1. rows'["sync_bots"].status = "absent"
        BY <2>2 DEF AbsentRow
      <4>2. rows'[step].status # "absent"
        BY <1>1, <1>2 DEF TypeOK
      <4>3. step # "sync_bots"
        BY <4>1, <4>2
      <4> QED
        BY <1>1, <1>2, <1>3, <2>2, <4>3 DEF LinkedOnce, BotSteps
    <3>2. b \in batch => b \in Contacted /\ ~PassedOver(b)
      BY <3>1 DEF Accepted, Contacted, PassedOver
    <3>3. b \notin batch => b \notin Contacted
      BY DEF Contacted
    <3> QED
      BY <1>4, <3>1, <3>2, <3>3
  <2> QED
    BY <1>1, <2>1, <2>2 DEF LinkedOnce, CameOnce
<1> QED
  BY <1>3, <1>7, <1>8, <1>10, <1>11 DEF DbInv

\* The row that a committed page leaves.
LEMMA SavedRow ==
    ASSUME TypeOK
    PROVE  /\ Saved \in StepRow({}) /\ Saved.status = "in_progress"
           /\ Saved.completedAt = rows[step].completedAt
           /\ GetStepProgress(Saved) = offset + PerPage
           /\ MarkStepFailed(Saved, offset) \in StepRow({})
           /\ MarkStepFailed(Saved, offset).status = "failed"
           /\ MarkStepFailed(Saved, offset).completedAt = rows[step].completedAt
           /\ GetStepProgress(MarkStepFailed(Saved, offset)) = offset
<1>1. rows[step] \in StepRow({}) /\ offset \in Nat /\ offset + PerPage \in Nat
  BY BotFacts DEF TypeOK
<1>2. /\ Saved \in StepRow({}) /\ Saved.status = "in_progress"
      /\ Saved.completedAt = rows[step].completedAt
      /\ GetStepProgress(Saved) = offset + PerPage
  BY <1>1, OffsetRowFacts, OffsetRowValues DEF Saved
<1> QED
  BY <1>1, <1>2, OffsetRowFacts, OffsetRowValues

LEMMA CommitIsSafe ==
    ASSUME IInv, Commit
    PROVE  IInv'
<1>1. /\ TypeOK /\ InStep /\ InTime /\ PageIsNext /\ RowsInOrder /\ OneAfterTheOther
      /\ pc = "commit" /\ Accepted /\ WritePage /\ UNCHANGED <<env, latest, mapped, step, from>>
      /\ rows' = [rows EXCEPT ![step] = Saved]
      /\ offset' = offset + PerPage /\ pc' = (IF more THEN "fetch" ELSE "done")
      /\ batch' = {} /\ more' = FALSE
  BY DEF Commit, IInv, DbInv, sources
<1>2. step \in BotSteps /\ MayRun(step) /\ from = Since(step) /\ offset \in Nat /\ PerPage \in Nat
  BY <1>1, BotFacts DEF InStep, TypeOK
<1>3. DbInv' /\ rows' \in [BotSteps -> StepRow({})]
  BY <1>1, SavedRow, PageIsSafe DEF sources
<1>4. /\ contacts' \in [Bots -> Nat] /\ botRows' \in [Bots -> Nat]
      /\ \A b \in Bots : botRows'[b] = 0 => botRows[b] = 0 /\ b \notin batch
  BY <1>1, PageWritten
<1>5. TypeOK'
  <2>1. offset + PerPage \in Nat /\ pc' \in {"off", "fetch", "commit", "done"}
    BY <1>1, <1>2
  <2>2. /\ env \in Environments /\ latest \in [Bots -> Nat] /\ mapped \in SUBSET Bots
        /\ from \in Nat /\ step \in BotSteps
    BY <1>1 DEF TypeOK
  <2>3. /\ UNCHANGED <<env, latest, mapped, step, from>>
        /\ offset' = offset + PerPage /\ batch' = {} /\ more' = FALSE
    BY <1>1
  <2> QED
    BY <1>3, <1>4, <2>1, <2>2, <2>3 DEF TypeOK
<1>6. InStep'
  <2>1. /\ \A s : Since(s)' = Since(s) /\ MayRun(s)' = MayRun(s)
        /\ Progress(step)' = offset + PerPage
    <3>1. /\ \A s : Since(s)' = Since(s) /\ MayRun(s)' = MayRun(s)
          /\ \A s \in BotSteps : Progress(s)' = IF s = step THEN GetStepProgress(Saved) ELSE Progress(s)
      BY <1>1, <1>2, SavedRow, RowWritten
    <3>2. GetStepProgress(rows'[step]) = offset + PerPage
      BY <1>1, <1>2, SavedRow DEF TypeOK
    <3> QED
      BY <1>1, <3>1, <3>2 DEF Progress
  <2>2. MayRun(step)' /\ (offset = Progress(step))' /\ (from = Since(step))'
    <3>1. MayRun(step)'
      BY <1>1, <1>2, <2>1 DEF MayRun
    <3>2. (from = Since(step))'
      BY <1>1, <1>2, <2>1 DEF Since
    <3> QED
      BY <1>1, <2>1, <3>1, <3>2
  <2> QED
    BY <1>1, <2>2 DEF InStep
<1>7. PageIsNext'
  <2>1. Found(from)' = Found(from) /\ Awaited(step)' = Awaited(step)
    BY <1>1 DEF Found, Created, Awaited
  <2> SUFFICES ASSUME NEW b \in Awaited(step), b \in Found(from), botRows'[b] = 0
               PROVE  more
    BY <1>1, <2>1 DEF PageIsNext
  <2>2. b \in Bots /\ botRows[b] = 0 /\ b \notin batch
    BY <1>1, <1>4, AwaitedFacts
  <2> QED
    BY <1>1, <2>2 DEF PageIsNext
<1> QED
  BY <1>3, <1>5, <1>6, <1>7 DEF IInv

LEMMA CrashAfterCommitIsSafe ==
    ASSUME IInv, CrashAfterCommit
    PROVE  IInv'
<1>1. /\ TypeOK /\ pc = "commit" /\ Accepted /\ WritePage /\ Die /\ UNCHANGED <<env, sources>>
      /\ rows' = [rows EXCEPT ![step] = Saved]
  BY DEF CrashAfterCommit, IInv
<1>2. DbInv' /\ rows' \in [BotSteps -> StepRow({})]
  BY <1>1, SavedRow, PageIsSafe
<1>3. contacts' \in [Bots -> Nat] /\ botRows' \in [Bots -> Nat]
  BY <1>1, PageWritten
<1> QED
  BY <1>1, <1>2, <1>3, AtRest DEF IInv, TypeOK, sources

LEMMA CommitAnswerLostIsSafe ==
    ASSUME IInv, CommitAnswerLost
    PROVE  IInv'
<1>1. /\ TypeOK /\ pc = "commit" /\ Accepted /\ WritePage /\ Die /\ UNCHANGED <<env, sources>>
      /\ ~env.answered
      /\ \/ rows' = [rows EXCEPT ![step] = Saved]
         \/ rows' = [rows EXCEPT ![step] = MarkStepFailed(Saved, offset)]
  BY DEF CommitAnswerLost, Fail, Known, IInv
<1>2. DbInv' /\ rows' \in [BotSteps -> StepRow({})]
  <2>1. CASE rows' = [rows EXCEPT ![step] = Saved]
    BY <1>1, <2>1, SavedRow, PageIsSafe
  <2>2. CASE rows' = [rows EXCEPT ![step] = MarkStepFailed(Saved, offset)]
    BY <1>1, <2>2, SavedRow, PageIsSafe
  <2> QED
    BY <1>1, <2>1, <2>2
<1>3. contacts' \in [Bots -> Nat] /\ botRows' \in [Bots -> Nat]
  BY <1>1, PageWritten
<1> QED
  BY <1>1, <1>2, <1>3, AtRest DEF IInv, TypeOK, sources

LEMMA RefusedIsSafe ==
    ASSUME IInv, Refused
    PROVE  IInv'
<1>1. TypeOK /\ pc = "commit" /\ Die /\ Fail(rows[step]) /\ UNCHANGED <<env, sources, chat>>
  BY DEF Refused, Fail, IInv
<1>2. DbInv' /\ rows' \in [BotSteps -> StepRow({})]
  BY <1>1, StopIsSafe
<1> QED
  BY <1>1, <1>2, AtRest DEF IInv, TypeOK, sources, chat

LEMMA FailOrCrashIsSafe ==
    ASSUME IInv, FailOrCrash
    PROVE  IInv'
<1>1. TypeOK /\ DbInv /\ pc # "off" /\ Die /\ UNCHANGED <<env, sources, chat>>
  BY DEF FailOrCrash, Fail, IInv
<1>2. DbInv' /\ rows' \in [BotSteps -> StepRow({})]
  <2>1. CASE Fail(rows[step])
    BY <1>1, <2>1, StopIsSafe
  <2>2. CASE UNCHANGED rows
    BY <1>1, <2>2, NothingWritten DEF TypeOK
  <2> QED
    BY <2>1, <2>2 DEF FailOrCrash
<1> QED
  BY <1>1, <1>2, AtRest DEF IInv, TypeOK, sources, chat

\* The time of a completion is behind nobody who is not linked, and a sync from it on
\* finds nobody who is.
LEMMA CompleteIsSafe ==
    ASSUME IInv, Complete
    PROVE  IInv'
<1>1. /\ TypeOK /\ InTime /\ RowsInOrder /\ OneAfterTheOther /\ LinkedBehind /\ PageIsNext
      /\ LinkedOnce /\ InStep
      /\ pc = "done" /\ Die /\ UNCHANGED <<env, latest, mapped, contacts, botRows>>
      /\ rows' = [rows EXCEPT ![step] = MarkStepCompleted(@, Now)]
  BY DEF Complete, IInv, DbInv, sources, chat
<1>2. /\ step \in BotSteps /\ MayRun(step) /\ from = Since(step) /\ rows[step] \in StepRow({})
      /\ Now \in Nat /\ \A b \in Bots : latest[b] < Now
  BY <1>1, NowFacts DEF InStep, TypeOK
<1> DEFINE r == MarkStepCompleted(rows[step], Now)
<1>3. /\ r \in StepRow({}) /\ r.status = "completed" /\ r.offset = 0 /\ r.completedAt = Now
      /\ IsCompleted(r) /\ GetStepProgress(r) = 0
  <2>1. /\ r \in StepRow({}) /\ r.status = "completed" /\ r.offset = 0 /\ r.completedAt = Now
        /\ IsCompleted(r)
    BY <1>2, OffsetRowFacts, OffsetRowValues
  <2> HIDE DEF r
  <2> QED
    BY <2>1 DEF GetStepProgress
<1>4. rows' = [rows EXCEPT ![step] = r]
  BY <1>1
<1> HIDE DEF r
<1>5. /\ rows' \in [BotSteps -> StepRow({})]
      /\ \A s \in BotSteps : rows'[s] = IF s = step THEN r ELSE rows[s]
  BY <1>1, <1>3, <1>4 DEF TypeOK
<1>6. \A s \in BotSteps : Progress(s)' = IF s = step THEN 0 ELSE Progress(s)
  BY <1>3, <1>5 DEF Progress
<1>7. Now' = Now /\ Created' = Created /\ \A s : Awaited(s)' = Awaited(s)
      /\ \A n : Found(n)' = Found(n)
  <2>1. Now' = Now /\ Created' = Created
    BY <1>1 DEF Now, Created
  <2> QED
    BY <1>1, <2>1 DEF Awaited, Found
<1>8. InTime'
  <2>1. \A s \in BotSteps : rows'[s].completedAt <= Now
    BY <1>1, <1>2, <1>3, <1>5 DEF InTime
  <2> QED
    BY <1>1, <1>7, <2>1 DEF InTime
<1>9. Watermark' = Now
  <2>1. \A s \in BotSteps : rows'[s].completedAt <= Now /\ rows'[s].completedAt \in Nat
    BY <1>5, <1>7, <1>8, OffsetRowFacts DEF InTime
  <2>2. rows'["bots"].completedAt = Now \/ rows'["sync_bots"].completedAt = Now
    BY <1>2, <1>3, <1>5 DEF BotSteps
  <2> QED
    BY <1>2, <2>1, <2>2 DEF Watermark, GetStepCompletedAt, BotSteps
<1>10. RowsInOrder'
  BY <1>1, <1>3, <1>5 DEF RowsInOrder
<1>11. ~MayRun("bots")'
  <2>1. CASE step = "bots"
    BY <1>3, <1>5, <2>1 DEF MayRun, BotSteps
  <2>2. CASE step = "sync_bots"
    BY <1>1, <1>2, <1>5, <2>2, OneMayRun DEF MayRun, BotSteps
  <2> QED
    BY <1>2, <2>1, <2>2 DEF BotSteps
<1>12. OneAfterTheOther'
  BY <1>1, <1>2, <1>5, <1>11 DEF OneAfterTheOther, BotSteps, MayRun
<1>13. \A b \in Awaited(step) : botRows[b] > 0
  <2> SUFFICES ASSUME NEW b \in Awaited(step), ~(botRows[b] > 0)
               PROVE  FALSE
    OBVIOUS
  <2>1. b \in Created /\ b \in Bots /\ botRows[b] = 0 /\ latest[b] \in Nat /\ latest[b] > 0
    <3>1. b \in Created /\ b \in Bots
      BY <1>1, AwaitedFacts
    <3> QED
      BY <1>1, <3>1 DEF TypeOK, Created
  <2>2. b \notin Found(from)
    BY <1>1, <2>1 DEF PageIsNext
  <2>3. ~(latest[b] >= from)
    BY <2>1, <2>2 DEF Found
  <2>4. step = "sync_bots" /\ from = Watermark
    BY <1>2, <2>1, <2>3 DEF Since, BotSteps
  <2>5. PICK q \in BotSteps : Watermark = rows[q].completedAt
    BY <1>1, RowTypes
  <2>6. latest[b] < rows[q].completedAt
    BY <1>1, <2>1, <2>3, <2>4, <2>5, RowTypes
  <2>7. b \in Awaited(q)
    BY <2>1, <2>4 DEF Awaited
  <2> QED
    BY <1>1, <2>1, <2>5, <2>6, <2>7 DEF LinkedBehind
<1>14. LinkedBehind'
  <2> SUFFICES ASSUME NEW s \in BotSteps, NEW b \in Awaited(s)
               PROVE  /\ (b \in Found(Since(s)) /\ Before(b, Since(s)) < Progress(s))' => botRows[b] > 0
                      /\ latest[b] < rows'[s].completedAt => botRows[b] > 0
    BY <1>1, <1>7 DEF LinkedBehind
  <2>1. CASE s = step
    BY <1>13, <2>1
  <2>2. CASE s # step
    <3>1. latest[b] < rows'[s].completedAt => botRows[b] > 0
      BY <1>1, <1>5, <2>2 DEF LinkedBehind
    <3>2. Progress(s)' = Progress(s)
      BY <1>6, <2>2
    <3>3. CASE s = "bots"
      <4>1. Since(s)' = Since(s)
        BY <3>3 DEF Since
      <4>2. Found(Since(s))' = Found(Since(s)) /\ Before(b, Since(s))' = Before(b, Since(s))
        <5> HIDE DEF Since
        <5> QED
          BY <1>1, <1>7, <4>1 DEF Before, Found
      <4> QED
        BY <1>1, <3>1, <3>2, <4>2 DEF LinkedBehind
    <3>4. CASE s = "sync_bots"
      <4>1. step = "bots" /\ rows["sync_bots"] = AbsentRow
        BY <1>1, <1>2, <2>2, <3>4 DEF BotSteps, OneAfterTheOther
      <4>2. Progress(s)' = 0
        BY <3>2, <3>4, <4>1 DEF Progress, AbsentRow, GetStepProgress, IsCompleted
      <4>3. Before(b, Since(s))' \in Nat
        <5>1. Found(Since(s))' \in SUBSET Bots
          BY DEF Found, Created
        <5>2. Before(b, Since(s))' = Rank(b, Found(Since(s))')
          BY DEF Before, Rank
        <5> QED
          BY <5>1, <5>2, RankOfBot
      <4> QED
        BY <3>1, <4>2, <4>3
    <3> QED
      BY <3>3, <3>4 DEF BotSteps
  <2> QED
    BY <2>1, <2>2
<1>15. NotLinkedAhead'
  <2> SUFFICES ASSUME NEW s \in BotSteps, MayRun(s)', NEW b \in Found(Since(s))'
               PROVE  FALSE
    BY DEF NotLinkedAhead
  <2>1. s = "sync_bots"
    BY <1>11 DEF BotSteps
  <2>2. Since(s)' = Now
    BY <1>9, <2>1 DEF Since
  <2>3. b \in Bots /\ latest[b] >= Now
    BY <1>1, <2>2 DEF Found, Created
  <2> QED
    BY <1>1, <1>2, <2>3 DEF TypeOK
<1>16. LinkedOnce'
  <2>1. rows'["sync_bots"] = AbsentRow => rows["sync_bots"] = AbsentRow
    <3>1. r # AbsentRow
      BY <1>3 DEF AbsentRow
    <3> QED
      BY <1>5, <3>1 DEF BotSteps
  <2> QED
    BY <1>1, <2>1 DEF LinkedOnce, LinkedBot
<1> QED
  BY <1>1, <1>5, <1>8, <1>10, <1>12, <1>14, <1>15, <1>16, AtRest DEF IInv, DbInv, TypeOK

\* A bot that comes while a run is unfinished moves the others away from the offset; in
\* a quiet database none does, and the next run finds it first.
LEMMA CreateIsSafe ==
    ASSUME IInv, NEW new \in Bots, LegacyCreate(new)
    PROVE  IInv'
<1>1. /\ TypeOK /\ InTime /\ RowsInOrder /\ OneAfterTheOther /\ LinkedBehind /\ PageIsNext
      /\ (Calm => NotLinkedAhead) /\ LinkedOnce /\ InStep
      /\ UNCHANGED <<env, mapped, rows, contacts, botRows, step, pc, offset, from, batch, more>>
      /\ latest' = [latest EXCEPT ![new] = Now + 1]
      /\ latest[new] = 0 \/ (new \in Returning /\ latest[new] = Beginning)
      /\ env.quiet => Settled
  BY DEF LegacyCreate, IInv, DbInv, chat, process
<1>2. /\ latest \in [Bots -> Nat] /\ Now \in Nat /\ \A b \in Bots : latest[b] < Now
      /\ step \in BotSteps
  BY <1>1, NowFacts DEF TypeOK
<1>3. /\ latest' \in [Bots -> Nat] /\ latest'[new] = Now + 1
      /\ \A b \in Bots : b # new => latest'[b] = latest[b]
  BY <1>1, <1>2
<1>4. Now' \in Nat /\ Now < Now'
  BY <1>2, <1>3, NowLaterFacts
<1>5. Created' = Created \cup {new}
  <2>1. \A b \in Bots : latest'[b] > 0 <=> b = new \/ latest[b] > 0
    BY <1>2, <1>3
  <2> QED
    BY <2>1 DEF Created
<1>6. \A s : Since(s)' = Since(s) /\ Progress(s)' = Progress(s) /\ MayRun(s)' = MayRun(s)
  BY <1>1 DEF Since, Watermark, Progress, MayRun
<1>7. TypeOK'
  BY <1>1, <1>3 DEF TypeOK
<1>8. InTime'
  <2>1. \A s \in BotSteps : rows[s].completedAt <= Now'
    BY <1>1, <1>2, <1>4, RowTypes DEF InTime
  <2>2. \A b \in Bots : latest'[b] = 0 => latest[b] = 0
    BY <1>2, <1>3
  <2> QED
    BY <1>1, <1>5, <2>1, <2>2 DEF InTime
<1>9. RowsInOrder' /\ OneAfterTheOther'
  BY <1>1, <1>6 DEF RowsInOrder, OneAfterTheOther
<1>10. Settled => \A s \in BotSteps : Progress(s) = 0
  BY <1>1 DEF Settled, OneAfterTheOther, RowsInOrder, Progress, GetStepProgress, IsCompleted,
              BotSteps, AbsentRow
<1>11. \A b : Before(b, 0) <= Before(b, 0)' /\ Before(b, 0) \in Nat /\ Before(b, 0)' \in Nat
  <2> TAKE b
  <2>1. Found(0) \in SUBSET Found(0)' /\ Found(0)' \in SUBSET Nat /\ IsFiniteSet(Found(0)')
    <3>1. Found(0) = Created /\ Found(0)' = Created'
      BY <1>2, <1>3 DEF Found, Created
    <3>2. Created' \in SUBSET Bots
      BY DEF Created
    <3> QED
      BY <1>5, <3>1, <3>2, BotFacts
  <2>2. Before(b, 0) = Rank(b, Found(0)) /\ Before(b, 0)' = Rank(b, Found(0)')
    BY DEF Before, Rank
  <2> QED
    BY <2>1, <2>2, RankGrows
<1>12. \A b \in Created : b \in Found(0) /\ b \in Bots
  BY <1>2 DEF Found, Created
<1>13. \A s \in BotSteps : \A b \in Bots :
          latest'[b] < rows[s].completedAt => b # new /\ latest'[b] = latest[b]
  <2> SUFFICES ASSUME NEW s \in BotSteps, latest'[new] < rows[s].completedAt
               PROVE  FALSE
    BY <1>3
  <2>1. rows[s].completedAt <= Now /\ rows[s].completedAt \in Nat
    BY <1>1, RowTypes DEF InTime
  <2> QED
    BY <1>2, <1>3, <2>1
<1>14. \A s : \A b \in Awaited(s)' : b = new \/ b \in Awaited(s)
  BY <1>1, <1>5 DEF Awaited
<1>15. ~env.quiet => \A s : Awaited(s)' = Awaited(s) /\ (Awaited(s) # {} => s = "bots")
  BY <1>1 DEF Awaited
<1>16. LinkedBehind'
  <2> SUFFICES ASSUME NEW s \in BotSteps, NEW b \in Awaited(s)', botRows[b] = 0
               PROVE  /\ ~(b \in Found(Since(s)) /\ Before(b, Since(s)) < Progress(s))'
                      /\ ~(latest'[b] < rows[s].completedAt)
    <3>1. \A q : Awaited(q)' \in SUBSET Bots
      BY BotsAssumption DEF Awaited, Created
    <3>2. \A c \in Bots : ~(botRows[c] > 0) => botRows[c] = 0
      BY <1>1 DEF TypeOK
    <3> QED
      BY <1>1, <3>1, <3>2 DEF LinkedBehind
  <2>1. b \in Bots
    BY BotsAssumption DEF Awaited, Created
  <2>2. ~(latest'[b] < rows[s].completedAt)
    BY <1>1, <1>13, <1>14, <2>1 DEF LinkedBehind
  <2>3. CASE env.quiet
    <3>1. Progress(s)' = 0
      BY <1>1, <1>6, <1>10, <2>3
    <3>2. Before(b, Since(s))' \in Nat
      <4>1. Found(Since(s))' \in SUBSET Bots
        BY DEF Found, Created
      <4>2. Before(b, Since(s))' = Rank(b, Found(Since(s))')
        BY DEF Before, Rank
      <4> QED
        BY <4>1, <4>2, RankOfBot
    <3> QED
      BY <2>2, <3>1, <3>2
  <2>4. CASE ~env.quiet
    <3>1. s = "bots" /\ b \in Awaited(s)
      BY <1>15, <2>4
    <3>2. b \in Found(0)
      BY <1>1, <1>12, <3>1, AwaitedFacts
    <3>3. Since(s) = 0 /\ Since(s)' = 0
      BY <3>1 DEF Since
    <3>4. ~(Before(b, 0) < Progress(s))
      BY <1>1, <3>1, <3>2, <3>3 DEF LinkedBehind
    <3>5. Before(b, Since(s))' = Before(b, 0)'
      BY <3>3 DEF Before, Found
    <3>6. Progress(s) \in Nat
      BY <1>1, RowTypes
    <3>7. ~(Before(b, 0)' < Progress(s))
      BY <1>11, <3>4, <3>6
    <3> QED
      BY <1>6, <2>2, <3>5, <3>7
  <2> QED
    BY <2>3, <2>4
<1>17. (latest[new] # 0 => ~CameOnce(new)') /\ (latest[new] = 0 => botRows[new] = 0 /\ contacts[new] = 0)
  <2>1. ASSUME latest[new] # 0
        PROVE  ~CameOnce(new)'
    <3>1. new \in Old /\ latest[new] = 2
      BY <1>1, <2>1, BotsAssumption DEF Beginning
    <3>2. latest'[new] # 2
      BY <1>2, <1>3, <3>1
    <3> QED
      BY <3>1, <3>2 DEF CameOnce, Beginning
  <2> QED
    BY <1>1, <2>1 DEF InTime
<1>18. (Calm => NotLinkedAhead)'
  <2> SUFFICES ASSUME Calm, NEW s \in BotSteps, MayRun(s), NEW b \in Found(Since(s))',
                      CameOnce(b)', botRows[b] > 0
               PROVE  FALSE
    BY <1>1, <1>6 DEF Calm, NotLinkedAhead
  <2>1. Settled /\ Progress(s) = 0
    BY <1>1, <1>10 DEF Calm
  <2>2. b # new
    BY <1>17
  <2>3. b \in Bots /\ latest'[b] = latest[b] /\ latest[b] > 0 /\ latest[b] >= Since(s)
    <3>1. b \in Bots /\ latest'[b] > 0 /\ latest'[b] >= Since(s)'
      BY DEF Found, Created
    <3> QED
      BY <1>3, <1>6, <2>2, <3>1
  <2>4. b \in Found(Since(s)) /\ CameOnce(b)
    BY <2>3 DEF Found, Created, CameOnce
  <2>5. Before(b, Since(s)) < 0
    BY <1>1, <2>1, <2>4 DEF NotLinkedAhead
  <2> QED
    BY <2>5, FoundFacts
<1>19. LinkedOnce'
  <2>1. \A b \in Bots : LinkedBot(b)' = LinkedBot(b)
    BY <1>1 DEF LinkedBot
  <2>2. latest[new] = 0 => LinkedBot(new)
    BY <1>17 DEF LinkedBot
  <2>3. ASSUME env.quiet /\ env.answered, NEW b \in Bots, CameOnce(b)'
        PROVE  LinkedBot(b)
    <3>1. CASE b = new
      BY <1>17, <2>2, <2>3, <3>1
    <3>2. CASE b # new
      BY <1>1, <1>3, <2>3, <3>2 DEF LinkedOnce, CameOnce
    <3> QED
      BY <3>1, <3>2
  <2> QED
    BY <1>1, <2>1, <2>3 DEF LinkedOnce, CameOnce
<1>20. InStep'
  <2>1. pc' # "off" => MayRun(step)' /\ (offset = Progress(step))' /\ (from = Since(step))'
    <3>1. MayRun(step)' = MayRun(step) /\ Progress(step)' = Progress(step) /\ Since(step)' = Since(step)
      BY <1>1 DEF Since, Watermark, Progress, MayRun
    <3> QED
      BY <1>1, <3>1 DEF InStep
  <2>2. env.quiet => pc = "off"
    BY <1>1 DEF Settled
  <2> QED
    BY <1>1, <1>5, <2>1, <2>2 DEF InStep
<1>21. PageIsNext'
  <2>1. CASE env.quiet
    BY <1>1, <2>1 DEF Settled, PageIsNext
  <2>2. CASE pc = "off"
    BY <1>1, <2>2 DEF PageIsNext
  <2>3. CASE ~env.quiet /\ pc # "off"
    <3>1. Awaited(step)' = Awaited(step) /\ (Awaited(step) # {} => step = "bots")
      BY <1>1, <2>3 DEF Awaited
    <3> SUFFICES ASSUME NEW b \in Awaited(step), botRows[b] = 0
                 PROVE  /\ pc # "done"
                        /\ pc = "commit" /\ b \notin batch =>
                              more /\ offset + PerPage <= Before(b, from)'
      BY <1>1, <3>1 DEF PageIsNext
    <3>2. from = 0
      BY <1>1, <2>3, <3>1 DEF InStep, Since
    <3>3. b \in Found(0)
      BY <1>1, <1>12, AwaitedFacts
    <3>4. /\ pc # "done"
          /\ pc = "commit" /\ b \notin batch => more /\ offset + PerPage <= Before(b, 0)
      BY <1>1, <3>2, <3>3 DEF PageIsNext
    <3>5. Before(b, from)' = Before(b, 0)'
      BY <1>1, <3>2 DEF Before, Found
    <3>6. offset \in Nat /\ PerPage \in Nat
      BY <1>1, BotFacts DEF TypeOK
    <3> QED
      BY <1>11, <3>4, <3>5, <3>6
  <2> QED
    BY <2>1, <2>2, <2>3
<1> QED
  BY <1>7, <1>8, <1>9, <1>16, <1>18, <1>19, <1>20, <1>21 DEF IInv, DbInv

--------------------------------------------------------------------------------

LEMMA NextIsSafe == IInv /\ [Next]_vars => IInv'
<1> SUFFICES ASSUME IInv, [Next]_vars
             PROVE  IInv'
  OBVIOUS
<1>1. ASSUME NEW b \in Bots, LegacyCreate(b)
      PROVE  IInv'
  BY <1>1, CreateIsSafe
<1>2. ASSUME NEW s \in BotSteps, Launch(s)
      PROVE  IInv'
  BY <1>2, LaunchIsSafe
<1>3. CASE Fetch
  BY <1>3, FetchIsSafe
<1>4. CASE Commit
  BY <1>4, CommitIsSafe
<1>5. CASE Refused
  BY <1>5, RefusedIsSafe
<1>6. CASE Complete
  BY <1>6, CompleteIsSafe
<1>7. CASE CrashAfterCommit
  BY <1>7, CrashAfterCommitIsSafe
<1>8. CASE CommitAnswerLost
  BY <1>8, CommitAnswerLostIsSafe
<1>9. CASE FailOrCrash
  BY <1>9, FailOrCrashIsSafe
<1>10. CASE UNCHANGED vars
  <2>1. TypeOK /\ DbInv /\ InStep /\ PageIsNext
    BY DEF IInv
  <2>2. UNCHANGED <<env, latest, mapped, rows, contacts, botRows, step, pc, offset, from, batch, more>>
    BY <1>10 DEF vars, sources, chat, process
  <2>3. DbInv'
    BY <2>1, <2>2, NothingWritten DEF sources, chat
  <2>4. TypeOK'
    BY <2>1, <2>2 DEF TypeOK
  <2>5. /\ Created' = Created /\ Found(from)' = Found(from) /\ Awaited(step)' = Awaited(step)
        /\ \A b : Before(b, from)' = Before(b, from)
    <3>1. Created' = Created /\ Found(from)' = Found(from)
      BY <2>2 DEF Created, Found
    <3> QED
      BY <2>2, <3>1 DEF Awaited, Before
  <2>6. InStep'
    <3>1. Page' = Page
      BY <2>2, <2>5 DEF Page
    <3>2. MayRun(step)' = MayRun(step) /\ Progress(step)' = Progress(step)
          /\ Since(step)' = Since(step)
      BY <2>2 DEF MayRun, Progress, Since, Watermark
    <3> QED
      BY <2>1, <2>2, <2>5, <3>1, <3>2 DEF InStep
  <2>7. PageIsNext'
    BY <2>1, <2>2, <2>5 DEF PageIsNext
  <2> QED
    BY <2>3, <2>4, <2>6, <2>7 DEF IInv
<1> QED
  BY <1>1, <1>2, <1>3, <1>4, <1>5, <1>6, <1>7, <1>8, <1>9, <1>10 DEF Next

\* The inductive invariant holds, whatever fails and whichever answer is lost.
THEOREM Invariance == Spec => []IInv
BY InitIsSafe, NextIsSafe, PTL DEF Spec

\* Every variable has its type.
THEOREM TypeCorrect == Spec => []TypeOK
<1>1. IInv => TypeOK
  BY DEF IInv
<1> QED
  BY Invariance, <1>1, PTL

\* In a quiet database that answers, a bot has one migration row at most, which names the
\* contact it has or is mapped to, and before sync mode every row has its contact.
THEOREM OneRowOfBot == Spec => []LinkedOnce
<1>1. IInv => LinkedOnce
  BY DEF IInv, DbInv
<1> QED
  BY Invariance, <1>1, PTL

\* Neither a saved offset nor the time of a completion is beyond a bot that is still to
\* be linked: the offset only falls behind, and a new bot only moves the others on.
THEOREM NobodyIsSkipped == Spec => []NeverSkips
<1>1. IInv => NeverSkips
  BY DEF IInv, DbInv, LinkedBehind, NeverSkips, Progress
<1> QED
  BY Invariance, <1>1, PTL

--------------------------------------------------------------------------------
(* Nothing that has been reached is taken back. *)

\* In a quiet database that answers, nobody on a page has a row yet.
LEMMA PageIsUnlinked ==
    ASSUME IInv, pc = "commit", Calm, NEW b \in batch, CameOnce(b)
    PROVE  botRows[b] = 0
<1>1. /\ TypeOK /\ NotLinkedAhead /\ MayRun(step) /\ step \in BotSteps
      /\ offset = Progress(step) /\ from = Since(step) /\ batch = Page
  BY DEF IInv, DbInv, InStep, TypeOK, Calm
<1>2. b \in Bots /\ b \in Found(from) /\ offset <= Before(b, from)
  BY <1>1 DEF Page, TypeOK
<1>3. offset \in Nat /\ Before(b, from) \in Nat /\ botRows[b] \in Nat
  BY <1>1, <1>2, FoundFacts DEF TypeOK
<1>4. ~(Before(b, from) < offset)
  BY <1>2, <1>3
<1>5. ~(botRows[b] > 0)
  BY <1>1, <1>2, <1>4 DEF NotLinkedAhead
<1> QED
  BY <1>3, <1>5

\* A row written during a run keeps the time of the last completion.
LEMMA RowGoesForward ==
    ASSUME IInv, pc # "off", UNCHANGED env, NEW r \in StepRow({}),
           r = rows[step] \/ r.status \in {"in_progress", "failed"},
           r.completedAt = rows[step].completedAt, GetStepProgress(r) >= offset,
           rows' = [rows EXCEPT ![step] = r]
    PROVE  \A s \in BotSteps :
               rows'[s].completedAt >= rows[s].completedAt /\ Progress(s)' >= Progress(s)
<1>1. /\ TypeOK /\ RowsInOrder /\ OneAfterTheOther /\ MayRun(step)
      /\ offset = Progress(step)
  BY DEF IInv, DbInv, InStep
<1>2. /\ \A s \in BotSteps : rows'[s].completedAt = rows[s].completedAt
      /\ \A s \in BotSteps : Progress(s)' = IF s = step THEN GetStepProgress(r) ELSE Progress(s)
  BY <1>1, RowWritten
<1> QED
  BY <1>1, <1>2, RowTypes

\* Neither a lost answer, after which the error path records the offset before the page,
\* nor a refused page, nor a completion takes back what the two forms have reached.
THEOREM NothingIsTakenBack == Spec => OnlyForward
<1> DEFINE Rows == \A s \in BotSteps :
                     /\ rows'[s].completedAt >= rows[s].completedAt
                     /\ Progress(s)' >= Progress(s) \/ IsCompleted(rows'[s])
           Links == Calm => \A b \in Bots : CameOnce(b) /\ botRows[b] > 0 =>
                               botRows'[b] = botRows[b] /\ contacts'[b] = contacts[b]
<1>1. ASSUME IInv, [Next]_vars
      PROVE  Rows
  <2>0. /\ TypeOK /\ InTime /\ InStep
        /\ \A s \in BotSteps : rows[s].completedAt \in Nat /\ Progress(s) \in Nat
    BY <1>1, RowTypes DEF IInv, DbInv
  <2>1. CASE rows' = rows
    BY <2>0, <2>1 DEF Progress
  <2>2. CASE Commit \/ CrashAfterCommit \/ CommitAnswerLost
    <3>1. /\ pc # "off" /\ UNCHANGED env /\ offset \in Nat /\ offset + PerPage >= offset
          /\ \/ rows' = [rows EXCEPT ![step] = Saved]
             \/ rows' = [rows EXCEPT ![step] = MarkStepFailed(Saved, offset)]
      BY <2>0, <2>2, BotFacts
         DEF Commit, CrashAfterCommit, CommitAnswerLost, Fail, Known, TypeOK
    <3>2. CASE rows' = [rows EXCEPT ![step] = Saved]
      BY <1>1, <2>0, <3>1, <3>2, SavedRow, RowGoesForward
    <3>3. CASE rows' = [rows EXCEPT ![step] = MarkStepFailed(Saved, offset)]
      <4> DEFINE r == MarkStepFailed(Saved, offset)
      <4>1. /\ r \in StepRow({}) /\ r.status = "failed" /\ GetStepProgress(r) = offset
            /\ r.completedAt = rows[step].completedAt
            /\ rows' = [rows EXCEPT ![step] = r]
        BY <2>0, <3>3, SavedRow
      <4> HIDE DEF r
      <4>2. offset >= offset
        BY <3>1
      <4> QED
        BY <1>1, <3>1, <4>1, <4>2, RowGoesForward
    <3> QED
      BY <3>1, <3>2, <3>3
  <2>3. CASE (Refused \/ FailOrCrash) /\ rows' # rows
    <3>1. /\ pc # "off" /\ UNCHANGED env /\ Fail(rows[step])
          /\ offset \in Nat /\ rows[step] \in StepRow({})
      BY <2>0, <2>3 DEF Refused, FailOrCrash, TypeOK
    <3>2. rows' = [rows EXCEPT ![step] = MarkStepFailed(rows[step], offset)]
      BY <2>0, <2>3, <3>1 DEF Fail, Known, TypeOK
    <3> DEFINE r == MarkStepFailed(rows[step], offset)
    <3>3. /\ r \in StepRow({}) /\ r.status = "failed" /\ GetStepProgress(r) = offset
          /\ r.completedAt = rows[step].completedAt
          /\ rows' = [rows EXCEPT ![step] = r]
      BY <3>1, <3>2, OffsetRowFacts, OffsetRowValues
    <3> HIDE DEF r
    <3>4. offset >= offset
      BY <3>1
    <3> QED
      BY <1>1, <3>1, <3>3, <3>4, RowGoesForward
  <2>4. CASE Complete
    <3>1. /\ rows' = [rows EXCEPT ![step] = MarkStepCompleted(@, Now)]
          /\ step \in BotSteps /\ Now \in Nat
      BY <2>0, <2>4, NowFacts DEF Complete, TypeOK
    <3>2. /\ \A s \in BotSteps : s # step => rows'[s] = rows[s]
          /\ rows'[step].completedAt = Now /\ IsCompleted(rows'[step])
      BY <2>0, <3>1 DEF TypeOK, MarkStepCompleted, IsCompleted
    <3> QED
      BY <2>0, <3>2 DEF InTime, Progress
  <2> QED
    BY <1>1, <2>1, <2>2, <2>3, <2>4 DEF Next, LegacyCreate, Launch, Fetch, vars
<1>2. ASSUME IInv, [Next]_vars
      PROVE  Links
  <2>1. CASE Commit \/ CrashAfterCommit \/ CommitAnswerLost
    <3>1. pc = "commit" /\ WritePage /\ TypeOK
      BY <1>2, <2>1 DEF Commit, CrashAfterCommit, CommitAnswerLost, IInv
    <3>2. Calm => \A b \in batch : CameOnce(b) => botRows[b] = 0
      BY <1>2, <3>1, PageIsUnlinked
    <3>3. /\ \A b \in Bots : botRows'[b] = IF b \in batch THEN botRows[b] + 1 ELSE botRows[b]
          /\ \A b \in Bots : contacts'[b] = IF b \in Contacted /\ ~PassedOver(b)
                                            THEN contacts[b] + 1 ELSE contacts[b]
      BY <3>1, PageWritten
    <3> QED
      BY <3>2, <3>3 DEF Contacted
  <2>2. CASE contacts' = contacts /\ botRows' = botRows
    BY <2>2
  <2> QED
    BY <1>2, <2>1, <2>2 DEF Next, LegacyCreate, Launch, Fetch, Refused, Complete,
       FailOrCrash, vars, chat
<1>3. IInv /\ [Next]_vars => [Rows /\ Links]_vars
  BY <1>1, <1>2
<1> QED
  BY Invariance, <1>3, PTL DEF Spec, OnlyForward

================================================================================
