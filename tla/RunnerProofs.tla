------------------------------ MODULE RunnerProofs ------------------------------
(***************************************************************************)
(* Theorems about Runner, for any two lists of steps with distinct names,  *)
(* and, in the second part, about PortalStep, the steps whose only trace   *)
(* between runs is the runner's record that they are completed.            *)
(***************************************************************************)
EXTENDS Runner, PortalStep, PageLemmas, SequenceTheorems

(* Plans and positions in them. *)

LEMMA ConcatDistinct ==
    ASSUME NEW s \in Seq(STRING), NEW t \in Seq(STRING), NEW u \in Seq(STRING),
           Distinct(s \o t \o u)
    PROVE  /\ Distinct(s \o u)
           /\ NamesIn(s \o u) \subseteq NamesIn(s \o t \o u)
<1>1. /\ s \o t \in Seq(STRING) /\ s \o t \o u \in Seq(STRING) /\ s \o u \in Seq(STRING)
      /\ Len(s) \in Nat /\ Len(t) \in Nat /\ Len(u) \in Nat
      /\ Len(s \o t) = Len(s) + Len(t)
      /\ Len(s \o t \o u) = Len(s) + Len(t) + Len(u) /\ Len(s \o u) = Len(s) + Len(u)
      /\ DOMAIN (s \o u) = 1..(Len(s) + Len(u))
      /\ DOMAIN (s \o t \o u) = 1..(Len(s) + Len(t) + Len(u))
  BY ConcatProperties, LenProperties
<1> DEFINE place(i) == IF i <= Len(s) THEN i ELSE i + Len(t)
<1>2. \A i \in DOMAIN (s \o u) :
         /\ place(i) \in DOMAIN (s \o t \o u)
         /\ (s \o u)[i] = (s \o t \o u)[place(i)]
  <2> SUFFICES ASSUME NEW i \in 1..(Len(s) + Len(u))
               PROVE  /\ place(i) \in 1..(Len(s) + Len(t) + Len(u))
                      /\ (s \o u)[i] = (s \o t \o u)[place(i)]
    BY <1>1
  <2>1. (s \o u)[i] = IF i <= Len(s) THEN s[i] ELSE u[i - Len(s)]
    BY ConcatProperties
  <2>2. \A k \in 1..(Len(s) + Len(t)) : (s \o t)[k] = IF k <= Len(s) THEN s[k] ELSE t[k - Len(s)]
    BY ConcatProperties
  <2>3. \A k \in 1..(Len(s \o t) + Len(u)) :
            (s \o t \o u)[k] = IF k <= Len(s \o t) THEN (s \o t)[k] ELSE u[k - Len(s \o t)]
    BY <1>1, ConcatProperties
  <2>4. CASE i <= Len(s)
    BY <1>1, <2>1, <2>2, <2>3, <2>4
  <2>5. CASE i > Len(s)
    BY <1>1, <2>1, <2>3, <2>5
  <2> QED
    BY <1>1, <2>4, <2>5
<1>3. \A i, j \in DOMAIN (s \o u) : place(i) = place(j) => i = j
  BY <1>1
<1> HIDE DEF place
<1>4. Distinct(s \o u)
  BY <1>2, <1>3 DEF Distinct
<1>5. NamesIn(s \o u) \subseteq NamesIn(s \o t \o u)
  BY <1>2 DEF NamesIn
<1> QED
  BY <1>4, <1>5

\* The plan of a command lists steps of its mode, each once.
LEMMA PlanFacts ==
    ASSUME NEW c \in Commands
    PROVE  /\ Plan(c) \in Seq(STRING)
           /\ Len(Plan(c)) \in Nat /\ DOMAIN Plan(c) = 1..Len(Plan(c))
           /\ Distinct(Plan(c))
           /\ NamesIn(Plan(c)) \subseteq StepNames
           /\ c.sync => NamesIn(Plan(c)) \cap MigrationNames = {}
           /\ \A i \in 1..Len(Plan(c)) : Plan(c)[i] \in NamesIn(Plan(c))
<1> DEFINE parts == IF c.sync THEN SyncSteps ELSE Steps
<1>1. /\ parts.first \in Seq(STRING) /\ parts.portal \in Seq(STRING)
      /\ parts.rest \in Seq(STRING) /\ Distinct(AllOf(parts))
  BY StepsAssumption
<1>2. /\ NamesIn(AllOf(parts)) \subseteq StepNames
      /\ c.sync => NamesIn(AllOf(parts)) \cap MigrationNames = {}
  BY StepsAssumption DEF StepNames, MigrationNames
<1>3. Plan(c) = IF c.portal THEN AllOf(parts) ELSE parts.first \o parts.rest
  BY DEF Plan
<1> HIDE DEF parts
<1>4. /\ Distinct(parts.first \o parts.rest)
      /\ NamesIn(parts.first \o parts.rest) \subseteq NamesIn(AllOf(parts))
  BY <1>1, ConcatDistinct DEF AllOf
<1>5. /\ AllOf(parts) \in Seq(STRING)
      /\ parts.first \o parts.rest \in Seq(STRING)
  BY <1>1, ConcatProperties DEF AllOf
<1>6. /\ Plan(c) \in Seq(STRING)
      /\ Distinct(Plan(c)) /\ NamesIn(Plan(c)) \subseteq NamesIn(AllOf(parts))
  BY <1>1, <1>3, <1>4, <1>5
<1>7. Len(Plan(c)) \in Nat /\ DOMAIN Plan(c) = 1..Len(Plan(c))
  BY <1>6, LenProperties
<1> QED
  BY <1>2, <1>6, <1>7 DEF NamesIn

LEMMA PositionFacts ==
    ASSUME NEW plan \in Seq(STRING), NEW name \in NamesIn(plan)
    PROVE  PositionOf(plan, name) \in 1..Len(plan) /\ plan[PositionOf(plan, name)] = name
<1>1. \E i \in DOMAIN plan : plan[i] = name
  BY DEF NamesIn
<1> QED
  BY <1>1, LenProperties DEF PositionOf

\* Where a start from a step begins, nothing is left out but what is completed.
LEMMA FirstPositionFacts ==
    ASSUME NEW plan \in Seq(STRING), NEW start \in NamesIn(plan), NEW done
    PROVE  /\ FirstPosition(plan, start, done) \in 1..Len(plan)
           /\ \A k \in PositionOf(plan, start)..(FirstPosition(plan, start, done) - 1) :
                 plan[k] \in done
           /\ FirstPosition(plan, start, done) < PositionOf(plan, start) => start \in done
<1> DEFINE i == PositionOf(plan, start)
           f == FirstPosition(plan, start, done)
           slice == {s \in 1..(Len(plan) - i + 2) : plan[i + s - 2] \notin done}
<1>1. i \in 1..Len(plan) /\ Len(plan) \in Nat
  BY PositionFacts, LenProperties
<1>2. f = IF start \notin done THEN i
          ELSE IF i = 1 \/ slice = {} THEN 1
          ELSE CHOOSE s \in slice : \A t \in slice : s <= t
  BY DEF FirstPosition
<1> HIDE DEF i, f
<1>3. CASE start \notin done \/ i = 1
  <2>1. start \in done => plan[i] \in done
    BY PositionFacts DEF i
  <2> QED
    BY <1>1, <1>2, <1>3, <2>1 DEF i, f
<1>4. CASE start \in done /\ i # 1 /\ slice = {}
  BY <1>1, <1>2, <1>4 DEF i, f
<1>5. CASE start \in done /\ i # 1 /\ slice # {}
  <2>1. slice \in SUBSET Nat
    BY <1>1
  <2>2. \E s \in slice : \A t \in slice : s <= t
    <3> HIDE DEF slice
    <3> QED
      BY <1>5, <2>1, NatMin
  <2>3. f \in slice /\ \A t \in slice : f <= t
    <3> HIDE DEF slice
    <3> QED
      BY <1>2, <1>5, <2>2
  <2>4. f \in 1..Len(plan)
    BY <1>1, <1>5, <2>3
  <2>5. ASSUME NEW k \in i..(f - 1)
        PROVE  plan[k] \in done
    <3>1. k - i + 2 \in 1..(Len(plan) - i + 2) /\ k - i + 2 < f /\ i + (k - i + 2) - 2 = k
      BY <1>1, <1>5, <2>4
    <3>2. k - i + 2 \notin slice
      BY <2>3, <2>4, <3>1
    <3> QED
      BY <3>1, <3>2
  <2> QED
    BY <1>5, <2>4, <2>5 DEF i, f
<1> QED
  BY <1>3, <1>4, <1>5


LEMMA KindFacts ==
    ASSUME NEW c \in Commands
    PROVE  /\ KindOf(c) \in {"all", "from", "single"}
           /\ KindOf(c) # "single" => ~c.single
BY DEF KindOf, Commands

LEMMA PlainFacts == Plain \in Commands /\ KindOf(Plain) = "all"
BY DEF Plain, Commands, KindOf

\* At a step, the step is one of the plan, and it is at no other place of it.
LEMMA CurrentFacts ==
    ASSUME TypeOK, InPlan, pc # "off", index <= Len(Plan(cmd))
    PROVE  /\ index \in 1..Len(Plan(cmd))
           /\ Current \in StepNames
           /\ cmd.sync => Current \notin MigrationNames
           /\ \A i \in 1..Len(Plan(cmd)) : Plan(cmd)[i] = Current => i = index
<1>1. cmd \in Commands /\ index \in 1..Len(Plan(cmd))
  BY PlanFacts DEF TypeOK, InPlan
<1> QED
  BY <1>1, PlanFacts DEF Current, Distinct

LEMMA AskedFacts ==
    ASSUME TypeOK, InPlan, pc # "off"
    PROVE  /\ Asked \in 1..(Len(Plan(cmd)) + 1) /\ First \in 1..(Len(Plan(cmd)) + 1)
           /\ KindOf(cmd) = "from" => Asked = PositionOf(Plan(cmd), cmd.start)
           /\ KindOf(cmd) # "from" => Asked = 1
<1>1. cmd \in Commands
  BY DEF TypeOK
<1>2. Plan(cmd) \in Seq(STRING) /\ Len(Plan(cmd)) \in Nat
  BY <1>1, PlanFacts
<1>3. CASE KindOf(cmd) = "from"
  <2>1. cmd.start \in NamesIn(Plan(cmd))
    BY <1>3 DEF InPlan
  <2>2. FirstPosition(Plan(cmd), cmd.start, completed) \in 1..Len(Plan(cmd))
    BY <1>2, <2>1, FirstPositionFacts
  <2> QED
    BY <1>2, <1>3, <2>1, <2>2, PositionFacts DEF Asked, First
<1>4. CASE KindOf(cmd) # "from"
  BY <1>2, <1>4 DEF Asked, First
<1> QED
  BY <1>3, <1>4

--------------------------------------------------------------------------------

\* An invocation that has ended breaks nothing, if its success is a true one.
LEMMA OffIsSafe ==
    ASSUME rows' \in [StepNames -> StepRow({})], stuck' \subseteq MayStick, cmd' \in Commands,
           pc' = "off", index' = 1, completed' = {}, outcome' \in {"ok", "error"},
           SuccessMeansCompleted'
    PROVE  IInv'
BY DEF IInv, TypeOK, InPlan, ReadAtLaunch, BehindCompleted, OkIsOff

\* What an interruption may leave stuck is what may get stuck.
LEMMA StuckFacts ==
    ASSUME IInv, MayGetStuck \/ UNCHANGED stuck
    PROVE  stuck' \subseteq MayStick
BY DEF IInv, TypeOK, MayGetStuck

LEMMA EndsInError ==
    ASSUME IInv, rows' \in [StepNames -> StepRow({})], stuck' \subseteq MayStick, End("error")
    PROVE  IInv'
<1>1. cmd' \in Commands
  BY PlainFacts DEF End
<1>2. SuccessMeansCompleted'
  BY DEF End, SuccessMeansCompleted
<1> QED
  BY <1>1, <1>2, OffIsSafe DEF End

LEMMA LaunchIsSafe ==
    ASSUME IInv, NEW c \in Commands, Launch(c)
    PROVE  IInv'
<1>1. /\ rows' = rows /\ stuck' = stuck /\ cmd' = c /\ pc' = "loop" /\ outcome' = "none"
      /\ completed' = CompletedFor(c) /\ ~Refuses(c)
  BY DEF Launch
<1>0. index' = CASE KindOf(c) = "all"    -> 1
                 [] KindOf(c) = "from"   -> FirstPosition(Plan(c), c.start, CompletedFor(c))
                 [] KindOf(c) = "single" -> PositionOf(Plan(c), c.start)
  BY DEF Launch
<1>2. /\ Plan(c) \in Seq(STRING) /\ Len(Plan(c)) \in Nat
      /\ NamesIn(Plan(c)) \subseteq StepNames
      /\ \A i \in 1..Len(Plan(c)) : Plan(c)[i] \in NamesIn(Plan(c))
  BY PlanFacts
<1>3. KindOf(c) # "all" => c.start \in NamesIn(Plan(c))
  BY <1>1 DEF Refuses
<1>4. /\ CompletedFor(c) \in SUBSET StepNames
      /\ \A s \in CompletedFor(c) : IsCompleted(rows[s])
      /\ ~c.sync => \A s \in StepNames : IsCompleted(rows[s]) => s \in CompletedFor(c)
  BY DEF CompletedFor
<1>5. /\ index' \in 1..(Len(Plan(c)) + 1)
      /\ KindOf(c) = "single" => index' <= Len(Plan(c)) /\ Plan(c)[index'] = c.start
      /\ KindOf(c) = "all" => index' = 1
      /\ KindOf(c) = "from" =>
            /\ \A i \in PositionOf(Plan(c), c.start)..(index' - 1) : Plan(c)[i] \in CompletedFor(c)
            /\ index' < PositionOf(Plan(c), c.start) => c.start \in CompletedFor(c)
  <2>1. CASE KindOf(c) = "all"
    BY <1>0, <1>2, <2>1
  <2>2. CASE KindOf(c) = "from"
    <3>1. index' = FirstPosition(Plan(c), c.start, CompletedFor(c))
      BY <1>0, <2>2
    <3> QED
      BY <1>2, <1>3, <2>2, <3>1, FirstPositionFacts
  <2>3. CASE KindOf(c) = "single"
    <3>1. index' = PositionOf(Plan(c), c.start)
      BY <1>0, <2>3
    <3> QED
      BY <1>2, <1>3, <2>3, <3>1, PositionFacts
  <2> QED
    BY <2>1, <2>2, <2>3, KindFacts
<1>6. TypeOK'
  <2>1. index' \in Nat \ {0}
    BY <1>2, <1>5
  <2> QED
    BY <1>1, <1>4, <2>1 DEF IInv, TypeOK
<1>7. InPlan'
  BY <1>1, <1>2, <1>3, <1>5 DEF InPlan, Current
<1>8. ReadAtLaunch'
  <2>1. \A i \in index'..Len(Plan(c)) : Plan(c)[i] \in StepNames
    BY <1>2, <1>5
  <2>2. KindOf(c) = "single" => Plan(c)[index'] \notin CompletedFor(c)
    BY <1>1, <1>5 DEF Refuses
  <2> QED
    BY <1>1, <1>4, <2>1, <2>2 DEF ReadAtLaunch, Current
<1>9. BehindCompleted'
  <2>1. CASE KindOf(c) = "all"
    BY <1>1, <1>5, <2>1 DEF BehindCompleted, Asked, First
  <2>2. CASE KindOf(c) = "from"
    <3>1. First' = index' /\ Asked' = PositionOf(Plan(c), c.start)
      BY <1>0, <1>1, <2>2 DEF First, Asked
    <3>2. First'..(index' - 1) = {}
      <4>1. index' \in Nat /\ Len(Plan(c)) \in Nat
        BY <1>2, <1>5
      <4>2. \A i \in index'..(index' - 1) : FALSE
        <5> SUFFICES ASSUME NEW n \in Nat, NEW i \in n..(n - 1)
                     PROVE  FALSE
          BY <4>1
        <5> QED
          OBVIOUS
      <4> QED
        BY <3>1, <4>2
    <3>3. \A i \in Asked'..(index' - 1) \cup First'..(index' - 1) : IsCompleted(rows[Plan(c)[i]])
      <4> QED
        BY <1>4, <1>5, <2>2, <3>1, <3>2
    <3> QED
      BY <1>1, <1>5, <2>2, <3>1, <3>3 DEF BehindCompleted
  <2>3. CASE KindOf(c) = "single"
    BY <1>1, <2>3 DEF BehindCompleted
  <2> QED
    BY <2>1, <2>2, <2>3, KindFacts
<1> QED
  BY <1>1, <1>6, <1>7, <1>8, <1>9 DEF IInv, OkIsOff, SuccessMeansCompleted

LEMMA SkipIsSafe ==
    ASSUME IInv, Skip
    PROVE  IInv'
<1>1. /\ pc = "loop" /\ KindOf(cmd) # "single" /\ index <= Len(Plan(cmd))
      /\ Current \in completed /\ index' = index + 1
      /\ rows' = rows /\ stuck' = stuck /\ pc' = pc /\ cmd' = cmd /\ completed' = completed /\ outcome' = outcome
  BY DEF Skip
<1>2. cmd \in Commands /\ Len(Plan(cmd)) \in Nat /\ index \in 1..Len(Plan(cmd))
  BY <1>1, PlanFacts, CurrentFacts DEF IInv, TypeOK
<1>3. Asked \in Nat /\ First \in Nat /\ Asked' = Asked /\ First' = First
  BY <1>1, AskedFacts, <1>2 DEF IInv, Asked, First
<1>4. TypeOK'
  BY <1>1, <1>2 DEF IInv, TypeOK
<1>5. InPlan'
  BY <1>1, <1>2 DEF IInv, InPlan
<1>6. ReadAtLaunch'
  BY <1>1, <1>2 DEF IInv, ReadAtLaunch
<1>7. BehindCompleted'
  <2>1. IsCompleted(rows[Plan(cmd)[index]])
    BY <1>1 DEF IInv, ReadAtLaunch, Current
  <2> QED
    BY <1>1, <1>2, <1>3, <2>1 DEF IInv, BehindCompleted
<1> QED
  BY <1>1, <1>4, <1>5, <1>6, <1>7 DEF IInv, OkIsOff, SuccessMeansCompleted

LEMMA StartStepIsSafe ==
    ASSUME IInv, StartStep
    PROVE  IInv'
<1>1. /\ pc = "loop" /\ index <= Len(Plan(cmd)) /\ pc' = "running"
      /\ KindOf(cmd) = "single" \/ Current \notin completed
      /\ rows' = rows /\ stuck' = stuck /\ cmd' = cmd /\ completed' = completed
      /\ index' = index /\ outcome' = outcome
  BY DEF StartStep
<1>2. Current \notin completed
  <2>1. CASE KindOf(cmd) = "single"
    BY <1>1, <2>1 DEF IInv, ReadAtLaunch
  <2> QED
    BY <1>1, <2>1
<1>3. Asked' = Asked /\ First' = First /\ Current' = Current
  BY <1>1 DEF Asked, First, Current
<1> QED
  BY <1>1, <1>2, <1>3
     DEF IInv, TypeOK, InPlan, ReadAtLaunch, BehindCompleted, OkIsOff, SuccessMeansCompleted

\* The running step of migration mode is not completed.
LEMMA RunningIsOpen ==
    ASSUME IInv, pc \in {"running", "returned"}
    PROVE  /\ Current \in StepNames /\ rows[Current] \in StepRow({})
           /\ pc = "running" =>
                 /\ Current \notin completed
                 /\ Current \in MigrationNames => ~IsCompleted(rows[Current])
<1>1. pc # "off" /\ index <= Len(Plan(cmd)) /\ cmd \in Commands
  BY DEF IInv, TypeOK, InPlan
<1>2. index \in 1..Len(Plan(cmd)) /\ Len(Plan(cmd)) \in Nat /\ Current \in StepNames
  BY <1>1, CurrentFacts, PlanFacts DEF IInv
<1>3. rows[Current] \in StepRow({})
  BY <1>2 DEF IInv, TypeOK
<1>4. ASSUME pc = "running"
      PROVE  Current \notin completed
  BY <1>4 DEF IInv, ReadAtLaunch
<1>5. ASSUME pc = "running", Current \in MigrationNames
      PROVE  ~IsCompleted(rows[Current])
  <2>1. index \in index..Len(Plan(cmd))
    BY <1>2
  <2>2. ~cmd.sync
    BY <1>1, <1>5, CurrentFacts DEF IInv
  <2> QED
    BY <1>1, <1>4, <1>5, <2>1, <2>2 DEF IInv, ReadAtLaunch, Current
<1> QED
  BY <1>2, <1>3, <1>4, <1>5

LEMMA CheckpointIsSafe ==
    ASSUME IInv, Checkpoint
    PROVE  IInv'
<1>1. /\ pc = "running" /\ pc' = pc /\ cmd' = cmd /\ completed' = completed
      /\ index' = index /\ outcome' = outcome /\ stuck' = stuck
      /\ rows' = [rows EXCEPT ![Current] = SaveStepProgress(rows[Current], 0)]
  BY DEF Checkpoint
<1>2. /\ Current \in StepNames /\ rows[Current] \in StepRow({})
      /\ Current \notin completed
  BY <1>1, RunningIsOpen
<1>3. /\ rows' \in [StepNames -> StepRow({})] /\ ~IsCompleted(rows'[Current])
      /\ \A s \in StepNames \ {Current} : rows'[s] = rows[s]
  BY <1>1, <1>2, OffsetRowFacts DEF IInv, TypeOK
<1>4. Asked' = Asked /\ First' = First /\ Current' = Current
  BY <1>1 DEF Asked, First, Current
<1>5. /\ cmd \in Commands /\ Len(Plan(cmd)) \in Nat /\ index \in 1..Len(Plan(cmd))
      /\ \A i \in 1..Len(Plan(cmd)) : Plan(cmd)[i] \in StepNames /\ (Plan(cmd)[i] = Current => i = index)
  BY <1>1, PlanFacts, CurrentFacts DEF IInv, TypeOK, InPlan
<1>6. TypeOK' /\ InPlan' /\ OkIsOff' /\ SuccessMeansCompleted'
  BY <1>1, <1>3, <1>4 DEF IInv, TypeOK, InPlan, OkIsOff, SuccessMeansCompleted
<1>7. ReadAtLaunch'
  <2>1. \A s \in completed : IsCompleted(rows'[s])
    BY <1>2, <1>3 DEF IInv, TypeOK, ReadAtLaunch
  <2>2. ASSUME ~cmd.sync, NEW i \in index..Len(Plan(cmd)), IsCompleted(rows'[Plan(cmd)[i]])
        PROVE  Plan(cmd)[i] \in completed
    <3>1. Plan(cmd)[i] \in StepNames \ {Current}
      BY <1>3, <1>5, <2>2
    <3> QED
      BY <1>1, <1>3, <2>2, <3>1 DEF IInv, ReadAtLaunch
  <2> QED
    BY <1>1, <1>2, <1>4, <2>1, <2>2 DEF ReadAtLaunch
<1>8. BehindCompleted'
  <2>1. Asked \in Nat \ {0} /\ First \in Nat \ {0}
    BY <1>1, <1>5, AskedFacts DEF IInv
  <2>2. \A i \in Asked..(index - 1) \cup First..(index - 1) :
           Plan(cmd)[i] \in StepNames \ {Current}
    BY <1>5, <2>1
  <2> QED
    BY <1>1, <1>3, <1>4, <2>1, <2>2 DEF IInv, BehindCompleted
<1> QED
  BY <1>6, <1>7, <1>8 DEF IInv

LEMMA StepReturnsIsSafe ==
    ASSUME IInv, StepReturns
    PROVE  IInv'
<1>1. /\ pc = "running" /\ pc' = "returned"
      /\ rows' = rows /\ stuck' = stuck /\ cmd' = cmd /\ completed' = completed
      /\ index' = index /\ outcome' = outcome
  BY DEF StepReturns
<1>2. Asked' = Asked /\ First' = First /\ Current' = Current
  BY <1>1 DEF Asked, First, Current
<1> QED
  BY <1>1, <1>2
     DEF IInv, TypeOK, InPlan, ReadAtLaunch, BehindCompleted, OkIsOff, SuccessMeansCompleted

LEMMA StepFailsIsSafe ==
    ASSUME IInv, StepFails
    PROVE  IInv'
<1>1. Current \in StepNames /\ rows[Current] \in StepRow({})
  BY RunningIsOpen DEF StepFails
<1>2. MarkStepFailed(rows[Current], rows[Current].offset) \in StepRow({})
  BY <1>1, OffsetRowFacts
<1>3. rows' \in [StepNames -> StepRow({})]
  BY <1>1, <1>2 DEF StepFails, IInv, TypeOK
<1> QED
  BY <1>3, StuckFacts, EndsInError DEF StepFails

LEMMA RecordedRow ==
    ASSUME IInv, pc = "returned",
           rows' = [rows EXCEPT ![Current] = MarkStepCompleted(rows[Current], 1)]
    PROVE  /\ rows' \in [StepNames -> StepRow({})]
           /\ IsCompleted(rows'[Current])
           /\ \A s \in StepNames \ {Current} : rows'[s] = rows[s]
<1>1. Current \in StepNames /\ rows[Current] \in StepRow({})
  BY RunningIsOpen
<1> QED
  BY <1>1, OffsetRowFacts DEF IInv, TypeOK

LEMMA RecordFailsIsSafe ==
    ASSUME IInv, RecordFails
    PROVE  IInv'
<1>1. rows' \in [StepNames -> StepRow({})]
  BY RecordedRow DEF RecordFails, IInv, TypeOK
<1> QED
  BY <1>1, StuckFacts, EndsInError DEF RecordFails

LEMMA RecordIsSafe ==
    ASSUME IInv, Record
    PROVE  IInv'
<1>1. /\ pc = "returned" /\ pc # "off" /\ stuck' = stuck
      /\ rows' = [rows EXCEPT ![Current] = MarkStepCompleted(rows[Current], 1)]
  BY DEF Record
<1>2. /\ rows' \in [StepNames -> StepRow({})] /\ IsCompleted(rows'[Current])
      /\ \A s \in StepNames \ {Current} : rows'[s] = rows[s]
  BY <1>1, RecordedRow
<1>3. \A s \in StepNames : IsCompleted(rows[s]) => IsCompleted(rows'[s])
  BY <1>2
<1>4. /\ cmd \in Commands /\ Len(Plan(cmd)) \in Nat /\ index \in 1..Len(Plan(cmd))
      /\ DOMAIN Plan(cmd) = 1..Len(Plan(cmd))
      /\ \A i \in 1..Len(Plan(cmd)) : Plan(cmd)[i] \in StepNames /\ (Plan(cmd)[i] = Current => i = index)
  BY <1>1, PlanFacts, CurrentFacts DEF IInv, TypeOK, InPlan
<1>5. CASE KindOf(cmd) = "single"
  <2>1. /\ pc' = "off" /\ outcome' = "ok" /\ completed' = {} /\ index' = 1 /\ cmd' = cmd
    BY <1>5 DEF Record, End
  <2>2. Current = cmd.start
    BY <1>1, <1>5 DEF IInv, InPlan
  <2>3. SuccessMeansCompleted'
    BY <1>2, <1>4, <1>5, <2>1, <2>2 DEF SuccessMeansCompleted
  <2> QED
    BY <1>1, <1>2, <1>4, <2>1, <2>3, StuckFacts, OffIsSafe
<1>6. CASE KindOf(cmd) # "single"
  <2>1. /\ pc' = "loop" /\ index' = index + 1 /\ cmd' = cmd /\ completed' = completed
        /\ outcome' = outcome
    BY <1>6 DEF Record
  <2>2. Asked' = Asked /\ First' = First /\ Asked \in Nat \ {0} /\ First \in Nat \ {0}
    BY <1>1, <1>4, <2>1, AskedFacts DEF IInv, Asked, First
  <2>3. TypeOK'
    BY <1>1, <1>2, <1>4, <2>1 DEF IInv, TypeOK
  <2>4. InPlan'
    BY <1>1, <1>4, <1>6, <2>1 DEF IInv, InPlan
  <2>5. ReadAtLaunch'
    <3>1. \A s \in completed : IsCompleted(rows'[s])
      BY <1>3 DEF IInv, TypeOK, ReadAtLaunch
    <3>2. ASSUME ~cmd.sync, NEW i \in (index + 1)..Len(Plan(cmd)), IsCompleted(rows'[Plan(cmd)[i]])
          PROVE  Plan(cmd)[i] \in completed
      <4>1. Plan(cmd)[i] \in StepNames \ {Current} /\ i \in index..Len(Plan(cmd))
        BY <1>4
      <4> QED
        BY <1>1, <1>2, <3>2, <4>1 DEF IInv, ReadAtLaunch
    <3> QED
      BY <1>6, <2>1, <3>1, <3>2 DEF ReadAtLaunch
  <2>6. BehindCompleted'
    <3>1. \A i \in Asked..index \cup First..index : Plan(cmd)[i] \in StepNames
      BY <1>4, <2>2
    <3>2. IsCompleted(rows'[Plan(cmd)[index]])
      BY <1>2 DEF Current
    <3> QED
      BY <1>1, <1>3, <1>4, <1>6, <2>1, <2>2, <3>1, <3>2 DEF IInv, BehindCompleted
  <2> QED
    BY <1>1, <2>1, <2>3, <2>4, <2>5, <2>6 DEF IInv, InPlan, OkIsOff, SuccessMeansCompleted
<1> QED
  BY <1>5, <1>6

LEMMA FinishIsSafe ==
    ASSUME IInv, Finish
    PROVE  IInv'
<1>1. /\ pc = "loop" /\ pc # "off" /\ index > Len(Plan(cmd)) /\ rows' = rows /\ stuck' = stuck
      /\ pc' = "off" /\ outcome' = "ok" /\ completed' = {} /\ index' = 1 /\ cmd' = cmd
  BY DEF Finish, End
<1>2. /\ cmd \in Commands /\ Len(Plan(cmd)) \in Nat /\ index = Len(Plan(cmd)) + 1
      /\ DOMAIN Plan(cmd) = 1..Len(Plan(cmd))
  BY <1>1, PlanFacts DEF IInv, TypeOK, InPlan
<1>3. KindOf(cmd) # "single"
  BY <1>1, <1>2 DEF IInv, InPlan
<1>4. /\ Asked \in Nat \ {0}
      /\ KindOf(cmd) = "from" => Asked = PositionOf(Plan(cmd), cmd.start)
      /\ KindOf(cmd) # "from" => Asked = 1
  BY <1>1, <1>2, AskedFacts DEF IInv
<1>5. \A i \in Asked..Len(Plan(cmd)) : IsCompleted(rows[Plan(cmd)[i]])
  BY <1>1, <1>2, <1>3 DEF IInv, BehindCompleted
<1>6. SuccessMeansCompleted'
  BY <1>1, <1>2, <1>4, <1>5 DEF SuccessMeansCompleted
<1> QED
  BY <1>1, <1>2, <1>6, StuckFacts, OffIsSafe DEF IInv, TypeOK

--------------------------------------------------------------------------------

LEMMA InitIsSafe == Init => IInv
<1> SUFFICES ASSUME Init
             PROVE  IInv
  OBVIOUS
<1>1. AbsentRow \in StepRow({})
  BY DEF AbsentRow, StepRow, Statuses
<1> QED
  BY <1>1, PlainFacts
     DEF Init, IInv, TypeOK, InPlan, ReadAtLaunch, BehindCompleted, OkIsOff, SuccessMeansCompleted

LEMMA NextIsSafe == IInv /\ [Next]_vars => IInv'
<1> SUFFICES ASSUME IInv, [Next]_vars
             PROVE  IInv'
  OBVIOUS
<1>1. ASSUME NEW c \in Commands, Launch(c)
      PROVE  IInv'
  BY <1>1, LaunchIsSafe
<1>2. CASE LaunchFails
  BY <1>2, StuckFacts, EndsInError DEF LaunchFails, IInv, TypeOK
<1>3. CASE Skip
  BY <1>3, SkipIsSafe
<1>4. CASE StartStep
  BY <1>4, StartStepIsSafe
<1>5. CASE Checkpoint
  BY <1>5, CheckpointIsSafe
<1>6. CASE StepReturns
  BY <1>6, StepReturnsIsSafe
<1>7. CASE StepFails
  BY <1>7, StepFailsIsSafe
<1>8. CASE Record
  BY <1>8, RecordIsSafe
<1>9. CASE RecordFails
  BY <1>9, RecordFailsIsSafe
<1>10. CASE Finish
  BY <1>10, FinishIsSafe
<1>11. CASE Crash
  BY <1>11, StuckFacts, EndsInError DEF Crash, IInv, TypeOK
<1>12. CASE UNCHANGED vars
  <2>1. Asked' = Asked /\ First' = First /\ Current' = Current
    BY <1>12 DEF vars, Asked, First, Current
  <2> QED
    BY <1>12, <2>1 DEF vars, IInv, TypeOK, InPlan, ReadAtLaunch, BehindCompleted, OkIsOff,
                       SuccessMeansCompleted
<1> QED
  BY <1>1, <1>2, <1>3, <1>4, <1>5, <1>6, <1>7, <1>8, <1>9, <1>10, <1>11, <1>12 DEF Next

\* The inductive invariant holds, whatever commands are given and whatever fails.
THEOREM Invariance == Spec => []IInv
BY InitIsSafe, NextIsSafe, PTL DEF Spec

\* Every variable has its type; in particular a start from a step comes to a place of
\* the plan.
THEOREM TypeCorrect == Spec => []TypeOK
<1>1. IInv => TypeOK
  BY DEF IInv
<1> QED
  BY Invariance, <1>1, PTL

\* Of the steps behind the loop, back to the one it was asked to start from and to the one
\* it did start from, each is completed when the next one runs.  A single step runs
\* whatever is before it, and a start from a completed step may begin before that step:
\* then those it runs again are of these too, and SkipsEarlier does not hold.
THEOREM KeepsOrder == Spec => []EarlierStepsCompleted
<1>1. ASSUME IInv
      PROVE  EarlierStepsCompleted
  <2> SUFFICES ASSUME pc \in {"running", "returned"}, KindOf(cmd) # "single"
               PROVE  /\ \A i \in Asked..(index - 1) \cup First..(index - 1) :
                            IsCompleted(rows[Plan(cmd)[i]])
                      /\ cmd.start \notin completed => SkipsEarlier
    BY DEF EarlierStepsCompleted
  <2>1. Asked \in Nat /\ index \in Nat
    <3>1. cmd \in Commands /\ index \in Nat
      BY <1>1 DEF IInv, TypeOK
    <3> QED
      BY <1>1, <3>1, AskedFacts, PlanFacts DEF IInv
  <2> QED
    BY <1>1, <2>1 DEF IInv, BehindCompleted, SkipsEarlier
<1> QED
  BY Invariance, <1>1, PTL

\* An exit with success means that the steps that were asked for are completed.
THEOREM SuccessIsTrue == Spec => []SuccessMeansCompleted
<1>1. IInv => SuccessMeansCompleted
  BY DEF IInv
<1> QED
  BY Invariance, <1>1, PTL

\* No command in either mode opens a completed step of migration mode again.
THEOREM NeverReopens == Spec => CompletedForGood
<1> DEFINE Kept == \A s \in MigrationNames : IsCompleted(rows[s]) => IsCompleted(rows'[s])
<1>1. ASSUME IInv, [Next]_vars
      PROVE  Kept
  <2>1. ASSUME pc \in {"running", "returned"},
               NEW r, rows' = [rows EXCEPT ![Current] = r],
               pc = "returned" => IsCompleted(r)
        PROVE  Kept
    <3>1. /\ Current \in StepNames
          /\ pc = "running" => (Current \in MigrationNames => ~IsCompleted(rows[Current]))
      BY <1>1, <2>1, RunningIsOpen
    <3>2. /\ rows'[Current] = r
          /\ \A s \in StepNames \ {Current} : rows'[s] = rows[s]
      BY <1>1, <2>1, <3>1 DEF IInv, TypeOK
    <3> QED
      BY <2>1, <3>1, <3>2 DEF StepNames
  <2>2. ASSUME pc = "returned"
        PROVE  IsCompleted(MarkStepCompleted(rows[Current], 1))
    BY DEF IsCompleted, MarkStepCompleted
  <2>3. CASE UNCHANGED rows
    BY <2>3
  <2>4. CASE Checkpoint
    BY <2>1, <2>4 DEF Checkpoint
  <2>5. CASE StepFails
    BY <2>1, <2>3, <2>5 DEF StepFails
  <2>6. CASE Record
    BY <2>1, <2>2, <2>6 DEF Record
  <2>7. CASE RecordFails
    BY <2>1, <2>2, <2>3, <2>7 DEF RecordFails
  <2> QED
    BY <1>1, <2>3, <2>4, <2>5, <2>6, <2>7
       DEF Next, vars, Launch, LaunchFails, Skip, StartStep, StepReturns, Finish, Crash
<1>2. IInv /\ [Next]_vars => [Kept]_vars
  BY <1>1
<1> QED
  BY Invariance, <1>2, PTL DEF Spec, CompletedForGood

--------------------------------------------------------------------------------
(* PortalStep, for any records, page size and surroundings. *)

LEMMA EarlierOperator ==
    \A r : /\ Earlier(r) = EarlierRows(r, Found)
           /\ Earlier(r)' = EarlierRows(r, Found')
BY DEF Earlier, EarlierRows

LEMMA ClockFacts ==
    ASSUME PortalTypeOK
    PROVE  /\ IsFiniteSet(Created) /\ Now \in Nat /\ Now > 0
           /\ \A s \in PortalSteps : portalRows[s].completedAt \in Nat
           /\ Watermark \in Nat
           /\ Watermark >= portalRows["portal"].completedAt
           /\ Watermark >= portalRows["sync_portal"].completedAt
           /\ Watermark \in {portalRows["portal"].completedAt,
                              portalRows["sync_portal"].completedAt}
<1>1. IsFiniteSet(Created) /\ Cardinality(Created) \in Nat
  <2>1. Created \in SUBSET Records
    BY DEF Created
  <2> QED
    BY <2>1, FS_Subset, FS_CardinalityType, RecordsAssumption
<1>2. \A s \in PortalSteps : portalRows[s].completedAt \in Nat
  BY DEF PortalTypeOK, StepRow
<1>3. portalRows["portal"].completedAt \in Nat /\ portalRows["sync_portal"].completedAt \in Nat
  BY <1>2 DEF PortalSteps
<1> QED
  BY <1>1, <1>2, <1>3 DEF Now, Watermark, GetStepCompletedAt

LEMMA RowsAreFinite ==
    ASSUME NEW F \in SUBSET (Records \X {1, 2})
    PROVE  IsFiniteSet(F)
<1>1. IsFiniteSet({1, 2})
  <2>1. IsFiniteSet({1})
    BY FS_Singleton
  <2>2. IsFiniteSet({1} \cup {2})
    BY <2>1, FS_AddElement
  <2>3. {1, 2} = {1} \cup {2}
    OBVIOUS
  <2> QED
    BY <2>2, <2>3
<1>2. IsFiniteSet(Records \X {1, 2})
  BY <1>1, FS_Product, RecordsAssumption
<1> QED
  BY <1>2, FS_Subset

\* What a record has in the query's answer.
LEMMA FoundFacts ==
    ASSUME PortalTypeOK
    PROVE  /\ Found \in SUBSET (Records \X {1, 2}) /\ IsFiniteSet(Found)
           /\ \A t \in Found : t[1] \in Created /\ born[t[1]] >= from
           /\ \A r \in Records : <<r, 1>> \in Found <=> r \in Created /\ born[r] >= from
           /\ \A r : <<r, 2>> \in Found =>
                 r \in Twice /\ step = "sync_portal" /\ <<r, 1>> \in Found
<1> DEFINE Read == {q \in Created : born[q] >= from}
<1>1. Found = {t \in Records \X {1, 2} : t[1] \in Read /\ t[2] \in Identities(t[1])}
  <2>1. \A t \in Found : t \in Records \X {1, 2} /\ t[1] \in Read /\ t[2] \in Identities(t[1])
    BY DEF Found, Identities, Created
  <2>2. ASSUME NEW t \in Records \X {1, 2}, t[1] \in Read, t[2] \in Identities(t[1])
        PROVE  t \in Found
    <3>1. t = <<t[1], t[2]>>
      OBVIOUS
    <3>2. t \in {t[1]} \X Identities(t[1])
      BY <2>2, <3>1
    <3> HIDE DEF Read
    <3> QED
      BY <2>2, <3>2 DEF Found, Read
  <2> QED
    BY <2>1, <2>2
<1>2. Found \in SUBSET (Records \X {1, 2}) /\ IsFiniteSet(Found)
  <2>1. Found \in SUBSET (Records \X {1, 2})
    BY <1>1
  <2> QED
    BY <2>1, RowsAreFinite
<1> QED
  BY <1>1, <1>2 DEF Identities

LEMMA FoundRows ==
    ASSUME PortalTypeOK, NEW first \in [Twice -> {1, 2}]
    PROVE  AreRows(Found, first)
<1>1. ASSUME NEW t \in Found, t[2] = 2
      PROVE  <<t[1], 1>> \in Found /\ first[t[1]] \in {1, 2}
  <2>1. t = <<t[1], 2>>
    BY <1>1, FoundFacts
  <2>2. t[1] \in Twice /\ <<t[1], 1>> \in Found
    BY <2>1, FoundFacts
  <2> QED
    BY <2>2
<1>2. Found \in SUBSET (Nat \X {1, 2}) /\ IsFiniteSet(Found)
  BY FoundFacts, RecordsAssumption
<1> QED
  BY <1>1, <1>2 DEF AreRows

\* A record whose rows come after the pages so far is on the next page, or that is full.
LEMMA PageFacts ==
    ASSUME PortalTypeOK, NEW first \in [Twice -> {1, 2}]
    PROVE  /\ Page(first) \in SUBSET Found /\ IsFiniteSet(Page(first))
           /\ Cardinality(Page(first)) \in Nat
           /\ \A r \in Created : born[r] >= from =>
                 /\ Earlier(r) \in Nat
                 /\ offset <= Earlier(r) /\ Earlier(r) < offset + PerPage =>
                       \E t \in Page(first) : t[1] = r
                 /\ offset + PerPage <= Earlier(r) => Cardinality(Page(first)) >= PerPage
                 /\ r \notin Twice /\ <<r, 1>> \in Page(first) =>
                       offset <= Earlier(r) /\ Earlier(r) < offset + PerPage
<1>1. Page(first) = RowsFrom(offset, PerPage, Found, first)
  BY DEF Page, Before, RowsBefore, RowsFrom
<1>2. offset \in Nat /\ PerPage \in Nat \ {0}
  BY RecordsAssumption DEF PortalTypeOK
<1>3. \A r \in Created : born[r] >= from =>
        <<r, 1>> \in Found /\ (r \notin Twice => <<r, 2>> \notin Found)
  BY FoundFacts DEF Created
<1>4. AreRows(Found, first)
  BY FoundRows
<1>5. LET page == RowsFrom(offset, PerPage, Found, first)
      IN  /\ page \in SUBSET Found /\ IsFiniteSet(page) /\ Cardinality(page) \in Nat
          /\ \A k : <<k, 1>> \in Found =>
                /\ EarlierRows(k, Found) \in Nat
                /\ offset <= EarlierRows(k, Found) /\ EarlierRows(k, Found) < offset + PerPage =>
                      \E t \in page : t[1] = k
                /\ offset + PerPage <= EarlierRows(k, Found) => Cardinality(page) >= PerPage
                /\ <<k, 2>> \notin Found /\ <<k, 1>> \in page =>
                      offset <= EarlierRows(k, Found) /\ EarlierRows(k, Found) < offset + PerPage
  BY <1>2, <1>4, RowPage
<1>6. \A k : Earlier(k) = EarlierRows(k, Found)
  BY EarlierOperator
<1> QED
  BY <1>1, <1>3, <1>5, <1>6

LEMMA LinksFacts ==
    ASSUME PortalTypeOK, NEW page \in SUBSET Found
    PROVE  /\ LinksOf(page) \in [Records -> Nat]
           /\ \A t \in page : t[1] \in Records /\ LinksOf(page)[t[1]] > 0
           /\ \A r \in Records : <<r, 2>> \notin page =>
                 LinksOf(page)[r] = IF <<r, 1>> \in page THEN 1 ELSE 0
<1> DEFINE rowsOf(r) == {t \in page : t[1] = r}
<1>1. Found \in SUBSET (Records \X {1, 2}) /\ IsFiniteSet(Found)
  BY FoundFacts
<1>2. \A r : IsFiniteSet(rowsOf(r)) /\ Cardinality(rowsOf(r)) \in Nat
  <2> TAKE r
  <2>1. rowsOf(r) \in SUBSET Found
    OBVIOUS
  <2> QED
    BY <1>1, <2>1, FS_Subset, FS_CardinalityType
<1>3. \A r \in Records : LinksOf(page)[r] = Cardinality(rowsOf(r))
  BY DEF LinksOf
<1>4. LinksOf(page) \in [Records -> Nat]
  BY <1>2 DEF LinksOf
<1>5. ASSUME NEW t \in page
      PROVE  t[1] \in Records /\ LinksOf(page)[t[1]] > 0
  <2>1. t[1] \in Records /\ rowsOf(t[1]) # {}
    BY <1>1
  <2> HIDE DEF rowsOf
  <2>2. Cardinality(rowsOf(t[1])) # 0 /\ Cardinality(rowsOf(t[1])) \in Nat
    BY <1>2, <2>1, FS_EmptySet
  <2>3. LinksOf(page)[t[1]] = Cardinality(rowsOf(t[1]))
    BY <1>3, <2>1
  <2> QED
    BY <2>1, <2>2, <2>3
<1>6. ASSUME NEW r \in Records, <<r, 2>> \notin page
      PROVE  LinksOf(page)[r] = IF <<r, 1>> \in page THEN 1 ELSE 0
  <2>1. rowsOf(r) = IF <<r, 1>> \in page THEN {<<r, 1>>} ELSE {}
    <3>1. \A t \in page : t[1] = r => t = <<r, 1>>
      BY <1>1, <1>6
    <3> QED
      BY <3>1
  <2> HIDE DEF rowsOf
  <2> QED
    BY <1>3, <2>1, FS_EmptySet, FS_Singleton
<1> QED
  BY <1>4, <1>5, <1>6

--------------------------------------------------------------------------------

LEMMA CreateFacts ==
    ASSUME PortalTypeOK, NEW r \in Records, LegacyCreate(r)
    PROVE  /\ r \notin Created /\ Created' = Created \cup {r} /\ Now' = Now + 2
           /\ \A q \in Records : born'[q] = IF q = r THEN Now + 1 ELSE born[q]
<1>1. IsFiniteSet(Created) /\ Now \in Nat /\ Now > 0
  BY ClockFacts
<1>2. \A q \in Records : born'[q] = IF q = r THEN Now + 1 ELSE born[q]
  BY DEF PortalTypeOK, LegacyCreate
<1>3. r \notin Created /\ Created' = Created \cup {r}
  BY <1>1, <1>2 DEF Created, LegacyCreate
<1>4. Cardinality(Created') = Cardinality(Created) + 1 /\ Cardinality(Created) \in Nat
  BY <1>1, <1>3, FS_AddElement, FS_CardinalityType
<1> QED
  BY <1>2, <1>3, <1>4 DEF Now

LEMMA CompleteFacts ==
    ASSUME PortalTypeOK, Clock, Complete
    PROVE  /\ Created' = Created /\ Now' = Now /\ Watermark' = Now
           /\ portalRows' \in [PortalSteps -> StepRow({})]
           /\ \A s \in PortalSteps :
                 portalRows'[s].completedAt =
                    IF s = step THEN Now ELSE portalRows[s].completedAt
           /\ step = "portal" \/ IsCompleted(portalRows["portal"]) =>
                 IsCompleted(portalRows'["portal"])
<1>1. Now \in Nat /\ step \in PortalSteps /\ portalRows \in [PortalSteps -> StepRow({})]
  BY ClockFacts DEF PortalTypeOK
<1>2. /\ portalRows' = [portalRows EXCEPT ![step] = MarkStepCompleted(portalRows[step], Now)]
      /\ born' = born
  BY DEF Complete
<1>3. /\ MarkStepCompleted(portalRows[step], Now) \in StepRow({})
      /\ MarkStepCompleted(portalRows[step], Now).completedAt = Now
      /\ IsCompleted(MarkStepCompleted(portalRows[step], Now))
  <2>1. portalRows[step] \in StepRow({})
    BY <1>1
  <2> QED
    BY <1>1, <2>1, OffsetRowFacts, OffsetRowValues
<1> HIDE DEF MarkStepCompleted, IsCompleted
<1>4. \A s \in PortalSteps :
         portalRows'[s] =
            IF s = step THEN MarkStepCompleted(portalRows[step], Now) ELSE portalRows[s]
  BY <1>1, <1>2
<1>5. Created' = Created /\ Now' = Now
  BY <1>2 DEF Created, Now
<1>6. portalRows' \in [PortalSteps -> StepRow({})]
  BY <1>1, <1>2, <1>3
<1>7. \A s \in PortalSteps :
         portalRows'[s].completedAt = IF s = step THEN Now ELSE portalRows[s].completedAt
  BY <1>3, <1>4
<1>8. step = "portal" \/ IsCompleted(portalRows["portal"]) =>
         IsCompleted(portalRows'["portal"])
  BY <1>3, <1>4 DEF PortalSteps
<1>9. Watermark' = Now
  <2>1. \A s \in PortalSteps :
           portalRows[s].completedAt \in Nat /\ portalRows[s].completedAt <= Now
    BY ClockFacts DEF Clock
  <2>2. CASE step = "portal"
    BY <1>1, <1>7, <2>1, <2>2 DEF Watermark, GetStepCompletedAt, PortalSteps
  <2>3. CASE step = "sync_portal"
    BY <1>1, <1>7, <2>1, <2>3 DEF Watermark, GetStepCompletedAt, PortalSteps
  <2> QED
    BY <1>1, <2>2, <2>3 DEF PortalSteps
<1> QED
  BY <1>5, <1>6, <1>7, <1>8, <1>9

LEMMA PortalTypeStep ==
    ASSUME PortalInv, [PortalNext]_portalVars
    PROVE  PortalTypeOK'
<1>0. PortalTypeOK /\ Now \in Nat /\ Watermark \in Nat /\ PerPage \in Nat
  BY ClockFacts, RecordsAssumption DEF PortalInv
<1>1. ASSUME NEW r \in Records, LegacyCreate(r)
      PROVE  PortalTypeOK'
  BY <1>0, <1>1 DEF PortalTypeOK, LegacyCreate, chat, process, staged
<1>2. ASSUME NEW s \in PortalSteps, LaunchPortal(s)
      PROVE  PortalTypeOK'
  BY <1>0, <1>2 DEF PortalTypeOK, LaunchPortal, chat, staged
<1>3. ASSUME NEW first \in [Twice -> {1, 2}], PageOf(first)
      PROVE  PortalTypeOK'
  <2>1. /\ Page(first) \subseteq Records \X {1, 2}
        /\ LinksOf(Page(first)) \in [Records -> Nat]
    <3>1. Page(first) \in SUBSET Found
      BY <1>0, PageFacts
    <3> QED
      BY <1>0, <3>1, FoundFacts, LinksFacts
  <2> QED
    BY <1>0, <1>3, <2>1 DEF PortalTypeOK, PageOf, InsertPage, chat
<1>4. CASE Refused
  BY <1>0, <1>4 DEF PortalTypeOK, Refused, Die, chat
<1>5. CASE Commit
  BY <1>0, <1>5 DEF PortalTypeOK, Commit, CommitStaged, staged
<1>6. CASE CommitUnanswered
  BY <1>0, <1>6 DEF PortalTypeOK, CommitUnanswered, CommitStaged, Die
<1>7. CASE FailOrCrash
  BY <1>0, <1>7 DEF PortalTypeOK, FailOrCrash, Die, chat
<1>8. CASE Complete
  <2>1. portalRows' \in [PortalSteps -> StepRow({})]
    BY <1>0, <1>8, CompleteFacts DEF PortalInv
  <2> QED
    BY <1>0, <1>8, <2>1 DEF PortalTypeOK, Complete, Die, chat
<1>9. CASE UNCHANGED portalVars
  BY <1>0, <1>9 DEF PortalTypeOK, portalVars, chat, process, staged
<1> QED
  BY <1>1, <1>2, <1>3, <1>4, <1>5, <1>6, <1>7, <1>8, <1>9 DEF PortalNext, SomePage

LEMMA ClockStep ==
    ASSUME PortalInv, [PortalNext]_portalVars
    PROVE  Clock'
<1>0. PortalTypeOK /\ Clock /\ Now \in Nat
      /\ \A s \in PortalSteps : portalRows[s].completedAt \in Nat
  BY ClockFacts DEF PortalInv
<1>1. ASSUME NEW r \in Records, LegacyCreate(r)
      PROVE  Clock'
  <2>1. Now' = Now + 2 /\ \A q \in Records : born'[q] = IF q = r THEN Now + 1 ELSE born[q]
    BY <1>0, <1>1, CreateFacts
  <2>2. portalRows' = portalRows /\ Old \subseteq Records /\ \A q \in Records : born[q] \in Nat
    BY <1>0, <1>1, RecordsAssumption DEF LegacyCreate, PortalTypeOK
  <2> QED
    BY <1>0, <2>1, <2>2 DEF Clock
<1>2. CASE Complete
  <2>1. /\ Now' = Now
        /\ \A s \in PortalSteps :
              portalRows'[s].completedAt = IF s = step THEN Now ELSE portalRows[s].completedAt
    BY <1>0, <1>2, CompleteFacts
  <2>2. born' = born
    BY <1>2 DEF Complete
  <2>3. \A s \in PortalSteps : portalRows'[s].completedAt <= Now'
    BY <1>0, <2>1 DEF Clock
  <2> QED
    BY <1>0, <2>1, <2>2, <2>3 DEF Clock
<1>3. ASSUME born' = born, portalRows' = portalRows
      PROVE  Clock'
  <2>1. Now' = Now
    BY <1>3 DEF Now, Created
  <2> QED
    BY <1>0, <1>3, <2>1 DEF Clock
<1> QED
  BY <1>1, <1>2, <1>3 DEF PortalNext, SomePage, LaunchPortal, PageOf, Refused, Commit,
     CommitUnanswered, FailOrCrash, portalVars

\* What a page adds, and that it adds nothing twice where that is so before it.
LEMMA InsertFacts ==
    ASSUME PortalTypeOK, NEW first \in [Twice -> {1, 2}], PageOf(first)
    PROVE  /\ stagedCopies' = stagedCopies \cup Page(first)
           /\ \A t \in Page(first) : t[1] \in Created /\ born[t[1]] >= from
           /\ \A r \in Records : stagedLinks'[r] >= stagedLinks[r] /\ stagedLinks'[r] \in Nat
           /\ \A t \in Page(first) : stagedLinks'[t[1]] > 0
           /\ \A r \in Records : <<r, 2>> \notin Page(first) =>
                 stagedLinks'[r] = IF <<r, 1>> \in Page(first) THEN stagedLinks[r] + 1
                                                              ELSE stagedLinks[r]
<1>1. Page(first) \in SUBSET Found
  BY PageFacts
<1>2. \A t \in Page(first) : t[1] \in Created /\ born[t[1]] >= from
  BY <1>1, FoundFacts
<1> DEFINE added == LinksOf(Page(first))
<1>3. /\ added \in [Records -> Nat]
      /\ \A t \in Page(first) : t[1] \in Records /\ added[t[1]] > 0
      /\ \A r \in Records : <<r, 2>> \notin Page(first) =>
            added[r] = IF <<r, 1>> \in Page(first) THEN 1 ELSE 0
  BY <1>1, LinksFacts
<1>4. \A r \in Records : stagedLinks'[r] = stagedLinks[r] + added[r] /\ stagedLinks[r] \in Nat
  BY DEF PageOf, InsertPage, PortalTypeOK
<1> HIDE DEF added
<1>5. stagedCopies' = stagedCopies \cup Page(first)
  BY DEF PageOf, InsertPage
<1>6. \A r \in Records : stagedLinks'[r] >= stagedLinks[r] /\ stagedLinks'[r] \in Nat
  <2> SUFFICES ASSUME NEW r \in Records
               PROVE  stagedLinks'[r] >= stagedLinks[r] /\ stagedLinks'[r] \in Nat
    OBVIOUS
  <2>1. added[r] \in Nat
    BY <1>3
  <2> QED
    BY <1>4, <2>1
<1>7. \A t \in Page(first) : stagedLinks'[t[1]] > 0
  <2> SUFFICES ASSUME NEW t \in Page(first)
               PROVE  stagedLinks'[t[1]] > 0
    OBVIOUS
  <2>1. PICK r \in Records : r = t[1] /\ added[r] > 0 /\ added[r] \in Nat
    BY <1>3
  <2>2. stagedLinks'[r] > 0
    BY <1>4, <2>1
  <2> QED
    BY <2>1, <2>2
<1>8. \A r \in Records : <<r, 2>> \notin Page(first) =>
         stagedLinks'[r] = IF <<r, 1>> \in Page(first) THEN stagedLinks[r] + 1
                                                      ELSE stagedLinks[r]
  <2> SUFFICES ASSUME NEW r \in Records, <<r, 2>> \notin Page(first)
               PROVE  stagedLinks'[r] = IF <<r, 1>> \in Page(first) THEN stagedLinks[r] + 1
                                                                   ELSE stagedLinks[r]
    OBVIOUS
  <2>1. added[r] = IF <<r, 1>> \in Page(first) THEN 1 ELSE 0
    BY <1>3
  <2> QED
    BY <1>4, <2>1
<1> QED
  BY <1>2, <1>5, <1>6, <1>7, <1>8

LEMMA TransactionStep ==
    ASSUME PortalInv, [PortalNext]_portalVars
    PROVE  Transaction'
<1>0. PortalTypeOK /\ Transaction
  BY DEF PortalInv
<1>1. ASSUME NEW r \in Records, LegacyCreate(r)
      PROVE  Transaction'
  <2>1. born[r] = 0 /\ \A q \in Records : q # r => born'[q] = born[q]
    BY <1>0, <1>1 DEF LegacyCreate, PortalTypeOK
  <2>2. \A t \in stagedCopies : t[1] \in Records
    BY <1>0 DEF PortalTypeOK
  <2>3. copies' = copies /\ links' = links /\ stagedCopies' = stagedCopies
        /\ stagedLinks' = stagedLinks /\ portalPc' = portalPc
    BY <1>1 DEF LegacyCreate, chat, process, staged
  <2>4. \A t \in stagedCopies : born'[t[1]] > 0
    <3> SUFFICES ASSUME NEW t \in stagedCopies
                 PROVE  born'[t[1]] > 0
      OBVIOUS
    <3>1. born[t[1]] > 0 /\ t[1] # r
      BY <1>0, <2>1 DEF Transaction
    <3> QED
      BY <2>1, <2>2, <3>1
  <2> QED
    BY <1>0, <2>3, <2>4 DEF Transaction
<1>2. ASSUME NEW s \in PortalSteps, LaunchPortal(s)
      PROVE  Transaction'
  BY <1>0, <1>2 DEF Transaction, LaunchPortal, chat, staged
<1>3. ASSUME NEW first \in [Twice -> {1, 2}], PageOf(first)
      PROVE  Transaction'
  <2>1. /\ stagedCopies' = stagedCopies \cup Page(first)
        /\ \A t \in Page(first) : t[1] \in Created
        /\ \A r \in Records : stagedLinks'[r] >= stagedLinks[r] /\ stagedLinks'[r] \in Nat
    BY <1>0, <1>3, InsertFacts
  <2>2. copies' = copies /\ links' = links /\ born' = born /\ portalPc' \in {"page", "commit"}
    BY <1>3 DEF PageOf, InsertPage, chat
  <2>3. \A r \in Records : links[r] \in Nat /\ stagedLinks[r] \in Nat
    BY <1>0 DEF PortalTypeOK
  <2> QED
    BY <1>0, <2>1, <2>2, <2>3 DEF Transaction, Created
<1>4. CASE Commit
  BY <1>0, <1>4 DEF Transaction, Commit, CommitStaged, staged, PortalTypeOK
<1>5. ASSUME Die, born' = born,
             \/ copies' = copies /\ links' = links
             \/ copies' = stagedCopies /\ links' = stagedLinks
      PROVE  Transaction'
  <2>1. stagedCopies' = copies' /\ stagedLinks' = links'
    BY <1>5 DEF Die
  <2>2. \A r \in Records : links[r] \in Nat /\ stagedLinks[r] \in Nat
    BY <1>0 DEF PortalTypeOK
  <2>3. copies' \subseteq stagedCopies
    BY <1>0, <1>5 DEF Transaction
  <2>4. \A r \in Records : links'[r] \in Nat
    BY <1>5, <2>2
  <2> QED
    BY <1>0, <1>5, <2>1, <2>3, <2>4 DEF Transaction
<1>6. CASE UNCHANGED portalVars
  BY <1>0, <1>6 DEF Transaction, portalVars, chat, process, staged
<1> QED
  BY <1>1, <1>2, <1>3, <1>4, <1>5, <1>6 DEF PortalNext, SomePage, Refused, CommitUnanswered,
     CommitStaged, FailOrCrash, Complete, chat

LEMMA PortalRunStep ==
    ASSUME PortalInv, [PortalNext]_portalVars
    PROVE  InRun'
<1>0. PortalTypeOK /\ InRun
  BY DEF PortalInv
<1>1. ASSUME portalRows' = portalRows
      PROVE  Watermark' = Watermark
  BY <1>1 DEF Watermark
<1>2. ASSUME NEW r \in Records, LegacyCreate(r)
      PROVE  InRun'
  BY <1>0, <1>1, <1>2 DEF InRun, LegacyCreate, process
<1>3. ASSUME NEW s \in PortalSteps, LaunchPortal(s)
      PROVE  InRun'
  BY <1>0, <1>1, <1>3 DEF InRun, LaunchPortal, PortalSteps
<1>4. ASSUME NEW first \in [Twice -> {1, 2}], PageOf(first)
      PROVE  InRun'
  BY <1>0, <1>1, <1>4 DEF InRun, PageOf
<1>5. CASE Commit
  BY <1>0, <1>1, <1>5 DEF InRun, Commit
<1>6. CASE Refused \/ CommitUnanswered \/ FailOrCrash
  BY <1>0, <1>1, <1>6 DEF InRun, Refused, CommitUnanswered, FailOrCrash, Die
<1>7. CASE Complete
  <2>1. step = "portal" \/ IsCompleted(portalRows["portal"]) =>
           IsCompleted(portalRows'["portal"])
    BY <1>0, <1>7, CompleteFacts DEF PortalInv
  <2>2. step \in {"portal", "sync_portal"}
    BY <1>0 DEF PortalTypeOK, PortalSteps
  <2> QED
    BY <1>0, <1>7, <2>1, <2>2 DEF InRun, Complete, Die
<1>8. CASE UNCHANGED portalVars
  BY <1>0, <1>1, <1>8 DEF InRun, portalVars, process
<1> QED
  BY <1>2, <1>3, <1>4, <1>5, <1>6, <1>7, <1>8 DEF PortalNext, SomePage

LEMMA StagedOnceStep ==
    ASSUME PortalInv, [PortalNext]_portalVars
    PROVE  StagedOnce'
<1>0. PortalTypeOK /\ StagedOnce /\ InRun /\ Ahead
  BY DEF PortalInv
<1> SUFFICES ASSUME NEW r \in Records, OneIdentity(r)'
             PROVE  Linked(r, copies, links)' /\ Linked(r, stagedCopies, stagedLinks)'
  BY DEF StagedOnce
<1>1. OneIdentity(r)
  <2>1. env' = env
    BY DEF PortalNext, SomePage, LegacyCreate, LaunchPortal, PageOf, Refused, Commit,
       CommitUnanswered, FailOrCrash, Complete, portalVars
  <2>2. IsCompleted(portalRows["portal"]) => IsCompleted(portalRows'["portal"])
    <3>1. CASE Complete
      BY <1>0, <3>1, CompleteFacts DEF PortalInv
    <3>2. CASE portalRows' = portalRows
      BY <3>2
    <3> QED
      BY <3>1, <3>2 DEF PortalNext, SomePage, LegacyCreate, LaunchPortal, PageOf, Refused,
         Commit, CommitUnanswered, FailOrCrash, portalVars
  <2> QED
    BY <2>1, <2>2 DEF OneIdentity
<1>2. Linked(r, copies, links) /\ Linked(r, stagedCopies, stagedLinks)
  BY <1>0, <1>1 DEF StagedOnce
<1>3. ASSUME NEW first \in [Twice -> {1, 2}], PageOf(first)
      PROVE  Linked(r, copies, links)' /\ Linked(r, stagedCopies, stagedLinks)'
  <2>1. /\ Page(first) \in SUBSET Found
        /\ step = "portal" /\ ~env.apps => Page(first) \cap stagedCopies = {}
    BY <1>0, <1>3, PageFacts DEF PageOf, Accepted
  <2>2. step \in {"portal", "sync_portal"}
    BY <1>0 DEF PortalTypeOK, PortalSteps
  <2>3. <<r, 2>> \notin Page(first)
    BY <1>0, <1>1, <2>1, FoundFacts DEF OneIdentity, InRun
  <2>4. <<r, 1>> \in Page(first) => <<r, 1>> \notin stagedCopies
    <3>1. CASE step = "portal" /\ ~env.apps
      BY <2>1, <3>1
    <3>2. ASSUME step = "sync_portal" \/ env.apps, <<r, 1>> \in Page(first)
          PROVE  <<r, 1>> \notin stagedCopies
      <4>1. env.quiet /\ env.recorded /\ r \notin Twice
        BY <1>0, <1>1, <3>2 DEF OneIdentity, InRun
      <4>2. r \in Created /\ born[r] >= from
        BY <1>0, <2>1, <3>2, FoundFacts
      <4>3. offset <= Earlier(r)
        BY <1>0, <3>2, <4>1, <4>2, PageFacts
      <4> QED
        BY <1>0, <1>3, <3>2, <4>1, <4>2, <4>3 DEF Ahead, PageOf
    <3> QED
      BY <2>2, <3>1, <3>2
  <2>5. /\ stagedCopies' = stagedCopies \cup Page(first)
        /\ stagedLinks'[r] = IF <<r, 1>> \in Page(first) THEN stagedLinks[r] + 1
                                                         ELSE stagedLinks[r]
    BY <1>0, <1>3, <2>3, InsertFacts
  <2>6. copies' = copies /\ links' = links
    BY <1>3 DEF PageOf, InsertPage, chat
  <2> QED
    BY <1>2, <2>3, <2>4, <2>5, <2>6 DEF Linked
<1>4. CASE Commit
  BY <1>2, <1>4 DEF Commit, CommitStaged, staged, Linked
<1>5. CASE Refused \/ CommitUnanswered \/ FailOrCrash \/ Complete
  BY <1>2, <1>5 DEF Refused, CommitUnanswered, CommitStaged, FailOrCrash, Complete,
     Die, chat, Linked
<1>6. ASSUME UNCHANGED <<chat, staged>>
      PROVE  Linked(r, copies, links)' /\ Linked(r, stagedCopies, stagedLinks)'
  BY <1>2, <1>6 DEF chat, staged, Linked
<1> QED
  BY <1>3, <1>4, <1>5, <1>6 DEF PortalNext, SomePage, LegacyCreate, LaunchPortal, process, portalVars

LEMMA EarlierGrows ==
    ASSUME NEW F, IsFiniteSet(F), NEW S \in SUBSET F, NEW r
    PROVE  /\ EarlierRows(r, S) \in Nat /\ EarlierRows(r, F) \in Nat
           /\ EarlierRows(r, S) <= EarlierRows(r, F)
<1>1. {u \in S : u[1] < r} \in SUBSET {u \in F : u[1] < r} /\ {u \in F : u[1] < r} \in SUBSET F
  OBVIOUS
<1> QED
  BY <1>1, FS_Subset, FS_CardinalityType DEF EarlierRows

LEMMA WatchedFacts ==
    ASSUME PortalTypeOK, Clock
    PROVE  Watched \subseteq Created /\ Old \subseteq Watched
BY RecordsAssumption DEF Clock, Watched, Created

LEMMA CoveredStep ==
    ASSUME PortalInv, [PortalNext]_portalVars
    PROVE  Covered'
<1>0. PortalTypeOK /\ Clock /\ Transaction /\ InRun /\ Covered
  BY DEF PortalInv
<1>a. /\ Watched \subseteq Created /\ Old \subseteq Watched /\ Created \subseteq Records
      /\ Watermark \in Nat /\ Now \in Nat
  BY <1>0, WatchedFacts, ClockFacts DEF Created
<1>b. \A r \in Records : /\ links[r] \in Nat /\ stagedLinks[r] \in Nat
                         /\ links[r] <= stagedLinks[r] /\ born[r] \in Nat
  BY <1>0 DEF PortalTypeOK, Transaction
<1>c. IsFiniteSet(Found) /\ IsFiniteSet(Found')
  <2>1. Found' \in SUBSET (Records \X {1, 2})
    BY DEF Found, Created, Identities
  <2> QED
    BY <1>0, <2>1, RowsAreFinite, FoundFacts
<1>1. ASSUME NEW r \in Records, LegacyCreate(r)
      PROVE  Covered'
  <2>1. /\ Created' = Created \cup {r}
        /\ \A q \in Records : born'[q] = IF q = r THEN Now + 1 ELSE born[q]
        /\ born[r] = 0 /\ Watermark <= Now
    <3>1. Watermark <= Now
      BY <1>0, ClockFacts DEF Clock, PortalSteps
    <3> QED
      BY <1>0, <1>1, <3>1, CreateFacts DEF LegacyCreate
  <2>2. /\ UNCHANGED <<env, portalRows, copies, links, stagedCopies, stagedLinks, step, portalPc,
                        offset, from>>
        /\ Watermark' = Watermark
    BY <1>1 DEF LegacyCreate, chat, process, staged, Watermark
  <2>3. CASE env.quiet
    <3>1. portalPc = "off" /\ Watched' = Watched \cup {r}
      BY <1>1, <2>1, <2>2, <2>3 DEF LegacyCreate, Settled, Watched
    <3>2. \A q \in Watched' : born'[q] < Watermark' => links'[q] > 0
      <4> SUFFICES ASSUME NEW q \in Watched', born'[q] < Watermark
                   PROVE  links[q] > 0
        BY <2>2
      <4>1. q \in Records /\ (q = r \/ q \in Watched)
        BY <1>a, <3>1
      <4>2. q # r
        BY <1>a, <2>1
      <4> QED
        BY <1>0, <2>1, <4>1, <4>2 DEF Covered
    <3> QED
      BY <1>0, <2>2, <3>1, <3>2 DEF Covered
  <2>4. CASE ~env.quiet
    <3>1. Watched = Old /\ Watched' = Old /\ \A q \in Old : q \in Records /\ q # r
      BY <1>0, <1>a, <2>1, <2>2, <2>4 DEF Watched, Clock
    <3>2. \A q \in Old : born'[q] = born[q]
      BY <2>1, <3>1
    <3>3. Found \subseteq Found'
      <4>1. \A q \in Created : q \in Created' /\ born'[q] = born[q]
        <5> SUFFICES ASSUME NEW q \in Created
                     PROVE  q \in Created' /\ born'[q] = born[q]
          OBVIOUS
        <5>1. q # r
          BY <2>1 DEF Created
        <5> QED
          BY <1>a, <2>1, <5>1
      <4>2. \A q : Identities(q)' = Identities(q)
        BY <2>2 DEF Identities
      <4> QED
        BY <2>2, <4>1, <4>2 DEF Found
    <3>4. \A q \in Old : Earlier(q)' < offset => Earlier(q) < offset
      <4> SUFFICES ASSUME NEW q \in Old, Earlier(q)' < offset
                   PROVE  Earlier(q) < offset
        OBVIOUS
      <4>1. EarlierRows(q, Found) \in Nat /\ EarlierRows(q, Found') \in Nat
            /\ EarlierRows(q, Found) <= EarlierRows(q, Found')
        BY <1>c, <3>3, EarlierGrows
      <4>2. offset \in Nat
        BY <1>0 DEF PortalTypeOK
      <4> QED
        BY <4>1, <4>2, EarlierOperator
    <3> QED
      BY <1>0, <2>2, <3>1, <3>2, <3>4 DEF Covered
  <2> QED
    BY <2>3, <2>4
<1>2. ASSUME NEW s \in PortalSteps, LaunchPortal(s)
      PROVE  Covered'
  <2>1. /\ UNCHANGED <<env, born, portalRows, copies, links, stagedLinks, offset>>
        /\ portalPc = "off" /\ portalPc' = "page" /\ offset = 0 /\ stagedLinks = links
        /\ from' \in {0, Watermark}
    BY <1>0, <1>2 DEF LaunchPortal, chat, staged, InRun, Transaction
  <2>2. Watched' = Watched /\ Watermark' = Watermark
    BY <2>1 DEF Watched, Created, Watermark
  <2>3. ASSUME NEW q \in Watched, born[q] < from' \/ Earlier(q)' < offset'
        PROVE  links[q] > 0
    <3>1. EarlierRows(q, Found') \in Nat
      BY <1>c, EarlierGrows
    <3>2. ~(Earlier(q)' < offset')
      BY <2>1, <3>1, EarlierOperator
    <3>3. born[q] \in Nat
      BY <1>a, <1>b
    <3>4. born[q] < Watermark
      BY <1>a, <2>1, <2>3, <3>2, <3>3
    <3> QED
      BY <1>0, <3>4 DEF Covered
  <2> QED
    BY <1>0, <2>1, <2>2, <2>3 DEF Covered
<1>3. ASSUME NEW first \in [Twice -> {1, 2}], PageOf(first)
      PROVE  Covered'
  <2>1. /\ UNCHANGED <<env, born, portalRows, copies, links, step, from>>
        /\ portalPc = "page" /\ offset' = offset + PerPage
        /\ portalPc' = IF Cardinality(Page(first)) < PerPage THEN "commit" ELSE "page"
    BY <1>3 DEF PageOf, InsertPage, chat
  <2>2. Watched' = Watched /\ Watermark' = Watermark /\ Found' = Found
    BY <2>1 DEF Watched, Created, Watermark, Found, Identities
  <2>3. /\ \A q \in Records : stagedLinks'[q] >= stagedLinks[q] /\ stagedLinks'[q] \in Nat
        /\ \A t \in Page(first) : stagedLinks'[t[1]] > 0
    BY <1>0, <1>3, InsertFacts
  <2>4. offset \in Nat /\ from \in Nat /\ PerPage \in Nat
    BY <1>0, RecordsAssumption DEF PortalTypeOK
  <2>5. ASSUME NEW q \in Watched, born[q] < from \/ Earlier(q) < offset + PerPage
        PROVE  stagedLinks'[q] > 0
    <3>1. q \in Created /\ q \in Records
      BY <1>a
    <3>2. CASE born[q] < from \/ Earlier(q) < offset
      <4>1. stagedLinks[q] > 0
        BY <1>0, <2>1, <3>2 DEF Covered
      <4> QED
        BY <1>b, <2>3, <3>1, <4>1
    <3>3. CASE ~(born[q] < from) /\ ~(Earlier(q) < offset)
      <4>1. born[q] >= from
        BY <1>b, <2>4, <3>1, <3>3
      <4>2. Earlier(q) \in Nat
        BY <1>0, <3>1, <4>1, PageFacts
      <4>3. offset <= Earlier(q) /\ Earlier(q) < offset + PerPage
        BY <2>4, <2>5, <3>3, <4>2
      <4>4. PICK t \in Page(first) : t[1] = q
        BY <1>0, <3>1, <4>1, <4>3, PageFacts
      <4> QED
        BY <2>3, <4>4
    <3> QED
      BY <3>2, <3>3
  <2>6. ASSUME NEW q \in Watched, Cardinality(Page(first)) < PerPage
        PROVE  stagedLinks'[q] > 0
    <3> SUFFICES ASSUME ~(born[q] < from), ~(Earlier(q) < offset + PerPage)
                 PROVE  FALSE
      BY <2>5
    <3>1. q \in Created /\ q \in Records
      BY <1>a
    <3>2. born[q] >= from
      BY <1>b, <2>4, <3>1
    <3>3. Earlier(q) \in Nat /\ Cardinality(Page(first)) \in Nat
      BY <1>0, <3>1, <3>2, PageFacts
    <3>4. offset + PerPage <= Earlier(q)
      BY <2>4, <3>3
    <3>5. Cardinality(Page(first)) >= PerPage
      BY <1>0, <3>1, <3>2, <3>4, PageFacts
    <3> QED
      BY <2>4, <2>6, <3>3, <3>5
  <2>7. \A q : Earlier(q)' = Earlier(q)
    BY <2>2 DEF Earlier
  <2> QED
    BY <1>0, <2>1, <2>2, <2>5, <2>6, <2>7 DEF Covered
<1>4. ASSUME copies' = stagedCopies, links' = stagedLinks, portalPc = "commit",
             UNCHANGED <<env, born, portalRows>>,
             portalPc' = "off" \/ (portalPc' = "done" /\ stagedLinks' = stagedLinks)
      PROVE  Covered'
  <2>1. Watched' = Watched
    BY <1>4 DEF Watched, Created
  <2>2. \A q \in Watched : stagedLinks[q] > 0
    BY <1>0, <1>4 DEF Covered
  <2> QED
    BY <1>a, <1>4, <2>1, <2>2 DEF Covered
<1>5. ASSUME UNCHANGED <<env, born, portalRows, chat>>, portalPc' = "off"
      PROVE  Covered'
  <2>1. Watched' = Watched /\ Watermark' = Watermark
    BY <1>5 DEF Watched, Created, Watermark
  <2> QED
    BY <1>0, <1>5, <2>1 DEF Covered, chat
<1>6. CASE Complete
  <2>1. /\ UNCHANGED <<env, born, copies, links>> /\ portalPc' = "off"
        /\ stagedLinks = links /\ portalPc = "done"
    BY <1>0, <1>6 DEF Complete, Die, chat, Transaction
  <2>2. Watched' = Watched
    BY <2>1 DEF Watched, Created
  <2>3. \A q \in Watched : links[q] > 0
    BY <1>0, <2>1 DEF Covered
  <2> QED
    BY <1>a, <2>1, <2>2, <2>3 DEF Covered
<1>7. CASE UNCHANGED portalVars
  <2>1. UNCHANGED <<env, born, portalRows, copies, links, stagedLinks, step, portalPc, offset,
                    from>>
    BY <1>7 DEF portalVars, chat, process, staged
  <2>2. Watched' = Watched /\ Watermark' = Watermark /\ \A q : Earlier(q)' = Earlier(q)
    BY <2>1 DEF Watched, Created, Watermark, Earlier, Found, Identities
  <2> QED
    BY <1>0, <2>1, <2>2 DEF Covered
<1> QED
  BY <1>1, <1>2, <1>3, <1>4, <1>5, <1>6, <1>7 DEF PortalNext, SomePage, Refused, Commit,
     CommitUnanswered, CommitStaged, FailOrCrash, Die, staged

LEMMA AheadStep ==
    ASSUME PortalInv, [PortalNext]_portalVars
    PROVE  Ahead'
<1>0. PortalTypeOK /\ Clock /\ Transaction /\ InRun /\ Ahead
  BY DEF PortalInv
<1> SUFFICES ASSUME env'.quiet, env'.recorded
             PROVE  Ahead'
  BY DEF Ahead
<1>a. env' = env /\ env.quiet /\ env.recorded
  BY DEF PortalNext, SomePage, LegacyCreate, LaunchPortal, PageOf, Refused, Commit,
     CommitUnanswered, FailOrCrash, Complete, portalVars
<1>b. /\ portalPc # "done" => \A t \in copies : born[t[1]] < Watermark
      /\ portalPc = "page" =>
            \A r \in Created \ Twice :
               born[r] >= from /\ offset <= Earlier(r) => <<r, 1>> \notin stagedCopies
  BY <1>0, <1>a DEF Ahead
<1>c. ~MayRepeat
  BY <1>a DEF MayRepeat
<1>1. ASSUME NEW r \in Records, LegacyCreate(r)
      PROVE  Ahead'
  <2>1. portalPc = "off" /\ portalPc' = portalPc /\ copies' = copies /\ Watermark' = Watermark
    BY <1>a, <1>1 DEF LegacyCreate, Settled, process, chat, Watermark
  <2>2. \A t \in copies : t[1] \in Records /\ t[1] # r
    <3>1. born[r] = 0 /\ \A t \in copies : t[1] \in Records /\ born[t[1]] > 0
      BY <1>0, <1>1 DEF LegacyCreate, Transaction, PortalTypeOK
    <3> QED
      BY <3>1
  <2>3. \A q \in Records : q # r => born'[q] = born[q]
    BY <1>0, <1>1, CreateFacts
  <2> QED
    BY <1>b, <2>1, <2>2, <2>3 DEF Ahead
<1>2. ASSUME NEW s \in PortalSteps, LaunchPortal(s)
      PROVE  Ahead'
  <2>1. /\ UNCHANGED <<born, portalRows, copies, stagedCopies>> /\ Watermark' = Watermark
        /\ portalPc = "off" /\ portalPc' = "page" /\ stagedCopies = copies
        /\ from' = Watermark
    BY <1>0, <1>2 DEF LaunchPortal, chat, staged, Transaction, Watermark, InRun
  <2>2. ASSUME NEW r \in Created', born[r] >= from'
        PROVE  <<r, 1>> \notin stagedCopies
    <3>1. Watermark \in Nat /\ r \in Records /\ born[r] \in Nat
      BY <1>0, ClockFacts DEF PortalTypeOK, Created
    <3>2. ~(born[r] < Watermark)
      BY <2>1, <2>2, <3>1
    <3>3. <<r, 1>>[1] = r
      OBVIOUS
    <3> QED
      BY <1>b, <2>1, <3>2, <3>3
  <2> QED
    BY <1>b, <2>1, <2>2 DEF Ahead
<1>3. ASSUME NEW first \in [Twice -> {1, 2}], PageOf(first)
      PROVE  Ahead'
  <2>1. /\ UNCHANGED <<env, born, portalRows, copies, step, from>>
        /\ portalPc = "page" /\ offset' = offset + PerPage
    BY <1>3 DEF PageOf, InsertPage, chat
  <2>2. Watermark' = Watermark /\ Created' = Created /\ \A q : Earlier(q)' = Earlier(q)
    BY <2>1 DEF Created, Watermark, Earlier, Found, Identities
  <2>3. stagedCopies' = stagedCopies \cup Page(first)
    BY <1>0, <1>3, InsertFacts
  <2>4. ASSUME NEW r \in Created \ Twice, born[r] >= from,
               offset + PerPage <= Earlier(r)
        PROVE  <<r, 1>> \notin stagedCopies'
    <3>1. offset \in Nat /\ PerPage \in Nat /\ Earlier(r) \in Nat
      BY <1>0, <2>4, PageFacts, RecordsAssumption DEF PortalTypeOK
    <3>2. offset <= Earlier(r) /\ ~(Earlier(r) < offset + PerPage)
      BY <2>4, <3>1
    <3>3. <<r, 1>> \notin Page(first)
      BY <1>0, <2>4, <3>2, PageFacts
    <3> QED
      BY <1>b, <2>1, <2>3, <2>4, <3>2, <3>3
  <2> QED
    BY <1>b, <2>1, <2>2, <2>4 DEF Ahead
<1>4. CASE Commit
  BY <1>4 DEF Ahead, Commit
<1>5. CASE Refused \/ CommitUnanswered \/ FailOrCrash
  <2>1. UNCHANGED <<born, portalRows, copies>> /\ portalPc # "done" /\ portalPc' = "off"
    BY <1>c, <1>5 DEF Refused, CommitUnanswered, FailOrCrash, Die, chat
  <2>2. Watermark' = Watermark
    BY <2>1 DEF Watermark
  <2> QED
    BY <1>b, <2>1, <2>2 DEF Ahead
<1>6. CASE Complete
  <2>1. Watermark' = Now /\ born' = born /\ copies' = copies /\ portalPc' = "off"
    BY <1>0, <1>6, CompleteFacts DEF Complete, Die, chat
  <2>2. \A t \in copies : t[1] \in Records /\ born[t[1]] < Now
    BY <1>0 DEF PortalTypeOK, Clock
  <2> QED
    BY <2>1, <2>2 DEF Ahead
<1>7. CASE UNCHANGED portalVars
  <2>1. UNCHANGED <<env, born, portalRows, copies, stagedCopies, step, portalPc, offset, from>>
    BY <1>7 DEF portalVars, chat, process, staged
  <2>2. Created' = Created /\ Watermark' = Watermark /\ \A q : Earlier(q)' = Earlier(q)
    BY <2>1 DEF Created, Watermark, Earlier, Found, Identities
  <2> QED
    BY <1>b, <2>1, <2>2 DEF Ahead
<1> QED
  BY <1>1, <1>2, <1>3, <1>4, <1>5, <1>6, <1>7 DEF PortalNext, SomePage

LEMMA PortalInitInv ==
    ASSUME PortalInit
    PROVE  PortalInv
<1>1. ASSUME NEW r \in Records
      PROVE  LET before == {q \in Old : q <= r}
             IN  Cardinality(before) \in Nat /\ (r \in Old => Cardinality(before) > 0)
  <2> DEFINE before == {q \in Old : q <= r}
  <2>1. before \in SUBSET Records /\ (r \in Old => r \in before)
    <3>1. r <= r /\ Old \subseteq Records
      BY RecordsAssumption
    <3>2. before \in SUBSET Records
      BY <3>1
    <3> QED
      BY <3>1, <3>2
  <2> HIDE DEF before
  <2>2. IsFiniteSet(before) /\ Cardinality(before) \in Nat
    BY <2>1, FS_Subset, FS_CardinalityType, RecordsAssumption
  <2>3. r \in Old => Cardinality(before) # 0
    BY <2>1, <2>2, FS_EmptySet
  <2> QED
    BY <2>2, <2>3 DEF before
<1>2. PortalTypeOK
  <2>1. portalRows \in [PortalSteps -> StepRow({})]
    BY DEF PortalInit, StepRow, Statuses, AbsentRow
  <2>2. born \in [Records -> Nat]
    BY <1>1 DEF PortalInit
  <2> QED
    BY <2>1, <2>2 DEF PortalTypeOK, PortalInit, PortalSteps
<1>3. Created = Old
  <2>1. ASSUME NEW r \in Records
        PROVE  born[r] > 0 <=> r \in Old
    <3>1. born[r] = IF r \in Old THEN 2 * Cardinality({q \in Old : q <= r}) ELSE 0
      BY DEF PortalInit
    <3> QED
      BY <1>1, <3>1
  <2> QED
    BY <2>1, RecordsAssumption DEF Created
<1>4. Clock
  <2>1. \A r \in Records : born[r] < Now
    <3> SUFFICES ASSUME NEW r \in Records
                 PROVE  born[r] < Now
      OBVIOUS
    <3> DEFINE before == {q \in Old : q <= r}
    <3>1. IsFiniteSet(Old) /\ before \in SUBSET Old
      BY FS_Subset, RecordsAssumption
    <3> HIDE DEF before
    <3>2. Cardinality(before) <= Cardinality(Old) /\ Cardinality(before) \in Nat
          /\ Cardinality(Old) \in Nat
      BY <3>1, FS_Subset, FS_CardinalityType
    <3>3. born[r] = IF r \in Old THEN 2 * Cardinality(before) ELSE 0
      BY DEF PortalInit, before
    <3> QED
      BY <1>3, <3>2, <3>3 DEF Now
  <2>2. Now \in Nat /\ \A s \in PortalSteps : portalRows[s].completedAt = 0
    BY <1>2, ClockFacts DEF PortalInit, AbsentRow
  <2>3. \A r \in Old : born[r] > 0
    BY <1>3 DEF Created
  <2> QED
    BY <2>1, <2>2, <2>3 DEF Clock
<1>5. Transaction /\ InRun
  BY DEF PortalInit, Transaction, InRun, AbsentRow, Watermark, GetStepCompletedAt, PortalSteps
<1>6. Covered
  <2>1. Watermark = 0
    BY DEF PortalInit, AbsentRow, Watermark, GetStepCompletedAt, PortalSteps
  <2>2. \A r \in Watched : r \in Records /\ born[r] \in Nat
    BY <1>2, <1>4, WatchedFacts DEF PortalTypeOK, Created
  <2>3. /\ portalPc = "off" /\ copies = {}
        /\ \A r \in Watched : ~(born[r] < Watermark)
    BY <2>1, <2>2 DEF PortalInit
  <2> QED
    BY <2>3 DEF Covered
<1>7. StagedOnce /\ Ahead
  BY DEF PortalInit, StagedOnce, Linked, Ahead
<1> QED
  BY <1>2, <1>4, <1>5, <1>6, <1>7 DEF PortalInv

\* The invariant is inductive.
THEOREM PortalInvariant == PortalSpec => []PortalInv
<1>1. PortalInit => PortalInv
  BY PortalInitInv
<1>2. PortalInv /\ [PortalNext]_portalVars => PortalInv'
  BY PortalTypeStep, ClockStep, TransactionStep, PortalRunStep, CoveredStep, StagedOnceStep,
     AheadStep DEF PortalInv
<1> QED
  BY <1>1, <1>2, PTL DEF PortalSpec

\* Every variable of a portal step has its type.
THEOREM PortalTypeCorrect == PortalSpec => []PortalTypeOK
<1>1. PortalInv => PortalTypeOK
  BY DEF PortalInv
<1> QED
  BY <1>1, PortalInvariant, PTL

\* Whatever interrupts the steps, no record is left behind the time that the next run
\* starts from, if none comes while a run is unfinished.
THEOREM PortalNothingBehindWatermark == PortalSpec => []NothingBehindWatermark
<1>1. PortalInv => NothingBehindWatermark
  BY DEF PortalInv, NothingBehindWatermark, Covered, Watched
<1> QED
  BY <1>1, PortalInvariant, PTL

\* A portal step gives a record one migration row and no second one, in migration mode by
\* the constraint that refuses a page, in sync mode by the watermark and the offset.
THEOREM PortalLinkedOnce == PortalSpec => []LinkedOnce
<1>1. PortalInv => LinkedOnce
  <2> SUFFICES ASSUME PortalInv, NEW r \in Records, OneIdentity(r)
               PROVE  links[r] = Cardinality({t \in copies : t[1] = r}) /\ links[r] <= 1
    BY DEF LinkedOnce, OneIdentity
  <2>1. Linked(r, copies, links) /\ copies \subseteq Records \X {1, 2}
    BY DEF PortalInv, StagedOnce, PortalTypeOK
  <2>2. {t \in copies : t[1] = r} = IF <<r, 1>> \in copies THEN {<<r, 1>>} ELSE {}
    <3>1. \A t \in copies : t[1] = r => t = <<r, 1>>
      BY <2>1 DEF Linked
    <3> QED
      BY <3>1
  <2>3. CASE <<r, 1>> \in copies
    <3>1. Cardinality({t \in copies : t[1] = r}) = 1
      BY <2>2, <2>3, FS_Singleton
    <3> QED
      BY <2>1, <2>3, <3>1 DEF Linked
  <2>4. CASE <<r, 1>> \notin copies
    <3>1. Cardinality({t \in copies : t[1] = r}) = 0
      BY <2>2, <2>4, FS_EmptySet
    <3> QED
      BY <2>1, <2>4, <3>1 DEF Linked
  <2> QED
    BY <2>3, <2>4
<1> QED
  BY <1>1, PortalInvariant, PTL

\* A portal step shows its records all at once, and takes neither those nor the time
\* of a completion back.
THEOREM PortalNothingIsTakenBack == PortalSpec => OnlyForward
<1> DEFINE Rows == \A s \in PortalSteps :
                     portalRows'[s].completedAt >= portalRows[s].completedAt
           Copies == \/ UNCHANGED chat
                     \/ /\ copies \subseteq copies'
                        /\ \A r \in Records : links'[r] >= links[r]
                        /\ \A r \in Watched : links'[r] > 0
<1>1. ASSUME PortalInv, [PortalNext]_portalVars
      PROVE  Rows
  <2>0. PortalTypeOK /\ Clock
    BY <1>1 DEF PortalInv
  <2>1. \A s \in PortalSteps : portalRows[s].completedAt \in Nat
    BY <2>0, ClockFacts
  <2>2. CASE portalRows' = portalRows
    BY <2>1, <2>2
  <2>3. CASE Complete
    <3>1. \A s \in PortalSteps :
             portalRows'[s].completedAt = IF s = step THEN Now ELSE portalRows[s].completedAt
      BY <2>0, <2>3, CompleteFacts
    <3> QED
      BY <2>0, <2>1, <3>1, ClockFacts DEF Clock
  <2> QED
    BY <1>1, <2>2, <2>3 DEF PortalNext, LegacyCreate, LaunchPortal, SomePage, PageOf, Refused,
       Commit, CommitUnanswered, FailOrCrash, portalVars
<1>2. ASSUME PortalInv, [PortalNext]_portalVars
      PROVE  Copies
  <2>1. CASE portalPc = "commit" /\ CommitStaged
    <3>1. PortalTypeOK /\ Transaction /\ Covered
      BY <1>2 DEF PortalInv
    <3>2. copies' = stagedCopies /\ links' = stagedLinks
      BY <2>1 DEF CommitStaged
    <3>3. \A r \in Watched : stagedLinks[r] > 0
      BY <2>1, <3>1 DEF Covered
    <3>4. copies \subseteq stagedCopies /\ \A r \in Records : stagedLinks[r] >= links[r]
      BY <3>1 DEF Transaction, PortalTypeOK
    <3> QED
      BY <3>2, <3>3, <3>4
  <2>2. CASE UNCHANGED chat
    BY <2>2
  <2> QED
    BY <1>2, <2>1, <2>2 DEF PortalNext, LegacyCreate, LaunchPortal, SomePage, PageOf, InsertPage,
       Refused, Commit, CommitUnanswered, FailOrCrash, Complete, portalVars
<1>3. PortalInv /\ [PortalNext]_portalVars => [Rows /\ Copies]_portalVars
  BY <1>1, <1>2
<1> QED
  BY <1>3, PortalInvariant, PTL DEF PortalSpec, OnlyForward
================================================================================
