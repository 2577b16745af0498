-------------------------------- MODULE Runner --------------------------------
(***************************************************************************)
(* The step runner (service/converter.go): which steps an invocation of    *)
(* the tool runs, in which order, and how it records them.                 *)
(*                                                                         *)
(* A command is the environment the operator sets (main.go): migration or  *)
(* sync mode, with the portal steps or without, and every step, the steps  *)
(* from one on, or one step alone.  Any command may be given at any time;  *)
(* invocations come one after the other.  The work of a step is its page   *)
(* checkpoints, its return or its failure; the step modules say the rest.  *)
(* An operator that stands before one of which it has the name and a word  *)
(* more is a bug the code might have, as in StepTable.                     *)
(***************************************************************************)
EXTENDS Naturals, Sequences, StepTable

\* The names of the steps of each mode, in order: the first ones, those that only portal
\* clients need, and the rest.
\* And the steps that may come to fail on every run from then on: those that the new
\* database refuses once they have committed and their completion was not recorded, or
\* that the data stops.
CONSTANTS Steps, SyncSteps, MayStick

NamesIn(plan) == {plan[i] : i \in DOMAIN plan}
AllOf(parts) == parts.first \o parts.portal \o parts.rest
MigrationNames == NamesIn(AllOf(Steps))
StepNames == MigrationNames \cup NamesIn(AllOf(SyncSteps))

\* SYNC_MODE, MIGRATE_PORTAL_CLIENTS, SINGLE_STEP and START_FROM_STEP.
NoStart == ""
Commands ==
    [sync : BOOLEAN, portal : BOOLEAN, single : BOOLEAN, start : StepNames \cup {NoStart}]

Distinct(plan) == \A i, j \in DOMAIN plan : plan[i] = plan[j] => i = j

ASSUME StepsAssumption ==
    /\ \A parts \in {Steps, SyncSteps} :
          /\ parts \in [first : Seq(STRING), portal : Seq(STRING), rest : Seq(STRING)]
          /\ Distinct(AllOf(parts))
    /\ MigrationNames \cap NamesIn(AllOf(SyncSteps)) = {}
ASSUME NoStartAssumption == NoStart \notin StepNames
ASSUME MayStickAssumption == MayStick \subseteq StepNames

VARIABLES rows,       \* chat_migration_step
          stuck,      \* the steps that fail on every run from now on
          pc,         \* off, loop, running (in step.Run) or returned (Run gave nil)
          cmd,        \* the command of the invocation, or of the one that ended well
          completed,  \* the completed steps as the invocation read them
          index,      \* position in the list of steps
          outcome     \* how the last invocation ended: none, ok or error

vars == <<rows, stuck, pc, cmd, completed, index, outcome>>

--------------------------------------------------------------------------------

Plain == [sync |-> FALSE, portal |-> TRUE, single |-> FALSE, start |-> NoStart]

\* The switch in main.go.
KindOf(c) ==
    CASE c.single                        -> "single"
      [] ~c.single /\ c.start # NoStart -> "from"
      [] ~c.single /\ c.start = NoStart -> "all"

\* getMigrationSteps, getSyncModeMigrationSteps
Plan(c) ==
    LET parts == IF c.sync THEN SyncSteps ELSE Steps
    IN  IF c.portal THEN AllOf(parts) ELSE parts.first \o parts.rest

PositionOf(plan, name) == CHOOSE i \in DOMAIN plan : plan[i] = name

CompletedForAnyRow(c) ==
    IF c.sync THEN {} ELSE {s \in StepNames : rows[s].status # "absent"}

\* Sync mode runs its steps again and again: it takes none of them as completed.
CompletedFor(c) == IF c.sync THEN {} ELSE {s \in StepNames : IsCompleted(rows[s])}

(***************************************************************************)
(* runStepsFrom: where the loop starts.  When the named step is completed  *)
(* already the code looks for the first step that is not, from the one     *)
(* before the named step on, and takes its position within that slice for  *)
(* a position in the whole list.                                           *)
(***************************************************************************)
FirstPositionZeroBased(plan, start, done) == PositionOf(plan, start) - 1

FirstPosition(plan, start, done) ==
    LET i == PositionOf(plan, start)
        slice == {s \in 1..(Len(plan) - i + 2) : plan[i + s - 2] \notin done}
    IN  IF start \notin done THEN i
        ELSE IF i = 1 \/ slice = {} THEN 1
        ELSE CHOOSE s \in slice : \A t \in slice : s <= t

RefusesUnchecked(c) ==
    KindOf(c) # "all" /\ c.start \notin NamesIn(Plan(c))

\* A name that is no step of this plan (a single step without a name does not get that
\* far), or a single step that is completed already.
Refuses(c) ==
    /\ KindOf(c) # "all"
    /\ \/ c.start \notin NamesIn(Plan(c))
       \/ KindOf(c) = "single" /\ c.start \in CompletedFor(c)

Current == Plan(cmd)[index]

--------------------------------------------------------------------------------

Init ==
    /\ rows = [s \in StepNames |-> AbsentRow]
    /\ stuck = {}
    /\ pc = "off"
    /\ cmd = Plain
    /\ completed = {}
    /\ index = 1
    /\ outcome = "none"

End(result) ==
    /\ pc' = "off"
    /\ outcome' = result
    /\ completed' = {}
    /\ index' = 1
    /\ cmd' = IF result = "ok" THEN cmd ELSE Plain

Launch(c) ==
    /\ pc = "off"
    /\ ~Refuses(c)
    /\ cmd' = c
    /\ completed' = CompletedFor(c)
    /\ index' = CASE KindOf(c) = "all"    -> 1
                  [] KindOf(c) = "from"   -> FirstPosition(Plan(c), c.start, CompletedFor(c))
                  [] KindOf(c) = "single" -> PositionOf(Plan(c), c.start)
    /\ pc' = "loop"
    /\ outcome' = "none"
    /\ UNCHANGED <<rows, stuck>>

\* Refused, or the step table could not be read.
LaunchFails ==
    /\ pc = "off"
    /\ UNCHANGED <<rows, stuck>>
    /\ End("error")

Skip ==
    /\ pc = "loop" /\ KindOf(cmd) # "single"
    /\ index <= Len(Plan(cmd))
    /\ Current \in completed
    /\ index' = index + 1
    /\ UNCHANGED <<rows, stuck, pc, cmd, completed, outcome>>

\* A single step is not looked up again: it has passed that test in Refuses.
StartStep ==
    /\ pc = "loop"
    /\ index <= Len(Plan(cmd))
    /\ KindOf(cmd) = "single" \/ Current \notin completed
    /\ pc' = "running"
    /\ UNCHANGED <<rows, stuck, cmd, completed, index, outcome>>

\* A page of the step is committed with its checkpoint; how far that is does not matter
\* to the runner.
Checkpoint ==
    /\ pc = "running"
    /\ rows' = [rows EXCEPT ![Current] = SaveStepProgress(@, 0)]
    /\ UNCHANGED <<stuck, pc, cmd, completed, index, outcome>>

StepReturns ==
    /\ pc = "running"
    /\ Current \notin stuck
    /\ pc' = "returned"
    /\ UNCHANGED <<rows, stuck, cmd, completed, index, outcome>>

\* What an invocation that ends in a step without recording its completion may leave
\* behind: the portal step after its commit is refused by its own rows (clients.go:290),
\* the gateways step after its last page goes on with an empty one (gateways.go:174).
MayGetStuck == stuck' \in {stuck, stuck \cup ({Current} \cap MayStick)}

\* Run gave an error.  Most steps record it, if the database lets them; the rest do not.
StepFails ==
    /\ pc = "running"
    /\ MayGetStuck
    /\ \/ rows' = [rows EXCEPT ![Current] = MarkStepFailed(@, @.offset)]
       \/ UNCHANGED rows
    /\ End("error")

RecordUnanswered ==
    /\ pc = "returned"
    /\ \/ rows' = [rows EXCEPT ![Current] = MarkStepCompleted(@, 1)]
       \/ UNCHANGED rows
    /\ index' = index + 1
    /\ pc' = IF KindOf(cmd) = "single" THEN "off" ELSE "loop"
    /\ outcome' = IF KindOf(cmd) = "single" THEN "ok" ELSE "none"
    /\ UNCHANGED <<stuck, cmd, completed>>

\* MarkStepCompleted, on the pool and not in a transaction of the step.
Record ==
    /\ pc = "returned"
    /\ UNCHANGED stuck
    /\ rows' = [rows EXCEPT ![Current] = MarkStepCompleted(@, 1)]
    /\ IF KindOf(cmd) = "single"
       THEN End("ok")
       ELSE /\ index' = index + 1
            /\ pc' = "loop"
            /\ UNCHANGED <<cmd, completed, outcome>>

\* It gave an error, and may have been applied all the same.
RecordFails ==
    /\ pc = "returned"
    /\ \/ rows' = [rows EXCEPT ![Current] = MarkStepCompleted(@, 1)] /\ UNCHANGED stuck
       \/ MayGetStuck /\ UNCHANGED rows
    /\ End("error")

Finish ==
    /\ pc = "loop"
    /\ index > Len(Plan(cmd))
    /\ UNCHANGED <<rows, stuck>>
    /\ End("ok")

Crash ==
    /\ pc # "off"
    /\ UNCHANGED rows
    /\ IF pc \in {"running", "returned"} THEN MayGetStuck ELSE UNCHANGED stuck
    /\ End("error")

Next ==
    \/ \E c \in Commands : Launch(c)
    \/ LaunchFails \/ Skip \/ StartStep \/ Checkpoint \/ StepReturns \/ StepFails
    \/ Record \/ RecordFails \/ Finish \/ Crash

Spec == Init /\ [][Next]_vars

(***************************************************************************)
(* The operator gives the plain command again until it works, whatever     *)
(* other commands are given in between.  A step that is not stuck does not *)
(* fail every time: a failure or a kill may end any invocation, so only    *)
(* strong fairness at each step gets the run past it.  A stuck step gives  *)
(* its error each time.                                                    *)
(***************************************************************************)
StuckFails == StepFails /\ Current \in stuck

PlainAt(s) == cmd = Plain /\ index <= Len(Plan(Plain)) /\ Current = s

Fairness ==
    /\ SF_vars(Launch(Plain))
    /\ \A s \in MigrationNames :
          /\ SF_vars(PlainAt(s) /\ (Skip \/ StartStep))
          /\ SF_vars(PlainAt(s) /\ StepReturns)
          /\ SF_vars(PlainAt(s) /\ Record)
    /\ WF_vars(Skip \/ StartStep \/ StepReturns \/ StuckFails \/ Record \/ Finish)

FairSpec == Spec /\ Fairness

--------------------------------------------------------------------------------
(* Properties. *)

\* Every variable has its type.
TypeOK ==
    /\ rows \in [StepNames -> StepRow({})]
    /\ stuck \subseteq MayStick
    /\ pc \in {"off", "loop", "running", "returned"}
    /\ cmd \in Commands
    /\ completed \in SUBSET StepNames
    /\ index \in Nat \ {0}
    /\ outcome \in {"none", "ok", "error"}

\* A completed migration step is never opened again, by whatever sequence of
\* commands: its record of completion, which the sync steps start from, is kept.
CompletedForGood ==
    [][\A s \in MigrationNames : IsCompleted(rows[s]) => IsCompleted(rows'[s])]_vars

\* The position of the step that the invocation was asked to start from, and the one its
\* loop did start from.
Asked == IF KindOf(cmd) = "from" THEN PositionOf(Plan(cmd), cmd.start) ELSE 1
First == IF KindOf(cmd) = "from" THEN FirstPosition(Plan(cmd), cmd.start, completed) ELSE 1

\* README: MIGRATION_START_FROM_STEP starts from this step, skipping earlier ones.
SkipsEarlier == pc \in {"running", "returned"} /\ KindOf(cmd) = "from" => index >= Asked

\* An invocation that goes through all the steps, or those from one on, is at a step
\* only when the table says that the ones before it are completed, back to the one named
\* and to the one its loop started from, whatever failed in this or earlier invocations.
\* If the one named is not completed it also skips those before that: SkipsEarlier does
\* not hold of a start from a completed one.
EarlierStepsCompleted ==
    pc \in {"running", "returned"} /\ KindOf(cmd) # "single" =>
        /\ \A i \in Asked..(index - 1) \cup First..(index - 1) : IsCompleted(rows[Plan(cmd)[i]])
        /\ cmd.start \notin completed => SkipsEarlier

\* An invocation that exits with success leaves the steps it was asked for completed.
SuccessMeansCompleted ==
    outcome = "ok" =>
        \A i \in DOMAIN Plan(cmd) :
            \/ IsCompleted(rows[Plan(cmd)[i]])
            \/ KindOf(cmd) = "from" /\ i < PositionOf(Plan(cmd), cmd.start)
            \/ KindOf(cmd) = "single" /\ Plan(cmd)[i] # cmd.start

\* Re-running the tool gets every step completed, for good, that no stuck step stands
\* before.  So it ends the migration if none gets stuck; README: a failed or interrupted
\* run can be restarted.
CompletesUpToStuck ==
    <>[](\A i \in DOMAIN Plan(Plain) :
            \/ IsCompleted(rows[Plan(Plain)[i]])
            \/ \E j \in 1..i : Plan(Plain)[j] \in stuck)

--------------------------------------------------------------------------------
(* Why they hold. *)

\* The invocation is at a step of its plan, or at the end of it.
InPlan ==
    pc # "off" =>
        /\ index \in 1..(Len(Plan(cmd)) + 1)
        /\ pc \in {"running", "returned"} \/ KindOf(cmd) = "single" => index <= Len(Plan(cmd))
        /\ KindOf(cmd) # "all" => cmd.start \in NamesIn(Plan(cmd))
        /\ KindOf(cmd) = "single" => Current = cmd.start
        /\ outcome = "none"

\* What was read at launch stays true, and of the steps that are still to come no other
\* is completed.  The step that is running, or is to run alone, is none of them.
ReadAtLaunch ==
    /\ \A s \in completed : IsCompleted(rows[s])
    /\ pc # "off" /\ ~cmd.sync =>
          \A i \in index..Len(Plan(cmd)) :
              IsCompleted(rows[Plan(cmd)[i]]) => Plan(cmd)[i] \in completed
    /\ pc = "running" \/ (pc = "loop" /\ KindOf(cmd) = "single") => Current \notin completed

\* EarlierStepsCompleted, between two steps as well.
BehindCompleted ==
    pc # "off" /\ KindOf(cmd) # "single" =>
        /\ \A i \in Asked..(index - 1) \cup First..(index - 1) : IsCompleted(rows[Plan(cmd)[i]])
        /\ KindOf(cmd) = "from" /\ index < Asked => cmd.start \in completed

\* Successes are not running any more.
OkIsOff == outcome = "ok" => pc = "off"

\* The inductive invariant of RunnerProofs.
IInv ==
    /\ TypeOK /\ InPlan /\ ReadAtLaunch /\ BehindCompleted
    /\ OkIsOff /\ SuccessMeansCompleted
================================================================================
