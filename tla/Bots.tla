---------------------------------- MODULE Bots ----------------------------------
(***************************************************************************)
(* The `bots_to_contacts' step in both modes (MigrateBotsToContacts and    *)
(* MigrateBotsToContactsSyncMode in service/bots.go): OFFSET / LIMIT pages *)
(* over the legacy bots, one contact for each bot that the operator's table *)
(* does not map to a contact of the new database, and one migration row for *)
(* every bot.  The sync form takes the bots created since the last          *)
(* completion of either form; its insert passes over a contact that is     *)
(* there already, but not over its migration row.                          *)
(*                                                                         *)
(* What is migrated as one bot is all legacy bots of a flow: a bot here is *)
(* the number of its flow's place in the order by (flow, domain), and it   *)
(* comes back when a new legacy bot of the flow is created.  Time is as in *)
(* SyncPipeline.  On any error the step records the offset it knows to be  *)
(* committed, which is not the one in the table when the answer to a COMMIT *)
(* was lost.  An operator that stands before one of which it has the name  *)
(* and a word more is a bug the code might have.                           *)
(***************************************************************************)
EXTENDS Naturals, FiniteSets, FiniteSetsExt, StepTable

CONSTANTS Bots,           \* flows with a legacy bot, numbered in the order of the query
          Old,            \* the ones that are there at the start
          Returning,      \* the ones that a new legacy bot may be created for, once
          MappedBots,     \* the ones the bot mapping table may hold
          PerPage,        \* page size
          UniqueContacts, \* the contact table refuses a second contact of a bot
          Environments,   \* see env
          OffsetBound,    \* no failure is modelled once the offset is above it
          RepeatBound     \* no answer is lost for a bot that has as many rows

BotSteps == {"bots", "sync_bots"}

ASSUME BotsAssumption ==
    /\ Bots \subseteq Nat /\ IsFiniteSet(Bots)
    /\ Old \subseteq Bots /\ Returning \subseteq Old /\ MappedBots \subseteq Bots
ASSUME SettingsAssumption ==
    /\ PerPage \in Nat \ {0}
    /\ UniqueContacts \in BOOLEAN
    /\ OffsetBound \in Nat /\ RepeatBound \in Nat
    /\ Environments \subseteq [quiet : BOOLEAN, migrates : BOOLEAN, answered : BOOLEAN]

\* Of the surroundings: whether no bot is created while a run is unfinished, whether
\* migration mode is used before sync mode, and whether COMMIT gives its answer.
VARIABLE env

VARIABLES latest,   \* creation time of the newest legacy bot of each flow, 0 before it
          mapped,   \* bots in the mapping table, filled before the migration
          rows,     \* chat_migration_step rows of the two forms of the step
          contacts, \* contacts inserted for each bot
          botRows,  \* bot_contact migration rows of each bot
          step,     \* the form that runs
          pc,       \* off, fetch, commit or done
          offset,   \* absOffset, the offset of the next page
          from,     \* completedAt, or 0
          batch,    \* bots of the page in the open transaction
          more      \* iterate: the page was full

sources == <<latest, mapped>>
chat == <<contacts, botRows>>
process == <<step, pc, offset, from, batch, more>>
vars == <<env, sources, rows, chat, process>>

--------------------------------------------------------------------------------

Beginning == 2
Now == Max({latest[b] : b \in Bots} \cup {0}) + 1

Watermark == GetStepCompletedAt(rows["sync_bots"], rows["bots"])

Created == {b \in Bots : latest[b] > 0}

\* ORDER BY flow_id, dc, of the bots created since `since'.
Found(since) == {b \in Created : latest[b] >= since}
Before(b, since) == Cardinality({p \in Found(since) : p < b})

\* OFFSET offset LIMIT PerPage
Page ==
    {b \in Found(from) : offset <= Before(b, from) /\ Before(b, from) < offset + PerPage}

Init ==
    /\ env \in Environments
    /\ latest = [b \in Bots |-> IF b \in Old THEN Beginning ELSE 0]
    /\ mapped \in SUBSET MappedBots
    /\ rows = [s \in BotSteps |-> AbsentRow]
    /\ contacts = [b \in Bots |-> 0] /\ botRows = [b \in Bots |-> 0]
    /\ step = "bots" /\ pc = "off" /\ offset = 0 /\ from = 0 /\ batch = {} /\ more = FALSE

Die ==
    /\ pc' = "off" /\ offset' = 0 /\ from' = 0 /\ batch' = {} /\ more' = FALSE
    /\ UNCHANGED step

KnownAhead == offset + PerPage

\* lastCommittedOffset
Known == offset

Fail(r) ==
    /\ Die
    /\ rows' \in {[rows EXCEPT ![step] = r], [rows EXCEPT ![step] = MarkStepFailed(r, Known)]}

--------------------------------------------------------------------------------
(* The legacy service. *)

\* The runs so far were completed.
Settled ==
    /\ pc = "off"
    /\ env.migrates => IsCompleted(rows["bots"])
    /\ rows["sync_bots"].status \in {"absent", "completed"}

LegacyCreate(b) ==
    /\ \/ latest[b] = 0
       \/ b \in Returning /\ latest[b] = Beginning
    /\ env.quiet => Settled
    /\ latest' = [latest EXCEPT ![b] = Now + 1]
    /\ UNCHANGED <<env, mapped, rows, chat, process>>

--------------------------------------------------------------------------------
(* The step. *)

LaunchFromScratch(s) ==
    /\ pc = "off"
    /\ IF s = "bots" THEN env.migrates /\ ~IsCompleted(rows[s])
                     ELSE env.migrates => IsCompleted(rows["bots"])
    /\ step' = s
    /\ offset' = 0
    /\ from' = IF s = "bots" THEN 0 ELSE Watermark
    /\ pc' = "fetch"
    /\ UNCHANGED <<env, sources, rows, chat, batch, more>>

\* The runner skips the completed step in migration mode and none in sync mode.
\* Sync mode is used when migration mode is completed, or alone.
Launch(s) ==
    /\ pc = "off"
    /\ IF s = "bots" THEN env.migrates /\ ~IsCompleted(rows[s])
                     ELSE env.migrates => IsCompleted(rows["bots"])
    /\ step' = s
    /\ offset' = GetStepProgress(rows[s])
    /\ from' = IF s = "bots" THEN 0 ELSE Watermark
    /\ pc' = "fetch"
    /\ UNCHANGED <<env, sources, rows, chat, batch, more>>

FullPageOffByOne(page) == Cardinality(page) > PerPage

FullPage(page) == Cardinality(page) >= PerPage

\* An empty page is committed as well, with the checkpoint after it.
Fetch ==
    /\ pc = "fetch"
    /\ batch' = Page
    /\ more' = FullPage(Page)
    /\ pc' = "commit"
    /\ UNCHANGED <<env, sources, rows, chat, step, offset, from>>

Contacted == batch \ mapped

\* A plain insert is refused where one of the contacts is there, one with ON CONFLICT
\* DO NOTHING passes over it.
Accepted == step = "bots" /\ UniqueContacts => \A b \in Contacted : contacts[b] = 0
PassedOver(b) == UniqueContacts /\ contacts[b] > 0

WritePageMappedToo ==
    /\ contacts' = [b \in Bots |->
          IF b \in batch /\ ~PassedOver(b) THEN contacts[b] + 1 ELSE contacts[b]]
    /\ botRows' = [b \in Bots |-> IF b \in batch THEN botRows[b] + 1 ELSE botRows[b]]

WritePage ==
    /\ contacts' = [b \in Bots |->
          IF b \in Contacted /\ ~PassedOver(b) THEN contacts[b] + 1 ELSE contacts[b]]
    /\ botRows' = [b \in Bots |-> IF b \in batch THEN botRows[b] + 1 ELSE botRows[b]]

Saved == SaveStepProgress(rows[step], offset + PerPage)

Commit ==
    /\ pc = "commit"
    /\ Accepted
    /\ WritePage
    /\ rows' = [rows EXCEPT ![step] = Saved]
    /\ offset' = offset + PerPage
    /\ pc' = IF more THEN "fetch" ELSE "done"
    /\ batch' = {} /\ more' = FALSE
    /\ UNCHANGED <<env, sources, step, from>>

\* A step that is interrupted after its last page moves the offset on by one more
\* empty page each time it is started again, without end: hence a bound.
MayFail == rows[step].offset <= OffsetBound

\* Killed after the commit.
CrashAfterCommit ==
    /\ MayFail
    /\ pc = "commit"
    /\ Accepted
    /\ WritePage
    /\ rows' = [rows EXCEPT ![step] = Saved]
    /\ Die
    /\ UNCHANGED <<env, sources>>

\* The COMMIT is applied and its answer lost: the error path records the offset before
\* the page.
CommitAnswerLost ==
    /\ ~env.answered
    /\ MayFail
    /\ \A b \in batch : botRows[b] < RepeatBound
    /\ pc = "commit"
    /\ Accepted
    /\ WritePage
    /\ Fail(Saved)
    /\ UNCHANGED <<env, sources>>

Refused ==
    /\ pc = "commit"
    /\ ~Accepted
    /\ Fail(rows[step])
    /\ UNCHANGED <<env, sources, chat>>

\* A statement fails, or the process is killed.
FailOrCrash ==
    /\ MayFail
    /\ pc # "off"
    /\ IF pc \in {"fetch", "commit"} THEN Fail(rows[step]) ELSE Die /\ UNCHANGED rows
    /\ UNCHANGED <<env, sources, chat>>

CompleteEarly ==
    /\ pc = "done"
    /\ rows' = [rows EXCEPT ![step] = MarkStepCompleted(@, Now + 2)]
    /\ Die
    /\ UNCHANGED <<env, sources, chat>>

Complete ==
    /\ pc = "done"
    /\ rows' = [rows EXCEPT ![step] = MarkStepCompleted(@, Now)]
    /\ Die
    /\ UNCHANGED <<env, sources, chat>>

Next ==
    \/ \E b \in Bots : LegacyCreate(b)
    \/ \E s \in BotSteps : Launch(s)
    \/ Fetch \/ Commit \/ Refused \/ Complete
    \/ CrashAfterCommit \/ CommitAnswerLost \/ FailOrCrash

Spec == Init /\ [][Next]_vars

\* The tool is run again and again, and no statement fails every time.
Fairness ==
    /\ \A s \in BotSteps : WF_vars(Launch(s))
    /\ SF_vars(Fetch) /\ SF_vars(Commit \/ Refused) /\ SF_vars(Complete)

FairSpec == Spec /\ Fairness

--------------------------------------------------------------------------------
(* Properties. *)

\* Every variable has its type.
TypeOK ==
    /\ env \in Environments
    /\ latest \in [Bots -> Nat] /\ mapped \in SUBSET Bots
    /\ rows \in [BotSteps -> StepRow({})]
    /\ contacts \in [Bots -> Nat] /\ botRows \in [Bots -> Nat]
    /\ step \in BotSteps /\ pc \in {"off", "fetch", "commit", "done"}
    /\ offset \in Nat /\ from \in Nat /\ batch \in SUBSET Bots /\ more \in BOOLEAN

LinkedBot(b) ==
    /\ botRows[b] <= 1
    /\ contacts[b] = IF b \in mapped THEN 0 ELSE botRows[b]

\* However the two forms are interrupted and repeated, in a quiet database that answers
\* a bot has at most one migration row, which names the contact it has or is mapped to:
\* what ResolveMigrationRow takes for granted.  Flows that get a further bot are left
\* out: a sync finds them again, passes over their contact and adds a second row.  Until
\* sync mode runs each row has its contact whatever happens.
LinkedOnce ==
    /\ env.quiet /\ env.answered =>
          \A b \in Bots : latest[b] = Beginning \/ b \notin Old => LinkedBot(b)
    /\ rows["sync_bots"] = AbsentRow =>
          \A b \in Bots \ mapped : contacts[b] = botRows[b]

Since(s) == IF s = "bots" THEN 0 ELSE Watermark

\* The bots that a form must not leave out.
Awaited(s) == IF env.quiet THEN Created ELSE IF s = "bots" THEN Old ELSE {}

\* Whatever fails and whichever answer is lost, neither the saved offset of an
\* unfinished step nor the time of a completed one is beyond a bot that is still to be
\* linked.  Where bots come while a run goes on this is so of those migration mode
\* finds at first.
NeverSkips ==
    \A s \in BotSteps : \A b \in Awaited(s) :
        IF b \in Found(Since(s)) /\ ~IsCompleted(rows[s])
        THEN Before(b, Since(s)) < GetStepProgress(rows[s]) => botRows[b] > 0
        ELSE latest[b] < rows[s].completedAt => botRows[b] > 0

\* A bot that has its contact lies ahead of the saved offset of migration mode, after
\* a lost answer or because one was created before it: its page is refused.
ContactAhead ==
    /\ env.migrates /\ ~IsCompleted(rows["bots"])
    /\ \E b \in Created \ mapped :
          contacts[b] > 0 /\ Before(b, 0) >= GetStepProgress(rows["bots"])

\* Unless a contact comes to lie ahead of the offset, every bot is in the end behind a
\* completed run, and linked if no bots come while one goes on: however often the runs
\* are interrupted, also after the last page.
EventuallyLinked ==
    []<>(\/ ContactAhead
         \/ \A b \in Created : latest[b] < Watermark /\ (env.quiet => botRows[b] > 0))
--------------------------------------------------------------------------------
(* Why they hold: an inductive invariant.                                  *)

Progress(s) == GetStepProgress(rows[s])

\* Time has not overtaken the clock, and what is not there yet is not linked.
InTime ==
    /\ \A s \in BotSteps : rows[s].completedAt <= Now
    /\ Old \subseteq Created
    /\ \A b \in Bots : latest[b] = 0 => botRows[b] = 0 /\ contacts[b] = 0

RowsInOrder ==
    \A s \in BotSteps : rows[s].status \in {"absent", "completed"} => rows[s].offset = 0

\* The forms do not alternate: one of them may run.
MayRun(s) ==
    IF s = "bots" THEN env.migrates /\ ~IsCompleted(rows["bots"])
                  ELSE env.migrates => IsCompleted(rows["bots"])

OneAfterTheOther ==
    /\ env.migrates \/ rows["bots"] = AbsentRow
    /\ MayRun("bots") => rows["sync_bots"] = AbsentRow

\* A run is where its row says, and in a quiet database its page is the one it has read.
InStep ==
    /\ pc # "off" => MayRun(step) /\ offset = Progress(step) /\ from = Since(step)
    /\ batch \subseteq Created /\ (pc # "commit" => batch = {})
    /\ env.quiet /\ pc = "commit" => batch = Page

\* What lies before the saved offset is linked, and what is older than a completion.
LinkedBehind ==
    \A s \in BotSteps : \A b \in Awaited(s) :
        /\ b \in Found(Since(s)) /\ Before(b, Since(s)) < Progress(s) => botRows[b] > 0
        /\ latest[b] < rows[s].completedAt => botRows[b] > 0

\* What is neither linked nor on the page comes after a page that is full.
PageIsNext ==
    \A b \in Awaited(step) : b \in Found(from) /\ botRows[b] = 0 =>
        /\ pc # "done"
        /\ pc = "commit" /\ b \notin batch => more /\ offset + PerPage <= Before(b, from)

\* In a quiet database that answers, what is linked lies before the saved offset.
Calm == env.quiet /\ env.answered

CameOnce(b) == latest[b] = Beginning \/ b \notin Old

NotLinkedAhead ==
    \A s \in BotSteps : MayRun(s) =>
        \A b \in Found(Since(s)) :
            CameOnce(b) /\ botRows[b] > 0 => Before(b, Since(s)) < Progress(s)

DbInv ==
    /\ InTime /\ RowsInOrder /\ OneAfterTheOther /\ LinkedBehind
    /\ Calm => NotLinkedAhead
    /\ LinkedOnce

IInv == TypeOK /\ DbInv /\ InStep /\ PageIsNext

\* What a run, a failure or the record of a completion has reached is not taken back:
\* the time a step was completed at and the offset it goes on from only grow, lost
\* answers or not, but that the completion of a step drops its offset; and in a quiet
\* database that answers a bot that has its row gets neither a second one nor a further
\* contact.
OnlyForward ==
    [][/\ \A s \in BotSteps :
             /\ rows'[s].completedAt >= rows[s].completedAt
             /\ Progress(s)' >= Progress(s) \/ IsCompleted(rows'[s])
       /\ Calm => \A b \in Bots : CameOnce(b) /\ botRows[b] > 0 =>
                     botRows'[b] = botRows[b] /\ contacts'[b] = contacts[b]
      ]_vars
================================================================================
