------------------------------- MODULE PortalStep -------------------------------
(***************************************************************************)
(* The steps that keep no checkpoint: `portal_client_to_contact' in both   *)
(* modes (MigratePortalClientsToContacts and ...SyncMode in                *)
(* service/clients.go) and `portal_apps_to_accounts'                       *)
(* (MigratePortalAppsToAccounts in service/apps.go), which has the         *)
(* migration form only.  One transaction from the first OFFSET page to the *)
(* last, committed when the pages are done.  The runner records the        *)
(* completion after that, on another connection.                           *)
(*                                                                         *)
(* A record is its place in the order of the query, which is by id.  What  *)
(* is read of it is a row for an identity: migration mode takes the latest *)
(* identity of a client, sync mode all, and its page query does not order  *)
(* them.  An app has one.  Time is as in SyncPipeline.  An operator that   *)
(* stands before one of which it has the name and a word more is a bug the *)
(* code might have.                                                        *)
(*                                                                         *)
(* The names that every specification has carry `Portal' here, so that a   *)
(* module can extend this one and Runner, which records the completion.    *)
(***************************************************************************)
EXTENDS Naturals, FiniteSets, StepTable

CONSTANTS Records,      \* portal clients, or portal apps
          Old,          \* the ones that are there at the start
          Twice,        \* the ones with two identities, 1 and 2; the others have 1
          PerPage,      \* page size
          Environments, \* see env
          RepeatBound   \* no run ends after its commit once a record has more rows

PortalSteps == {"portal", "sync_portal"}

ASSUME RecordsAssumption ==
    /\ Records \subseteq Nat /\ IsFiniteSet(Records)
    /\ Old \subseteq Records /\ Twice \subseteq Records
    /\ PerPage \in Nat \ {0} /\ RepeatBound \in Nat
    /\ Environments \subseteq
          [quiet : BOOLEAN, migrates : BOOLEAN, recorded : BOOLEAN, apps : BOOLEAN]
    /\ \A e \in Environments : e.apps => e.migrates

\* Of the surroundings: whether no record is created while a run is unfinished, whether
\* migration mode is used before sync mode, whether every commit is followed by the
\* record of its completion, and whether the records are apps and not clients.
VARIABLE env

VARIABLES born,     \* creation time of each record, 0 before it
          portalRows,     \* chat_migration_step rows of the two forms
          copies,   \* identities of records that have a contact or account
          links,    \* number of migration rows of each record
          stagedCopies, stagedLinks, \* the two as the open transaction sees them
          step,     \* the form that runs
          portalPc,       \* off, page, commit or done
          offset,   \* offset of the next page
          from      \* completedAt, or 0

chat == <<copies, links>>
staged == <<stagedCopies, stagedLinks>>
process == <<staged, step, portalPc, offset, from>>
portalVars == <<env, born, portalRows, chat, process>>

--------------------------------------------------------------------------------

Created == {r \in Records : born[r] > 0}
Now == 2 * Cardinality(Created) + 1

WatermarkOwn == portalRows["sync_portal"].completedAt

Watermark == GetStepCompletedAt(portalRows["sync_portal"], portalRows["portal"])

PortalInit ==
    /\ env \in Environments
    /\ born = [r \in Records |-> IF r \in Old THEN 2 * Cardinality({q \in Old : q <= r}) ELSE 0]
    /\ portalRows = [s \in PortalSteps |-> AbsentRow]
    /\ copies = {} /\ links = [r \in Records |-> 0]
    /\ stagedCopies = copies /\ stagedLinks = links
    /\ step = "portal" /\ portalPc = "off" /\ offset = 0 /\ from = 0

DieNotRolledBack ==
    /\ portalPc' = "off" /\ offset' = 0 /\ from' = 0
    /\ UNCHANGED <<step, staged>>

\* What is staged and not committed is gone.  These steps do not record a failure.
Die ==
    /\ portalPc' = "off" /\ offset' = 0 /\ from' = 0
    /\ stagedCopies' = copies' /\ stagedLinks' = links'
    /\ UNCHANGED step

\* The runs so far were completed.
Settled ==
    /\ portalPc = "off"
    /\ env.migrates => IsCompleted(portalRows["portal"])
    /\ \A r \in Created : born[r] < Watermark

LegacyCreate(r) ==
    /\ born[r] = 0
    /\ env.quiet => Settled
    /\ born' = [born EXCEPT ![r] = Now + 1]
    /\ UNCHANGED <<env, portalRows, chat, process>>

\* The runner skips the completed step in migration mode and none in sync mode.
\* Sync mode is used when migration mode is completed, or alone; it has no step for apps.
LaunchPortal(s) ==
    /\ portalPc = "off"
    /\ IF s = "portal" THEN env.migrates /\ ~IsCompleted(portalRows[s])
                       ELSE ~env.apps /\ (env.migrates => IsCompleted(portalRows["portal"]))
    /\ step' = s
    /\ from' = IF s = "portal" THEN 0 ELSE Watermark
    /\ portalPc' = "page"
    /\ UNCHANGED <<env, born, portalRows, chat, staged, offset>>

Identities(r) == IF step = "sync_portal" /\ r \in Twice THEN {1, 2} ELSE {1}

Found == UNION {{r} \X Identities(r) : r \in {q \in Created : born[q] >= from}}

\* ORDER BY id OFFSET offset LIMIT PerPage; `first' is the one of the identities of a
\* record that this execution of the query happens to give first.
Before(t, first) ==
    Cardinality({u \in Found : u[1] < t[1] \/ (u[1] = t[1] /\ u # t /\ u[2] = first[u[1]])})
Page(first) ==
    {t \in Found : offset <= Before(t, first) /\ Before(t, first) < offset + PerPage}

\* A unique constraint looks at the transaction's own rows as well.  The plain insert of
\* the contacts of migration mode is refused by it, that of sync mode, with ON CONFLICT
\* DO NOTHING, passes over what is there.  An app gets a new id each time it is read
\* (convertPortalAppToAccount): its insert is accepted again and again.
Accepted(page) == step = "portal" /\ ~env.apps => page \cap stagedCopies = {}

LinksOf(page) ==
    [r \in Records |-> Cardinality({t \in page : t[1] = r})]

InsertPage(page) ==
    /\ stagedCopies' = stagedCopies \cup page
    /\ stagedLinks' = [r \in Records |-> stagedLinks[r] + LinksOf(page)[r]]
    /\ UNCHANGED chat

PageOf(first) ==
    /\ portalPc = "page"
    /\ Accepted(Page(first))
    /\ InsertPage(Page(first))
    /\ offset' = offset + PerPage
    /\ portalPc' = IF Cardinality(Page(first)) < PerPage THEN "commit" ELSE "page"
    /\ UNCHANGED <<env, born, portalRows, step, from>>

Refused ==
    /\ portalPc = "page"
    /\ \E first \in [Twice -> {1, 2}] : ~Accepted(Page(first))
    /\ UNCHANGED chat
    /\ Die
    /\ UNCHANGED <<env, born, portalRows>>

CommitStaged == copies' = stagedCopies /\ links' = stagedLinks

Commit ==
    /\ portalPc = "commit"
    /\ CommitStaged
    /\ portalPc' = "done"
    /\ UNCHANGED <<env, born, portalRows, staged, step, offset, from>>

\* A run may end after its commit and before the record of its completion.
MayRepeat == ~env.recorded /\ \A r \in Records : stagedLinks[r] <= RepeatBound

\* Killed before the answer, or the answer lost.
CommitUnanswered ==
    /\ MayRepeat
    /\ portalPc = "commit"
    /\ CommitStaged
    /\ Die
    /\ UNCHANGED <<env, born, portalRows>>

\* A statement fails, or the process is killed.
FailOrCrash ==
    /\ portalPc # "off"
    /\ portalPc = "done" => MayRepeat
    /\ UNCHANGED chat
    /\ Die
    /\ UNCHANGED <<env, born, portalRows>>

CompleteEarly ==
    /\ portalPc = "done"
    /\ portalRows' = [portalRows EXCEPT ![step] = MarkStepCompleted(@, Now + 2)]
    /\ UNCHANGED chat
    /\ Die
    /\ UNCHANGED <<env, born>>

Complete ==
    /\ portalPc = "done"
    /\ portalRows' = [portalRows EXCEPT ![step] = MarkStepCompleted(@, Now)]
    /\ UNCHANGED chat
    /\ Die
    /\ UNCHANGED <<env, born>>

SomePage == \E first \in [Twice -> {1, 2}] : PageOf(first)

PortalNext ==
    \/ \E r \in Records : LegacyCreate(r)
    \/ \E s \in PortalSteps : LaunchPortal(s)
    \/ SomePage
    \/ Refused \/ Commit \/ CommitUnanswered \/ FailOrCrash \/ Complete

PortalSpec == PortalInit /\ [][PortalNext]_portalVars

\* The tool is run again and again, and does not fail every time at the same page.
PortalFairness ==
    /\ WF_portalVars(\E s \in PortalSteps : LaunchPortal(s))
    /\ \A n \in 0..((Cardinality(Records) + Cardinality(Twice)) \div PerPage) :
          SF_portalVars(offset = n * PerPage /\ (SomePage \/ Refused))
    /\ SF_portalVars(Commit) /\ SF_portalVars(Complete)

PortalFairSpec == PortalSpec /\ PortalFairness

--------------------------------------------------------------------------------
(* Properties. *)

\* Every variable has its type.
PortalTypeOK ==
    /\ env \in Environments
    /\ born \in [Records -> Nat]
    /\ portalRows \in [PortalSteps -> StepRow({})]
    /\ copies \subseteq Records \X {1, 2} /\ stagedCopies \subseteq Records \X {1, 2}
    /\ links \in [Records -> Nat] /\ stagedLinks \in [Records -> Nat]
    /\ step \in PortalSteps /\ portalPc \in {"off", "page", "commit", "done"}
    /\ offset \in Nat /\ from \in Nat

\* Whatever interrupts the steps, no record is left behind the time that the next run
\* starts from, if none comes while a run is unfinished.
NothingBehindWatermark ==
    env.quiet => \A r \in Created : born[r] < Watermark => links[r] > 0

\* A record has one migration row, which names the contact or account it has: for
\* clients always in migration mode, and in sync mode if they have one identity, where no
\* record comes while a run is unfinished and no run ends between its commit and its
\* completion; for apps under those last two conditions only, as a run after a commit
\* without its completion copies all of them again.
LinkedOnce ==
    \A r \in Records :
        (\/ env.migrates /\ ~env.apps /\ ~IsCompleted(portalRows["portal"])
         \/ env.quiet /\ env.recorded /\ r \notin Twice)
        => links[r] = Cardinality({t \in copies : t[1] = r}) /\ links[r] <= 1

\* The records get into the new database in the end, however often the step is
\* interrupted: the ones there at the start however the legacy table grows meanwhile, and
\* all clients if it does not.  Not that the step is ever recorded as completed:
\* interrupted after its commit, the one of migration mode is refused for ever.  And not
\* that an interrupted run goes on at the page it was at: it starts again at the first.
EventuallyCopied ==
    []<>(\A r \in IF env.quiet /\ ~env.apps THEN Created ELSE Old : links[r] > 0)

--------------------------------------------------------------------------------
(* The parts of the inductive invariant. *)

\* Rows of the query before those of a record.
Earlier(r) == Cardinality({u \in Found : u[1] < r})

\* The records that the step owes an account of.
Watched == IF env.quiet THEN Created ELSE Old

\* A record is older than now, and so is a completion.
Clock ==
    /\ \A r \in Records : born[r] < Now
    /\ \A r \in Old : born[r] > 0
    /\ \A s \in PortalSteps : portalRows[s].completedAt <= Now

\* The transaction starts from what is committed and only adds to it.
Transaction ==
    /\ portalPc \in {"off", "done"} => stagedCopies = copies /\ stagedLinks = links
    /\ copies \subseteq stagedCopies
    /\ \A r \in Records : links[r] <= stagedLinks[r]
    /\ \A t \in stagedCopies : born[t[1]] > 0

\* What a run of the step starts with.
InRun ==
    /\ portalPc = "off" => offset = 0
    /\ portalPc # "off" => from = IF step = "portal" THEN 0 ELSE Watermark
    /\ env.migrates /\ step = "sync_portal" => IsCompleted(portalRows["portal"])
    /\ env.migrates /\ ~IsCompleted(portalRows["portal"]) => Watermark = 0

\* The rows before the offset are staged, and after the last page all are.  Records
\* that come meanwhile only push the others to higher offsets.
Covered ==
    /\ \A r \in Watched : born[r] < Watermark => links[r] > 0
    /\ portalPc = "page" => \A r \in Watched :
          born[r] < from \/ Earlier(r) < offset => stagedLinks[r] > 0
    /\ portalPc \in {"commit", "done"} => \A r \in Watched : stagedLinks[r] > 0
    /\ copies = {} \/ \A r \in Old : links[r] > 0

\* Where a record has one row at most.
OneIdentity(r) ==
    \/ env.migrates /\ ~env.apps /\ ~IsCompleted(portalRows["portal"])
    \/ env.quiet /\ env.recorded /\ r \notin Twice

Linked(r, c, l) == <<r, 2>> \notin c /\ l[r] = IF <<r, 1>> \in c THEN 1 ELSE 0

StagedOnce ==
    \A r \in Records : OneIdentity(r) =>
        Linked(r, copies, links) /\ Linked(r, stagedCopies, stagedLinks)

\* What a run finds has not been copied yet: the watermark is above what is copied, and
\* the offset above what is staged of what it finds.
Ahead ==
    env.quiet /\ env.recorded =>
        /\ portalPc # "done" => \A t \in copies : born[t[1]] < Watermark
        /\ portalPc = "page" =>
              \A r \in Created \ Twice :
                 born[r] >= from /\ offset <= Earlier(r) => <<r, 1>> \notin stagedCopies

PortalInv == PortalTypeOK /\ Clock /\ Transaction /\ InRun /\ Covered /\ StagedOnce /\ Ahead

\* The records that the new database shows change at once: to more of them, and to all
\* that the step owes an account of.  No completion is before an earlier one.
OnlyForward ==
    [][/\ \A s \in PortalSteps : portalRows'[s].completedAt >= portalRows[s].completedAt
       /\ \/ UNCHANGED chat
          \/ /\ copies \subseteq copies'
             /\ \A r \in Records : links'[r] >= links[r]
             /\ \A r \in Watched : links'[r] > 0
      ]_portalVars
================================================================================
