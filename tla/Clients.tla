-------------------------------- MODULE Clients --------------------------------
(***************************************************************************)
(* The `clients_to_contacts' step in both modes (MigrateClientsToContacts  *)
(* and MigrateClientsToContactsSyncMode in service/clients.go): pages by   *)
(* ascending client id, one contact for each client that has a channel,    *)
(* and a migration row that names the contact.  The sync form starts at    *)
(* the time of the last completion of either form, and its insert passes   *)
(* over a contact that is there already, but not over its migration row.   *)
(*                                                                         *)
(* A client is its id in the legacy database, which numbers them as they   *)
(* are created.  The contacts made for a client are numbered by the page   *)
(* commits that made them, as each of those makes a new UUID.  Time is as  *)
(* in SyncPipeline: the n-th client is created at 2n.  An operator that    *)
(* stands before one of which it has the name and a word more is a bug the *)
(* code might have.                                                        *)
(***************************************************************************)
EXTENDS Naturals, FiniteSets, StepTable

CONSTANTS Clients,      \* clients, the numbers from 1
          Old,          \* the ones that are there at the start, the first of them
          PerPage,      \* page size
          Environments  \* see env

ClientSteps == {"clients", "sync_clients"}

ASSUME ClientsAssumption ==
    /\ Clients \subseteq Nat \ {0} /\ IsFiniteSet(Clients)
    /\ Old \subseteq Clients /\ \A c \in Old, d \in Clients \ Old : c < d
    /\ PerPage \in Nat \ {0}
    /\ Environments \subseteq [quiet : BOOLEAN, migrates : BOOLEAN]
ASSUME NoCursorAssumption == NoCursor \notin Clients \cup {0}

\* Of the surroundings: whether a client comes with its first channel and never while
\* a run is unfinished, and whether migration mode is used before sync mode.
VARIABLE env

VARIABLES born,     \* creation time of each client, 0 before it
          chatting, \* clients with a channel that has a connection
          rows,     \* chat_migration_step rows of the two forms of the step
          contact,  \* number of the contact of each client, 0 if it has none
          links,    \* contacts that the client_contact migration rows of each name
          step,     \* the form that runs
          pc,       \* off, fetch, commit or done
          cursor,   \* last client of the pages so far
          from,     \* completedAt, or 0
          batch     \* clients of the page in the open transaction

legacy == <<born, chatting>>
chat == <<contact, links>>
process == <<step, pc, cursor, from, batch>>
vars == <<env, legacy, rows, chat, process>>

--------------------------------------------------------------------------------

Created == {c \in Clients : born[c] > 0}
Now == 2 * Cardinality(Created) + 1

Watermark == GetStepCompletedAt(rows["sync_clients"], rows["clients"])

Init ==
    /\ env \in Environments
    /\ born = [c \in Clients |-> IF c \in Old THEN 2 * Cardinality({d \in Old : d <= c}) ELSE 0]
    /\ chatting = Old
    /\ rows = [s \in ClientSteps |-> AbsentRow]
    /\ contact = [c \in Clients |-> 0]
    /\ links = [c \in Clients |-> {}]
    /\ step = "clients" /\ pc = "off" /\ cursor = 0 /\ from = 0 /\ batch = {}

Die == pc' = "off" /\ cursor' = 0 /\ from' = 0 /\ batch' = {} /\ UNCHANGED step

Fail(r) ==
    /\ Die
    /\ rows' \in {[rows EXCEPT ![step] = r], [rows EXCEPT ![step] = MarkStepFailed(r, 0)]}

\* The runs so far were completed.
Settled ==
    /\ pc = "off"
    /\ env.migrates => IsCompleted(rows["clients"])
    /\ rows["sync_clients"].status \in {"absent", "completed"}

LegacyCreate(c) ==
    /\ born[c] = 0
    /\ \A d \in Clients : d < c => born[d] > 0
    /\ env.quiet => Settled
    /\ born' = [born EXCEPT ![c] = Now + 1]
    /\ chatting' \in {chatting, chatting \cup {c}}
    /\ env.quiet => c \in chatting'
    /\ UNCHANGED <<env, rows, chat, process>>

LegacyOpenChannel(c) ==
    /\ born[c] > 0 /\ c \notin chatting
    /\ chatting' = chatting \cup {c}
    /\ UNCHANGED <<env, born, rows, chat, process>>

\* The runner skips the completed step in migration mode and none in sync mode.
\* Sync mode is used when migration mode is completed, or alone.
Launch(s) ==
    /\ pc = "off"
    /\ IF s = "clients" THEN env.migrates /\ ~IsCompleted(rows[s])
                        ELSE env.migrates => IsCompleted(rows["clients"])
    /\ step' = s
    /\ cursor' = GetCursorProgress(rows[s], 0)
    /\ from' = IF s = "clients" THEN 0 ELSE Watermark
    /\ pc' = "fetch"
    /\ UNCHANGED <<env, legacy, rows, chat, batch>>

Found == {c \in chatting : c > cursor /\ born[c] >= from}

\* An empty page is no page: the loop ends.
Fetch ==
    /\ pc = "fetch"
    /\ batch' = {c \in Found : Cardinality({d \in Found : d < c}) < PerPage}
    /\ pc' = IF batch' = {} THEN "done" ELSE "commit"
    /\ UNCHANGED <<env, legacy, rows, chat, step, cursor, from>>

\* The contact table holds one contact of a client.  A plain insert is refused, one
\* with ON CONFLICT DO NOTHING leaves the contact that is there.
Accepted == step = "clients" => \A c \in batch : contact[c] = 0

NewContact(c) == Cardinality(links[c]) + 1

WritePage ==
    /\ contact' = [c \in Clients |->
                      IF c \in batch /\ contact[c] = 0 THEN NewContact(c) ELSE contact[c]]
    /\ links' = [c \in Clients |->
                    IF c \in batch THEN links[c] \cup {NewContact(c)} ELSE links[c]]

LastPageOffByOne == Cardinality(batch) <= PerPage

LastPage == Cardinality(batch) < PerPage

IsLast(c) == c \in batch /\ \A d \in batch : d <= c

Commit ==
    /\ pc = "commit"
    /\ Accepted
    /\ WritePage
    /\ \E last \in batch :
          /\ IsLast(last)
          /\ rows' = [rows EXCEPT ![step] = SaveCursorProgress(@, last)]
          /\ cursor' = last
    /\ pc' = IF LastPage THEN "done" ELSE "fetch"
    /\ batch' = {}
    /\ UNCHANGED <<env, legacy, step, from>>

\* The page is committed and the process dies, or takes the error path.
CommitAndFail ==
    /\ pc = "commit"
    /\ Accepted
    /\ WritePage
    /\ \E last \in batch : IsLast(last) /\ Fail(SaveCursorProgress(rows[step], last))
    /\ UNCHANGED <<env, legacy>>

FailOrCrash ==
    /\ pc # "off"
    /\ IF pc \in {"fetch", "commit"} THEN Fail(rows[step]) ELSE Die /\ UNCHANGED rows
    /\ UNCHANGED <<env, legacy, chat>>

CompleteEarly ==
    /\ pc = "done"
    /\ rows' = [rows EXCEPT ![step] = MarkStepCompleted(@, Now + 2)]
    /\ Die
    /\ UNCHANGED <<env, legacy, chat>>

Complete ==
    /\ pc = "done"
    /\ rows' = [rows EXCEPT ![step] = MarkStepCompleted(@, Now)]
    /\ Die
    /\ UNCHANGED <<env, legacy, chat>>

Next ==
    \/ \E c \in Clients : LegacyCreate(c) \/ LegacyOpenChannel(c)
    \/ \E s \in ClientSteps : Launch(s)
    \/ Fetch \/ Commit \/ CommitAndFail \/ FailOrCrash \/ Complete

Spec == Init /\ [][Next]_vars

\* The tool is run again and again, and no statement is refused every time.
Fairness ==
    /\ \A s \in ClientSteps : WF_vars(Launch(s))
    /\ SF_vars(Fetch) /\ SF_vars(Commit) /\ SF_vars(Complete)

FairSpec == Spec /\ Fairness

--------------------------------------------------------------------------------
(* Properties. *)

\* Every variable has its type.
TypeOK ==
    /\ env \in Environments
    /\ born \in [Clients -> Nat] /\ chatting \in SUBSET Clients
    /\ rows \in [ClientSteps -> StepRow(Clients)]
    /\ contact \in [Clients -> Nat] /\ links \in [Clients -> SUBSET Nat]
    /\ step \in ClientSteps /\ pc \in {"off", "fetch", "commit", "done"}
    /\ cursor \in Clients \cup {0} /\ from \in Nat /\ batch \in SUBSET Clients

\* However the two forms are interrupted and run again, and whenever clients come, a
\* client has at most one migration row, and the row names the contact it has: what
\* ResolveMigrationRow takes for granted when it asks for exactly one.
RowNamesContact ==
    \A c \in Clients : links[c] = IF contact[c] = 0 THEN {} ELSE {contact[c]}

\* A client that no later run will look at, since it was created before the time
\* the next one starts from, has its contact.
NothingBehindWatermark ==
    env.quiet => \A c \in chatting : born[c] < Watermark => contact[c] > 0

\* However often the runs are interrupted, every client that has a channel gets its
\* contact in the end; in a legacy database that is in use, those of the start do.
EventuallyLinked ==
    []<>(\A c \in IF env.quiet THEN chatting ELSE Old : contact[c] > 0)
--------------------------------------------------------------------------------
(* Why they hold: an inductive invariant.                                  *)

\* The key after which, and the time from which, the next run of a form goes on.
Saved(s) == GetCursorProgress(rows[s], 0)
Start(s) == IF s = "clients" THEN 0 ELSE Watermark

\* Time has not overtaken the clock; what has a contact or is on a page has a channel.
InTime ==
    /\ \A c \in Clients : born[c] < Now
    /\ \A s \in ClientSteps : rows[s].completedAt <= Now
    /\ \A c \in Clients : c \in chatting \/ contact[c] > 0 => born[c] > 0

\* A row has a cursor only between the first page of a run and its completion.
RowsInOrder ==
    /\ \A s \in ClientSteps : rows[s].status \in {"absent", "completed"} => rows[s].cursor = NoCursor
    /\ ~env.migrates => rows["clients"].status = "absent"

MigratedFirst == env.migrates => IsCompleted(rows["clients"])

\* Whoever has a contact is where no page of sync mode will be.
ContactsBehind ==
    MigratedFirst =>
        \A c \in Clients : contact[c] > 0 => born[c] < Watermark \/ c <= Saved("sync_clients")

\* Every client up to the saved cursor has its contact.
ServedBehind ==
    /\ chatting = Created
    /\ \A s \in ClientSteps, c \in chatting :
          born[c] >= Start(s) /\ c <= Saved(s) => contact[c] > 0

\* What the database holds between two transactions, and after a crash.
DbInv ==
    /\ InTime /\ RowsInOrder /\ RowNamesContact /\ ContactsBehind
    /\ env.quiet => ServedBehind
    /\ NothingBehindWatermark

\* A run is where its row says, and its page is ahead of it.
InStep ==
    /\ pc # "off" =>
          /\ IF step = "clients" THEN env.migrates /\ ~IsCompleted(rows[step]) ELSE MigratedFirst
          /\ cursor = Saved(step) /\ from = Start(step)
    /\ IF pc = "commit" THEN batch # {} ELSE batch = {}
    /\ \A b \in batch : b \in chatting /\ b > cursor /\ born[b] >= from

\* The page in the transaction is the one that comes next: the clients after it come
\* after a full page.  When the loop is over there are none.
PageIsNext ==
    /\ pc = "commit" => \A c \in chatting \ batch : born[c] >= from /\ c > cursor =>
                           /\ \A b \in batch : b < c
                           /\ Cardinality(batch) >= PerPage
    /\ pc = "done" => \A c \in chatting : born[c] >= from => contact[c] > 0

IInv == TypeOK /\ DbInv /\ InStep /\ (env.quiet => PageIsNext)

\* What a run, a failure or the record of a completion has reached is not taken back:
\* the time a step was completed at and the position it goes on from only grow, but that
\* the completion of a step drops its position; and who has a contact keeps it, and
\* gets no second row.
OnlyForward ==
    [][/\ \A s \in ClientSteps :
             /\ rows'[s].completedAt >= rows[s].completedAt
             /\ Saved(s)' >= Saved(s) \/ IsCompleted(rows'[s])
       /\ \A c \in Clients : contact[c] > 0 => contact'[c] = contact[c] /\ links'[c] = links[c]
      ]_vars
================================================================================
