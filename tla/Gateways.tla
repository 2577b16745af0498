-------------------------------- MODULE Gateways --------------------------------
(***************************************************************************)
(* The last two steps of both modes and the first one they depend on:      *)
(* `clients_to_contacts', `facebook_and_whatsapp' (service/gateways.go) and *)
(* `sync_contact_vias' (service/contacts.go).  The gateways step reads the *)
(* messenger providers by OFFSET / LIMIT pages, makes a Meta app of each   *)
(* and a gate of each of its Facebook pages and WhatsApp numbers; the vias *)
(* step links the contact of a client with the gates of the providers it   *)
(* has used, by joining the migration rows that the other two have left.   *)
(*                                                                         *)
(* The clients step is taken as a whole here: module Clients says how it   *)
(* is done.  A provider is its id, given in the order of creation.  Of the *)
(* pages of a provider, and of its numbers, the model keeps whether there  *)
(* is one.  Each page commit makes new UUIDs, so a gate is numbered by the *)
(* app it was made with.  Time is as in Clients.  An operator that stands  *)
(* before one of which it has the name and a word more is a bug the code   *)
(* might have.                                                             *)
(***************************************************************************)
EXTENDS Naturals, Sequences, FiniteSets, StepTable

CONSTANTS Providers,    \* messenger providers, the numbers from 1
          Old,          \* the ones that are there at the start, the first of them
          Facebook,     \* the ones with a Facebook page in use
          WhatsApp,     \* the ones with WhatsApp numbers
          AppOnly,      \* the other ones with a scope: Instagram, or Facebook without pages
          Clients,      \* clients of the legacy service
          Channels,     \* client and provider of the channels that may be opened
          PerPage,      \* page size
          Environments, \* see env
          RepeatBound   \* no answer is lost for a provider with as many apps

ASSUME ProvidersAssumption ==
    /\ Providers \subseteq Nat \ {0} /\ IsFiniteSet(Providers)
    /\ Old \subseteq Providers /\ \A p \in Old, q \in Providers \ Old : p < q
    /\ Facebook \subseteq Providers /\ WhatsApp \subseteq Providers
    /\ AppOnly \subseteq Providers \ (Facebook \cup WhatsApp)
    /\ Channels \subseteq Clients \X Providers /\ IsFiniteSet(Channels)
ASSUME SettingsAssumption ==
    /\ PerPage \in Nat \ {0} /\ RepeatBound \in Nat
    /\ Environments \subseteq
          [migrates : BOOLEAN, quiet : BOOLEAN, graph : BOOLEAN, answered : BOOLEAN]

\* Of the surroundings: whether migration mode is used before sync mode; whether no
\* provider is created while a run is unfinished; whether the Graph API gives the numbers
\* it is asked for, and COMMIT its answer.
VARIABLE env

VARIABLES born,        \* creation time of each provider, 0 before it
          joined,      \* creation time of each client, 0 before it
          talks,       \* client and provider of each channel
          back,        \* the ones of a client that the clients step had taken before
          rows,        \* chat_migration_step
          contactRows, \* gateway_to_contact rows: the client's contact and the provider
          apps,        \* number of Meta apps of each provider
          gates,       \* gates, each with its provider_to_gateway row
          vias,        \* contact and gate
          mode,        \* migration or sync
          index,       \* position in the list of steps
          pc,          \* off, start, fetch, commit or done
          offset,      \* absOffset of the next page, and lastCommittedOffset
          from,        \* completedAt, or 0
          batch,       \* providers of the page in the open transaction
          numbers,     \* the ones among them for which the Graph API gave numbers
          more         \* iterate: the page was full

legacy == <<born, joined, talks, back>>
target == <<contactRows, apps, gates, vias>>
page == <<offset, from, batch, numbers, more>>
process == <<mode, index, pc, page>>
vars == <<env, legacy, rows, target, process>>

--------------------------------------------------------------------------------

PlanViasFirst(m) ==
    IF m = "sync" THEN <<"sync_clients", "sync_vias", "sync_gateways">>
                  ELSE <<"clients", "vias", "gateways">>

Plan(m) ==
    IF m = "sync" THEN <<"sync_clients", "sync_gateways", "sync_vias">>
                  ELSE <<"clients", "gateways", "vias">>

NamesIn(m) == {Plan(m)[i] : i \in 1..3}
StepNames == NamesIn("migration") \cup NamesIn("sync")

Current == Plan(mode)[index]

\* The time from which the running step takes records: sync mode starts at the last
\* completion of the step in either mode.
SyncOf == [clients |-> "sync_clients", gateways |-> "sync_gateways", vias |-> "sync_vias"]

Watermark(s) == GetStepCompletedAt(rows[SyncOf[s]], rows[s])

Since(s) == IF mode = "sync" THEN Watermark(s) ELSE 0

Created == {p \in Providers : born[p] > 0}
Joined == {c \in Clients : joined[c] > 0}
Now == 2 * (Cardinality(Created) + Cardinality(Joined)) + 1

Init ==
    /\ env \in Environments
    /\ born = [p \in Providers |-> IF p \in Old THEN 2 * Cardinality({q \in Old : q <= p}) ELSE 0]
    /\ joined = [c \in Clients |-> 0]
    /\ talks = {} /\ back = {}
    /\ rows = [s \in StepNames |-> AbsentRow]
    /\ contactRows = {} /\ gates = {} /\ vias = {}
    /\ apps = [p \in Providers |-> 0]
    /\ mode = "migration" /\ index = 1 /\ pc = "off"
    /\ offset = 0 /\ from = 0 /\ batch = {} /\ numbers = {} /\ more = FALSE

ClearPage ==
    /\ offset' = 0 /\ from' = 0 /\ batch' = {} /\ numbers' = {} /\ more' = FALSE

Die == pc' = "off" /\ index' = 1 /\ ClearPage /\ UNCHANGED mode

Fail(r) ==
    /\ Die
    /\ rows' \in {[rows EXCEPT ![Current] = r],
                  [rows EXCEPT ![Current] = MarkStepFailed(r, offset)]}

--------------------------------------------------------------------------------
(* The legacy service. *)

Migrated == \A i \in 1..3 : IsCompleted(rows[Plan("migration")[i]])

\* The runs so far were completed.
Settled ==
    /\ pc = "off"
    /\ env.migrates => Migrated
    /\ \A s \in NamesIn("sync") : rows[s].status \in {"absent", "completed"}

LegacyProvider(p) ==
    /\ born[p] = 0
    /\ \A q \in Providers : q < p => born[q] > 0
    /\ env.quiet => Settled
    /\ born' = [born EXCEPT ![p] = Now + 1]
    /\ UNCHANGED <<env, joined, talks, back, rows, target, process>>

\* A client comes with its first channel, and may come back over other providers.  What
\* happens when it does while a run is unfinished is the subject of Clients.
LegacyChannel(c, p) ==
    /\ <<c, p>> \notin talks /\ born[p] > 0
    /\ Settled
    /\ joined' = [joined EXCEPT ![c] = IF @ = 0 THEN Now + 1 ELSE @]
    /\ talks' = talks \cup {<<c, p>>}
    /\ back' = IF joined[c] > 0 /\ joined[c] < Watermark("clients")
               THEN back \cup {<<c, p>>} ELSE back
    /\ UNCHANGED <<env, born, rows, target, process>>

--------------------------------------------------------------------------------
(* The runner, and the steps of one transaction. *)

\* The completed steps are skipped in migration mode, none in sync mode.  Sync mode is
\* used when migration mode is completed, or alone.
Launch(m) ==
    /\ pc = "off"
    /\ IF m = "sync" THEN env.migrates => Migrated ELSE env.migrates /\ ~Migrated
    /\ mode' = m
    /\ \E i \in 1..3 :
          /\ m = "sync" => i = 1
          /\ m # "sync" => /\ ~IsCompleted(rows[Plan(m)[i]])
                           /\ \A j \in 1..(i - 1) : IsCompleted(rows[Plan(m)[j]])
          /\ index' = i
    /\ pc' = "start"
    /\ UNCHANGED <<env, legacy, rows, target, page>>

\* A row for each provider that a client of the step has a channel over.
RunClients ==
    /\ pc = "start" /\ Current \in {"clients", "sync_clients"}
    /\ contactRows' = contactRows \cup {t \in talks : joined[t[1]] >= Since("clients")}
    /\ pc' = "done"
    /\ UNCHANGED <<env, legacy, rows, apps, gates, vias, mode, index, page>>

\* SyncContactVias: one INSERT ... SELECT, ON CONFLICT DO NOTHING, over the rows there are.
Chain == {<<t[1], g>> : t \in contactRows, g \in gates}

RunVias ==
    /\ pc = "start" /\ Current \in {"vias", "sync_vias"}
    /\ vias' = vias \cup {v \in Chain : <<v[1], v[2][1]>> \in contactRows}
    /\ pc' = "done"
    /\ UNCHANGED <<env, legacy, rows, contactRows, apps, gates, mode, index, page>>

CompleteEarly ==
    /\ pc = "done"
    /\ rows' = [rows EXCEPT ![Current] = MarkStepCompleted(@, Now + 2)]
    /\ ClearPage
    /\ IF index = 3 THEN pc' = "off" /\ index' = 1 ELSE pc' = "start" /\ index' = index + 1
    /\ UNCHANGED <<env, legacy, target, mode>>

\* MarkStepCompleted, and on to the next step.
Complete ==
    /\ pc = "done"
    /\ rows' = [rows EXCEPT ![Current] = MarkStepCompleted(@, Now)]
    /\ ClearPage
    /\ IF index = 3 THEN pc' = "off" /\ index' = 1 ELSE pc' = "start" /\ index' = index + 1
    /\ UNCHANGED <<env, legacy, target, mode>>

--------------------------------------------------------------------------------
(* The gateways step. *)

StartGateways ==
    /\ pc = "start" /\ Current \in {"gateways", "sync_gateways"}
    /\ offset' = GetStepProgress(rows[Current])
    /\ from' = Since("gateways")
    /\ pc' = "fetch"
    /\ UNCHANGED <<env, legacy, rows, target, mode, index, batch, numbers, more>>

\* ORDER BY id OFFSET offset LIMIT PerPage, of the providers created since `since'.
Found(since) == {p \in Created : born[p] >= since}
Before(p, since) == Cardinality({q \in Found(since) : q < p})
Page ==
    {p \in Found(from) : offset <= Before(p, from) /\ Before(p, from) < offset + PerPage}

EndsEmptyNever(providers) == FALSE

\* An empty page ends the sync form.  The form of migration mode goes on with it.
EndsEmpty(providers) == mode = "sync" /\ providers = {}

FullPageOffByOne(providers) == Cardinality(providers) > PerPage

FullPage(providers) == Cardinality(providers) >= PerPage

(***************************************************************************)
(* The page and the gates of its providers.  The numbers of a WhatsApp     *)
(* account are asked of the Graph API, whose status code is not looked at: *)
(* an error is read as an account without numbers.                         *)
(***************************************************************************)
Fetch ==
    /\ pc = "fetch"
    /\ batch' = Page
    /\ more' = FullPage(Page)
    /\ numbers' \in SUBSET (Page \cap WhatsApp)
    /\ env.graph => numbers' = Page \cap WhatsApp
    /\ pc' = IF EndsEmpty(Page) THEN "done" ELSE "commit"
    /\ UNCHANGED <<env, legacy, rows, target, mode, index, offset, from>>

\* Each of the five inserts of the page is refused when it has no rows.  Those of Meta
\* apps, gates and bots have some when the other two have.
InsertsHaveRows == batch \cap Facebook # {} /\ numbers # {}

\* Providers without metadata or scopes are passed over.
Kept == batch \cap (Facebook \cup WhatsApp \cup AppOnly)

NewGates ==
    {<<p, "facebook", apps[p] + 1>> : p \in batch \cap Facebook} \cup
    {<<p, "whatsapp", apps[p] + 1>> : p \in numbers}

WritePage ==
    /\ apps' = [p \in Providers |-> IF p \in Kept THEN apps[p] + 1 ELSE apps[p]]
    /\ gates' = gates \cup NewGates
    /\ UNCHANGED <<contactRows, vias>>

Commit ==
    /\ pc = "commit"
    /\ InsertsHaveRows
    /\ WritePage
    /\ rows' = [rows EXCEPT ![Current] = SaveStepProgress(@, offset + PerPage)]
    /\ offset' = offset + PerPage
    /\ pc' = IF more THEN "fetch" ELSE "done"
    /\ batch' = {} /\ numbers' = {} /\ more' = FALSE
    /\ UNCHANGED <<env, legacy, mode, index, from>>

Refused ==
    /\ pc = "commit"
    /\ ~InsertsHaveRows
    /\ Fail(rows[Current])
    /\ UNCHANGED <<env, legacy, target>>

\* Killed after the commit.
CrashAfterCommit ==
    /\ pc = "commit"
    /\ InsertsHaveRows
    /\ WritePage
    /\ rows' = [rows EXCEPT ![Current] = SaveStepProgress(@, offset + PerPage)]
    /\ Die
    /\ UNCHANGED <<env, legacy>>

\* The COMMIT is applied and its answer lost: the error path records the offset before
\* the page.
CommitAnswerLost ==
    /\ ~env.answered
    /\ \A p \in batch : apps[p] < RepeatBound
    /\ pc = "commit"
    /\ InsertsHaveRows
    /\ WritePage
    /\ Fail(SaveStepProgress(rows[Current], offset + PerPage))
    /\ UNCHANGED <<env, legacy>>

\* A statement or the Graph API fails, or the process is killed, in any of the steps.
FailOrCrash ==
    /\ pc # "off"
    /\ IF pc \in {"fetch", "commit"} THEN Fail(rows[Current]) ELSE Die /\ UNCHANGED rows
    /\ UNCHANGED <<env, legacy, target>>

--------------------------------------------------------------------------------

Next ==
    \/ \E p \in Providers : LegacyProvider(p)
    \/ \E t \in Channels : LegacyChannel(t[1], t[2])
    \/ \E m \in {"migration", "sync"} : Launch(m)
    \/ RunClients \/ RunVias \/ Complete
    \/ StartGateways \/ Fetch \/ Commit \/ Refused
    \/ CrashAfterCommit \/ CommitAnswerLost \/ FailOrCrash

Spec == Init /\ [][Next]_vars

\* The tool is run again and again, and the databases and the Graph API do not fail
\* every time.
Fairness ==
    /\ \A m \in {"migration", "sync"} : WF_vars(Launch(m))
    /\ SF_vars(RunClients) /\ SF_vars(StartGateways) /\ SF_vars(RunVias)
    /\ SF_vars(Fetch) /\ SF_vars(Commit \/ Refused)
    /\ \A i \in 1..3 : SF_vars(index = i /\ Complete)

FairSpec == Spec /\ Fairness

--------------------------------------------------------------------------------
(* Properties. *)

GatesOf(p) == {g \in gates : g[1] = p}
HasGate(p, kind) == \E g \in GatesOf(p) : g[2] = kind

\* Every variable has its type.
TypeOK ==
    /\ env \in Environments
    /\ born \in [Providers -> Nat] /\ joined \in [Clients -> Nat]
    /\ talks \subseteq Channels /\ back \subseteq talks /\ contactRows \subseteq talks
    /\ rows \in [StepNames -> StepRow({})]
    /\ apps \in [Providers -> Nat]
    /\ gates \subseteq Providers \X {"facebook", "whatsapp"} \X Nat
    /\ vias \subseteq Clients \X gates
    /\ mode \in {"migration", "sync"} /\ index \in 1..3
    /\ pc \in {"off", "start", "fetch", "commit", "done"}
    /\ offset \in Nat /\ from \in Nat /\ more \in BOOLEAN
    /\ batch \subseteq Providers /\ numbers \subseteq batch

\* Over all runs of both modes, interrupted anywhere, a provider gets one app, and with
\* that one a gate of a kind at most: unless the answer to a COMMIT is lost.
MigratedOnce ==
    env.answered => \A p \in Providers : apps[p] <= 1 /\ \A g \in GatesOf(p) : g[3] = 1

\* A provider that no later run will look at, created before the time the next one
\* starts from, has its app, and its gates if the Graph API gave what it was asked for.
Served(p) ==
    /\ p \in Facebook \cup WhatsApp \cup AppOnly => apps[p] > 0
    /\ p \in Facebook => HasGate(p, "facebook")
    /\ p \in WhatsApp /\ env.graph => HasGate(p, "whatsapp")

NothingBehindWatermark ==
    env.quiet => \A p \in Created : born[p] < Watermark("gateways") => Served(p)

\* When the vias step is completed, the contact of each client from before it is linked
\* with every gate of the provider that the client has used, but for providers that it
\* came back over when the clients step had taken it: sync mode asks when a client was
\* created (olddb/client.go:88) and does not find it again.
NoViaMissing ==
    env.quiet =>
        \A t \in talks \ back : joined[t[1]] < Watermark("vias") =>
            \A g \in GatesOf(t[2]) : <<t[1], g>> \in vias

\* The page of the gateways step is refused, as it will be on each later run in which
\* the Graph API says the same: the data has no rows for one of the inserts, or the
\* form of migration mode was interrupted behind its last page and is at an empty one.
Stuck == pc = "commit" /\ ~InsertsHaveRows

\* Unless the step is stuck in one of these two ways, every provider is in the end behind
\* a completed run, and a client of a Facebook or WhatsApp provider, of one that it did
\* not come back over, can be reached over a gate of it: however often the runs are
\* interrupted elsewhere.
EventuallyReachable ==
    /\ []<>(Stuck \/ \A p \in Created : born[p] < Watermark("gateways"))
    /\ env.quiet /\ env.graph =>
          []<>(\A t \in talks \ back :
                  t[2] \in Facebook \cup WhatsApp =>
                      \E g \in GatesOf(t[2]) : <<t[1], g>> \in vias)

--------------------------------------------------------------------------------
(* Why they hold: an inductive invariant.                                  *)

GatewaySteps == {"gateways", "sync_gateways"}

Progress(s) == GetStepProgress(rows[s])

\* The time from which a form takes providers.
From(s) == IF s = "sync_gateways" THEN Watermark("gateways") ELSE 0

\* Time has not overtaken the clock, and providers have come in the order of their ids.
InTime ==
    /\ \A s \in StepNames : rows[s].completedAt <= Now
    /\ IsFiniteSet(Joined)
    /\ \A p \in Providers : born[p] < Now /\ (born[p] = 0 => apps[p] = 0)
    /\ \A c \in Clients : joined[c] < Now
    /\ \A p, q \in Providers : p < q /\ born[q] > 0 => born[p] > 0 /\ born[p] < born[q]
    /\ \A t \in talks : born[t[2]] > 0 /\ joined[t[1]] > 0

\* The steps of migration mode are completed in their order and before sync mode is used,
\* and no client comes before.
RowsInOrder ==
    /\ \A s \in StepNames : rows[s].status \in {"absent", "completed"} => rows[s].offset = 0
    /\ IsCompleted(rows["gateways"]) => IsCompleted(rows["clients"])
    /\ IsCompleted(rows["vias"]) => IsCompleted(rows["gateways"])
    /\ ~env.migrates => rows["gateways"] = AbsentRow
    /\ env.migrates /\ ~Migrated => talks = {} /\ Joined = {} /\ rows["sync_gateways"] = AbsentRow

\* A form may run, now or when the other steps of its mode allow it.
Open(s) ==
    IF s = "gateways" THEN env.migrates /\ ~IsCompleted(rows["gateways"])
                      ELSE env.migrates => IsCompleted(rows["gateways"])

OnPage == index = 2 /\ pc \in {"fetch", "commit", "done"}

\* A run is where its rows say.
InStep ==
    /\ pc # "off" =>
          IF mode = "sync" THEN env.migrates => Migrated
          ELSE /\ env.migrates
               /\ \A j \in 1..3 : j < index <=> IsCompleted(rows[Plan("migration")[j]])
    /\ pc \in {"fetch", "commit"} => index = 2
    /\ OnPage => offset = Progress(Current) /\ from = From(Current)
    /\ pc = "commit" =>
          /\ \A p \in batch : p \in Found(from)
                              /\ offset <= Before(p, from) /\ Before(p, from) < offset + PerPage
          /\ env.graph => numbers = batch \cap WhatsApp

\* What lies before the saved offset has what it should.
ServedBehind ==
    \A s \in GatewaySteps : \A p \in Found(From(s)) :
        Before(p, From(s)) < Progress(s) => Served(p)

\* What still lacks something and is not on the page comes after a page that is full.
PageIsNext ==
    OnPage =>
        \A p \in Found(from) : ~Served(p) =>
            /\ pc # "done"
            /\ pc = "commit" /\ p \notin batch => more /\ offset + PerPage <= Before(p, from)

\* Where COMMIT answers, what has its app lies before the saved offset.
NotServedAhead ==
    \A s \in GatewaySteps : Open(s) =>
        \A p \in Found(From(s)) : apps[p] > 0 => Before(p, From(s)) < Progress(s)

\* Each client has its row once the clients step is behind it.
ClientsFirst ==
    /\ \A t \in talks \ back : joined[t[1]] < Watermark("clients") => t \in contactRows
    /\ pc # "off" /\ (index > 1 \/ pc = "done") => talks \ back \subseteq contactRows

\* The clients step has taken the clients that the vias step is behind, and before the
\* other steps of a run all that there are.
ClientsBeforeVias ==
    /\ \A c \in Joined : joined[c] < Watermark("vias") => joined[c] < Watermark("clients")
    /\ pc # "off" /\ index > 1 => \A c \in Joined : joined[c] < Watermark("clients")

\* The gates of a client's provider are made before the vias of the client, and no more
\* of them after.
GatewaysFirst ==
    /\ pc # "off" /\ index = 3 => \A t \in talks : born[t[2]] < Watermark("gateways")
    /\ \A t \in talks \ back :
          joined[t[1]] < Watermark("vias") => born[t[2]] < Watermark("gateways")

ViasWritten ==
    pc = "done" /\ index = 3 =>
        \A t \in talks \ back : \A g \in GatesOf(t[2]) : <<t[1], g>> \in vias

DbInv ==
    /\ InTime /\ RowsInOrder
    /\ env.quiet => ServedBehind
    /\ env.answered => NotServedAhead
    /\ MigratedOnce /\ NothingBehindWatermark /\ NoViaMissing

RunInv ==
    /\ InStep
    /\ env.quiet => PageIsNext /\ GatewaysFirst
    /\ ClientsFirst /\ ClientsBeforeVias /\ ViasWritten

IInv == TypeOK /\ DbInv /\ RunInv

\* What a run, a failure or the record of a completion has reached is not taken back:
\* the time a step was completed at and the offset it goes on from only grow, lost
\* answers or not, but that the completion of a step drops its offset; and where COMMIT
\* answers, a provider that has its app gets neither a second one nor a further gate.
OnlyForward ==
    [][/\ \A s \in StepNames :
             /\ rows'[s].completedAt >= rows[s].completedAt
             /\ Progress(s)' >= Progress(s) \/ IsCompleted(rows'[s])
       /\ env.answered => \A p \in Providers : apps[p] > 0 =>
                              apps'[p] = apps[p] /\ GatesOf(p)' = GatesOf(p)
      ]_vars
================================================================================
