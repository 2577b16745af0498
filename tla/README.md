# Verification of chat-migration-cli

TLA+ models of the tool that moves a legacy chat database to the new chat
services: which pages it reads, what it commits together, what it keeps in its
step table, and what it does when it fails, is killed or is run again while the
legacy service goes on working. TLC checks the models on small databases; TLAPS
proves their safety properties for every database and every page size.

The code referred to is under `src/internal/`: `service/` holds the steps and
the runner, `store/newdb/` and `store/olddb/` the queries.

## 1. The system

One process, one goroutine. It has two PostgreSQL pools: it reads the legacy
database, which a live service goes on writing to, and reads and writes the new
one. A run is a list of named steps. Almost all state is in the new database:

| component | code | state | operations |
|---|---|---|---|
| command line | `src/main.go` | settings | choose the mode (migration, sync), with or without the portal steps, and the kind of run (all steps, from a step, one step) |
| step runner | `service/converter.go` | the completed steps as read at launch, the position in the list | `runSteps`, `runStepsFrom`, `runSingleStep`: skip, run, record |
| step table | `store/newdb/migration.go` | a row for each step: status, `page_offset`, `page_cursor`, `completed_at` | save progress, mark failed, mark completed, and the reads |
| mapping table | `store/newdb/migration.go` | rows (entity type, old id) -> new id, with an extra key | insert, look up one, look up many, clear a tag |
| clients | `service/clients.go` | cursor (last id), contacts | keyset pages by id; the sync form from a date on |
| portal clients, apps | `service/clients.go`, `apps.go` | one open transaction | OFFSET pages, one commit |
| bots | `service/bots.go` | offset, last committed offset | OFFSET pages, a commit each; the operator's mapping table |
| conversations | `service/conversations.go` | cursor (initiator, flow), threads | keyset pages of groups; the sync form tags new threads |
| members | `service/members.go` | cursor, dialogs | keyset pages of groups; owners and internal users |
| messages | `service/messages.go` | cursor, messages | keyset pages of groups that have a thread |
| gateways | `service/gateways.go` | offset | OFFSET pages with calls to the Meta Graph API; apps, gates and their mapping rows |
| contact vias | `service/contacts.go` | - | one statement: a join of the mapping rows of clients and gateways |
| encryption, conversion | `encrypt.go`, parts of `messages.go` | - | pure functions |

**How they interact.** Steps do not call one another. They meet in three
places: the step table (the runner asks what is completed, a step asks where it
stopped, a sync step asks when its counterpart was last completed), the mapping
table (members finds the thread that conversations made, messages finds the
thread and the dialogs, vias joins the rows of clients and of gateways), and the
legacy database, which each step queries anew and which is not the same for any two
of them.

**What is hard.** A page's rows and its cursor are committed in one transaction,
but the failure of a step and its completion are recorded on other connections.
COMMIT may be applied though its answer is lost. The process may be killed
between any two statements. Conversations close, bots and clients appear between
two pages, two steps and two runs. Resumption must neither repeat nor skip.
The sync mode rests on timestamps that one step writes and a later run reads.

**What makes each component correct.**
- runner: a step runs only after those before it, but for what a start from a named step
  skips; a completed migration step is never opened again; success means completed;
  re-running completes every step that no step which fails each time stands before.
- step table: what it says to resume from is the last committed page, at every
  moment.
- conversations: at most one thread for a group, one mapping of a conversation,
  nothing left behind, and the step ends.
- members, messages: each thread is filled once and completely; an author of a
  message is a member of the thread; the steps end.
- clients, bots, in both modes: one contact, one mapping row, and the two agree.
- gateways, vias: an app of a provider and a gate of a kind once, none left behind
  the time of the last run, and each client linked with the gates of the providers it
  had when the clients step took it.
- sync mode: what a later sync will not look at any more has been copied; tags
  survive until they are used; dialogs are not repeated; a sync ends, unless its members
  step comes to a page that it fails on each time.
- portal steps: although no page of theirs is kept before the last, no record is left
  behind the time of the last run, and each gets there in the end; once, where each
  commit is followed by the record of its completion.

## 2. Modules

| module | models | lines of Go |
|---|---|---|
| `StepTable` | a row of `chat_migration_step` and the methods on it | `migration.go:171-361`, `newdb.go:78-109` |
| `ThreadPlan` | abstract: what `conversations` promises | - |
| `Conversations` | `conversations`, migration mode | `conversations.go:19-129`, `olddb/conversation.go:21-77` |
| `Runner` | the settings, and the three ways to run steps | `main.go:92-188`, `converter.go:120-394` |
| `Bots` | `bots_to_contacts` in both modes | `bots.go:22-272`, `olddb/bot.go:23-94` |
| `SyncPipeline` | conversations, members and messages of sync mode in a row, but for the row of `direct_settings` | `conversations.go:147-342`, `members.go:151-293`, `messages.go:105-197, 267-307` |
| `ThreadContents` | members and messages of migration mode in a row, but for the row of `direct_settings` | `members.go:19-149, 295-571`, `messages.go:17-103, 199-265, 318-385` |
| `Clients` | `clients_to_contacts` in both modes | `clients.go:15-229`, `olddb/client.go:22-113` |
| `PortalStep` | `portal_client_to_contact` in both modes, `portal_apps_to_accounts` | `clients.go:231-361`, `apps.go:15-79`, `olddb/client.go:115-206` |
| `Gateways` | clients, gateways and vias in a row, in both modes | `gateways.go:25-670`, `contacts.go:9-25`, `olddb/bot.go:112-256`, `newdb/providers.go:26-192`, `newdb/contact.go:120-141` |
| `MC...` | small databases for TLC | |
| `ConversationsProofs`, `RunnerProofs`, `BotsProofs`, `SyncPipelineProofs`, `ThreadContentsProofs`, `ClientsProofs`, `GatewaysProofs` | theorems about the module they are named after; `RunnerProofs` has those about `PortalStep` too, whose only trace between runs is what the runner records | |
| `PageLemmas` | lemmas that these share: what each write does to a row, pages by key and by offset, also of rows of which a key has two, ranks | |

`StepTable` is extended by every module of a step and by `Runner`, so that all of
them write a row in the same way. An operator that stands before one of which it
has the name and a word more (`MarkStepFailedFromScratch` before
`MarkStepFailed`) is a bug the code might have: no specification uses it, and it
serves to show that a property would notice.

### State and actions against the code

The step modules have one shape.

| model | code |
|---|---|
| `row` / `rows` | the step's row(s) of `chat_migration_step` |
| `pc` | where the process is: not running (`down`/`off`), about to fetch a page, with a page in an open transaction (`commit`), the loop ended and the completion not yet recorded (`done`) |
| `cursor`, `offset`, `known`, `from` | `lastInitiator`/`lastFlowID` or `lastID`, `absOffset`, `lastCommittedOffset`, `completedAt` |
| `batch` | the fetched page |
| `Known`, `offset` | `lastCommittedOffset`, which the code moves together with `absOffset` |
| `Start`, `Launch`, `StartStep` | the reads before the loop |
| `Fetch` | the legacy query; an empty page ends the loop (in `Bots`, and in migration mode of `Gateways`, it is taken to the commit) |
| `Commit` | the inserts, the saved cursor, COMMIT and the test that ends the loop |
| `CommitAnswerLost`, `CommitAndFail` | the same, applied by the server, with the process killed or taking `fail()` |
| `Error`, `FailOrCrash` | a statement fails: rollback and `fail()`, whose own write may fail too |
| `Refused` | an insert that the database or the statement builder refuses, each time it is tried with the same page |
| `Crash` | killed; the transaction is rolled back |
| `Complete` | `Run` returned nil and the runner calls `MarkStepCompleted` |
| `Legacy...` | the live legacy service |

A page is one action from its inserts to COMMIT since no one else reads the new
tables and a transaction that does not commit leaves nothing. The read of the
legacy page is an action of its own: it is on another pool, and the legacy
database may change before the page is committed.

Names and ids of records are abstracted: a new UUID is a number that is fresh for
its owner; a record's formatting is left out. A group `(initiator, flow)` is a
pair in `Conversations`, where the code compares flows as text in one place and as
numbers in another, and a number elsewhere, where the order is not the question.
Time is what the queries compare: see `SyncPipeline`. In `Bots`, `UniqueContacts`
says whether the contact table refuses a second contact of the same domain, issuer and subject:
its constraints are not in the repository, but `ON CONFLICT DO NOTHING` in sync mode
is there for one, and the run has it. The same goes for the contacts of portal clients,
of which migration mode inserts without that clause (`Accepted` in `PortalStep`). Meta
apps, gates and portal apps get a new UUID each time and nothing in the code names a
constraint on them, so a second one is accepted.

## 3. Runs

`pass` runs hold; a `violation` run checks one statement of the repository's
README, and TLC finds a behaviour of the code that refutes it.

Several properties hold only in some surroundings. A variable that is chosen in
`Init` and never changed (`env`) says which ones a behaviour has: a legacy
service that is still while a run is unfinished, the steps in which a failure may
happen, conversations that close late, groups whose initiator has no contact.
One run then covers them all, the properties that hold always are checked in all of
them, and a property that needs a condition names it.

| run | instance | shows |
|---|---|---|
| `Conversations` | 5 groups of 7 conversations, pages of 2, flow ids of equal length; 3 conversations may close late | type, no duplicates, nothing left behind, the saved cursor is the boundary, it only advances, `ThreadPlan` is implemented, the step ends |
| `ConversationsMixed` | flows 8, 9, 10 of one initiator, pages of 2 | **violation** of `NothingLeftBehind`: after 9 the query does not find 10 (`'10' < '9'`) and the step is recorded as completed without it |
| `Runner` | 3 migration steps of which the middle one is for portal clients and may come to fail on each run, 1 sync step; every setting of sync, portal, single step and start, with the name of any step or of none | order of steps, back to the one named and to the one the loop began at; success means completed; completion is for good; the plain command repeated completes every step that none which got stuck stands before |
| `RunnerFrom` | the same | **violation** of `SkipsEarlier`: the step named as the start is completed, the one before it is not, and the run begins at the first step of all |
| `Bots` | 5 bots, pages of 2, one that may be mapped, one created later, a flow that gets a second bot, both forms, lost answers | one row and contact at most in a quiet database; none skipped, neither by an offset nor by the time of a completion; each linked in the end unless a linked bot lies ahead of the offset |
| `Sync` | 3 conversations, 1 migrated before, pages of 1, messages 2; quiet with interruptions anywhere, quiet with none in members, quiet and live with a conversation that only the bot answered | messages copied once, and no more dialogs than conversations, always; nothing behind the watermark if quiet; owners once if members is not interrupted; syncs end, and the messages of every closed conversation arrive, unless members is at a page that it fails on each time |
| `SyncOwnersLost` | 4 conversations, members in pages of 2, quiet, interrupted anywhere | **violation** of `OwnersAdded`: interrupted in members, the tags are cleared by the next sync and the new threads get no owners |
| `Contents` | 5 groups, 6 conversations; none, one or a page of groups without initiator; flows and users without a contact; conversations that close late | filled once always; authors of mapped conversations are members, and the dialogs of a thread name contacts that are there, restored ones included; nothing left behind, and both steps end, if none closes late |
| `ContentsLost` | the same, one group without a thread, pages of 2 | **violation** of `ServesAll`: it ends the messages step, and later pages are never copied |
| `Clients` | 3 clients at first and 3 later, pages of 2, quiet and live, migration mode and then sync mode or sync mode alone | one migration row, naming the contact, always; nothing behind the watermark if quiet; in the end every client linked if quiet, those of the first run otherwise |
| `Portal` | 5 records and 2 that come late, clients, of which one has two identities which come to lie on two pages, or apps; pages of 2, both forms | no record behind the time the next run looks from; one row and contact under the conditions below; copied in the end, wherever the runs are interrupted |
| `Gateways` | 3 providers and a later one, of which one has an app only, 2 clients, of which one may come back over the later provider, pages of 2; both modes or sync alone, a Graph API that gives nothing, lost answers | an app and a gate of a kind once if COMMIT answers; nothing behind the watermark; no via missing once the vias step is completed, of the providers a client had when it was taken; a client reachable in the end unless the gateways step is stuck |

**Bounds and why they are enough.** Each instance has full pages and a short or
empty last one, records before, on and after a page's border, and a late record on
either side of the cursor. Crashes and failures are not counted: the state is
finite without it, as a failure takes the process back to the saved row. The
exceptions are steps that go on counting. In `Bots` a step interrupted after its last
page commits one more empty page each time: `OffsetBound` stops failures once the
saved offset is above 4, which lets it come to 6, past the end. What a lost answer or
a portal step's own repetition copies again is bounded by `RepeatBound`, the number of
copies that a record may have before the next one: 2 in `Bots` and `Portal`, 1 in
`Gateways`, where the second app is already the thing to be seen. In `Conversations` two
groups that close late are alone, one before and one after the cursor, and one
conversation is in a group with another. In `Gateways` the three old providers make
a full page and one that is not; the fourth may join the last one of a resumed run or
be a sync page of its own. Three steps are enough for the slice `steps[i-1:]` of the
runner to have an inside. In `Sync` three conversations make a group with an old
thread and a new one with a smaller key, each a page of conversations and members and
both one of messages; the fourth of `SyncOwnersLost` is a new group with a larger key.

### Where the code and its documents disagree

Each of the four violations above refutes a line of the repository's README:

| run | the line |
|---|---|
| `ConversationsMixed` | :7 "full one-shot migration of all historical data", :51 keyset pages "ordered by `(initiator_id, flow_id)`" |
| `RunnerFrom` | :69 "Start from this step, skipping earlier ones" |
| `SyncOwnersLost` | :40 "Adds full member set to newly created threads" |
| `ContentsLost` | :24 "Migrates all messages, file attachments and interactive content" |

The models show further disagreements, as a condition or an exception that a property
has to name; reading the code at the line given is enough to see them.

| the line | the code | in the models |
|---|---|---|
| :55 "Every step commits its destination-DB writes and saves its checkpoint in the same transaction, once per page, so a crash or transient error at any point resumes from the last committed page rather than restarting the whole step" and :12 "progress is checkpointed after every page" | the portal steps keep one transaction for all pages and no checkpoint: interrupted, they start again at the first page (`clients.go:231`, `apps.go:15`) | `PortalStep` is built so: `Die` drops what is staged and the offset. `NothingBehindWatermark` and `EventuallyCopied` say what holds all the same |
| :12 "Each step is idempotent and resumable" | the clients form of the portal step, interrupted between its commit and the record of its completion, is refused by its own rows on each later run (`clients.go:290`); portal apps are copied again (`apps.go:147`, `newdb/app.go:20`); the gateways step of migration mode interrupted behind its last page goes on with an empty page, which is refused (`gateways.go:174`) | `MayStick` in `Runner`, the exception of `CompletesUpToStuck`; `env.recorded` in `LinkedOnce` of `PortalStep`; `Stuck` in `EventuallyReachable` of `Gateways` |
| :12 "a failed or interrupted run can be restarted from where it left off" | members panics again and again at a page that gives no dialog (`newdb/direct_settings.go:23`) | `Barred` in `SyncPipeline`, `env.orphans` in `ThreadContents` |
| :8 "Safe to run repeatedly without duplicating data" | a flow that gets a further bot is linked twice; portal clients synced before a completion that was not recorded, and those of two identities, get a second row; a lost COMMIT answer makes a second app and gates | the conditions of `LinkedOnce` in `Bots` and `PortalStep`, of `MigratedOnce` in `Gateways` |
| :26 "Syncs contact communication channels (vias) after all contacts and providers are in place", :43 "Re-syncs" them | a client that comes back over another provider has no row for it and gets no via (`olddb/client.go:88`, `clients.go:183`) | `back` in `Gateways` |

### Known limits that the models reproduce

Besides the violations, the models reach these states. The properties above name the
condition that excludes them.

| the code | the model |
|---|---|
| pages of 3 over flows 8, 9, 10: the cursor is 10, after which `'8'` and `'9'` are served again, with no failure (`olddb/conversation.go:34`) | `Conversations`, excluded by `OrdersAgree` |
| a lost COMMIT answer takes the saved offset back to before the committed page; a bot created in the middle of the order does the same (`bots.go:143`, `olddb/bot.go:33`). With unique contacts the step is then refused again and again | `ContactAhead` in `Bots`, which excuses a migration mode that is not completed and nothing else |
| a conversation created while a sync step ran is before the time its completion records, and one closed after it is too: neither is in any sync (`newdb/migration.go:200`, `olddb/conversation.go:93`) | `PicksUpAll`, part of `NothingBehindWatermark`, needs `env.quiet` |
| a flow that gets a further legacy bot is found again by sync mode and gets a second `bot_contact` row; `GetMigrationRow`, which wants one (`newdb/migration.go:46`), then fails members | `LinkedOnce` in `Bots` leaves those flows out |
| a page of providers without Facebook pages or without WhatsApp numbers is refused on each run (`newdb/providers.go:26`); so is the empty page that migration mode goes on with after a full last page, or when it was interrupted behind its last one (`gateways.go:174`). The step never completes, and the vias step is not reached | `Refused`, `Stuck` in `Gateways`; as a step that is stuck, `MayStick` in `Runner` |
| a client that comes back over another provider when its row is there is not found by sync mode, which asks when the client was created (`olddb/client.go:88`): no `gateway_to_contact` row, no via | `back` in `Gateways`, the exception of `NoViaMissing` and `EventuallyReachable` |
| a lost COMMIT answer makes a second app and second gates (`gateways.go:176`) | `MigratedOnce` needs `env.answered` |
| an error of the Graph API is read as an account without numbers, and the page is saved without their gates (`gateways.go:657`) | `env.graph` in `NothingBehindWatermark` |
| a conversation that closed between conversations and members has no thread row: members fails, for ever (`members.go:206`, `members.go:76`) | `MembersUnresolved`, live environments of `SyncPipeline` and `ThreadContents` |
| a page of members that gives no dialog panics in `InsertDirectSettings`, for ever (`newdb/direct_settings.go:23`): in a sync, old threads that only the bot answered, in a quiet database too; in migration mode, groups without an initiator | `MembersPanic`; `Barred`, the exception of `SyncsComplete` and `EventuallyCopied` in `SyncPipeline`; `env.orphans` in `ThreadContents` |
| of the `direct_settings` that a page of members builds, one for each dialog, the first is inserted, and its domain is never set (`newdb/direct_settings.go:19-29`) | left out of both modules: no step reads them |
| a user who comes back in an existing thread gets a second dialog (`members.go:223`) | `CopiedOnce` bounds dialogs by conversations, not by users |
| messages of a late conversation are copied into a thread its author is no member of (`messages.go:336`) | `SendersAreMembers` is about mapped conversations |
| a client whose first channel is opened after the next run is never linked (`olddb/client.go:86`) | `EventuallyLinked` needs `env.quiet` |
| sync mode over half a migration leaves rows that name no contact (`clients.go:195`) | `Launch` in `Clients`, `Bots`, `PortalStep` and `Gateways` syncs when the migration is completed, or alone |
| the portal step for clients, interrupted between its commit and the record of completion, is refused for ever (`clients.go:290`), and all after it wait | `EventuallyCopied` in `PortalStep` says copied, not completed; `MayStick` in `Runner` |
| the one for apps, interrupted there, copies each app again: a new UUID on each run and a plain insert (`apps.go:147`, `newdb/app.go:20-59`) | `env.apps` and `Accepted` in `PortalStep`; the condition `env.recorded` of `LinkedOnce` |
| the sync form of the clients one, interrupted there, finds its own clients again and gives them rows that name no contact (`clients.go:360`); a client of two identities gets two rows in sync mode (`olddb/client.go:179`) | the conditions `env.recorded` and `Twice` of `LinkedOnce` in `PortalStep` |

### Fairness

The tool has no retry: an error ends the process. What makes it go on is the
operator, or a scheduler, who starts it again. So `Start`/`Launch` are weakly fair,
and the actions of a page are strongly fair: each failure disables them, and only a
database that does not refuse the same statement every time lets a step end. No
fairness is put on `Legacy...` actions, on failures or on kills; the exceptions
are `MembersUnresolved` and `MembersPanic`, which the code takes whenever it comes
there: a sync that is `Barred` there is barred again, and the liveness properties
except it. In `Runner` the operator gives the plain command again and again, whatever
is done in between. Any invocation that can go on does, and the plain one does not fail
at the same step every time, with strong fairness for each step of its own, for the
steps that are not stuck; a stuck one gives its error (`StuckFails`), and nothing is
said of the steps after it. Any subset of `MayStick` may get stuck when an invocation
ends in one of them. In `Gateways` and `Bots` the fairness of `Commit` covers `Refused`: a page
is taken to one of the two. A violated liveness property is therefore not a matter of
bad luck: the code takes the same path each time.

`CHECK_DEADLOCK FALSE` stands in the runs of `Conversations`, `ThreadContents` and
`PortalStep`, where the tool stops: a completed step of migration mode is not run again,
and the one for apps has no other. The other modules go on with sync mode or with
another command.

## 4. Proofs

Each module of theorems extends the module it is about, whose last part states the
inductive invariant `IInv` (`PortalInv` in `PortalStep`) and its conjuncts. TLC checked
each of them on the instances of the runs, with all their environments, before it was
proved. The theorem
`Invariance` says `Spec => []IInv`: there is a lemma for `Init`, one for each action,
and a few for what actions share (what stays as it is when only rows are written, what
a page does to the database, what is left of a run that ends). The other theorems
follow from it. All the invariants and the action properties of the passing runs are
proved, and so is the refinement of `ThreadPlan`.

| module | theorems | property |
|---|---|---|
| `ConversationsProofs` | `TypeCorrect`, `NeverDuplicates`, `NeverLeavesBehind`, `AlwaysResumes`, `CursorAdvances`, `Refinement` | `TypeOK`, `NoDuplicates`, `NothingLeftBehind`, `ResumesFromLastPage`, `CursorOnlyAdvances`, `ImplementsPlan` |
| `RunnerProofs` | `TypeCorrect`, `KeepsOrder`, `SuccessIsTrue`, `NeverReopens` | `TypeOK`, `EarlierStepsCompleted`, `SuccessMeansCompleted`, `CompletedForGood` |
| `RunnerProofs`, of `PortalStep` | `PortalInvariant`, `PortalTypeCorrect`, `PortalNothingBehindWatermark`, `PortalLinkedOnce`, `PortalNothingIsTakenBack` | `PortalInv`, `PortalTypeOK`, `NothingBehindWatermark`, `LinkedOnce`, `OnlyForward` |
| `BotsProofs` | `TypeCorrect`, `OneRowOfBot`, `NobodyIsSkipped`, `NothingIsTakenBack` | `TypeOK`, `LinkedOnce`, `NeverSkips`, `OnlyForward` |
| `SyncPipelineProofs` | `TypeCorrect`, `NothingIsCopiedTwice`, `NothingIsLeftBehind`, `OwnersAreAddedOnce`, `NothingIsTakenBack` | `TypeOK`, `CopiedOnce`, `NothingBehindWatermark`, `OwnersOnce`, `OnlyForward` |
| `ThreadContentsProofs` | `TypeCorrect`, `NothingIsFilledTwice`, `NoneIsLeftBehind`, `SendersHaveDialogs`, `NothingIsTakenBack` | `TypeOK`, `FilledOnce`, `NothingLeftBehind`, `SendersAreMembers`, `OnlyForward` |
| `ClientsProofs` | `TypeCorrect`, `OneRowOfContact`, `NobodyIsLeftBehind`, `NothingIsTakenBack` | `TypeOK`, `RowNamesContact`, `NothingBehindWatermark`, `OnlyForward` |
| `GatewaysProofs` | `TypeCorrect`, `OneAppOfProvider`, `NoProviderIsPassed`, `EveryGateIsLinked`, `NothingIsTakenBack` | `TypeOK`, `MigratedOnce`, `NothingBehindWatermark`, `NoViaMissing`, `OnlyForward` |

### The argument

None of the properties is inductive. That a commit writes nothing a second time needs
that the page lies ahead of everything written; that completion leaves nothing behind
needs that the last page was the whole rest; and both need that the process holds what
the row says. So the invariants of the step modules are made of the same parts:

- `InTime`: no recorded time and no creation is later than now. `RowsInOrder`: a row
  has a cursor or an offset only between the first page and completion, and the row of
  the second form of a step is empty while the first may still run.
- what is written lies behind the saved position (`WrittenBehind`, `ContactsBehind`,
  `NotLinkedAhead`, `NotServedAhead`). From it, nothing twice.
- what lies behind the saved position is written (`ServedBehind`, `LinkedBehind`). From
  it, nothing left behind.
- `InStep`: the process is at the saved position and its page is ahead of that.
- `PageIsNext`: what is neither written nor on the page comes after the page, and then
  the page is full. So a short page is the last one, and at the end of the loop nothing
  is missing. This is where the page lemmas enter.

"Behind" is a cursor (`key <= Saved`), an offset (a rank below it among the records
that the query finds) or a time (created before the one the next run looks from), and a
proof of a form that has two of them has to bring them together: completion clears the
cursor and moves the time, and a record behind the first must be behind the second.

**Conversations.** For every set of conversations, page size and set of conversations
that close late. Whatever the two orders are: `TypeCorrect` and `CursorAdvances`, from
the small invariant `CursorInv`. Where text order and number order of the flow ids agree
(`OrdersAgree`, true when all ids have the same number of digits): the others. The
run `ConversationsMixed` shows that this assumption is needed.

**Runner.** For any lists of steps, any command in either mode, one after the other.
What was read at launch stays true, and of the steps to come no other one has been
completed since (`ReadAtLaunch`): in that interval only this process writes. Behind the
position every step is completed (`BehindCompleted`), back to the named step and to the
one the loop began at. What `KeepsOrder` does not say is that the loop does not begin
before the named step when that one is completed: there it does (`RunnerFrom`).
`NeverReopens` is an action property: a step runs only if it was not completed when the
invocation read the table, and it is not completed now.

**Clients**, in both modes: `ContactsBehind` and `ServedBehind` compare with the time and
with the cursor. A client with its first channel later is what `quiet` excludes from
the second; the first holds always, so `OneRowOfContact` does too.

**ThreadContents**, two steps of which messages begins when members is completed. A
group is passed by a step whose row is completed or has a cursor at or above it. Groups
whose initiator has no contact, and conversations that close late, are excepted where
the code excepts them, and nowhere else. Bots and users restored on the way are
in `HasMembers`: the dialog's contact is there in the same transaction.

**SyncPipeline**, three steps over any number of syncs. `Done(s, c)` says that step `s`
will not look at `c`: older than its time, or up to its cursor. `CopiedOnce` holds in all
surroundings; the count of a user's dialogs is bounded by the cardinality of the
conversations done. `NothingBehindWatermark` needs the quiet database, in which members
and messages start when conversations has seen everything (`ServedBehind`).
`OwnersOnce` needs in addition that members is not interrupted, and is the hardest: a
thread without owners (`Waiting`) is tagged and new to members, a tag whose owners
are there marks nothing that members will see until it is cleared, and none is cleared
while it is waited for (`AboutToClear`). It is proved where each conversation has been
answered by an internal user, the condition `env.botOnly = {}` of the property.

**Bots**, by offset. The offset may only fall behind (a lost answer) and a new bot only
moves others on, so `LinkedBehind` holds for the bots there were at the start of
migration mode whatever happens, and for all in a quiet database. That no bot is linked
twice needs the opposite bound, `NotLinkedAhead`, which a lost answer or a bot created
between breaks: it is claimed where the database is quiet and answers.

**Gateways**, three steps of one list. Providers come in the order of their ids, so no
rank changes while a run is unfinished, and `NotServedAhead` needs only that COMMIT
answers. `NoViaMissing` needs the order of the steps: every client has its row once the
clients step is behind (`ClientsFirst`), the gates of a client's provider were made in
a run completed before the vias step (`GatewaysFirst`) and none is added later, because
the next page of sync mode starts from that completion. A channel that a client opens
when the clients step is past it (`back`) gets no row; since the vias step is never past a
client that the clients step is not (`ClientsBeforeVias`), these are all the channels
without one, and `EveryGateIsLinked` excepts no other.

**Portal steps.** One transaction over all pages, so the invariant has two copies of the
database, what is committed and what is staged (`Transaction`: the second has the first
in it, and is the first when no transaction is open). What is before the offset is
staged (`Covered`): a client that comes meanwhile only pushes the others to higher
offsets, where a later page finds them again, so no record there was at the start is
left out: with the last page nothing is, and `NothingBehindWatermark` follows. A client
that is found twice is refused in migration mode, where the constraint holds. In sync mode
nothing refuses it, and neither mode refuses an app; there `LinkedOnce` rests on two
bounds (`Ahead`): the time the run looks from is above all that is copied, and
the offset is above all that is staged, which needs a quiet database and a completion
that is recorded. A client has up to two rows in the list that is paged through,
so an offset counts rows and not records: the lemmas about such pages are in
`PageLemmas`. The theorems stand in `RunnerProofs`, which extends both modules; nothing
of `Runner` is used in them.

**Nothing is taken back.** `OnlyForward`, in `Clients`, `ThreadContents`, `SyncPipeline`,
`Bots`, `Gateways` and `PortalStep`, says of each step what an invariant cannot: the
position that a row says to go on from, where there is one, and the time of the last
completion never move back (but that completion drops the position), and what is written
of a record, under the conditions that the invariants need for it, is not written over. The code has several writers of a row: the page's transaction,
`fail()`, which knows only an offset, and the runner. That none of them undoes another is
not in any one of them. It is an action property, proved from `IInv` for each step
`[Next]_vars`. Where answers to COMMIT are lost, `Bots` and `Gateways` still keep to the
first half: `fail()` writes the offset before the page, which is the one the row had.
The runs do not list `OnlyForward`; TLC finds no violation of it on the instance of each.

### Assumptions

Each is named in the module that declares the constant, and TLC evaluates it in the
module's run. `GroupsAssumption`, `PerPageAssumption`, `TextRankAssumption`
(`Conversations`): finitely many conversations, initiators above 0 (0 is where the first
page starts), a positive page size, distinct flows have distinct texts. `ContentsAssumption`, `SyncAssumption`:
finitely many conversations, groups above 0, positive page sizes. `UsersAssumption`
(`SyncPipeline`): a conversation has its internal user, except those named in
`env.botOnly`. `ClientsAssumption`, `BotsAssumption`, `ProvidersAssumption`: finitely many
records, whose ids are numbers; clients and providers get larger ids later, as a
sequence gives them; of bots, which are ordered by flow, that is not asked.
`RecordsAssumption` (`PortalStep`): finitely many records whose ids are numbers, a
positive page size, and apps only in surroundings with migration mode. `StepsAssumption`,
`NoStartAssumption`, `MayStickAssumption` (`Runner`): no name twice in a list, none in
both lists, the setting left empty names no step, and what may get stuck is a step. `NoCursorAssumption`: a NULL cursor is not
a key. `EnvironmentsAssumption`, `SettingsAssumption`: the types of the rest.

### Only model-checked

Liveness: `EventuallyCompleted`, `EventuallyLinked`, `EventuallyCopied`, `SyncsComplete`,
`CompletesUpToStuck`, `EventuallyReachable`. Fairness and ENABLED are out of the
prover's reach. The four violations are TLC's too.

## 5. Not modelled

- the row of `direct_settings` that a page of members inserts
  (`newdb/direct_settings.go:22`): no step reads it, and the models keep that a page
  without one panics;
- domains: the ids of one domain stand for all (`messages.go:466`);
- short reads: `olddb/message.go:51` does not look at `rows.Err()`, so a connection lost
  in the middle of a page gives a list that is taken for the whole. With it no
  statement about what was copied would hold; a fetch is all or nothing here;
- two invocations at once, which nothing in the code prevents;
- a contact that another program made, without its mapping row (`newdb/contact.go:175`);
- how long a call waits: `http.Get` in `gateways.go:650` has no deadline. A call that
  does not return is a run that is killed;
- a portal client whose external id is no UUID, which migration mode casts and sync
  mode checks (`olddb/client.go:129`, `180`): the step then fails as in `FailOrCrash`;
- the fill of a record (conversion of clients, messages, buttons, the decoding of
  provider metadata), encryption, log settings, connection pools, generated code: data
  or pure I/O.

In `SyncPipeline` every initiator has a contact; `ThreadContents` has groups that
do not. `Gateways` takes the clients step as a whole, since `Clients` says how
it is done, and of a provider's pages and numbers it keeps whether there is one.

## 6. Plan

Done, in this order: `StepTable`, `ThreadPlan`, `Conversations` and its proofs,
`Runner`, `SyncPipeline`, `ThreadContents` with the bots and users it restores,
`Clients`, and both forms of `Bots`, `PortalStep` and `Gateways`.

Proofs: `Conversations` with the refinement, `Runner`, `Clients`, `ThreadContents`,
`SyncPipeline`, `Bots`, `Gateways`, `PortalStep`, the action property `OnlyForward`, and
the lemmas they share.

Next: two invocations over one step table (`Runner` with a set of processes), domains,
short reads.
