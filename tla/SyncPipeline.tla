------------------------------ MODULE SyncPipeline ------------------------------
(***************************************************************************)
(* Sync mode over its three chat steps: MigrateConversationsSyncMode,      *)
(* MigrateMembersSyncMode and MigrateMessagesSyncMode, run one after the   *)
(* other by runSteps, again and again, over a legacy database in use.      *)
(*                                                                         *)
(* Each step takes the closed conversations created since ITS last         *)
(* completion.  The conversations step tags the threads it makes           *)
(* (extra_key `sync_new'), the members step gives a tagged thread its two  *)
(* owners and any thread the internal users of the conversations, and the  *)
(* messages step copies the messages.                                      *)
(*                                                                         *)
(* A group is a number: here the two orders of the legacy query are one.   *)
(* Time is what the queries compare: the n-th conversation is created at   *)
(* 2n, and what is recorded after it and before the next one is at 2n + 1. *)
(* Conversations migrated beforehand were created at 1, and that migration *)
(* is recorded at 2.                                                       *)
(* The one row of direct_settings that a page of members inserts (the      *)
(* first of the settings it builds, direct_settings.go:22) is left out.    *)
(* An operator that stands before one of which it has the name and a word  *)
(* more is a bug the code might have.                                      *)
(***************************************************************************)
EXTENDS Naturals, FiniteSets, StepTable

CONSTANTS Convs,           \* conversations
          GroupOf,         \* group, the pair (initiator, flow), of each
          UsersOf,         \* internal users who took part in each
          Old,             \* conversations that a full migration has migrated
          PerPage,         \* page size of conversations and members
          MessagesPerPage, \* page size of messages
          Environments     \* see env

Groups == {GroupOf[c] : c \in Convs}
Users  == UNION {UsersOf[c] : c \in Convs}
SyncSteps == {"conversations", "members", "messages"}

ASSUME SyncAssumption ==
    /\ IsFiniteSet(Convs) /\ Old \subseteq Convs
    /\ GroupOf \in [Convs -> Nat \ {0}]
    /\ PerPage \in Nat \ {0} /\ MessagesPerPage \in Nat \ {0}
ASSUME EnvironmentsAssumption ==
    Environments \subseteq [quiet : BOOLEAN, faulty : SUBSET SyncSteps, botOnly : SUBSET Convs]
ASSUME NoCursorAssumption == NoCursor \notin Groups \cup {0}
\* A conversation without an internal user is one of the botOnly of env.
ASSUME UsersAssumption == \A c \in Convs : UsersOf[c] # {}

\* Of the surroundings: whether the legacy service is still while a sync is not
\* finished, the steps in which a failure or a kill may happen, and the conversations
\* that no internal user answered.
VARIABLE env

VARIABLES born,      \* creation time of each conversation, 0 before it
          closed,    \* conversations with closed_at set
          rows,      \* chat_migration_step rows of the sync steps
          convRows,  \* number of conversation_thread rows of each conversation
          threads,   \* number of threads (with their flow row) of each group
          tagged,    \* groups whose flow row has extra_key sync_new
          owners,    \* number of owner dialog pairs of each group's thread
          members,   \* number of dialogs of each internal user in a group's thread
          copied,    \* how often the messages of each conversation were copied
          step,      \* the step the process is at
          pc,        \* off, start, fetch, commit or done
          cursor,    \* last group of the pages so far
          from,      \* completedAt, the time the step reads from
          batch      \* conversations of the page in the open transaction

legacy == <<born, closed>>
chat == <<convRows, threads, tagged, owners, members, copied>>
process == <<step, pc, cursor, from, batch>>
vars == <<env, legacy, rows, chat, process>>

--------------------------------------------------------------------------------

UsersIn(c) == IF c \in env.botOnly THEN {} ELSE UsersOf[c]

Created == {c \in Convs : born[c] > 0}
Now == 2 * Cardinality(Created) + 1

\* The row of the step's counterpart in migration mode.
FullMigration == IF Old = {} THEN AbsentRow ELSE MarkStepCompleted(AbsentRow, 2)

WatermarkOwn(s) == rows[s].completedAt

WatermarkOfAnyStep(s) ==
    CHOOSE t \in {rows[r].completedAt : r \in SyncSteps} :
        \A r \in SyncSteps : rows[r].completedAt <= t

Watermark(s) == GetStepCompletedAt(rows[s], FullMigration)

Init ==
    /\ env \in Environments
    /\ born = [c \in Convs |-> IF c \in Old THEN 1 ELSE 0]
    /\ closed = Old
    /\ rows = [s \in SyncSteps |-> AbsentRow]
    /\ convRows = [c \in Convs |-> IF c \in Old THEN 1 ELSE 0]
    /\ threads = [g \in Groups |-> IF g \in {GroupOf[c] : c \in Old} THEN 1 ELSE 0]
    /\ tagged = {}
    /\ owners = threads
    /\ members = [g \in Groups |-> [u \in Users |->
                     IF \E c \in Old : GroupOf[c] = g /\ u \in UsersIn(c) THEN 1 ELSE 0]]
    /\ copied = convRows
    /\ step = "conversations" /\ pc = "off" /\ cursor = 0 /\ from = 0 /\ batch = {}

Die == step' = "conversations" /\ pc' = "off" /\ cursor' = 0 /\ from' = 0 /\ batch' = {}

Fail(r) ==
    /\ Die
    /\ rows' \in {[rows EXCEPT ![step] = r], [rows EXCEPT ![step] = MarkStepFailed(r, 0)]}

--------------------------------------------------------------------------------
(* The live legacy service. *)

\* No sync is going on, nor waits to be taken up again.
Settled ==
    /\ pc = "off"
    /\ \A s, t \in SyncSteps : Watermark(s) = Watermark(t)
    /\ \A s \in SyncSteps : rows[s].status \in {"absent", "completed"}

\* In a quiet database a conversation is opened and closed between two syncs.
LegacyCreate(c) ==
    /\ born[c] = 0
    /\ env.quiet => Settled
    /\ born' = [born EXCEPT ![c] = Now + 1]
    /\ closed' \in {closed, closed \cup {c}}
    /\ env.quiet => c \in closed'
    /\ UNCHANGED <<env, rows, chat, process>>

LegacyClose(c) ==
    /\ born[c] > 0 /\ c \notin closed
    /\ closed' = closed \cup {c}
    /\ UNCHANGED <<env, born, rows, chat, process>>

--------------------------------------------------------------------------------
(* The page loop that the three steps share. *)

\* runSteps with nothing to skip: sync mode takes no step as completed.
Launch ==
    /\ pc = "off"
    /\ pc' = "start"
    /\ UNCHANGED <<env, legacy, rows, chat, step, cursor, from, batch>>

\* Only a fresh start of the conversations step clears the tags.
ClearsTagsAlways(s) == s = "conversations"

ClearsTags(s) == s = "conversations" /\ GetCursorProgress(rows[s], 0) = 0

StartStep(s) ==
    /\ pc = "start" /\ step = s
    /\ cursor' = GetCursorProgress(rows[s], 0)
    /\ from' = Watermark(s)
    /\ tagged' = IF ClearsTags(s) THEN {} ELSE tagged
    /\ pc' = "fetch"
    /\ UNCHANGED <<env, legacy, rows, convRows, threads, owners, members, copied, step, batch>>

Limit(s) == IF s = "messages" THEN MessagesPerPage ELSE PerPage

\* The query ... FromDate: closed, created at or after `from', group above the cursor.
Found == {c \in closed : born[c] >= from /\ GroupOf[c] > cursor}
FoundGroups == {GroupOf[c] : c \in Found}

FirstGroups(n) == {g \in FoundGroups : Cardinality({h \in FoundGroups : h < g}) < n}

PageGroups == {GroupOf[c] : c \in batch}

\* The groups the rest of the page's work goes on with: messages drops the groups
\* none of whose conversations has a thread, before it looks how many there are.
Kept(s, convs) ==
    {GroupOf[c] : c \in IF s = "messages" THEN {d \in convs : convRows[d] > 0} ELSE convs}

Fetch(s) ==
    /\ pc = "fetch" /\ step = s
    /\ LET page == {c \in Found : GroupOf[c] \in FirstGroups(Limit(s))}
           kept == {c \in page : GroupOf[c] \in Kept(s, page)}
       IN  /\ batch' = kept
           /\ pc' = IF kept = {} THEN "done" ELSE "commit"
    /\ UNCHANGED <<env, legacy, rows, chat, step, cursor, from>>

IsLargest(g, groups) == g \in groups /\ \A h \in groups : h <= g

WriteConversationsWithoutFlowRow ==
    /\ convRows' = [c \in Convs |-> IF c \in batch THEN convRows[c] + 1 ELSE convRows[c]]
    /\ UNCHANGED <<threads, tagged, owners, members, copied>>

WriteConversations ==
    /\ convRows' = [c \in Convs |-> IF c \in batch THEN convRows[c] + 1 ELSE convRows[c]]
    /\ threads' = [g \in Groups |->
                      IF g \in PageGroups /\ threads[g] = 0 THEN 1 ELSE threads[g]]
    /\ tagged' = tagged \cup {g \in PageGroups : threads[g] = 0}
    /\ UNCHANGED <<owners, members, copied>>

MembersResolved == \A g \in PageGroups : threads[g] = 1
SomeDialog == PageGroups \cap tagged # {} \/ \E c \in batch : UsersIn(c) # {}

WriteMembers ==
    /\ MembersResolved
    /\ SomeDialog
    /\ owners' = [g \in Groups |-> IF g \in PageGroups \cap tagged THEN owners[g] + 1 ELSE owners[g]]
    /\ members' = [g \in Groups |-> [u \in Users |->
                      IF \E c \in batch : GroupOf[c] = g /\ u \in UsersIn(c)
                      THEN members[g][u] + 1 ELSE members[g][u]]]
    /\ UNCHANGED <<convRows, threads, tagged, copied>>

WriteMessages ==
    /\ copied' = [c \in Convs |-> IF c \in batch THEN copied[c] + 1 ELSE copied[c]]
    /\ UNCHANGED <<convRows, threads, tagged, owners, members>>

WritePage(s) ==
    CASE s = "conversations" -> WriteConversations
      [] s = "members"       -> WriteMembers
      [] s = "messages"      -> WriteMessages

Commit(s) ==
    /\ pc = "commit" /\ step = s
    /\ WritePage(s)
    /\ \E last \in PageGroups :
          /\ IsLargest(last, PageGroups)
          /\ rows' = [rows EXCEPT ![s] = SaveCursorProgress(@, last)]
          /\ cursor' = last
    /\ pc' = IF Cardinality(PageGroups) < Limit(s) THEN "done" ELSE "fetch"
    /\ batch' = {}
    /\ UNCHANGED <<env, legacy, step, from>>

\* The page is committed and the process dies, or takes the error path.
CommitAndFail(s) ==
    /\ s \in env.faulty
    /\ pc = "commit" /\ step = s
    /\ WritePage(s)
    /\ \E last \in PageGroups :
          /\ IsLargest(last, PageGroups)
          /\ Fail(SaveCursorProgress(rows[s], last))
    /\ UNCHANGED <<env, legacy>>

\* Any statement fails, or the process dies.
FailOrCrash(s) ==
    /\ s \in env.faulty
    /\ pc # "off" /\ step = s
    /\ IF pc \in {"fetch", "commit"} THEN Fail(rows[s]) ELSE Die /\ UNCHANGED rows
    /\ UNCHANGED <<env, legacy, chat>>

\* GetMigrationRow finds no thread for a group of the page.
MembersUnresolved ==
    /\ pc = "commit" /\ step = "members"
    /\ ~MembersResolved
    /\ Fail(rows["members"])
    /\ UNCHANGED <<env, legacy, chat>>

\* InsertDirectSettings takes the first element of an empty slice.
MembersPanic ==
    /\ pc = "commit" /\ step = "members"
    /\ MembersResolved
    /\ ~SomeDialog
    /\ Die
    /\ UNCHANGED <<env, legacy, chat, rows>>

CompleteEarly(s) ==
    /\ pc = "done" /\ step = s
    /\ rows' = [rows EXCEPT ![s] = MarkStepCompleted(@, Now + 2)]
    /\ \/ s = "conversations" /\ step' = "members"  /\ pc' = "start"
       \/ s = "members"       /\ step' = "messages" /\ pc' = "start"
       \/ s = "messages"      /\ step' = "conversations" /\ pc' = "off"
    /\ cursor' = 0 /\ from' = 0 /\ batch' = {}
    /\ UNCHANGED <<env, legacy, chat>>

\* MarkStepCompleted, and on to the next step; after the last one the tool exits.
Complete(s) ==
    /\ pc = "done" /\ step = s
    /\ rows' = [rows EXCEPT ![s] = MarkStepCompleted(@, Now)]
    /\ \/ s = "conversations" /\ step' = "members"  /\ pc' = "start"
       \/ s = "members"       /\ step' = "messages" /\ pc' = "start"
       \/ s = "messages"      /\ step' = "conversations" /\ pc' = "off"
    /\ cursor' = 0 /\ from' = 0 /\ batch' = {}
    /\ UNCHANGED <<env, legacy, chat>>

Next ==
    \/ \E c \in Convs : LegacyCreate(c) \/ LegacyClose(c)
    \/ Launch
    \/ \E s \in SyncSteps :
          StartStep(s) \/ Fetch(s) \/ Commit(s) \/ CommitAndFail(s) \/ FailOrCrash(s) \/ Complete(s)
    \/ MembersUnresolved \/ MembersPanic

Spec == Init /\ [][Next]_vars

\* The sync is run again and again, and no step fails every time at the same place.
Fairness ==
    /\ WF_vars(Launch) /\ WF_vars(MembersUnresolved) /\ WF_vars(MembersPanic)
    /\ \A s \in SyncSteps : /\ SF_vars(StartStep(s)) /\ SF_vars(Fetch(s))
                            /\ SF_vars(Commit(s))    /\ SF_vars(Complete(s))

FairSpec == Spec /\ Fairness

--------------------------------------------------------------------------------
(* Properties. *)

\* Every variable has its type.
TypeOK ==
    /\ env \in Environments
    /\ born \in [Convs -> Nat] /\ closed \in SUBSET Convs
    /\ rows \in [SyncSteps -> StepRow(Groups)]
    /\ convRows \in [Convs -> Nat] /\ threads \in [Groups -> Nat]
    /\ tagged \in SUBSET Groups /\ owners \in [Groups -> Nat]
    /\ members \in [Groups -> [Users -> Nat]] /\ copied \in [Convs -> Nat]
    /\ step \in SyncSteps /\ pc \in {"off", "start", "fetch", "commit", "done"}
    /\ cursor \in Groups \cup {0} /\ from \in Nat /\ batch \in SUBSET Convs

\* However often syncs are run, killed and run again, a conversation gets one mapping
\* row, its messages are copied once, and a user gets at most one dialog in a thread
\* for each conversation of the group that the user took part in.
CopiedOnce ==
    /\ \A c \in Convs : convRows[c] <= 1 /\ copied[c] <= 1
    /\ \A g \in Groups, u \in Users :
          members[g][u] <= Cardinality({c \in Convs : GroupOf[c] = g /\ u \in UsersIn(c)})

\* What lies behind the time a step will read from next has been done by it.
PicksUpAll ==
    \A c \in Created :
        /\ born[c] < Watermark("conversations") => convRows[c] > 0
        /\ born[c] < Watermark("messages") => copied[c] > 0

\* README: a sync picks up the records created since the last completed step.  It does,
\* if the legacy service is still while a sync is not finished: whatever fails, no
\* step's time moves beyond a conversation that the step has not served.
NothingBehindWatermark == env.quiet => PicksUpAll

\* README: members adds the full member set to newly created threads.  A thread the
\* step is done with has its two owners, once.
OwnersAdded ==
    \A c \in Created :
        born[c] < Watermark("members") /\ c \in closed => owners[GroupOf[c]] = 1

\* They are added if the members step is never interrupted, by its own panic neither,
\* whatever happens to the steps around it: the tags survive until it has seen them.
OwnersOnce == env.quiet /\ "members" \notin env.faulty /\ env.botOnly = {} => OwnersAdded

\* The members step is at a page that it fails on: one without a dialog to write, so that
\* direct_settings.go:23 panics, or in a live database one with a group closed so late
\* that it has no thread yet.
Barred ==
    /\ pc = "commit" /\ step = "members"
    /\ IF MembersResolved THEN ~SomeDialog ELSE ~env.quiet

\* However they are interrupted, syncs that are run again come to their end, or one that
\* is run again comes to such a page again and again: old threads that only the bot
\* answered bar every later sync, in a quiet database too.
SyncsComplete == []<>(step = "messages" /\ pc = "done") \/ []<>Barred

\* In a quiet database the messages of the closed conversations are copied in the end,
\* with the same exception.
EventuallyCopied == env.quiet => []<>(Barred \/ \A c \in closed : copied[c] > 0)

--------------------------------------------------------------------------------
(* Why they hold: an inductive invariant.                                  *)

\* The group after which the next run of a step goes on, and the conversations that it
\* will not look at: it is past them, or they are older than what it reads.
Saved(s) == GetCursorProgress(rows[s], 0)
Done(s, c) == born[c] < Watermark(s) \/ GroupOf[c] <= Saved(s)

\* Time has not overtaken the clock; only what was created is closed or written.
InTime ==
    /\ \A c \in Convs : born[c] < Now
    /\ \A s \in SyncSteps : Watermark(s) <= Now
    /\ closed \subseteq Created
    /\ \A c \in Convs : convRows[c] > 0 \/ copied[c] > 0 => c \in Created

RowsInOrder ==
    \A s \in SyncSteps : rows[s].status \in {"absent", "completed"} => rows[s].cursor = NoCursor

\* What is written lies behind the step that wrote it, and a mapped conversation has its
\* thread.
WrittenBehind ==
    /\ \A c \in Convs : convRows[c] > 0 => Done("conversations", c) /\ threads[GroupOf[c]] = 1
    /\ \A c \in Convs : copied[c] > 0 => Done("messages", c)
    /\ \A g \in Groups : threads[g] <= 1
    /\ \A c \in Convs : convRows[c] <= 1 /\ copied[c] <= 1
    /\ \A g \in Groups, u \in Users :
          members[g][u] <= Cardinality({c \in Created : /\ GroupOf[c] = g /\ u \in UsersIn(c)
                                                        /\ Done("members", c)})

\* In a quiet database, what lies behind a step is written; and the steps after
\* conversations begin when it has seen everything.
ServedBehind ==
    /\ closed = Created
    /\ \A c \in Created : Done("conversations", c) => convRows[c] > 0
    /\ \A c \in Created : Done("messages", c) => copied[c] > 0
    /\ Watermark("members") <= Watermark("conversations")
    /\ step # "conversations" => Watermark("conversations") = Now

DbInv == InTime /\ RowsInOrder /\ WrittenBehind /\ (env.quiet => ServedBehind)

\* A run is where its row says, and its page is ahead of it.
InStep ==
    /\ pc = "off" => step = "conversations"
    /\ pc \in {"fetch", "commit", "done"} => cursor = Saved(step) /\ from = Watermark(step)
    /\ IF pc = "commit" THEN batch # {} ELSE batch = {}
    /\ \A c \in batch : c \in Created /\ born[c] >= from /\ GroupOf[c] > cursor

\* The page in the transaction is the one that comes next.
PageIsNext ==
    /\ pc = "commit" => \A c \in Created \ batch : ~Done(step, c) =>
                           /\ \A b \in batch : GroupOf[b] < GroupOf[c]
                           /\ Cardinality(PageGroups) >= Limit(step)
    /\ pc = "done" => \A c \in Created : Done(step, c)

\* Where nothing interrupts the members step: a thread without owners is tagged and new
\* to the step; a tag whose owners are there marks nothing that the step will see,
\* until the conversations step clears it; and it clears none that is waited for.
Calm == env.quiet /\ "members" \notin env.faulty /\ env.botOnly = {}

CreatedIn(g) == {c \in Created : GroupOf[c] = g}
Waiting == {g \in Groups : threads[g] = 1 /\ owners[g] = 0}
AboutToClear == step = "conversations" /\ pc \in {"off", "start"} /\ Saved("conversations") = 0

TagsServe ==
    /\ \A g \in Groups : owners[g] <= threads[g] /\ (g \in tagged => threads[g] = 1)
    /\ \A g \in Waiting : /\ g \in tagged /\ CreatedIn(g) # {}
                          /\ \A c \in CreatedIn(g) : ~Done("members", c)
    /\ \A g \in tagged \ Waiting :
          AboutToClear \/ \A c \in CreatedIn(g) : Done("members", c)
    /\ step = "messages" \/ (step = "conversations" /\ Saved("conversations") = 0) => Waiting = {}
    /\ step # "members" => Saved("members") = 0

IInv ==
    /\ TypeOK /\ DbInv /\ InStep
    /\ env.quiet => PageIsNext
    /\ Calm => TagsServe

\* What a step will not look at any more it does not come back to, whatever fails and
\* however the legacy service goes on: its time and its place only move beyond more
\* conversations.  What is written of a conversation stays as it is, and a thread
\* stays the one of its group.
OnlyForward ==
    [][/\ \A s \in SyncSteps :
             /\ Watermark(s) <= Watermark(s)'
             /\ \A c \in Created : Done(s, c) => Done(s, c)'
       /\ \A c \in Convs : /\ convRows[c] > 0 => convRows'[c] = convRows[c]
                           /\ copied[c] > 0 => copied'[c] = copied[c]
       /\ \A g \in Groups : threads[g] > 0 => threads'[g] = threads[g]
      ]_vars
================================================================================
