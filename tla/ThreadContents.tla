----------------------------- MODULE ThreadContents -----------------------------
(***************************************************************************)
(* The `members' and `messages' steps of migration mode (MigrateMembers in *)
(* service/members.go, MigrateMessages in service/messages.go), which fill *)
(* the threads that the completed `conversations' step has made.  They run *)
(* one after the other, each over its own keyset pages of the closed legacy *)
(* conversations, while the legacy service may close some more: those have *)
(* no conversation_thread row, for the step that makes it will not run     *)
(* again.                                                                  *)
(*                                                                         *)
(* A flow or an internal user for which an earlier step has left no contact *)
(* is restored by the members step, in the transaction of the page.        *)
(*                                                                         *)
(* A group is a number: here the two orders of the legacy query are one.   *)
(* The one row of direct_settings that a page of members inserts (the      *)
(* first of the settings it builds, direct_settings.go:22) is left out.    *)
(* An operator that stands before one of which it has the name and a word  *)
(* more is a bug the code might have.                                      *)
(***************************************************************************)
EXTENDS Naturals, FiniteSets, StepTable

CONSTANTS Convs,           \* conversations
          GroupOf,         \* group, the pair (initiator, flow), of each
          FlowOf,          \* flow of each group
          UsersOf,         \* internal users who took part in each
          PerPage,         \* page size of members
          MessagesPerPage, \* page size of messages
          Environments     \* see env

Groups == {GroupOf[c] : c \in Convs}
Flows  == {FlowOf[g] : g \in Groups}
Users  == UNION {UsersOf[c] : c \in Convs}
ContentSteps == {"members", "messages"}

ASSUME ContentsAssumption ==
    /\ IsFiniteSet(Convs)
    /\ GroupOf \in [Convs -> Nat \ {0}]
    /\ PerPage \in Nat \ {0} /\ MessagesPerPage \in Nat \ {0}
ASSUME EnvironmentsAssumption ==
    Environments \subseteq
        [late : SUBSET Convs, orphans : SUBSET Groups, unknown : SUBSET (Flows \cup Users)]
ASSUME NoCursorAssumption == NoCursor \notin Groups \cup {0}

\* Of the legacy data: the conversations that close after the conversations step, the
\* groups whose initiator has no contact any more, and the flows and users without one.
VARIABLE env

VARIABLES closed,    \* conversations with closed_at set
          rows,      \* chat_migration_step rows of the two steps
          owners,    \* number of owner dialog pairs in the thread of each group
          dialogs,   \* number of dialogs of each internal user in it
          contacts,  \* flows and users that have a contact, a flow with its migration row
          copied,    \* how often the messages of each conversation were copied
          step,      \* the step the process is at
          pc,        \* off, fetch, commit or done
          cursor,    \* last group of the pages so far
          batch      \* conversations of the page in the open transaction

chat == <<owners, dialogs, contacts, copied>>
process == <<step, pc, cursor, batch>>
vars == <<env, closed, rows, chat, process>>

\* Conversations with a conversation_thread row.
Mapped == Convs \ env.late

--------------------------------------------------------------------------------

Init ==
    /\ env \in Environments
    /\ closed = Mapped
    /\ rows = [s \in ContentSteps |-> AbsentRow]
    /\ owners = [g \in Groups |-> 0]
    /\ dialogs = [g \in Groups |-> [u \in Users |-> 0]]
    /\ contacts = (Flows \cup Users) \ env.unknown
    /\ copied = [c \in Convs |-> 0]
    /\ step = "members" /\ pc = "off" /\ cursor = 0 /\ batch = {}

Die == pc' = "off" /\ cursor' = 0 /\ batch' = {} /\ UNCHANGED step

Fail(r) ==
    /\ Die
    /\ rows' \in {[rows EXCEPT ![step] = r], [rows EXCEPT ![step] = MarkStepFailed(r, 0)]}

\* runSteps goes to the first step that is not completed.
Launch ==
    /\ pc = "off"
    /\ \E s \in ContentSteps :
          /\ ~IsCompleted(rows[s])
          /\ s = "messages" => IsCompleted(rows["members"])
          /\ step' = s
          /\ cursor' = GetCursorProgress(rows[s], 0)
    /\ pc' = "fetch"
    /\ UNCHANGED <<env, closed, rows, chat, batch>>

Limit(s) == IF s = "messages" THEN MessagesPerPage ELSE PerPage

Found == {c \in closed : GroupOf[c] > cursor}
FoundGroups == {GroupOf[c] : c \in Found}
FirstGroups(n) == {g \in FoundGroups : Cardinality({h \in FoundGroups : h < g}) < n}

PageGroups == {GroupOf[c] : c \in batch}

\* getConversationMap drops the groups none of whose conversations has a row, before
\* the step looks how many groups there are and which is the last.
Kept(s, convs) ==
    {GroupOf[c] : c \in IF s = "messages" THEN convs \cap Mapped ELSE convs}

Fetch(s) ==
    /\ pc = "fetch" /\ step = s
    /\ LET page == {c \in Found : GroupOf[c] \in FirstGroups(Limit(s))}
           kept == {c \in page : GroupOf[c] \in Kept(s, page)}
       IN  /\ batch' = kept
           /\ pc' = IF kept = {} THEN "done" ELSE "commit"
    /\ UNCHANGED <<env, closed, rows, chat, step, cursor>>

\* The thread of a group is looked up by the first of its conversations, and the
\* query does not say which one is the first.
SomeOrderResolves == \A g \in PageGroups : \E c \in batch : GroupOf[c] = g /\ c \in Mapped
SomeOrderDoesNot  == \E c \in batch : c \notin Mapped

\* A group whose initiator has no contact is skipped; a page of which nothing is
\* left makes InsertDirectSettings panic.
Served == {c \in batch : GroupOf[c] \notin env.orphans}

\* restoreBotFromConversation and restoreWebitelUser add the contacts they do not find.
RestoredBots  == {FlowOf[GroupOf[c]] : c \in Served}
RestoredUsers == UNION {UsersOf[c] : c \in Served}

WriteMembersOwnersOnly ==
    /\ Served # {}
    /\ contacts' = contacts \cup RestoredBots
    /\ owners' = [g \in Groups |->
                     IF \E c \in Served : GroupOf[c] = g THEN owners[g] + 1 ELSE owners[g]]
    /\ UNCHANGED <<dialogs, copied>>

WriteMembers ==
    /\ SomeOrderResolves
    /\ Served # {}
    /\ owners' = [g \in Groups |->
                     IF \E c \in Served : GroupOf[c] = g THEN owners[g] + 1 ELSE owners[g]]
    /\ dialogs' = [g \in Groups |-> [u \in Users |->
                      IF \E c \in Served : GroupOf[c] = g /\ u \in UsersOf[c]
                      THEN dialogs[g][u] + 1 ELSE dialogs[g][u]]]
    /\ contacts' = contacts \cup RestoredBots \cup RestoredUsers
    /\ UNCHANGED copied

WriteMessages ==
    /\ copied' = [c \in Convs |-> IF c \in batch THEN copied[c] + 1 ELSE copied[c]]
    /\ UNCHANGED <<owners, dialogs, contacts>>

WritePage(s) == IF s = "members" THEN WriteMembers ELSE WriteMessages

IsLargest(g, groups) == g \in groups /\ \A h \in groups : h <= g

LastPageOffByOne(s) == Cardinality(PageGroups) <= Limit(s)

LastPage(s) == Cardinality(PageGroups) < Limit(s)

Commit(s) ==
    /\ pc = "commit" /\ step = s
    /\ WritePage(s)
    /\ \E last \in PageGroups :
          /\ IsLargest(last, PageGroups)
          /\ rows' = [rows EXCEPT ![s] = SaveCursorProgress(@, last)]
          /\ cursor' = last
    /\ pc' = IF LastPage(s) THEN "done" ELSE "fetch"
    /\ batch' = {}
    /\ UNCHANGED <<env, closed, step>>

\* The page is committed and the process dies, or takes the error path.
CommitAndFail(s) ==
    /\ pc = "commit" /\ step = s
    /\ WritePage(s)
    /\ \E last \in PageGroups :
          /\ IsLargest(last, PageGroups)
          /\ Fail(SaveCursorProgress(rows[s], last))
    /\ UNCHANGED <<env, closed>>

\* Any statement fails, or the process dies.
FailOrCrash ==
    /\ pc # "off"
    /\ IF pc \in {"fetch", "commit"} THEN Fail(rows[step]) ELSE Die /\ UNCHANGED rows
    /\ UNCHANGED <<env, closed, chat>>

\* ResolveMigrationRow finds no thread for a group of the page.
MembersUnresolved ==
    /\ pc = "commit" /\ step = "members"
    /\ SomeOrderDoesNot
    /\ Fail(rows["members"])
    /\ UNCHANGED <<env, closed, chat>>

MembersPanic ==
    /\ pc = "commit" /\ step = "members"
    /\ SomeOrderResolves
    /\ Served = {}
    /\ Die
    /\ UNCHANGED <<env, closed, rows, chat>>

Complete(s) ==
    /\ pc = "done" /\ step = s
    /\ rows' = [rows EXCEPT ![s] = MarkStepCompleted(@, 1)]
    /\ Die
    /\ UNCHANGED <<env, closed, chat>>

\* The live legacy service closes a conversation.
LegacyClose(c) ==
    /\ c \notin closed
    /\ closed' = closed \cup {c}
    /\ UNCHANGED <<env, rows, chat, process>>

Next ==
    \/ Launch
    \/ \E s \in ContentSteps : Fetch(s) \/ Commit(s) \/ CommitAndFail(s) \/ Complete(s)
    \/ FailOrCrash \/ MembersUnresolved \/ MembersPanic
    \/ \E c \in Convs : LegacyClose(c)

Spec == Init /\ [][Next]_vars

\* The tool is started again, and no statement is refused every time at one place.
Fairness ==
    /\ WF_vars(Launch) /\ SF_vars(MembersUnresolved) /\ WF_vars(MembersPanic)
    /\ \A s \in ContentSteps : SF_vars(Fetch(s)) /\ SF_vars(Commit(s)) /\ SF_vars(Complete(s))

FairSpec == Spec /\ Fairness

--------------------------------------------------------------------------------
(* Properties. *)

\* Every variable has its type.
TypeOK ==
    /\ env \in Environments
    /\ closed \in SUBSET Convs
    /\ rows \in [ContentSteps -> StepRow(Groups)]
    /\ owners \in [Groups -> Nat] /\ dialogs \in [Groups -> [Users -> Nat]]
    /\ contacts \in SUBSET (Flows \cup Users)
    /\ copied \in [Convs -> Nat]
    /\ step \in ContentSteps /\ pc \in {"off", "fetch", "commit", "done"}
    /\ cursor \in Groups \cup {0} /\ batch \in SUBSET Convs

\* However the steps are interrupted and run again, a thread has its two owners once,
\* each user one dialog, and a conversation's messages are copied once.
FilledOnce ==
    /\ \A g \in Groups : owners[g] <= 1 /\ \A u \in Users : dialogs[g][u] <= 1
    /\ \A c \in Convs : copied[c] <= 1

\* README: members creates the dialogs for all participants, messages migrates all
\* messages.  A step that is recorded as completed has served every conversation that
\* has a thread.
ServesAll ==
    /\ IsCompleted(rows["members"]) =>
           \A g \in {GroupOf[c] : c \in Mapped} \ env.orphans : owners[g] > 0
    /\ IsCompleted(rows["messages"]) => \A c \in Mapped : copied[c] > 0

\* It has, if none closes after the conversations step: no page is passed over and no
\* loop ends before its last page, whatever is interrupted.
NothingLeftBehind == env.late = {} => ServesAll

\* A message is copied into a thread that the people who wrote it are members of: its
\* member_id is the id of a dialog and not the zero UUID of a missed lookup, and the
\* dialogs name contacts that are there, restored ones too.  Those who write in a
\* conversation that closed late may miss; the others have their dialogs.
SendersAreMembers ==
    \A c \in Mapped : copied[c] > 0 /\ GroupOf[c] \notin env.orphans =>
        /\ owners[GroupOf[c]] > 0 /\ FlowOf[GroupOf[c]] \in contacts
        /\ \A u \in UsersOf[c] : dialogs[GroupOf[c]][u] > 0 /\ u \in contacts

\* Both steps are completed in the end, if no conversation closes late and every
\* initiator has a contact: no interruption leaves them where they cannot go on.
EventuallyCompleted ==
    env.late = {} /\ env.orphans = {} => <>(\A s \in ContentSteps : IsCompleted(rows[s]))
--------------------------------------------------------------------------------
(* Why they hold: an inductive invariant.                                  *)

\* The group after which the next run of a step goes on, and the groups it is past.
Saved(s) == GetCursorProgress(rows[s], 0)
Passed(s, g) == IsCompleted(rows[s]) \/ g <= Saved(s)

\* A row has a cursor only between the first page of a step and its completion, and
\* nothing is recorded or copied by messages before members is completed.
RowsInOrder ==
    /\ \A s \in ContentSteps : rows[s].status \in {"absent", "completed"} => rows[s].cursor = NoCursor
    /\ rows["messages"].status # "absent" => IsCompleted(rows["members"])
    /\ \A c \in Convs : copied[c] > 0 => IsCompleted(rows["members"])

HasMembers(c) ==
    /\ owners[GroupOf[c]] > 0 /\ FlowOf[GroupOf[c]] \in contacts
    /\ \A u \in UsersOf[c] : dialogs[GroupOf[c]][u] > 0 /\ u \in contacts

\* What is written is behind the cursor of the step that wrote it.
WrittenBehind ==
    /\ \A g \in Groups : owners[g] > 0 => Passed("members", g)
    /\ \A g \in Groups, u \in Users : dialogs[g][u] > 0 => Passed("members", g)
    /\ \A c \in Convs : copied[c] > 0 => Passed("messages", GroupOf[c])

\* What is behind the cursor is written.
ServedBehind ==
    /\ Mapped \subseteq closed
    /\ \A c \in Mapped : GroupOf[c] \notin env.orphans /\ Passed("members", GroupOf[c]) => HasMembers(c)
    /\ env.late = {} => \A c \in Convs : Passed("messages", GroupOf[c]) => copied[c] > 0

\* A run is where its row says, and its page is ahead of it.
InStep ==
    /\ pc # "off" =>
          /\ ~IsCompleted(rows[step]) /\ cursor = Saved(step)
          /\ step = "messages" => IsCompleted(rows["members"])
    /\ IF pc = "commit" THEN batch # {} ELSE batch = {}
    /\ \A c \in batch : GroupOf[c] > cursor

\* The page in the transaction is the one that comes next.  When messages drops no group
\* from a page, the groups after it come after a full page, and when the loop is over
\* there are none.
PageIsNext ==
    LET whole == step = "members" \/ env.late = {}
    IN  /\ pc = "commit" => \A c \in Mapped \ batch : GroupOf[c] > cursor =>
              /\ \A b \in batch : GroupOf[b] < GroupOf[c]
              /\ whole => Cardinality(PageGroups) >= Limit(step)
        /\ pc = "done" /\ whole =>
              IF step = "members" THEN \A c \in Mapped : GroupOf[c] \notin env.orphans => HasMembers(c)
                                  ELSE \A c \in Convs : copied[c] > 0

DbInv == RowsInOrder /\ WrittenBehind /\ ServedBehind /\ FilledOnce

IInv == TypeOK /\ DbInv /\ InStep /\ PageIsNext

\* What is reached is not taken back, by a failure either: a group that a step is past
\* stays passed, a completed step completed, a thread that has its owners keeps its
\* dialogs and gets no further ones, and what is copied is not copied again.
OnlyForward ==
    [][/\ \A s \in ContentSteps :
             /\ IsCompleted(rows[s]) => IsCompleted(rows'[s])
             /\ \A g \in Groups : Passed(s, g) => Passed(s, g)'
       /\ \A g \in Groups : owners[g] > 0 => owners'[g] = owners[g] /\ dialogs'[g] = dialogs[g]
       /\ \A c \in Convs : copied[c] > 0 => copied'[c] = copied[c]
      ]_vars
================================================================================
