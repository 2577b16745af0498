------------------------------- MODULE StepTable -------------------------------
(***************************************************************************)
(* A row of public.chat_migration_step, the table in which the tool keeps  *)
(* the progress of each step, and what the methods of MigrationStore read  *)
(* from it and write to it.                                                *)
(*                                                                         *)
(* Every write is an upsert, INSERT ... ON CONFLICT (step) DO UPDATE, that *)
(* names some columns.  The columns an insert does not name get their      *)
(* default, and AbsentRow holds the defaults, so that insert and update    *)
(* are both an EXCEPT on the row.  Timestamps are numbers above 0; 0 stands *)
(* for a NULL completed_at, and also for Go's zero time.Time.              *)
(***************************************************************************)
EXTENDS Naturals

CONSTANT NoCursor   \* a NULL page_cursor

Statuses == {"absent", "in_progress", "failed", "completed"}

StepRow(Cursors) ==
    [status : Statuses, offset : Nat, cursor : Cursors \cup {NoCursor}, completedAt : Nat]

AbsentRow ==
    [status |-> "absent", offset |-> 0, cursor |-> NoCursor, completedAt |-> 0]

(* Writes.  Names that end in a word of what went wrong are bugs these      *)
(* methods might have; no specification uses them.                         *)

SaveStepProgressLost(row, offset) ==
    [row EXCEPT !.status = "in_progress"]

SaveStepProgress(row, offset) ==
    [row EXCEPT !.status = "in_progress", !.offset = offset]

SaveCursorProgressLost(row, cursor) ==
    [row EXCEPT !.status = "in_progress"]

SaveCursorProgress(row, cursor) ==
    [row EXCEPT !.status = "in_progress", !.cursor = cursor]

MarkStepFailedFromScratch(row, offset) ==
    [row EXCEPT !.status = "failed", !.offset = offset, !.cursor = NoCursor]

MarkStepFailedInCursor(row, offset) ==
    [row EXCEPT !.status = "failed", !.cursor = offset]

\* The cursor and completed_at are not among the columns this one writes.
MarkStepFailed(row, offset) ==
    [row EXCEPT !.status = "failed", !.offset = offset]

MarkStepCompletedOnConflictNothing(row, now) ==
    IF row.status # "absent" THEN row
    ELSE [status |-> "completed", offset |-> 0, cursor |-> NoCursor, completedAt |-> now]

MarkStepCompletedMisspelt(row, now) ==
    [status |-> "done", offset |-> 0, cursor |-> NoCursor, completedAt |-> now]

MarkStepCompleted(row, now) ==
    [status |-> "completed", offset |-> 0, cursor |-> NoCursor, completedAt |-> now]

(* Reads. *)

IsCompleted(row) == row.status = "completed"

GetStepProgress(row) == IF IsCompleted(row) THEN 0 ELSE row.offset

GetCursorProgressUnchecked(row, first) ==
    IF IsCompleted(row) THEN first ELSE row.cursor

GetCursorProgressForgotten(row, first) == first

\* `first' is what the caller gets when there is nothing to resume.
GetCursorProgress(row, first) ==
    IF IsCompleted(row) \/ row.cursor = NoCursor THEN first ELSE row.cursor

\* max(completed_at) over the step and its counterpart of the other mode.
GetStepCompletedAt(row, analog) ==
    IF row.completedAt > analog.completedAt THEN row.completedAt ELSE analog.completedAt

================================================================================
