--------------------------- MODULE PathRecompute ---------------------------
(***************************************************************************)
(* How the critical path comes into the task rows: the recomputation owed  *)
(* after a change (modules/task/critical-path/recompute.ts, called by      *)
(* modules/task/routes.ts), which reads the team's tasks once, computes,   *)
(* and writes the rows that differ one by one.  What it computes is a      *)
(* parameter here; CriticalPath has it.                                    *)
(*                                                                         *)
(* Ids are numbers.  Recomputations of one process queue behind each       *)
(* other; other processes are left out, as are the writers of tasks that   *)
(* announce nothing (imports, chat, the connection to Praeforma).          *)
(***************************************************************************)
EXTENDS Integers, FiniteSetsExt

CONSTANTS
    Tasks,              \* numbers
    StartTasks,         \* the rows of the tasks at the beginning
    Durations,          \* values for duration_days
    Estimates,          \* values for estimated_minutes
    None,
    MaxEdits,
    MaxFaults,          \* bound on recomputations that fail and on crashes
    Computed(_),        \* what computeCriticalPath gives for a backlog
    Meant(_)            \* what the plan of the backlog means

VARIABLES
    tasks,
    stored,             \* is_critical_path, slack_days, critical_path_error
    owed,               \* recomputations queued
    job,                \* the recomputation under way
    incomplete,         \* the last recomputation failed, or one was lost
    edits,
    faults

pathVars == <<tasks, stored, owed, job, incomplete, edits, faults>>

(* A task counts while it is open and in the backlog.  None waits for      *)
(* itself.                                                                 *)
TaskRow == [blockedBy: SUBSET Tasks, days: Durations \cup {None},
            minutes: Estimates \cup {None}, counted: BOOLEAN]
Backlogs == {rows \in [Tasks -> TaskRow] : \A t \in Tasks : t \notin rows[t].blockedBy}
Outcomes == [Tasks -> [critical: BOOLEAN, slack: Int \cup {None}, error: {None, "cycle"}]]

NoJob == [at |-> "idle", todo |-> {}, results |-> <<>>]

PathInit ==
    /\ tasks \in StartTasks
    /\ stored = Computed(tasks)
    /\ owed = 0 /\ job = NoJob /\ incomplete = FALSE
    /\ edits = 0 /\ faults = 0

Fault == faults < MaxFaults /\ faults' = faults + 1

Changed(t) ==
    {[tasks[t] EXCEPT !.blockedBy = b] : b \in SUBSET (Tasks \ {t})}
    \cup {[tasks[t] EXCEPT !.days = d] : d \in Durations \cup {None}}
    \cup {[tasks[t] EXCEPT !.minutes = m] : m \in Estimates \cup {None}}
    \cup {[tasks[t] EXCEPT !.counted = c] : c \in BOOLEAN}

(* Mutant: a change of blocked_by alone does not recompute.                *)
TriggersUnlessBlocked(old, new) == old.blockedBy = new.blockedBy

(* CRITICAL_PATH_FIELDS.                                                   *)
Triggers(old, new) == TRUE

Edit(t) ==
    /\ edits < MaxEdits
    /\ edits' = edits + 1
    /\ \E row \in Changed(t) \ {tasks[t]} :
        /\ tasks' = [tasks EXCEPT ![t] = row]
        /\ owed' = IF Triggers(tasks[t], row) THEN owed + 1 ELSE owed
    /\ UNCHANGED <<stored, job, incomplete, faults>>

(* Mutant: a row is written only when it enters or leaves the path.        *)
UnlessSameFlag(old, new) == old.critical # new.critical

Differs(old, new) == old # new

(* persist reads the rows; the differences are to be written.              *)
Begin ==
    /\ job.at = "idle" /\ owed > 0
    /\ owed' = owed - 1
    /\ LET results == Computed(tasks) IN
       job' = [at |-> "writing", results |-> results,
               todo |-> {t \in Tasks : Differs(stored[t], results[t])}]
    /\ UNCHANGED <<tasks, stored, incomplete, edits, faults>>

(* One row after the other, in the order of the list.                      *)
WriteNext ==
    /\ job.todo # {}
    /\ LET t == Min(job.todo) IN
        /\ stored' = [stored EXCEPT ![t] = job.results[t]]
        /\ job' = [job EXCEPT !.todo = @ \ {t}]
    /\ UNCHANGED <<tasks, owed, incomplete, edits, faults>>

End ==
    /\ job.at = "writing" /\ job.todo = {}
    /\ job' = NoJob
    /\ incomplete' = FALSE
    /\ UNCHANGED <<tasks, stored, owed, edits, faults>>

(* A read or a write fails: the rest is left alone, the queue goes on.     *)
Fail ==
    /\ job.at = "writing"
    /\ Fault
    /\ job' = NoJob
    /\ incomplete' = TRUE
    /\ UNCHANGED <<tasks, stored, owed, edits>>

(* The queue is memory of the process.                                     *)
Crash ==
    /\ owed > 0 \/ job.at # "idle"
    /\ Fault
    /\ owed' = 0 /\ job' = NoJob /\ incomplete' = TRUE
    /\ UNCHANGED <<tasks, stored, edits>>

PathNext ==
    \/ \E t \in Tasks : Edit(t)
    \/ Begin \/ WriteNext \/ End \/ Fail \/ Crash

PathSpec == PathInit /\ [][PathNext]_pathVars

-----------------------------------------------------------------------------
(* Properties.                                                             *)

(* No recomputation is owed and the last one came to its end.              *)
Settled == job.at = "idle" /\ owed = 0 /\ ~incomplete

(* Then every row holds what the plan means now, however edits and         *)
(* failures fell between the reads and the writes of earlier ones.         *)
StoredIsCurrent == Settled => stored = Meant(tasks)
=============================================================================
