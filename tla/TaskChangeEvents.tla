-------------------------- MODULE TaskChangeEvents --------------------------
(***************************************************************************)
(* What the people concerned are told about a change of a task: the steps  *)
(* of PUT /api/tasks/:id around its write (modules/task/routes.ts) and     *)
(* taskChangeNotifications of modules/task/notifications/events.ts.        *)
(*                                                                         *)
(* A request reads the task, waits for other calls, writes the fields of   *)
(* its body, reads the task again, and queues the differences between what *)
(* it read first and last.  Other requests run in between.  The queue      *)
(* (NotificationOutbox) takes each dedupe key once; queueing may fail,     *)
(* which enqueueNotificationsSafely only logs.  The executor of a task,    *)
(* told like its priority, is left out.                                    *)
(***************************************************************************)
EXTENDS Naturals

CONSTANTS
    Requests,           \* requests that may be under way at once
    Members,            \* possible assignees
    Owner,              \* the owner of the task
    Nobody,             \* no assignee
    Unsaid,             \* the body leaves a field alone
    NoTask,             \* the request has not read the task
    Priorities,         \* their ranks, the lowest is 0
    MaxUpdatedAt,       \* bound on the writes
    MaxUntold           \* bound on requests that end before they queue

ASSUME EventsAssumption ==
    /\ Priorities \subseteq Nat
    /\ 0 \in Priorities
    /\ Unsaid \notin Priorities
    /\ MaxUpdatedAt \in Nat
    /\ MaxUntold \in Nat

VARIABLES
    task,
    requests,
    queued,             \* the notifications queued, by dedupe key
    changes,            \* history: what each write changed
    untold

eventVars == <<task, requests, queued, changes, untold>>

Assignees == Members \cup {Nobody}
NoRequest == [at |-> "idle", before |-> NoTask, body |-> NoTask]

(* The bodies of interest change one field.                                *)
Silent == [assignee |-> Unsaid, status |-> Unsaid, priority |-> Unsaid]
Bodies == {[Silent EXCEPT !.assignee = a] : a \in Assignees}
    \cup {[Silent EXCEPT !.status = s] : s \in {"open", "done"}}
    \cup {[Silent EXCEPT !.priority = p] : p \in Priorities}

EventsInit ==
    /\ task = [assignee |-> Owner, status |-> "open", priority |-> 0,
               completedAt |-> FALSE, updatedAt |-> 0]
    /\ requests = [r \in Requests |-> NoRequest]
    /\ queued = {}
    /\ changes = {}
    /\ untold = 0

-----------------------------------------------------------------------------
(* taskChangeNotifications.                                                *)

Assigned(before, after) ==
    {[event |-> "assigned", who |-> after.assignee, updatedAt |-> after.updatedAt] :
        x \in {y \in {after.assignee} : y \notin {Nobody, before.assignee, Owner}}}

Completed(before, after) ==
    {[event |-> "completed", updatedAt |-> after.updatedAt] :
        x \in {y \in {after.status} : y = "done" /\ before.status # "done"}}

(* Mutant: every change of the priority is told as a raise.                *)
ChangedPriority(before, after) ==
    {[event |-> "priority_raised", priority |-> after.priority,
      updatedAt |-> after.updatedAt] :
        x \in {y \in {after.priority} : y # before.priority}}

RaisedPriority(before, after) ==
    {[event |-> "priority_raised", priority |-> after.priority,
      updatedAt |-> after.updatedAt] :
        x \in {y \in {after.priority} : y > before.priority}}

Notifications(before, after) ==
    Assigned(before, after) \cup Completed(before, after) \cup RaisedPriority(before, after)

-----------------------------------------------------------------------------
(* The request.                                                            *)

Said(new, old) == IF new = Unsaid THEN old ELSE new

(* The time of completion (here: whether there is one) is among the fields *)
(* only when the status said does not fit what the request read.           *)
Updated(before, body) ==
    [assignee |-> Said(body.assignee, task.assignee),
     status |-> Said(body.status, task.status),
     priority |-> Said(body.priority, task.priority),
     completedAt |-> IF body.status # Unsaid /\ (body.status = "done") # before.completedAt
                     THEN body.status = "done" ELSE task.completedAt,
     updatedAt |-> task.updatedAt + 1]

Read(r, body) ==
    /\ requests[r].at = "idle"
    /\ requests' = [requests EXCEPT ![r] = [at |-> "read", before |-> task, body |-> body]]
    /\ UNCHANGED <<task, queued, changes, untold>>

Write(r) ==
    /\ requests[r].at = "read"
    /\ task.updatedAt < MaxUpdatedAt
    /\ task' = Updated(requests[r].before, requests[r].body)
    /\ changes' = changes \cup {[from |-> task, to |-> task']}
    /\ requests' = [requests EXCEPT ![r].at = "written"]
    /\ UNCHANGED <<queued, untold>>

(* What the request read at its start. *)
Before(r) == requests[r].before

Notify(r) ==
    /\ requests[r].at = "written"
    /\ queued' = queued \cup Notifications(Before(r), task)
    /\ requests' = [requests EXCEPT ![r] = NoRequest]
    /\ UNCHANGED <<task, changes, untold>>

(* A crash after the write, or a queue that cannot be written.             *)
Lose(r) ==
    /\ requests[r].at = "written"
    /\ untold < MaxUntold
    /\ untold' = untold + 1
    /\ requests' = [requests EXCEPT ![r] = NoRequest]
    /\ UNCHANGED <<task, queued, changes>>

(* The body was refused by a check between the read and the write.         *)
Refuse(r) ==
    /\ requests[r].at = "read"
    /\ requests' = [requests EXCEPT ![r] = NoRequest]
    /\ UNCHANGED <<task, queued, changes, untold>>

EventsNext ==
    \E r \in Requests :
        \/ \E body \in Bodies : Read(r, body)
        \/ Write(r) \/ Notify(r) \/ Lose(r) \/ Refuse(r)

EventsSpec == EventsInit /\ [][EventsNext]_eventVars

-----------------------------------------------------------------------------
(* Properties.                                                             *)

(* What notification i says is so in version `after` of the task.          *)
IsSo(i, after) ==
    CASE i.event = "assigned" -> after.assignee = i.who /\ i.who # Owner
      [] i.event = "completed" -> after.status = "done"
      [] i.event = "priority_raised" -> after.priority = i.priority

(* Write c made it so, or raised the priority to it and perhaps beyond.    *)
MadeSo(i, c) ==
    CASE i.event = "assigned" -> c.to.assignee = i.who /\ c.from.assignee # i.who
      [] i.event = "completed" -> c.to.status = "done" /\ c.from.status # "done"
      [] i.event = "priority_raised" ->
            c.from.priority < i.priority /\ i.priority <= c.to.priority

(* No rumours: whatever is queued was so in the version it names, and      *)
(* somebody's write up to that version made it so.                         *)
OnlyWhatHappened ==
    \A i \in queued :
        /\ \E c \in changes : c.to.updatedAt = i.updatedAt /\ IsSo(i, c.to)
        /\ \E c \in changes : c.to.updatedAt <= i.updatedAt /\ MadeSo(i, c)
=============================================================================
