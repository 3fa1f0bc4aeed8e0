------------------------ MODULE TaskNotificationProofs ------------------------
(***************************************************************************)
(* What holds of task notifications: of their outbox, for any keys, any    *)
(* number of processes and any limits; and of the events that fill it, for *)
(* any requests and priorities.                                            *)
(*                                                                         *)
(* That a notification called sent has arrived is not inductive: the word  *)
(* "sent" is written one step after the delivery, by a process that        *)
(* remembers it.  The invariant says what the processes remember.          *)
(***************************************************************************)
EXTENDS NotificationOutbox, TaskChangeEvents, FiniteSetTheorems, TLAPS

(* What a process is about to write is about a row of the table, and       *)
(* "sent" only if the message arrived.                                     *)
MarksAreTrue ==
    \A p \in Processes : cycles[p].at = "marking" =>
        /\ cycles[p].row \in Queued
        /\ cycles[p].outcome # "none"
        /\ cycles[p].outcome = "sent" => received[cycles[p].row] > 0

(* Rows are never taken out of the table, so a batch stays inside it.      *)
BatchesAreQueued == \A p \in Processes : cycles[p].batch \subseteq Queued

(* Pending rows have attempts left.                                        *)
SpentIsNotPending ==
    \A k \in Queued : rows[k].attempts >= MaxAttempts => rows[k].status # "pending"

IInv ==
    /\ TypeOK
    /\ SentWasReceived
    /\ MarksAreTrue
    /\ BatchesAreQueued
    /\ SpentIsNotPending

-----------------------------------------------------------------------------
(* A row in the table is a Notification. *)
LEMMA QueuedIsRow == ASSUME TypeOK, NEW k \in Queued PROVE k \in Keys /\ rows[k] \in Notification
BY NoRowAssumption DEF TypeOK, Queued

(* The number of rows is a time at which the next one can be created. *)
LEMMA QueuedCountable == Cardinality(Queued) \in Nat
<1>1. Queued \subseteq Keys
  BY DEF Queued
<1>2. IsFiniteSet(Queued)
  BY <1>1, FS_Subset, OutboxAssumption
<1> QED
  BY <1>2, FS_CardinalityType

(* What is written of a row is a row; it is "sent" only for the outcome    *)
(* "sent" or as it was, and pending only with attempts left.               *)
LEMMA MarkedRow ==
    ASSUME NEW row \in Notification, NEW outcome \in {"sent", "config", "error"}
    PROVE  /\ Marked(row, outcome) \in Notification
           /\ Marked(row, outcome).status = "sent" => outcome = "sent"
           /\ Marked(row, outcome).attempts >= MaxAttempts /\ outcome # "sent" =>
                Marked(row, outcome).status = "failed"
           /\ Marked(row, outcome).attempts >= row.attempts
<1>1. CASE outcome = "sent"
  <2>1. Marked(row, outcome) = [row EXCEPT !.status = "sent"]
    BY <1>1 DEF Marked
  <2> QED
    BY <1>1, <2>1 DEF Notification
<1>2. CASE outcome = "config"
  <2>1. Marked(row, outcome) = [row EXCEPT !.status = "failed", !.attempts = row.attempts + 1]
    BY <1>2 DEF Marked
  <2>2. row.attempts + 1 \in Nat
    BY DEF Notification
  <2>3. Marked(row, outcome) \in Notification
    BY <2>1, <2>2 DEF Notification
  <2>4. Marked(row, outcome).status = "failed"
    BY <2>1 DEF Notification
  <2>5. Marked(row, outcome).attempts = row.attempts + 1
    BY <2>1 DEF Notification
  <2> QED
    BY <1>2, <2>2, <2>3, <2>4, <2>5 DEF Notification
<1>3. CASE outcome = "error"
  <2>1. Marked(row, outcome) = AttemptFailed(row)
    BY <1>3 DEF Marked
  <2> DEFINE status == IF row.attempts + 1 >= MaxAttempts THEN "failed" ELSE "pending"
  <2>2. row.attempts + 1 \in Nat /\ row.attempts \in Nat
    BY DEF Notification
  <2>3. status \in {"failed", "pending"}
    OBVIOUS
  <2>4. AttemptFailed(row) = [row EXCEPT !.attempts = row.attempts + 1, !.status = status]
    BY DEF AttemptFailed
  <2> HIDE DEF status
  <2>5. AttemptFailed(row) \in Notification
    BY <2>2, <2>3, <2>4 DEF Notification
  <2>6. AttemptFailed(row).attempts = row.attempts + 1 /\ AttemptFailed(row).status = status
    BY <2>4 DEF Notification
  <2> QED
    BY <1>3, <2>1, <2>2, <2>5, <2>6 DEF status
<1> QED
  BY <1>1, <1>2, <1>3

-----------------------------------------------------------------------------
(* The table is empty and every process asleep at the start. *)
LEMMA InitIInv == Init => IInv
<1> SUFFICES ASSUME Init PROVE IInv
  OBVIOUS
<1>1. Queued = {}
  BY DEF Init, Queued
<1> QED
  BY <1>1, OutboxAssumption
  DEF Init, IInv, TypeOK, SentWasReceived, MarksAreTrue, BatchesAreQueued,
      SpentIsNotPending, Asleep, Cycle

(* A step that leaves the table and what arrived alone, and gives one      *)
(* process a cycle that may be remembered, keeps the invariant.            *)
LEMMA CycleStep ==
    ASSUME IInv, NEW p \in Processes, NEW c \in Cycle, Goto(p, c),
           UNCHANGED <<rows, received>>, faults' \in 0..MaxFaults,
           c.batch \subseteq Queued,
           c.at = "marking" => /\ c.row \in Queued
                               /\ c.outcome # "none"
                               /\ c.outcome = "sent" => received[c.row] > 0
    PROVE  IInv'
<1>1. Queued' = Queued
  BY DEF Queued
<1>2. cycles' = [cycles EXCEPT ![p] = c] /\ cycles \in [Processes -> Cycle]
  BY DEF Goto, IInv, TypeOK
<1>3. TypeOK'
  BY <1>2 DEF IInv, TypeOK
<1>4. SentWasReceived' /\ SpentIsNotPending'
  BY <1>1 DEF IInv, SentWasReceived, SpentIsNotPending
<1>5. MarksAreTrue'
  BY <1>1, <1>2 DEF IInv, MarksAreTrue
<1>6. BatchesAreQueued'
  BY <1>1, <1>2 DEF IInv, BatchesAreQueued
<1> QED
  BY <1>3, <1>4, <1>5, <1>6 DEF IInv

(* insertIfAbsent. *)
LEMMA EnqueueStep == ASSUME IInv, NEW k \in Keys, Enqueue(k) PROVE IInv'
<1> DEFINE new == [status |-> "pending", attempts |-> 0, createdAt |-> Cardinality(Queued)]
<1>1. new \in Notification
  BY QueuedCountable DEF Notification
<1>2. rows' = [rows EXCEPT ![k] = new] /\ rows \in [Keys -> Notification \cup {NoRow}]
  BY DEF Enqueue, IInv, TypeOK
<1>3. UNCHANGED <<cycles, received, faults>> /\ rows[k] = NoRow
  BY DEF Enqueue, NotEnqueued
<1>4. Queued' = Queued \cup {k} /\ k \notin Queued
  BY <1>1, <1>2, <1>3, NoRowAssumption DEF Queued
<1>5. TypeOK'
  BY <1>1, <1>2, <1>3 DEF IInv, TypeOK
<1>6. \A j \in Queued' : (j \in Queued /\ rows'[j] = rows[j]) \/ rows'[j] = new
  BY <1>2, <1>4 DEF Queued
<1>7. SentWasReceived'
  BY <1>3, <1>6 DEF IInv, SentWasReceived
<1>8. SpentIsNotPending'
  <2> SUFFICES ASSUME NEW j \in Queued', rows'[j].attempts >= MaxAttempts
               PROVE  rows'[j].status # "pending"
    BY DEF SpentIsNotPending
  <2>1. new.attempts < MaxAttempts
    BY OutboxAssumption
  <2> QED
    BY <1>6, <2>1, OutboxAssumption DEF IInv, SpentIsNotPending
<1>9. MarksAreTrue' /\ BatchesAreQueued'
  BY <1>3, <1>4 DEF IInv, MarksAreTrue, BatchesAreQueued
<1> QED
  BY <1>5, <1>7, <1>8, <1>9 DEF IInv

(* A delivery: what arrived is remembered, whatever its answer.            *)
LEMMA DeliverStep == ASSUME IInv, NEW p \in Processes, NEW k \in Keys, Deliver(p, k) PROVE IInv'
<1> DEFINE ended(o) == [at |-> "marking", batch |-> cycles[p].batch \ {k}, row |-> k,
                        outcome |-> o]
<1>1. PICK o \in {"sent", "config", "error"} :
        /\ Goto(p, ended(o))
        /\ UNCHANGED received \/ Arrives(k)
        /\ o = "sent" => Arrives(k)
  BY DEF Deliver
<1>2. UNCHANGED <<rows, faults>> /\ k \in cycles[p].batch
  BY DEF Deliver
<1>3. cycles \in [Processes -> Cycle] /\ received \in [Keys -> 0..2]
  BY DEF IInv, TypeOK
<1>4. k \in Queued /\ cycles[p].batch \subseteq Queued /\ cycles[p].batch \subseteq Keys
  BY <1>2, <1>3 DEF IInv, BatchesAreQueued, Cycle
<1>5. ended(o) \in Cycle
  BY <1>1, <1>4 DEF Cycle
<1>6. cycles' = [cycles EXCEPT ![p] = ended(o)]
  BY <1>1 DEF Goto
<1>7. Queued' = Queued
  BY <1>2 DEF Queued
<1>8. /\ received' \in [Keys -> 0..2]
      /\ \A j \in Keys : received[j] > 0 => received'[j] > 0
      /\ o = "sent" => received'[k] > 0
  BY <1>1, <1>3 DEF Arrives
<1>9. TypeOK'
  BY <1>2, <1>3, <1>5, <1>6, <1>8 DEF IInv, TypeOK
<1>10. SentWasReceived' /\ SpentIsNotPending'
  BY <1>2, <1>7, <1>8 DEF IInv, SentWasReceived, SpentIsNotPending, Queued
<1>11. MarksAreTrue'
  <2> SUFFICES ASSUME NEW q \in Processes, cycles'[q].at = "marking"
               PROVE  /\ cycles'[q].row \in Queued'
                      /\ cycles'[q].outcome # "none"
                      /\ cycles'[q].outcome = "sent" => received'[cycles'[q].row] > 0
    BY DEF MarksAreTrue
  <2>1. CASE q = p
    BY <1>1, <1>3, <1>4, <1>6, <1>7, <1>8, <2>1
  <2>2. CASE q # p
    <3>1. cycles'[q] = cycles[q]
      BY <1>3, <1>6, <2>2
    <3>2. cycles[q].row \in Queued /\ cycles[q].row \in Keys
      BY <3>1 DEF IInv, MarksAreTrue, Queued
    <3> QED
      BY <1>7, <1>8, <3>1, <3>2 DEF IInv, MarksAreTrue
  <2> QED
    BY <2>1, <2>2
<1>12. BatchesAreQueued'
  BY <1>3, <1>4, <1>6, <1>7 DEF IInv, BatchesAreQueued
<1> QED
  BY <1>9, <1>10, <1>11, <1>12 DEF IInv

(* The outcome is written, over whatever the row has become.               *)
LEMMA MarkStep == ASSUME IInv, NEW p \in Processes, Mark(p) PROVE IInv'
<1> DEFINE c == cycles[p]
           k == cycles[p].row
           next == [Asleep EXCEPT !.at = "sending", !.batch = cycles[p].batch]
<1>1. cycles \in [Processes -> Cycle] /\ c \in Cycle /\ c.at = "marking"
  BY DEF Mark, IInv, TypeOK
<1>2. /\ k \in Queued
      /\ c.outcome \in {"sent", "config", "error"}
      /\ c.outcome = "sent" => received[k] > 0
  BY <1>1 DEF IInv, MarksAreTrue, Cycle
<1>3. k \in Keys /\ rows[k] \in Notification /\ rows \in [Keys -> Notification \cup {NoRow}]
  BY <1>2, QueuedIsRow DEF IInv, TypeOK
<1>4. /\ rows' = [rows EXCEPT ![k] = Marked(rows[k], c.outcome)]
      /\ cycles' = [cycles EXCEPT ![p] = next]
      /\ UNCHANGED <<received, faults>>
  BY DEF Mark, Goto
<1>5. Marked(rows[k], c.outcome) \in Notification
  BY <1>2, <1>3, MarkedRow
<1>6. rows'[k] = Marked(rows[k], c.outcome)
  BY <1>3, <1>4
<1>7. Queued' = Queued
  BY <1>2, <1>3, <1>4, <1>5, NoRowAssumption DEF Queued
<1>8. next \in Cycle /\ next.at = "sending" /\ next.batch = c.batch
  BY <1>1, OutboxAssumption DEF Cycle, Asleep
<1>9. TypeOK'
  BY <1>1, <1>3, <1>4, <1>5, <1>8 DEF IInv, TypeOK
<1>10. SentWasReceived'
  <2> SUFFICES ASSUME NEW j \in Queued', rows'[j].status = "sent" PROVE received'[j] > 0
    BY DEF SentWasReceived
  <2>1. CASE j = k
    BY <1>2, <1>3, <1>4, <1>6, <2>1, MarkedRow
  <2>2. CASE j # k
    BY <1>3, <1>4, <1>7, <2>2 DEF IInv, SentWasReceived, Queued
  <2> QED
    BY <2>1, <2>2
<1>11. SpentIsNotPending'
  <2> SUFFICES ASSUME NEW j \in Queued', rows'[j].attempts >= MaxAttempts
               PROVE  rows'[j].status # "pending"
    BY DEF SpentIsNotPending
  <2>1. CASE j = k /\ c.outcome = "sent"
    <3>1. rows'[j].status = "sent"
      BY <1>3, <1>6, <2>1 DEF Marked, Notification
    <3> QED
      BY <3>1
  <2>2. CASE j = k /\ c.outcome # "sent"
    BY <1>2, <1>3, <1>6, <2>2, MarkedRow
  <2>3. CASE j # k
    BY <1>3, <1>4, <1>7, <2>3 DEF IInv, SpentIsNotPending, Queued
  <2> QED
    BY <2>1, <2>2, <2>3
<1>12. MarksAreTrue'
  BY <1>1, <1>4, <1>7, <1>8 DEF IInv, MarksAreTrue
<1>13. BatchesAreQueued'
  BY <1>1, <1>4, <1>7, <1>8 DEF IInv, BatchesAreQueued
<1> QED
  BY <1>9, <1>10, <1>11, <1>12, <1>13 DEF IInv

(* The other steps of a process change nothing but its cycle. *)
LEMMA OtherSteps ==
    ASSUME IInv, NEW p \in Processes,
           StartCycle(p) \/ FinishCycle(p) \/ MarkThrows(p) \/ Crash(p)
    PROVE  IInv'
<1>1. cycles[p] \in Cycle /\ Asleep \in Cycle /\ faults \in 0..MaxFaults
  BY DEF IInv, TypeOK, Cycle, Asleep
<1>2. CASE StartCycle(p)
  <2> DEFINE c == [Asleep EXCEPT !.at = "sending", !.batch = Oldest]
  <2>1. Oldest \subseteq Queued /\ Queued \subseteq Keys
    BY DEF Oldest, PendingKeys, Queued
  <2>2. c \in Cycle /\ c.at = "sending" /\ c.batch = Oldest
    BY <2>1 DEF Asleep, Cycle
  <2> QED
    BY <1>1, <1>2, <2>1, <2>2, CycleStep DEF StartCycle
<1>3. CASE FinishCycle(p)
  BY <1>1, <1>3, CycleStep DEF FinishCycle, Asleep
<1>4. CASE Crash(p)
  <2>1. faults' \in 0..MaxFaults
    BY <1>1, <1>4, OutboxAssumption DEF Crash, Fault
  <2> QED
    BY <1>1, <1>4, <2>1, CycleStep DEF Crash, Asleep
<1>5. CASE MarkThrows(p)
  <2> DEFINE failed == [cycles[p] EXCEPT !.outcome = "error"]
  <2>1. faults' \in 0..MaxFaults
    BY <1>1, <1>5, OutboxAssumption DEF MarkThrows, Fault
  <2>2. CASE cycles[p].outcome = "sent"
    <3>1. /\ failed \in Cycle /\ failed.outcome = "error"
          /\ failed.row = cycles[p].row /\ failed.batch = cycles[p].batch
      BY <1>1 DEF Cycle
    <3>2. failed.row \in Queued /\ failed.batch \subseteq Queued
      BY <1>5, <3>1 DEF MarkThrows, IInv, MarksAreTrue, BatchesAreQueued
    <3> QED
      BY <1>5, <2>1, <2>2, <3>1, <3>2, CycleStep DEF MarkThrows
  <2>3. CASE cycles[p].outcome # "sent"
    BY <1>1, <1>5, <2>1, <2>3, CycleStep DEF MarkThrows, Asleep
  <2> QED
    BY <2>2, <2>3
<1> QED
  BY <1>2, <1>3, <1>4, <1>5

(* Every step keeps the invariant. *)
LEMMA NextIInv == IInv /\ [Next]_vars => IInv'
<1> SUFFICES ASSUME IInv, [Next]_vars PROVE IInv'
  OBVIOUS
<1>1. CASE \E k \in Keys : Enqueue(k)
  BY <1>1, EnqueueStep
<1>2. CASE \E p \in Processes : Step(p) \/ MarkThrows(p) \/ Crash(p)
  <2> PICK p \in Processes : Step(p) \/ MarkThrows(p) \/ Crash(p)
    BY <1>2
  <2>1. CASE StartCycle(p) \/ FinishCycle(p) \/ MarkThrows(p) \/ Crash(p)
    BY <2>1, OtherSteps
  <2>2. CASE \E k \in Keys : Deliver(p, k)
    BY <2>2, DeliverStep
  <2>3. CASE Mark(p)
    BY <2>3, MarkStep
  <2> QED
    BY <2>1, <2>2, <2>3 DEF Step
<1>3. CASE UNCHANGED vars
  BY <1>3 DEF vars, IInv, TypeOK, SentWasReceived, MarksAreTrue, BatchesAreQueued,
              SpentIsNotPending, Queued
<1> QED
  BY <1>1, <1>2, <1>3 DEF Next

(* The inductive invariant of the outbox. *)
THEOREM OutboxInvariance == Spec => []IInv
BY InitIInv, NextIInv, PTL DEF Spec

(* The table and the cycles keep their types (dispatcher.ts,               *)
(* taskNotificationRepo).                                                  *)
THEOREM OutboxTypeCorrect == Spec => []TypeOK
<1>1. IInv => TypeOK
  BY DEF IInv
<1> QED
  BY <1>1, OutboxInvariance, PTL

(* A notification that the table calls sent has arrived, for any number of *)
(* processes that empty the outbox together, crash, and overwrite each     *)
(* other's outcomes (dispatcher.ts, markSent and markAttemptFailed).       *)
THEOREM SentArrived == Spec => []SentWasReceived
<1>1. IInv => SentWasReceived
  BY DEF IInv
<1> QED
  BY <1>1, OutboxInvariance, PTL

(* A row whose attempts are used up is never pending again, whichever      *)
(* process counted them (markAttemptFailed).                               *)
THEOREM FailedIsFinal == Spec => FailedStays
<1>1. IInv /\ IInv' /\ [Next]_vars =>
        [\A k \in Queued : rows[k].attempts >= MaxAttempts => rows'[k].status # "pending"]_vars
  <2> SUFFICES ASSUME IInv, IInv', [Next]_vars, NEW k \in Queued,
                      rows[k].attempts >= MaxAttempts
               PROVE  rows'[k].status # "pending"
    OBVIOUS
  <2>1. k \in Keys /\ rows[k] \in Notification
    BY QueuedIsRow DEF IInv
  <2>2. CASE rows'[k] = rows[k]
    BY <2>2 DEF IInv, SpentIsNotPending
  <2>3. CASE \E p \in Processes : Mark(p) /\ cycles[p].row = k
    <3> PICK p \in Processes : Mark(p) /\ cycles[p].row = k
      BY <2>3
    <3>1. cycles[p].outcome \in {"sent", "config", "error"}
      BY DEF Mark, IInv, MarksAreTrue, TypeOK, Cycle
    <3>2. rows'[k] = Marked(rows[k], cycles[p].outcome)
      BY <2>1 DEF Mark, IInv, TypeOK
    <3> QED
      <4>1. rows'[k] \in Notification /\ rows'[k].attempts >= MaxAttempts
        BY <2>1, <3>1, <3>2, MarkedRow, OutboxAssumption DEF Notification
      <4>2. k \in Queued'
        BY <2>1, <4>1, NoRowAssumption DEF Queued
      <4> QED
        BY <4>1, <4>2 DEF IInv, SpentIsNotPending
  <2>4. rows'[k] = rows[k] \/ \E p \in Processes : Mark(p) /\ cycles[p].row = k
    <3>1. CASE \E j \in Keys : Enqueue(j)
      BY <2>1, <3>1 DEF Enqueue, NotEnqueued, Queued, IInv, TypeOK
    <3>2. CASE \E p \in Processes : Step(p) \/ MarkThrows(p) \/ Crash(p)
      BY <2>1, <3>2 DEF Step, StartCycle, FinishCycle, Deliver, Mark, MarkThrows, Crash, IInv, TypeOK
    <3>3. CASE UNCHANGED vars
      BY <3>3 DEF vars
    <3> QED
      BY <3>1, <3>2, <3>3 DEF Next
  <2> QED
    BY <2>2, <2>3, <2>4
<1> QED
  BY <1>1, OutboxInvariance, PTL DEF Spec, FailedStays

-----------------------------------------------------------------------------
(* The events of task requests.                                            *)

TaskStates == [assignee: Assignees \cup {Owner}, status: {"open", "done"},
               priority: Priorities, completedAt: BOOLEAN, updatedAt: Nat]

RequestBodies == [assignee: Assignees \cup {Unsaid}, status: {"open", "done", Unsaid},
                  priority: Priorities \cup {Unsaid}]

EventsTyped ==
    /\ task \in TaskStates
    /\ requests \in [Requests -> [at: {"idle", "read", "written"},
                                  before: TaskStates \cup {NoTask},
                                  body: RequestBodies \cup {NoTask}]]
    /\ \A r \in Requests : requests[r].at # "idle" =>
        requests[r].before \in TaskStates /\ requests[r].body \in RequestBodies
    /\ changes \subseteq [from: TaskStates, to: TaskStates]

(* What is new in version `now` since version `before` was made so by a    *)
(* recorded write.  A priority may be raised in several steps, each        *)
(* crossing some ranks.                                                    *)
MadeSince(before, now, recorded) ==
    /\ before.assignee # now.assignee => \E c \in recorded :
        c.to.assignee = now.assignee /\ c.from.assignee # now.assignee
    /\ before.status # "done" /\ now.status = "done" => \E c \in recorded :
        c.to.status = "done" /\ c.from.status # "done"
    /\ \A p \in Priorities : before.priority < p /\ p <= now.priority =>
        \E c \in recorded : c.from.priority < p /\ p <= c.to.priority

EventsInv ==
    /\ EventsTyped
    /\ \A c \in changes : c.to.updatedAt <= task.updatedAt
    /\ \A r \in Requests : requests[r].at # "idle" => MadeSince(requests[r].before, task, changes)
    /\ \A r \in Requests : requests[r].at = "written" => \E c \in changes : c.to = task
    /\ OnlyWhatHappened

(* Every body is one of the requests' type.                                *)
LEMMA BodyTyped == ASSUME NEW body \in Bodies PROVE body \in RequestBodies
BY DEF Bodies, RequestBodies, Silent

(* A write makes a task of a task, one version on.                         *)
LEMMA UpdatedTyped ==
    ASSUME EventsTyped, NEW before \in TaskStates, NEW body \in RequestBodies
    PROVE  Updated(before, body) \in TaskStates
           /\ Updated(before, body).updatedAt = task.updatedAt + 1
<1>1. /\ Said(body.assignee, task.assignee) \in Assignees \cup {Owner}
      /\ Said(body.status, task.status) \in {"open", "done"}
      /\ Said(body.priority, task.priority) \in Priorities
  BY DEF EventsTyped, TaskStates, RequestBodies, Said
<1>2. task.updatedAt + 1 \in Nat /\ task.completedAt \in BOOLEAN
  BY DEF EventsTyped, TaskStates
<1>3. Updated(before, body) \in TaskStates
  BY <1>1, <1>2 DEF Updated, TaskStates
<1> QED
  BY <1>3 DEF Updated

(* A write is a change, and what it made new it made so itself.            *)
LEMMA WriteMakes ==
    ASSUME EventsInv, NEW r \in Requests, Write(r)
    PROVE  EventsInv'
<1> DEFINE step == [from |-> task, to |-> task']
<1>1. /\ requests[r].at = "read"
      /\ task' = Updated(requests[r].before, requests[r].body)
      /\ changes' = changes \cup {step}
      /\ requests' = [requests EXCEPT ![r].at = "written"]
      /\ UNCHANGED queued
  BY DEF Write
<1>2. task \in TaskStates /\ task' \in TaskStates /\ task'.updatedAt = task.updatedAt + 1
  BY <1>1, UpdatedTyped DEF EventsInv, EventsTyped
<1>3. step \in changes' /\ step.from = task /\ step.to = task' /\ changes \subseteq changes'
  BY <1>1
<1>4. EventsTyped'
  <2>1. changes' \subseteq [from: TaskStates, to: TaskStates]
    BY <1>1, <1>2 DEF EventsInv, EventsTyped
  <2>2. \A q \in Requests : /\ requests'[q].before = requests[q].before
                            /\ requests'[q].body = requests[q].body
                            /\ q # r => requests'[q].at = requests[q].at
    BY <1>1 DEF EventsInv, EventsTyped
  <2>3. requests' \in [Requests -> [at: {"idle", "read", "written"},
                                    before: TaskStates \cup {NoTask},
                                    body: RequestBodies \cup {NoTask}]]
    BY <1>1 DEF EventsInv, EventsTyped
  <2>4. \A q \in Requests : requests'[q].at # "idle" =>
            requests'[q].before \in TaskStates /\ requests'[q].body \in RequestBodies
    BY <1>1, <2>2 DEF EventsInv, EventsTyped
  <2> QED
    BY <1>2, <2>1, <2>3, <2>4 DEF EventsTyped
<1>5. \A c \in changes' : c.to.updatedAt <= task'.updatedAt
  <2>1. ASSUME NEW c \in changes PROVE c.to.updatedAt <= task'.updatedAt
    BY <1>2 DEF EventsInv, EventsTyped, TaskStates
  <2> QED
    BY <1>1, <1>2, <1>3, <2>1 DEF TaskStates
<1>6. ASSUME NEW q \in Requests, requests'[q].at # "idle"
      PROVE  MadeSince(requests'[q].before, task', changes')
  <2> DEFINE before == requests[q].before
  <2>1. requests'[q].before = before /\ before \in TaskStates /\ MadeSince(before, task, changes)
    BY <1>1, <1>6 DEF EventsInv, EventsTyped
  <2>2. before.assignee # task'.assignee => \E c \in changes' :
            c.to.assignee = task'.assignee /\ c.from.assignee # task'.assignee
    BY <1>3, <2>1 DEF MadeSince
  <2>3. before.status # "done" /\ task'.status = "done" => \E c \in changes' :
            c.to.status = "done" /\ c.from.status # "done"
    BY <1>3, <2>1 DEF MadeSince
  <2>4. ASSUME NEW p \in Priorities, before.priority < p, p <= task'.priority
        PROVE  \E c \in changes' : c.from.priority < p /\ p <= c.to.priority
    <3>1. CASE p <= task.priority
      BY <1>3, <2>1, <2>4, <3>1 DEF MadeSince
    <3>2. CASE task.priority < p
      BY <1>3, <2>4, <3>2
    <3> QED
      BY <1>2, <3>1, <3>2, EventsAssumption DEF TaskStates
  <2> QED
    BY <2>1, <2>2, <2>3, <2>4 DEF MadeSince
<1>7. \A q \in Requests : requests'[q].at = "written" => \E c \in changes' : c.to = task'
  BY <1>3
<1>8. OnlyWhatHappened'
  BY <1>1, <1>3 DEF EventsInv, OnlyWhatHappened
<1> QED
  BY <1>4, <1>5, <1>6, <1>7, <1>8 DEF EventsInv

(* What a request tells happened since it read the task.                   *)
LEMMA NotifyTells ==
    ASSUME EventsInv, NEW r \in Requests, Notify(r)
    PROVE  OnlyWhatHappened'
<1> DEFINE before == requests[r].before
<1>1. /\ requests[r].at = "written"
      /\ queued' = queued \cup Notifications(before, task)
      /\ UNCHANGED <<task, changes>>
  BY DEF Notify, Before
<1>2. /\ MadeSince(before, task, changes) /\ before \in TaskStates /\ task \in TaskStates
      /\ \A c \in changes : c.to.updatedAt <= task.updatedAt
  BY <1>1 DEF EventsInv, EventsTyped
<1>3. PICK last \in changes : last.to = task
  BY <1>1 DEF EventsInv
<1>4. ASSUME NEW i \in Notifications(before, task)
      PROVE  /\ i.updatedAt = task.updatedAt
             /\ IsSo(i, task)
             /\ \E c \in changes : MadeSo(i, c)
  <2>1. CASE i \in Assigned(before, task)
    <3>1. /\ i = [event |-> "assigned", who |-> task.assignee, updatedAt |-> task.updatedAt]
          /\ task.assignee # before.assignee /\ task.assignee # Owner
      BY <2>1 DEF Assigned
    <3> QED
      BY <1>2, <3>1 DEF IsSo, MadeSo, MadeSince
  <2>2. CASE i \in Completed(before, task)
    <3>1. /\ i = [event |-> "completed", updatedAt |-> task.updatedAt]
          /\ task.status = "done" /\ before.status # "done"
      BY <2>2 DEF Completed
    <3> QED
      BY <1>2, <3>1 DEF IsSo, MadeSo, MadeSince
  <2>3. CASE i \in RaisedPriority(before, task)
    <3>1. /\ i = [event |-> "priority_raised", priority |-> task.priority,
                  updatedAt |-> task.updatedAt]
          /\ task.priority > before.priority
      BY <2>3 DEF RaisedPriority
    <3>2. /\ task.priority \in Priorities /\ before.priority \in Priorities
          /\ task.priority \in Nat /\ before.priority \in Nat
      BY <1>2, EventsAssumption DEF TaskStates
    <3>3. before.priority < task.priority /\ task.priority <= task.priority
      BY <3>1, <3>2
    <3>4. \E c \in changes : c.from.priority < task.priority /\ task.priority <= c.to.priority
      BY <1>2, <3>2, <3>3 DEF MadeSince
    <3> QED
      BY <3>1, <3>4 DEF IsSo, MadeSo
  <2> QED
    BY <1>4, <2>1, <2>2, <2>3 DEF Notifications
<1> QED
  BY <1>1, <1>2, <1>3, <1>4 DEF EventsInv, OnlyWhatHappened

(* The other steps write nothing but a request.                            *)
LEMMA RequestMoves ==
    ASSUME EventsInv, NEW r \in Requests,
           (\E body \in Bodies : Read(r, body)) \/ Notify(r) \/ Lose(r) \/ Refuse(r)
    PROVE  /\ EventsTyped'
           /\ UNCHANGED <<task, changes>>
           /\ \A c \in changes' : c.to.updatedAt <= task'.updatedAt
           /\ \A q \in Requests : requests'[q].at # "idle" =>
                MadeSince(requests'[q].before, task', changes')
           /\ \A q \in Requests : requests'[q].at = "written" => \E c \in changes' : c.to = task'
<1>1. /\ UNCHANGED <<task, changes>>
      /\ \/ requests' = [requests EXCEPT ![r] = NoRequest]
         \/ \E body \in Bodies :
                requests' = [requests EXCEPT ![r] = [at |-> "read", before |-> task, body |-> body]]
  BY DEF Read, Notify, Lose, Refuse
<1>2. MadeSince(task, task, changes)
  <2>1. task.status \in {"open", "done"} /\ task.priority \in Nat /\ Priorities \subseteq Nat
    BY EventsAssumption DEF EventsInv, EventsTyped, TaskStates
  <2>2. \A p \in Priorities : ~(task.priority < p /\ p <= task.priority)
    BY <2>1
  <2> QED
    BY <2>2 DEF MadeSince
<1>3. CASE requests' = [requests EXCEPT ![r] = NoRequest]
  BY <1>1, <1>3 DEF EventsInv, EventsTyped, NoRequest
<1>4. CASE \E body \in Bodies :
            requests' = [requests EXCEPT ![r] = [at |-> "read", before |-> task, body |-> body]]
  <2>1. PICK body \in Bodies :
            requests' = [requests EXCEPT ![r] = [at |-> "read", before |-> task, body |-> body]]
    BY <1>4
  <2> QED
    BY <1>1, <1>2, <2>1, BodyTyped DEF EventsInv, EventsTyped
<1> QED
  BY <1>1, <1>3, <1>4

(* Every step keeps the invariant of the events.                           *)
LEMMA EventsNextInv == EventsInv /\ [EventsNext]_eventVars => EventsInv'
<1> SUFFICES ASSUME EventsInv, [EventsNext]_eventVars PROVE EventsInv'
  OBVIOUS
<1>1. CASE UNCHANGED eventVars
  BY <1>1 DEF eventVars, EventsInv, EventsTyped, MadeSince, OnlyWhatHappened
<1>2. ASSUME NEW r \in Requests, Write(r) PROVE EventsInv'
  BY <1>2, WriteMakes
<1>3. ASSUME NEW r \in Requests, Notify(r) PROVE EventsInv'
  BY <1>3, NotifyTells, RequestMoves DEF EventsInv
<1>4. ASSUME NEW r \in Requests, (\E body \in Bodies : Read(r, body)) \/ Lose(r) \/ Refuse(r)
      PROVE  EventsInv'
  <2>1. queued' = queued
    BY <1>4 DEF Read, Lose, Refuse
  <2> QED
    BY <1>4, <2>1, RequestMoves DEF EventsInv, OnlyWhatHappened
<1> QED
  BY <1>1, <1>2, <1>3, <1>4 DEF EventsNext

(* Nothing has happened to a new task, and nobody was told.                *)
LEMMA EventsStart == EventsInit => EventsInv
BY EventsAssumption DEF EventsInit, EventsInv, EventsTyped, TaskStates, NoRequest,
       Assignees, OnlyWhatHappened

(* The invariant of the events: whatever is new since a request read the   *)
(* task was made so by a recorded write.                                   *)
THEOREM EventsInvariance == EventsSpec => []EventsInv
<1>1. EventsInit => EventsInv
  BY EventsStart
<1>2. EventsInv /\ [EventsNext]_eventVars => EventsInv'
  BY EventsNextInv
<1> QED
  BY <1>1, <1>2, PTL DEF EventsSpec

(* No rumours: a notification of PUT /api/tasks/:id says what was so in    *)
(* the version it names and what a write made so, for any number of        *)
(* requests that overtake each other and any ranks of priorities           *)
(* (routes.ts, events.ts).                                                 *)
THEOREM NoRumours == EventsSpec => []OnlyWhatHappened
<1>1. EventsInv => OnlyWhatHappened
  BY DEF EventsInv
<1> QED
  BY <1>1, EventsInvariance, PTL
=============================================================================
