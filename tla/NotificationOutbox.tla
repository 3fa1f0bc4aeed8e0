------------------------- MODULE NotificationOutbox -------------------------
(***************************************************************************)
(* The outbox of task notifications (table task_notifications) and the     *)
(* tick that empties it: insertIfAbsent and the mark operations of         *)
(* taskNotificationRepo, dispatchPendingNotifications of                   *)
(* modules/task/notifications/dispatcher.ts and its runner in tick.ts.     *)
(*                                                                         *)
(* A notification is known by its dedupe key.  Concordia and Memoria are   *)
(* EXTERNAL: a POST may fail, or arrive and have its answer lost.  Every   *)
(* process has at most one cycle under way (isRunning), and nothing stops  *)
(* two processes from reading the same pending rows.                       *)
(***************************************************************************)
EXTENDS Naturals, FiniteSets

CONSTANTS
    Keys,               \* dedupe keys
    Processes,          \* processes that run the tick
    Unusable,           \* keys whose channel has no connection configured
    NoRow,              \* the key has not been enqueued
    NoKey,              \* no row in hand
    MaxAttempts,        \* MAX_NOTIFICATION_ATTEMPTS
    Batch,              \* DISPATCH_BATCH
    MaxFaults           \* bound on crashes and failed writes

ASSUME OutboxAssumption ==
    /\ MaxAttempts \in Nat \ {0}
    /\ Batch \in Nat \ {0}
    /\ MaxFaults \in Nat
    /\ IsFiniteSet(Keys)
    /\ NoKey \notin Keys

VARIABLES
    rows,               \* the table, by dedupe key
    cycles,             \* the dispatch cycle of each process
    received,           \* EXTERNAL: how often a message arrived: 0, 1, or 2 for more
    faults

vars == <<rows, cycles, received, faults>>

Notification == [status: {"pending", "sent", "failed"}, attempts: Nat, createdAt: Nat]
ASSUME NoRowAssumption == NoRow \notin Notification

(* batch: the rows read and not yet handled; at "marking", the outcome of  *)
(* the one in hand is to be written.                                       *)
Cycle == [at: {"idle", "sending", "marking"}, batch: SUBSET Keys,
          row: Keys \cup {NoKey}, outcome: {"none", "sent", "config", "error"}]

Asleep == [at |-> "idle", batch |-> {}, row |-> NoKey, outcome |-> "none"]

Init ==
    /\ rows = [k \in Keys |-> NoRow]
    /\ cycles = [p \in Processes |-> Asleep]
    /\ received = [k \in Keys |-> 0]
    /\ faults = 0

Fault == faults < MaxFaults /\ faults' = faults + 1
Goto(p, cycle) == cycles' = [cycles EXCEPT ![p] = cycle]

Queued == {k \in Keys : rows[k] # NoRow}
PendingKeys == {k \in Queued : rows[k].status = "pending"}

(* insertIfAbsent: the unique constraint decides between two inserts.      *)
NotEnqueued(k) == rows[k] = NoRow

Enqueue(k) ==
    /\ NotEnqueued(k)
    /\ rows' = [rows EXCEPT ![k] =
            [status |-> "pending", attempts |-> 0, createdAt |-> Cardinality(Queued)]]
    /\ UNCHANGED <<cycles, received, faults>>

(* listPending: the oldest pending rows, at most Batch of them.            *)
Oldest ==
    {k \in PendingKeys :
        Cardinality({j \in PendingKeys : rows[j].createdAt < rows[k].createdAt}) < Batch}

StartCycle(p) ==
    /\ cycles[p].at = "idle"
    /\ Goto(p, [Asleep EXCEPT !.at = "sending", !.batch = Oldest])
    /\ UNCHANGED <<rows, received, faults>>

FinishCycle(p) ==
    /\ cycles[p].at = "sending"
    /\ cycles[p].batch = {}
    /\ Goto(p, Asleep)
    /\ UNCHANGED <<rows, received, faults>>

Arrives(k) == received' = [received EXCEPT ![k] = IF @ = 0 THEN 1 ELSE 2]

(* deliver: without a connection it throws a NotificationConfigError;      *)
(* otherwise the POST fails before or after it arrived, or succeeds.       *)
Deliver(p, k) ==
    LET ends(outcome) == Goto(p, [at |-> "marking", batch |-> cycles[p].batch \ {k},
                                  row |-> k, outcome |-> outcome])
    IN
    /\ cycles[p].at = "sending"
    /\ k \in cycles[p].batch
    /\ \/ k \in Unusable /\ ends("config") /\ UNCHANGED received
       \/ k \notin Unusable /\ ends("error") /\ UNCHANGED received
       \/ k \notin Unusable /\ ends("error") /\ Arrives(k)
       \/ k \notin Unusable /\ ends("sent") /\ Arrives(k)
    /\ UNCHANGED <<rows, faults>>

(* Mutant: a failed attempt is not counted.                                *)
AttemptNotCounted(row) ==
    [row EXCEPT !.status = IF @ = "failed" THEN "failed" ELSE "pending"]

(* Mutant: the limit is compared for equality.                             *)
AttemptAtLimit(row) ==
    [row EXCEPT !.attempts = @ + 1,
                !.status = IF row.attempts + 1 = MaxAttempts THEN "failed" ELSE "pending"]

(* markAttemptFailed: the count in the table decides, not the one read.    *)
AttemptFailed(row) ==
    [row EXCEPT !.attempts = @ + 1,
                !.status = IF row.attempts + 1 >= MaxAttempts THEN "failed" ELSE "pending"]

(* Mutant: an error is recorded like a success.                            *)
MarkedAnyway(row, outcome) ==
    IF outcome = "config" THEN [row EXCEPT !.status = "failed", !.attempts = @ + 1]
    ELSE [row EXCEPT !.status = "sent"]

(* markSent, markFailed and markAttemptFailed, by the id of the row alone. *)
Marked(row, outcome) ==
    CASE outcome = "sent" -> [row EXCEPT !.status = "sent"]
      [] outcome = "config" -> [row EXCEPT !.status = "failed", !.attempts = @ + 1]
      [] outcome = "error" -> AttemptFailed(row)

Mark(p) ==
    LET c == cycles[p] IN
    /\ c.at = "marking"
    /\ rows' = [rows EXCEPT ![c.row] = Marked(@, c.outcome)]
    /\ Goto(p, [Asleep EXCEPT !.at = "sending", !.batch = c.batch])
    /\ UNCHANGED <<received, faults>>

(* The write fails: markSent throws inside the try block, so a message     *)
(* that arrived counts as a failed attempt; the other two end the cycle.   *)
MarkThrows(p) ==
    LET c == cycles[p] IN
    /\ c.at = "marking"
    /\ Fault
    /\ Goto(p, IF c.outcome = "sent" THEN [c EXCEPT !.outcome = "error"] ELSE Asleep)
    /\ UNCHANGED <<rows, received>>

Crash(p) ==
    /\ cycles[p].at # "idle"
    /\ Fault
    /\ Goto(p, Asleep)
    /\ UNCHANGED <<rows, received>>

Step(p) ==
    \/ StartCycle(p)
    \/ \E k \in Keys : Deliver(p, k)
    \/ Mark(p)
    \/ FinishCycle(p)

Next ==
    \/ \E k \in Keys : Enqueue(k)
    \/ \E p \in Processes : Step(p) \/ MarkThrows(p) \/ Crash(p)

Spec == Init /\ [][Next]_vars

-----------------------------------------------------------------------------
(* Properties.                                                             *)

(* The table and the cycles keep their types. *)
TypeOK ==
    /\ rows \in [Keys -> Notification \cup {NoRow}]
    /\ cycles \in [Processes -> Cycle]
    /\ received \in [Keys -> 0..2]
    /\ faults \in 0..MaxFaults

(* A notification the table calls sent has arrived, whichever process      *)
(* wrote that and whatever another one wrote in between.                   *)
SentWasReceived ==
    \A k \in Queued : rows[k].status = "sent" => received[k] > 0

(* "5 回で failed に固定する" (fixed at failed after five attempts): only a *)
(* delivery that succeeded meanwhile moves such a row, never back to       *)
(* pending.                                                                *)
FailedStays ==
    [][\A k \in Queued :
        rows[k].attempts >= MaxAttempts => rows'[k].status # "pending"]_vars

(* Every notification is settled for good in the end, though its receiver  *)
(* may stay down, older rows fill the batches and processes crash.         *)
EverySettles ==
    \A k \in Keys : (rows[k] # NoRow) ~> [](rows[k] # NoRow /\ rows[k].status # "pending")
=============================================================================
