----------------------------- MODULE ChatOutbox -----------------------------
(***************************************************************************)
(* Delivery of the messages of sprint chat: the lease of the chat tick     *)
(* (records.ts, runtime.ts), the outbox (outbox.ts), its delivery          *)
(* (delivery.ts), the transport's reconciliation (discord-transport.ts,    *)
(* slack-transport.ts) and the retry by a leader (routes.ts), all of       *)
(* modules/task/chat.                                                      *)
(*                                                                         *)
(* Discord and Slack are EXTERNAL.  A message is posted in pieces, each    *)
(* under a marker of its own that a later look finds.  A call fails before *)
(* or after it took effect.  A worker is a process; its lease may run out  *)
(* during a slow call, and after a crash it comes back under a new name.   *)
(***************************************************************************)
EXTENDS Naturals, FiniteSets

CONSTANTS
    Workers,            \* processes that run the chat tick
    Operations,
    Pieces,             \* number of pieces of a message
    Nobody,             \* no owner of the lease, no operation in hand
    MaxRetries,         \* bound on retries by a leader, per operation
    MaxFaults           \* bound on failed calls, crashes and leases run out

ASSUME ChatAssumption ==
    /\ Pieces \in Nat \ {0}
    /\ {MaxRetries, MaxFaults} \subseteq Nat
    /\ IsFiniteSet(Workers)
    /\ Nobody \notin Workers \cup Operations \cup {"dead"}

VARIABLES
    ops,                \* the outbox
    lease,              \* row 'runtime' of task_chat_lease
    workers,            \* the delivery each worker is in
    posted,             \* EXTERNAL: how often each piece is there
    retries,            \* history: retries by a leader
    faults

chatVars == <<ops, lease, workers, posted, retries, faults>>

OpStates == {"none", "queued", "sending", "sent", "unknown", "failed"}
Outcomes == {"none", "sent", "unknown", "failed"}

(* prior: the state claim found; piece: the next one to look for.          *)
Delivery == [at: {"idle", "listing", "delivering", "looking", "posting", "finishing"},
             todo: SUBSET Operations, op: Operations \cup {Nobody},
             prior: OpStates, piece: 1..Pieces + 1, outcome: Outcomes]

Asleep == [at |-> "idle", todo |-> {}, op |-> Nobody, prior |-> "none",
           piece |-> 1, outcome |-> "none"]

ChatInit ==
    /\ ops = [o \in Operations |-> "none"]
    /\ lease = [owner |-> Nobody, expired |-> FALSE]
    /\ workers = [w \in Workers |-> Asleep]
    /\ posted = [o \in Operations |-> [i \in 1..Pieces |-> 0]]
    /\ retries = [o \in Operations |-> 0]
    /\ faults = 0

Fault == faults < MaxFaults /\ faults' = faults + 1
Goto(w, delivery) == workers' = [workers EXCEPT ![w] = delivery]

-----------------------------------------------------------------------------
(* The lease.                                                              *)

Available(w) == lease.owner \in {Nobody, w} \/ lease.expired
Owns(w) == lease.owner = w
Renewed(w) == [owner |-> w, expired |-> FALSE]

(* releaseLease: only its owner's row is deleted. *)
Released(w) == IF Owns(w) THEN [owner |-> Nobody, expired |-> FALSE] ELSE lease

StartTick(w) ==
    /\ workers[w].at = "idle"
    /\ Available(w)
    /\ lease' = Renewed(w)
    /\ Goto(w, [Asleep EXCEPT !.at = "listing"])
    /\ UNCHANGED <<ops, posted, retries, faults>>

EndTick(w) ==
    /\ workers[w].at = "delivering" /\ workers[w].todo = {}
    /\ lease' = Released(w)
    /\ Goto(w, Asleep)
    /\ UNCHANGED <<ops, posted, retries, faults>>

(* Five minutes have passed since the last renewal.                        *)
LeaseRunsOut ==
    /\ lease.owner # Nobody /\ ~lease.expired
    /\ IF lease.owner = "dead" THEN UNCHANGED faults ELSE Fault
    /\ lease' = [lease EXCEPT !.expired = TRUE]
    /\ UNCHANGED <<ops, workers, posted, retries>>

(* The process dies; its next tick has another owner's name.               *)
Crash(w) ==
    /\ workers[w].at # "idle"
    /\ Fault
    /\ lease' = IF Owns(w) THEN [lease EXCEPT !.owner = "dead"] ELSE lease
    /\ Goto(w, Asleep)
    /\ UNCHANGED <<ops, posted, retries>>

-----------------------------------------------------------------------------
(* The outbox.                                                             *)

Enqueue(o) ==
    /\ ops[o] = "none"
    /\ ops' = [ops EXCEPT ![o] = "queued"]
    /\ UNCHANGED <<lease, workers, posted, retries, faults>>

(* A leader who has looked at the channel queues the message again.        *)
Retry(o) ==
    /\ ops[o] \in {"unknown", "failed"}
    /\ retries[o] < MaxRetries
    /\ ops' = [ops EXCEPT ![o] = "queued"]
    /\ retries' = [retries EXCEPT ![o] = @ + 1]
    /\ UNCHANGED <<lease, workers, posted, faults>>

Open == {o \in Operations : ops[o] \in {"queued", "sending", "unknown"}}

ListPending(w) ==
    /\ workers[w].at = "listing"
    /\ Goto(w, [workers[w] EXCEPT !.at = "delivering", !.todo = Open])
    /\ UNCHANGED <<ops, lease, posted, retries, faults>>

(* Mutant: claim returns the operation as it has written it, "queued".     *)
PriorLost(o) == "queued"

Prior(o) == ops[o]

(* ownsLease, then claim: two transactions with nothing in between that    *)
(* another worker could notice, so one step.  A lost lease, or a           *)
(* connection no longer enabled, ends the tick.                            *)
Claim(w, o) ==
    /\ workers[w].at = "delivering"
    /\ o \in workers[w].todo
    /\ Available(w)
    /\ lease' = Renewed(w)
    /\ IF ops[o] \in {"sent", "failed"}
       THEN /\ Goto(w, [workers[w] EXCEPT !.todo = @ \ {o}])
            /\ UNCHANGED ops
       ELSE /\ Goto(w, [workers[w] EXCEPT !.at = "looking", !.todo = @ \ {o}, !.op = o,
                                          !.prior = Prior(o), !.piece = 1])
            /\ ops' = [ops EXCEPT ![o] = "sending"]
    /\ UNCHANGED <<posted, retries, faults>>

LoseLease(w) ==
    /\ workers[w].at = "delivering" /\ workers[w].todo # {}
    /\ ~Available(w)
    /\ Goto(w, Asleep)
    /\ UNCHANGED <<ops, lease, posted, retries, faults>>

(* The outcome of deliver is known to w.                                   *)
Ends(w, outcome) == Goto(w, [workers[w] EXCEPT !.at = "finishing", !.outcome = outcome])

(* Mutant: what is not found is posted, whatever became of it before.      *)
AlwaysMayPost(w) == TRUE

(* Only a first attempt may post what it does not find.                    *)
MayPost(w) == workers[w].prior = "queued"

(* Mutant: a message is thought complete one piece early.                  *)
AllButOneThere(d) == d.piece >= Pieces

AllThere(d) == d.piece > Pieces

(* deliver looks for the marker of the piece.  The look may fail, or the   *)
(* channel be refused (400).                                               *)
Look(w) ==
    LET d == workers[w] IN
    /\ d.at = "looking"
    /\ \/ /\ UNCHANGED faults
          /\ IF AllThere(d) THEN Ends(w, "sent")
             ELSE IF posted[d.op][d.piece] > 0
             THEN Goto(w, [d EXCEPT !.piece = @ + 1])
             ELSE IF MayPost(w) THEN Goto(w, [d EXCEPT !.at = "posting"])
             ELSE Ends(w, "unknown")
       \/ Fault /\ Ends(w, "unknown")
       \/ Fault /\ Ends(w, "failed")
    /\ UNCHANGED <<ops, lease, posted, retries>>

Arrives(o, i) == posted' = [posted EXCEPT ![o][i] = @ + 1]

(* The POST: it fails before or after it arrived, is refused (400, 403),   *)
(* or the piece is there.                                                  *)
Post(w) ==
    LET d == workers[w] IN
    /\ d.at = "posting"
    /\ \/ /\ Arrives(d.op, d.piece)
          /\ Goto(w, [d EXCEPT !.at = "looking", !.piece = @ + 1])
          /\ UNCHANGED faults
       \/ Arrives(d.op, d.piece) /\ Fault /\ Ends(w, "unknown")
       \/ UNCHANGED posted /\ Fault /\ (Ends(w, "unknown") \/ Ends(w, "failed"))
    /\ UNCHANGED <<ops, lease, retries>>

(* finish: sent is final.                                                  *)
Finished(state, outcome) == IF state = "sent" THEN "sent" ELSE outcome

Finish(w) ==
    LET d == workers[w] IN
    /\ d.at = "finishing"
    /\ ops' = [ops EXCEPT ![d.op] = Finished(@, d.outcome)]
    /\ Goto(w, [Asleep EXCEPT !.at = "delivering", !.todo = d.todo])
    /\ UNCHANGED <<lease, posted, retries, faults>>

Step(w) ==
    \/ StartTick(w) \/ EndTick(w) \/ LoseLease(w) \/ ListPending(w)
    \/ \E o \in Operations : Claim(w, o)
    \/ Look(w) \/ Post(w) \/ Finish(w)

ChatNext ==
    \/ \E w \in Workers : Step(w) \/ Crash(w)
    \/ \E o \in Operations : Enqueue(o) \/ Retry(o)
    \/ LeaseRunsOut

ChatSpec == ChatInit /\ [][ChatNext]_chatVars

-----------------------------------------------------------------------------
(* Properties.                                                             *)

ChatTypeOK ==
    /\ ops \in [Operations -> OpStates]
    /\ lease \in [owner: Workers \cup {Nobody, "dead"}, expired: BOOLEAN]
    /\ workers \in [Workers -> Delivery]
    /\ posted \in [Operations -> [1..Pieces -> Nat]]
    /\ retries \in [Operations -> 0..MaxRetries]

(* "応答喪失は unknown として…盲目的に POST し直さない": through crashes, lost    *)
(* answers and a second worker on the same operation, a piece is posted at *)
(* most once for its enqueueing and once for each retry by a leader.       *)
PostedOncePerDecision ==
    \A o \in Operations : \A i \in 1..Pieces : posted[o][i] <= 1 + retries[o]

(* A message called sent is there, all of it.                              *)
SentIsThere ==
    \A o \in Operations : ops[o] = "sent" => \A i \in 1..Pieces : posted[o][i] > 0
=============================================================================
