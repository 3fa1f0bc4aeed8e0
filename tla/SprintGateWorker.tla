-------------------------- MODULE SprintGateWorker --------------------------
(***************************************************************************)
(* The owner of the gates' conversation with people on Discord:            *)
(* runSprintGateCycle of modules/task/sprint-gates/worker.ts, the tick     *)
(* that runs it (runtime.ts), and the remaining methods of SprintGateStore *)
(* (pending, delivery, eventOutcome, rejectExternal).                      *)
(*                                                                         *)
(* Concordia (Cc) is EXTERNAL.  It keeps one dialogue per sprint, which a  *)
(* PUT moves to a newer revision and never back, and a queue of people's   *)
(* answers, which it hands out again until it has an ack for each.  Every  *)
(* call to it may fail before or after it took effect.                     *)
(*                                                                         *)
(* Each worker is a process of its own with at most one cycle under way.   *)
(* Every await is a boundary: each step below is one transaction of the    *)
(* store or one call to Cc.  A crash, or the abort signal, ends a cycle    *)
(* anywhere and loses what it held in memory.                              *)
(*                                                                         *)
(* People go on meanwhile: every operation of SprintGates may happen       *)
(* between two awaits.  Of the set of answers, those of the actor Discord  *)
(* are Cc's queue; the others were formed at the phase screen, which sends *)
(* them to the store itself.                                               *)
(***************************************************************************)
EXTENDS SprintGates

CONSTANTS
    Workers,            \* processes that run the tick
    Discord,            \* the actor of an answer nobody has identified
    Screen,             \* who answers at the phase screen in the instance
    NoResult,           \* nothing to acknowledge yet
    MaxFaults,          \* bound on failed calls and crashes
    MaxMoves            \* bound on the team's moves to ordinary chat

VARIABLES
    workers,            \* the cycle each worker is in
    dialogues,          \* Cc: the projection it holds for each sprint
    acks,               \* Cc: the outcomes acknowledged for each answer
    moved,              \* the team is in ordinary chat (a connection record exists)
    faults, moves       \* what has been used of the two bounds

workerVars == <<sprints, tasks, gates, history, outbox, events, answers,
                workers, dialogues, acks, moved, faults, moves>>

(* at is the next await; todo the candidates still to look at; rows the    *)
(* outbox as read by pending(); batch the answers fetched and unhandled;   *)
(* excluded is what the tick read of moved; result what is to be written   *)
(* or acknowledged for row or answer.                                      *)
Stages == {"idle", "observing", "publishing", "failing", "delivering",
           "handling", "deciding", "acking"}
Pending == [sprintId: Sprints, row: OutboxRow]
Results == DeliveryStatuses \cup {"applied", "rejected", NoResult}
Cycle == [at: Stages, todo: SUBSET Sprints, rows: SUBSET Pending,
          batch: SUBSET Answer, excluded: BOOLEAN, result: Results]

Asleep == [at |-> "idle", todo |-> {}, rows |-> {}, batch |-> {}, excluded |-> FALSE,
           result |-> NoResult]

ASSUME WorkerAssumption ==
    /\ Discord \in Actors \ Leaders
    /\ Screen \subseteq Actors \ {Discord}
    /\ NoResult \notin DeliveryStatuses \cup {"applied", "rejected"}
    /\ NoMessage \notin Projection
    /\ {MaxFaults, MaxMoves} \subseteq Nat

WorkerInit ==
    /\ Init
    /\ workers = [w \in Workers |-> Asleep]
    /\ dialogues = [s \in Sprints |-> NoMessage]
    /\ acks = [e \in EventIds |-> {}]
    /\ moved = FALSE
    /\ faults = 0
    /\ moves = 0

-----------------------------------------------------------------------------
(* Steps of a cycle.                                                       *)

Goto(w, cycle) == workers' = [workers EXCEPT ![w] = cycle]

StoreUnchanged == UNCHANGED <<sprints, tasks, gates, history, outbox, events>>
CcUnchanged == UNCHANGED <<dialogues, answers, acks>>

Fault == faults < MaxFaults /\ faults' = faults + 1
NoFault == UNCHANGED faults

(* The tick reads who has moved, candidates() which sprints are open.      *)
Tick(w) ==
    /\ workers[w].at = "idle"
    /\ Goto(w, [Asleep EXCEPT !.at = "observing", !.excluded = moved,
                    !.todo = IF moved THEN {} ELSE {s \in Sprints : IsOpen(sprints[s])}])
    /\ StoreUnchanged /\ CcUnchanged /\ NoFault

(* One candidate is viewed.  A refusal (the sprint has closed since, or    *)
(* the instance's bound on revisions is reached) is only logged.           *)
Observe(w, s) ==
    /\ workers[w].at = "observing"
    /\ s \in workers[w].todo
    /\ \/ View(s)
       \/ ~(IsOpen(sprints[s]) /\ CanRevise(s)) /\ StoreUnchanged
    /\ Goto(w, [workers[w] EXCEPT !.todo = @ \ {s}])
    /\ CcUnchanged /\ NoFault

(* Mutant: a row whose delivery ended badly is not taken up again.         *)
PendingOnly == {s \in Sprints : outbox[s] # NoMessage /\ outbox[s].status = "pending"}

(* pending() reads the whole outbox, delivered rows included, so a revision *)
(* is published again in every cycle.                                      *)
ToPublish == {s \in Sprints : outbox[s] # NoMessage}

ReadOutbox(w) ==
    /\ workers[w].at = "observing"
    /\ workers[w].todo = {}
    /\ \E configured \in BOOLEAN :
        /\ IF configured THEN NoFault ELSE Fault
        /\ Goto(w, [workers[w] EXCEPT
                !.at = IF configured THEN "publishing" ELSE "failing",
                !.rows = IF workers[w].excluded THEN {}
                         ELSE {[sprintId |-> s, row |-> outbox[s]] : s \in ToPublish}])
    /\ StoreUnchanged /\ CcUnchanged

(* Mutant: the outbox row is updated whatever its revision.                *)
DeliverAny(p, status) ==
    outbox' = [outbox EXCEPT ![p.sprintId].status = status]

(* Mutant: the row read before the call is written back as a whole.        *)
DeliverOldRow(p, status) ==
    outbox' = [outbox EXCEPT ![p.sprintId] = [p.row EXCEPT !.status = status]]

(* delivery: only the revision that was sent is marked.                    *)
Deliver(p, status) ==
    outbox' = IF outbox[p.sprintId].payload.revision = p.row.payload.revision
              THEN [outbox EXCEPT ![p.sprintId].status = status]
              ELSE outbox

(* Without a usable client every row is marked, then the cycle fails.      *)
MarkFailed(w) ==
    /\ workers[w].at = "failing"
    /\ IF workers[w].rows = {}
       THEN Goto(w, Asleep) /\ UNCHANGED outbox
       ELSE \E p \in workers[w].rows :
            /\ Deliver(p, "failed")
            /\ Goto(w, [workers[w] EXCEPT !.rows = @ \ {p}])
    /\ UNCHANGED <<sprints, tasks, gates, history, events>>
    /\ CcUnchanged /\ NoFault

(* The row being published stays in rows until its delivery is recorded.   *)
Current(w) == CHOOSE p \in workers[w].rows : TRUE

(* Cc: a newer projection replaces the one it holds.                       *)
Newer(p) ==
    \/ dialogues[p.sprintId] = NoMessage
    \/ dialogues[p.sprintId].revision < p.row.payload.revision

Received(p) ==
    IF Newer(p) THEN [dialogues EXCEPT ![p.sprintId] = p.row.payload] ELSE dialogues

(* publish: the PUT fails before or after Cc took it, Cc still holds a     *)
(* newer revision, or Cc answers how far it got with this one.             *)
Publish(w) ==
    LET p == Current(w)
        answered(status) == Goto(w, [workers[w] EXCEPT !.at = "delivering", !.result = status])
    IN
    /\ workers[w].at = "publishing"
    /\ workers[w].rows # {}
    /\ \/ Fault /\ UNCHANGED dialogues /\ answered("unknown")
       \/ Fault /\ dialogues' = Received(p) /\ answered("unknown")
       \/ /\ NoFault
          /\ dialogues' = Received(p)
          /\ IF dialogues'[p.sprintId].revision # p.row.payload.revision
             THEN answered("unknown")
             ELSE \E status \in {"pending", "delivered"} : answered(status)
    /\ StoreUnchanged
    /\ UNCHANGED <<answers, acks>>

RecordDelivery(w) ==
    /\ workers[w].at = "delivering"
    /\ Deliver(Current(w), workers[w].result)
    /\ Goto(w, [workers[w] EXCEPT !.at = "publishing", !.rows = @ \ {Current(w)},
                                  !.result = NoResult])
    /\ UNCHANGED <<sprints, tasks, gates, history, events>>
    /\ CcUnchanged /\ NoFault

(* Cc's queue of answers, apart from those formed at the phase screen.     *)
OnDiscord == {a \in answers : a.actor = Discord}

(* Mutant: an answer that has its outcome is not taken up again.           *)
ToDecide == {a \in OnDiscord : Unanswered(a)}

(* events: the answers Cc still waits for. *)
ToAcknowledge == OnDiscord

FetchAnswers(w) ==
    /\ workers[w].at = "publishing"
    /\ workers[w].rows = {}
    /\ \/ NoFault /\ Goto(w, [workers[w] EXCEPT !.at = "handling", !.batch = ToAcknowledge])
       \/ Fault /\ Goto(w, Asleep)
    /\ StoreUnchanged /\ CcUnchanged

FinishCycle(w) ==
    /\ workers[w].at = "handling"
    /\ workers[w].batch = {}
    /\ Goto(w, Asleep)
    /\ StoreUnchanged /\ CcUnchanged /\ NoFault

Handled(w) == CHOOSE a \in workers[w].batch : TRUE

(* The first look at an answer: a moved team's is rejected unseen, one     *)
(* with an outcome (eventOutcome) is acknowledged with it.                 *)
LookUp(w) ==
    LET e == Handled(w).eventId IN
    /\ workers[w].at = "handling"
    /\ workers[w].batch # {}
    /\ Goto(w, CASE workers[w].excluded ->
                    [workers[w] EXCEPT !.at = "acking", !.result = "rejected"]
                 [] ~workers[w].excluded /\ events[e] # NoOutcome ->
                    [workers[w] EXCEPT !.at = "acking", !.result = events[e].outcome]
                 [] OTHER -> [workers[w] EXCEPT !.at = "deciding"])
    /\ StoreUnchanged /\ CcUnchanged /\ NoFault

(* Mutant: the outcome that is there already is overwritten.               *)
RejectOver(a) ==
    /\ Record(a, "rejected")
    /\ UNCHANGED <<sprints, tasks, gates, history, outbox>>

(* rejectExternal: nobody could be identified, or the answer names another *)
(* dialogue.  An outcome that is there already stands.                     *)
RejectExternal(a) ==
    /\ IF Unanswered(a) THEN Record(a, "rejected") ELSE UNCHANGED events
    /\ UNCHANGED <<sprints, tasks, gates, history, outbox>>

(* decide in the name of a person found by Cernere, whose leader row is    *)
(* required, or of a configured administrator, whose is not.  Another      *)
(* worker may have decided since the look-up: the same actor gets the      *)
(* recorded outcome, another one an error that ends the cycle.             *)
DecideAs(w, who) ==
    LET a == [Handled(w) EXCEPT !.actor = who] IN
    /\ workers[w].at = "deciding"
    /\ \/ /\ who = Discord
          /\ RejectExternal(a)
       \/ /\ who # Discord
          /\ \/ \E roleHeld \in BOOLEAN : RejectAnswer(a, roleHeld) \/ ApplyAnswer(a, roleHeld)
             \/ ~Unanswered(a) /\ StoreUnchanged
    /\ Goto(w, IF who # Discord /\ ~Unanswered(a) /\ events[a.eventId].actor # who
               THEN Asleep
               ELSE [workers[w] EXCEPT !.at = "acking", !.result = events'[a.eventId].outcome])
    /\ CcUnchanged /\ NoFault

(* ack: it fails before or after Cc took it and dropped the answer from    *)
(* its queue, which ends the cycle; or the next answer is handled.         *)
Ack(w) ==
    LET a == Handled(w)
        arrives == /\ acks' = [acks EXCEPT ![a.eventId] = @ \cup {workers[w].result}]
                   /\ answers' = answers \ {a}
    IN
    /\ workers[w].at = "acking"
    /\ \/ Fault /\ UNCHANGED <<acks, answers>> /\ Goto(w, Asleep)
       \/ Fault /\ arrives /\ Goto(w, Asleep)
       \/ /\ NoFault
          /\ arrives
          /\ Goto(w, [workers[w] EXCEPT !.at = "handling", !.batch = @ \ {a},
                                        !.result = NoResult])
    /\ StoreUnchanged
    /\ UNCHANGED dialogues

Crash(w) ==
    /\ workers[w].at # "idle"
    /\ Fault
    /\ Goto(w, Asleep)
    /\ StoreUnchanged /\ CcUnchanged

Step(w) ==
    \/ Tick(w) \/ ReadOutbox(w) \/ MarkFailed(w) \/ Publish(w) \/ RecordDelivery(w)
    \/ FetchAnswers(w) \/ FinishCycle(w) \/ LookUp(w) \/ Ack(w)
    \/ \E s \in Sprints : Observe(w, s)
    \/ \E who \in Actors : DecideAs(w, who)

-----------------------------------------------------------------------------
(* The surroundings.                                                       *)

(* Somebody answers on Discord, about the projection Cc shows.  The tasks  *)
(* named are whatever Cc sends: nothing ties them to the sprint.           *)
AnswerOnDiscord(e, s, action, taskIds) ==
    /\ dialogues[s] # NoMessage
    /\ ~dialogues[s].closed
    /\ dialogues[s].revision < MaxGateRevision[s]
    /\ events[e] = NoOutcome /\ acks[e] = {} /\ \A a \in answers : a.eventId # e
    /\ answers' = answers \cup
        {[eventId |-> e, sprintId |-> s, actor |-> Discord, action |-> action,
          expectedRevision |-> dialogues[s].revision,
          sourceFingerprint |-> dialogues[s].sourceFingerprint, taskIds |-> taskIds]}
    /\ StoreUnchanged
    /\ UNCHANGED <<dialogues, acks>>

(* A person answers at the phase screen, or such an answer is decided.     *)
AnswerOnScreen ==
    \/ \E e \in {x \in EventIds : acks[x] = {}}, s \in Sprints, who \in Screen,
          do \in Asked, ids \in SUBSET Tasks : FormAnswer(e, s, who, do, ids)
    \/ \E a \in answers \ OnDiscord, roleHeld \in BOOLEAN :
        \/ RejectAnswer(a, roleHeld) /\ answers' = answers \ {a}
        \/ ApplyAnswer(a, roleHeld) /\ UNCHANGED answers

(* What people do at the planning and phase screens, as in SprintGates.    *)
OnScreen ==
    /\ \/ ChangePlan
       \/ WorkOnTask
       \/ \E s \in Sprints, r \in Retrospectives, n \in Sprints \cup {NoSprint} :
            ChangeContext(s, r, n)
       \/ \E s \in Sprints : View(s) /\ UNCHANGED answers
       \/ AnswerOnScreen
    /\ UNCHANGED <<dialogues, acks>>

(* The team is connected to ordinary chat channels, or back. *)
MoveTeam ==
    /\ moves < MaxMoves
    /\ moved' = ~moved
    /\ moves' = moves + 1
    /\ StoreUnchanged /\ CcUnchanged /\ NoFault
    /\ UNCHANGED workers

Surroundings ==
    /\ \/ \E e \in EventIds, s \in Sprints, do \in Asked, ids \in SUBSET Tasks :
            AnswerOnDiscord(e, s, do, ids)
       \/ OnScreen
    /\ NoFault
    /\ UNCHANGED <<workers, moved, moves>>

WorkerNext ==
    \/ \E w \in Workers : (Step(w) \/ Crash(w)) /\ UNCHANGED <<moved, moves>>
    \/ Surroundings
    \/ MoveTeam

WorkerSpec == WorkerInit /\ [][WorkerNext]_workerVars

(* The timer of a live process keeps ticking, an await comes back (the     *)
(* client gives every call ten seconds), and failures are finitely many.   *)
FairWorkerSpec ==
    /\ WorkerSpec
    /\ \A w \in Workers : WF_workerVars(Step(w) /\ UNCHANGED <<moved, moves>>)

-----------------------------------------------------------------------------
(* Properties.                                                             *)

(* Cc never shows a state the gate has not been in: what it holds is no    *)
(* newer than the committed row, and equal to it at the same revision.     *)
NothingUncommitted ==
    \A s \in Sprints : dialogues[s] # NoMessage =>
        /\ outbox[s] # NoMessage
        /\ dialogues[s].revision <= outbox[s].payload.revision
        /\ dialogues[s].revision = outbox[s].payload.revision =>
            dialogues[s] = outbox[s].payload

(* And a row marked delivered is what Cc shows: no late record of an older *)
(* delivery hides that a newer revision has not been sent.                 *)
PublishedAsCommitted ==
    /\ NothingUncommitted
    /\ \A s \in Sprints :
        outbox[s] # NoMessage /\ outbox[s].status = "delivered" =>
            dialogues[s] = outbox[s].payload

(* "event outcome precedes ack": whatever Cc was told of an answer is the  *)
(* outcome recorded for it, through lost acks, retries and two workers.    *)
AckMatchesOutcome ==
    \A e \in EventIds : \A o \in acks[e] :
        events[e] # NoOutcome /\ events[e].outcome = o

(* "Durable applied/rejected outcome makes lost ACK retries harmless": a   *)
(* person whose answer took effect is not told that it was rejected.       *)
AppliedNeverAckedRejected ==
    \A e \in EventIds :
        events[e] # NoOutcome /\ events[e].outcome = "applied" => "rejected" \notin acks[e]

(* Every answer given on Discord is acknowledged in the end.               *)
EveryAnswerAcked ==
    \A e \in EventIds : (\E a \in OnDiscord : a.eventId = e) ~> acks[e] # {}

(* The latest state of every gate reaches Cc in the end, failures and      *)
(* crashes notwithstanding, unless the team has moved away.                *)
LatestPublished ==
    \A s \in Sprints :
        (outbox[s] # NoMessage /\ ~moved) ~>
            (moved \/ (outbox[s] # NoMessage /\ dialogues[s] = outbox[s].payload))
=============================================================================
