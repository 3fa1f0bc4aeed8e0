----------------------- MODULE SprintGateWorkerProofs -----------------------
(***************************************************************************)
(* What the conversation on Discord keeps, for any number of workers,      *)
(* crashes, lost calls and answers, and whatever people do at the screens  *)
(* meanwhile: the tables of the gates keep all they promise, Concordia     *)
(* shows nothing that was not committed, a row marked delivered is what it *)
(* shows, and it is told the recorded outcome.                             *)
(*                                                                         *)
(* First what a cycle may hold, then what its steps do to the store, then  *)
(* what they do to Concordia and to the cycles themselves.                 *)
(***************************************************************************)
EXTENDS SprintGateWorker, SprintGatesRefinementProofs

Outcomes == {"applied", "rejected"}

(* A cycle at an await holds what that await is about.                     *)
CycleFits(cycle) ==
    /\ cycle.at = "delivering" => cycle.rows # {} /\ cycle.result \in DeliveryStatuses
    /\ cycle.at \in {"deciding", "acking"} => cycle.batch # {}
    /\ cycle.at = "acking" => cycle.result \in Outcomes

WorkerTyped ==
    /\ workers \in [Workers -> Cycle]
    /\ \A w \in Workers : CycleFits(workers[w])
    /\ dialogues \in [Sprints -> Projection \cup {NoMessage}]
    /\ acks \in [EventIds -> SUBSET Outcomes]
    /\ moved \in BOOLEAN

(* What a cycle read of the outbox was committed: the row is still there,  *)
(* at the revision read with the payload read, or at a later revision.     *)
RowsSeen ==
    \A w \in Workers : \A p \in workers[w].rows :
        /\ outbox[p.sprintId] # NoMessage
        /\ \/ p.row.payload = outbox[p.sprintId].payload
           \/ p.row.payload.revision < outbox[p.sprintId].payload.revision

(* A cycle about to record a delivery has seen Concordia hold that         *)
(* revision, and Concordia never goes back.                                *)
DeliveredSeen ==
    \A w \in Workers :
        workers[w].at = "delivering" /\ workers[w].result = "delivered" =>
            LET p == Current(w) IN
            /\ dialogues[p.sprintId] # NoMessage
            /\ dialogues[p.sprintId].revision >= p.row.payload.revision

StoreInv == IInv /\ RecordsInv

(* The inductive invariant behind what Concordia shows.                    *)
ShownInv == StoreInv /\ WorkerTyped /\ RowsSeen /\ DeliveredSeen /\ PublishedAsCommitted

-----------------------------------------------------------------------------
(* What a cycle holds.                                                     *)

(* The element a cycle takes next, of a set it holds.                      *)
Any(set) == CHOOSE x \in set : TRUE

(* What a worker has in hand is one of what it holds.                      *)
LEMMA HeldInHand ==
    ASSUME NEW w \in Workers
    PROVE  /\ Current(w) = Any(workers[w].rows)
           /\ Handled(w) = Any(workers[w].batch)
           /\ workers[w].rows # {} => Current(w) \in workers[w].rows
           /\ workers[w].batch # {} => Handled(w) \in workers[w].batch
BY DEF Current, Handled, Any

(* A cycle that changes places with another changes no other worker's.     *)
LEMMA GotoMoves ==
    ASSUME NEW w \in Workers, NEW cycle, Goto(w, cycle), workers \in [Workers -> Cycle]
    PROVE  /\ workers'[w] = cycle
           /\ \A v \in Workers \ {w} : workers'[v] = workers[v]
           /\ cycle \in Cycle => workers' \in [Workers -> Cycle]
BY DEF Goto

(* What pending() reads is the committed row.                              *)
LEMMA ReadTyped ==
    ASSUME IInv, NEW s \in ToPublish
    PROVE  /\ s \in Sprints /\ outbox[s] # NoMessage /\ outbox[s] \in OutboxRow
           /\ [sprintId |-> s, row |-> outbox[s]] \in Pending
BY TypedNow DEF ToPublish, Pending

-----------------------------------------------------------------------------
(* What the steps of a cycle do to the store.                              *)

(* The outbox row of s is left, or a later revision takes its place.       *)
Onward(s) ==
    \/ outbox'[s] = outbox[s]
    \/ /\ outbox'[s] # NoMessage
       /\ outbox'[s].status = "pending"
       /\ outbox[s] # NoMessage =>
            outbox[s].payload.revision < outbox'[s].payload.revision

OutcomesKept == \A e \in EventIds : events[e] # NoOutcome => events'[e] = events[e]

(* What one transaction of the store does, whoever runs it.                *)
StoreStep ==
    /\ IInv' /\ RecordsInv'
    /\ \A s \in Sprints : Onward(s)
    /\ OutcomesKept

(* The messages of the sprints follow their records.                       *)
LEMMA RecordsOnward ==
    ASSUME StoreInv, RecordsMove, GatesAssumption
    PROVE  \A s \in Sprints : Onward(s)
PROOF
<1> SUFFICES ASSUME NEW s \in Sprints
             PROVE  Onward(s)
  OBVIOUS
<1>1. CASE Kept(s)
  BY <1>1 DEF Kept, Onward
<1>2. ASSUME NEW new \in PhaseState, NEW snapshot \in Snapshot,
             NEW action \in HistoryActions, NEW e \in EventIds \cup {NoEvent},
             Wrote(s, new, snapshot, action, e)
      PROVE  Onward(s)
  <2>1. Written(s, new, snapshot, action, e)
    BY <1>2, WroteRows DEF StoreInv
  <2>2. /\ outbox'[s] # NoMessage /\ outbox'[s].status = "pending"
        /\ outbox'[s].payload.revision = gates'[s].state.revision
        /\ gates'[s].state.revision = LastRevision(gates, s) + 1
        /\ LastRevision(gates, s) \in Nat
    BY <1>2, <2>1 DEF Wrote, Written, Message
  <2>3. outbox[s] # NoMessage =>
            outbox[s].payload.revision = LastRevision(gates, s)
    <3>1. OutboxCurrent
      BY DEF StoreInv, RecordsInv, RecordsComplete
    <3>2. outbox[s] # NoMessage =>
            /\ gates[s] # NoGate
            /\ outbox[s].payload =
                [phase |-> gates[s].state.phase, revision |-> gates[s].state.revision,
                 held |-> gates[s].state.held, closed |-> sprints[s].status = "closed",
                 sourceFingerprint |-> gates[s].state.sourceFingerprint]
      BY <3>1 DEF OutboxCurrent
    <3> QED
      BY <3>2 DEF LastRevision
  <2> QED
    BY <2>2, <2>3 DEF Onward
<1> QED
  BY <1>1, <1>2 DEF RecordsMove, WroteOne

(* What the store promises of a step of its own holds of the step a worker *)
(* takes on it.                                                            *)
LEMMA MovesTheStore ==
    ASSUME StoreInv, StepKeeps, RecordsMove, OutcomesKept, GatesAssumption
    PROVE  StoreStep
BY StepSuffices, RecordsKept, RecordsOnward DEF StoreInv, StoreStep

(* A step that leaves the tables of the gates alone.                       *)
LEMMA StoreStays ==
    ASSUME StoreInv, StoreUnchanged, answers' \subseteq Answer
    PROVE  StoreStep
PROOF
<1>1. IInv'
  BY DEF StoreInv, StoreUnchanged, IInv, Inv, Typed, TypeOK, PlanningTypeOK, AttachedToRow,
         GatesOnRows, ObservedHasEvidence, NextPlanLoadable, PhaseMatchesStatus,
         AtMostOneActive, OneActive, PeriodsDisjoint, OpenPeriodsDisjoint
<1>2. RecordsInv'
  BY DEF StoreInv, StoreUnchanged, RecordsInv, RecordsComplete, HistoryGapless,
         OutboxCurrent, AcceptedGoalPinned, ReworksInPlace, ActiveSprints, GatePhase
<1> QED
  BY <1>1, <1>2 DEF StoreStep, Onward, OutcomesKept, StoreUnchanged

(* A look at a gate, by the tick or by anybody.                            *)
LEMMA ViewInStore ==
    ASSUME StoreInv, NEW s \in Sprints, View(s), UNCHANGED answers,
           PlanningAssumption, GatesAssumption
    PROVE  StoreStep
PROOF
<1>1. StepKeeps
  BY ViewStep DEF StoreInv
<1>2. RecordsMove
  BY ViewWrites DEF StoreInv, RecordsMove, WroteOne, Wrote
<1>3. OutcomesKept
  BY DEF View, OutcomesKept
<1> QED
  BY <1>1, <1>2, <1>3, MovesTheStore

(* An outcome is recorded only where there is none.                        *)
LEMMA RecordKeepsOutcomes ==
    ASSUME IInv, NEW a \in Answer, NEW outcome, Unanswered(a), Record(a, outcome)
    PROVE  /\ OutcomesKept
           /\ events'[a.eventId] = [outcome |-> outcome, actor |-> a.actor]
BY TypedNow DEF Answer, Unanswered, Record, OutcomesKept

(* An answer that takes effect writes the records of one sprint, or of the *)
(* two of a hand-over.                                                     *)
LEMMA ApplyMovesRecords ==
    ASSUME StoreInv, NEW a \in Answer, NEW roleHeld \in BOOLEAN,
           ApplyAnswer(a, roleHeld), UNCHANGED answers,
           PlanningAssumption, GatesAssumption
    PROVE  RecordsMove
PROOF
<1>1. /\ Stands(a, roleHeld) /\ gates[a.sprintId] # NoGate
      /\ Record(a, "applied") /\ UNCHANGED <<tasks, answers>>
      /\ \/ ApplyHere(a, EffectOf(gates[a.sprintId].state, a))
         \/ ApplyNext(a, EffectOf(gates[a.sprintId].state, a))
  BY DEF ApplyAnswer
<1>2. CASE ApplyHere(a, EffectOf(gates[a.sprintId].state, a))
  <2>1. /\ \A o \in Sprints \ {a.sprintId} : Kept(o)
        /\ WroteOne(a.sprintId)
    BY <1>1, <1>2, HereWrites DEF WroteOne, Wrote, StoreInv
  <2> QED
    BY <2>1 DEF RecordsMove
<1>3. CASE ApplyNext(a, EffectOf(gates[a.sprintId].state, a))
  <2> DEFINE next == gates[a.sprintId].nextSprintId
  <2>1. /\ \A o \in Sprints \ {a.sprintId, next} : Kept(o)
        /\ WroteOne(a.sprintId) /\ WroteOne(next)
    BY <1>1, <1>3, NextWrites DEF WroteOne, Wrote, StoreInv
  <2> QED
    BY <2>1 DEF RecordsMove
<1> QED
  BY <1>1, <1>2, <1>3

(* A decision in somebody's name.                                          *)
LEMMA DecisionInStore ==
    ASSUME StoreInv, NEW a \in Answer, NEW roleHeld \in BOOLEAN,
           RejectAnswer(a, roleHeld) \/ ApplyAnswer(a, roleHeld), UNCHANGED answers,
           PlanningAssumption, GatesAssumption
    PROVE  /\ StoreStep
           /\ events'[a.eventId] # NoOutcome /\ events'[a.eventId].outcome \in Outcomes
PROOF
<1>1. IInv /\ a.actor \in Actors
  BY DEF StoreInv, Answer
<1>2. PICK outcome \in Outcomes : Unanswered(a) /\ Record(a, outcome)
  BY DEF RejectAnswer, ApplyAnswer, Outcomes
<1>3. /\ OutcomesKept
      /\ events'[a.eventId] = [outcome |-> outcome, actor |-> a.actor]
  BY <1>1, <1>2, RecordKeepsOutcomes
<1>4. events'[a.eventId] # NoOutcome /\ events'[a.eventId].outcome \in Outcomes
  <2>1. events'[a.eventId] \in StoredEvent
    BY <1>1, <1>3 DEF StoredEvent, Outcomes
  <2> QED
    BY <1>3, <2>1 DEF GatesAssumption
<1>5. StepKeeps
  BY <1>1, RejectAnswerStep, ApplyAnswerStep
<1>6. CASE RejectAnswer(a, roleHeld)
  <2>1. RecordsMove
    BY <1>6 DEF RejectAnswer, RecordsMove, Kept, GoalMove, About
  <2> QED
    BY <1>3, <1>4, <1>5, <2>1, MovesTheStore
<1>7. CASE ApplyAnswer(a, roleHeld)
  BY <1>1, <1>3, <1>4, <1>5, <1>7, ApplyMovesRecords, MovesTheStore
<1> QED
  BY <1>6, <1>7

(* Whatever is done at the screens, people may do at the gates alone.      *)
LEMMA OnScreenIsNext ==
    ASSUME OnScreen, WorkerAssumption
    PROVE  Next
PROOF
<1>1. Screen \subseteq Actors
  BY DEF WorkerAssumption
<1>2. AnswerOnScreen => Next
  BY <1>1 DEF AnswerOnScreen, Next, People
<1> QED
  BY <1>2 DEF OnScreen, Next, People

(* An outcome is written at the screens only by the decision of an answer  *)
(* that was formed there.                                                  *)
LEMMA OnScreenDecides ==
    ASSUME OnScreen
    PROVE  \/ UNCHANGED events
           \/ \E a \in answers \ OnDiscord, roleHeld \in BOOLEAN :
                RejectAnswer(a, roleHeld) \/ (ApplyAnswer(a, roleHeld) /\ UNCHANGED answers)
PROOF
<1>1. ChangePlan \/ WorkOnTask => UNCHANGED events
  BY DEF ChangePlan, WorkOnTask
<1>2. ASSUME NEW s \in Sprints, NEW r \in Retrospectives, NEW n \in Sprints \cup {NoSprint},
             ChangeContext(s, r, n)
      PROVE  UNCHANGED events
  BY <1>2 DEF ChangeContext
<1>3. ASSUME NEW s \in Sprints, View(s)
      PROVE  UNCHANGED events
  BY <1>3 DEF View
<1>4. ASSUME NEW e, NEW s, NEW who, NEW do, NEW ids, FormAnswer(e, s, who, do, ids)
      PROVE  UNCHANGED events
  BY <1>4 DEF FormAnswer
<1> QED
  BY <1>1, <1>2, <1>3, <1>4 DEF OnScreen, AnswerOnScreen

(* What people do at the screens while cycles are under way.               *)
LEMMA OnScreenInStore ==
    ASSUME StoreInv, OnScreen, PlanningAssumption, GatesAssumption, WorkerAssumption
    PROVE  StoreStep
PROOF
<1>1. IInv /\ RecordsInv /\ [Next]_vars
  BY OnScreenIsNext DEF StoreInv
<1>2. RecordsMove
  BY <1>1, StepRecords
<1>3. OutcomesKept
  <2>1. CASE UNCHANGED events
    BY <2>1 DEF OutcomesKept
  <2>2. ASSUME NEW a \in answers, NEW roleHeld \in BOOLEAN,
               RejectAnswer(a, roleHeld) \/ ApplyAnswer(a, roleHeld)
        PROVE  OutcomesKept
    <3>1. a \in Answer
      BY <1>1, TypedNow
    <3>2. PICK outcome : Unanswered(a) /\ Record(a, outcome)
      BY <2>2 DEF RejectAnswer, ApplyAnswer
    <3> QED
      BY <1>1, <3>1, <3>2, RecordKeepsOutcomes
  <2> QED
    BY <2>1, <2>2, OnScreenDecides
<1> QED
  BY <1>1, <1>2, <1>3, NextKeeps, RecordsKept, RecordsOnward DEF StoreStep

(* An answer nobody may give is rejected, unless its outcome is there.     *)
LEMMA ExternalInStore ==
    ASSUME StoreInv, NEW a \in Answer, RejectExternal(a), UNCHANGED answers,
           GatesAssumption
    PROVE  /\ StoreStep
           /\ events'[a.eventId] # NoOutcome /\ events'[a.eventId].outcome \in Outcomes
PROOF
<1>1. /\ IInv /\ a.actor \in Actors /\ a.eventId \in EventIds
      /\ events \in [EventIds -> StoredEvent \cup {NoOutcome}]
  BY TypedNow DEF StoreInv, Answer
<1>2. CASE Unanswered(a)
  <2>1. Record(a, "rejected") /\ UNCHANGED <<sprints, tasks, gates, history, outbox>>
    BY <1>2 DEF RejectExternal
  <2>2. /\ OutcomesKept
        /\ events'[a.eventId] = [outcome |-> "rejected", actor |-> a.actor]
    BY <1>1, <1>2, <2>1, RecordKeepsOutcomes
  <2>3. events'[a.eventId] # NoOutcome /\ events'[a.eventId].outcome \in Outcomes
    <3>1. events'[a.eventId] \in StoredEvent
      BY <1>1, <2>2 DEF StoredEvent
    <3> QED
      BY <2>2, <3>1 DEF GatesAssumption, Outcomes
  <2>4. events' \in [EventIds -> StoredEvent \cup {NoOutcome}]
    BY <1>1, <2>1 DEF Record, StoredEvent
  <2>5. IInv'
    BY <1>1, <2>1, <2>4
       DEF IInv, Inv, Typed, TypeOK, PlanningTypeOK, AttachedToRow,
           GatesOnRows, ObservedHasEvidence, NextPlanLoadable, PhaseMatchesStatus,
           AtMostOneActive, OneActive, PeriodsDisjoint, OpenPeriodsDisjoint
  <2>6. RecordsMove
    BY <2>1 DEF RecordsMove, Kept, GoalMove, About
  <2> QED
    BY <1>1, <2>2, <2>3, <2>5, <2>6, RecordsKept, RecordsOnward DEF StoreStep, StoreInv
<1>3. CASE ~Unanswered(a)
  <2>1. StoreUnchanged /\ answers' \subseteq Answer
    BY <1>1, <1>3, TypedNow DEF RejectExternal, StoreUnchanged
  <2>2. events'[a.eventId] \in StoredEvent /\ events'[a.eventId] # NoOutcome
    BY <1>1, <1>3, <2>1 DEF StoreUnchanged, Unanswered
  <2> QED
    BY <2>1, <2>2, StoreStays DEF StoredEvent, Outcomes
<1> QED
  BY <1>2, <1>3

(* delivery marks a row; the message it carries, and everything else, stay. *)
LEMMA DeliverInStore ==
    ASSUME StoreInv, NEW p \in Pending, outbox[p.sprintId] # NoMessage,
           NEW status \in DeliveryStatuses, Deliver(p, status),
           UNCHANGED <<sprints, tasks, gates, history, events, answers>>,
           GatesAssumption
    PROVE  /\ IInv' /\ RecordsInv' /\ OutcomesKept
           /\ \A s \in Sprints :
                /\ outbox'[s] = NoMessage <=> outbox[s] = NoMessage
                /\ outbox[s] # NoMessage =>
                    /\ outbox'[s].payload = outbox[s].payload
                    /\ \/ outbox'[s].status = outbox[s].status
                       \/ /\ s = p.sprintId /\ outbox'[s].status = status
                          /\ outbox[s].payload.revision = p.row.payload.revision
PROOF
<1> DEFINE o == p.sprintId
<1>1. /\ o \in Sprints /\ outbox \in [Sprints -> OutboxRow \cup {NoMessage}]
      /\ outbox[o] \in OutboxRow
  BY TypedNow DEF StoreInv, Pending
<1> DEFINE row == [outbox[o] EXCEPT !.status = status]
<1>2. row \in OutboxRow /\ row.payload = outbox[o].payload /\ row.status = status
  BY <1>1 DEF OutboxRow
<1>3. row # NoMessage
  BY <1>2 DEF GatesAssumption
<1>4. \/ outbox' = outbox
      \/ /\ outbox[o].payload.revision = p.row.payload.revision
         /\ outbox' = [outbox EXCEPT ![o] = row]
  BY DEF Deliver
<1> HIDE DEF o, row
<1>5. \A s \in Sprints :
        /\ outbox'[s] \in OutboxRow \cup {NoMessage}
        /\ outbox'[s] = NoMessage <=> outbox[s] = NoMessage
        /\ outbox[s] # NoMessage =>
            /\ outbox'[s].payload = outbox[s].payload
            /\ \/ outbox'[s].status = outbox[s].status
               \/ /\ s = o /\ outbox'[s].status = status
                  /\ outbox[s].payload.revision = p.row.payload.revision
  BY <1>1, <1>2, <1>3, <1>4
<1>6. outbox' \in [Sprints -> OutboxRow \cup {NoMessage}]
  BY <1>1, <1>2, <1>4
<1>7. IInv'
  BY <1>6 DEF StoreInv, IInv, Inv, Typed, TypeOK, PlanningTypeOK, AttachedToRow,
         GatesOnRows, ObservedHasEvidence, NextPlanLoadable, PhaseMatchesStatus,
         AtMostOneActive, OneActive, PeriodsDisjoint, OpenPeriodsDisjoint
<1>8. RecordsInv'
  <2>1. OutboxCurrent'
    BY <1>5 DEF StoreInv, RecordsInv, RecordsComplete, OutboxCurrent
  <2>2. HistoryGapless' /\ AcceptedGoalPinned' /\ ReworksInPlace'
    BY DEF StoreInv, RecordsInv, RecordsComplete, HistoryGapless,
           AcceptedGoalPinned, ReworksInPlace, ActiveSprints, GatePhase
  <2> QED
    BY <2>1, <2>2 DEF RecordsInv, RecordsComplete
<1> QED
  BY <1>5, <1>7, <1>8 DEF OutcomesKept, o

-----------------------------------------------------------------------------
(* What a step may do to the cycles and to what Concordia shows.           *)

(* The committed message of a sprint, and a revision of it, in numbers.    *)
LEMMA Revisions ==
    ASSUME ShownInv
    PROVE  /\ \A s \in Sprints : outbox[s] # NoMessage =>
                outbox[s] \in OutboxRow /\ outbox[s].payload \in Projection
                /\ outbox[s].payload.revision \in Nat
           /\ \A s \in Sprints : dialogues[s] # NoMessage =>
                dialogues[s] \in Projection /\ dialogues[s].revision \in Nat
           /\ \A w \in Workers : \A p \in workers[w].rows :
                /\ p \in Pending /\ p.sprintId \in Sprints
                /\ p.row.payload \in Projection /\ p.row.payload.revision \in Nat
PROOF
<1>1. /\ \A s \in Sprints : outbox[s] # NoMessage => outbox[s] \in OutboxRow
      /\ \A s \in Sprints : dialogues[s] # NoMessage => dialogues[s] \in Projection
  BY TypedNow DEF ShownInv, StoreInv, WorkerTyped
<1>2. \A w \in Workers : workers[w].rows \subseteq Pending
  BY DEF ShownInv, WorkerTyped, Cycle
<1> QED
  BY <1>1, <1>2 DEF OutboxRow, Projection, Pending

(* A step that shows Concordia nothing, and takes no delivery in hand.     *)
LEMMA QuietStep ==
    ASSUME ShownInv, StoreStep, WorkerTyped', UNCHANGED dialogues,
           \A v \in Workers : /\ workers'[v].rows \subseteq workers[v].rows
                              /\ \/ workers'[v].at # "delivering"
                                 \/ workers'[v] = workers[v]
    PROVE  ShownInv'
PROOF
<1>1. \A s \in Sprints : Onward(s)
  BY DEF StoreStep
<1>2. RowsSeen'
  <2> SUFFICES ASSUME NEW v \in Workers, NEW p \in workers'[v].rows
               PROVE  /\ outbox'[p.sprintId] # NoMessage
                      /\ \/ p.row.payload = outbox'[p.sprintId].payload
                         \/ p.row.payload.revision < outbox'[p.sprintId].payload.revision
    BY DEF RowsSeen
  <2>1. /\ p \in workers[v].rows /\ p.sprintId \in Sprints
        /\ p.row.payload.revision \in Nat
        /\ outbox[p.sprintId] # NoMessage
        /\ outbox[p.sprintId].payload.revision \in Nat
        /\ \/ p.row.payload = outbox[p.sprintId].payload
           \/ p.row.payload.revision < outbox[p.sprintId].payload.revision
    BY Revisions DEF ShownInv, RowsSeen
  <2>2. Onward(p.sprintId)
    BY <1>1, <2>1
  <2>3. CASE outbox'[p.sprintId] = outbox[p.sprintId]
    BY <2>1, <2>3
  <2>4. CASE outbox[p.sprintId].payload.revision < outbox'[p.sprintId].payload.revision
    <3>1. outbox'[p.sprintId] # NoMessage
      BY <2>1, <2>2 DEF Onward
    <3>2. outbox'[p.sprintId].payload.revision \in Nat
      BY <2>1, <3>1 DEF StoreStep, IInv, Inv, Typed, TypeOK, OutboxRow, Projection
    <3> QED
      BY <2>1, <2>4, <3>1, <3>2
  <2> QED
    BY <2>1, <2>2, <2>3, <2>4 DEF Onward
<1>3. DeliveredSeen'
  <2> SUFFICES ASSUME NEW v \in Workers, workers'[v].at = "delivering",
                      workers'[v].result = "delivered"
               PROVE  LET p == Any(workers'[v].rows) IN
                      /\ dialogues'[p.sprintId] # NoMessage
                      /\ dialogues'[p.sprintId].revision >= p.row.payload.revision
    BY DEF DeliveredSeen, Current, Any
  <2>1. workers'[v] = workers[v]
    OBVIOUS
  <2> QED
    BY <2>1, HeldInHand DEF ShownInv, DeliveredSeen
<1>4. PublishedAsCommitted'
  <2> SUFFICES ASSUME NEW s \in Sprints
               PROVE  /\ dialogues'[s] # NoMessage =>
                            /\ outbox'[s] # NoMessage
                            /\ dialogues'[s].revision <= outbox'[s].payload.revision
                            /\ dialogues'[s].revision = outbox'[s].payload.revision =>
                                    dialogues'[s] = outbox'[s].payload
                      /\ outbox'[s] # NoMessage /\ outbox'[s].status = "delivered" =>
                            dialogues'[s] = outbox'[s].payload
    BY DEF PublishedAsCommitted, NothingUncommitted
  <2>1. /\ dialogues[s] # NoMessage =>
            /\ outbox[s] # NoMessage
            /\ dialogues[s].revision <= outbox[s].payload.revision
            /\ dialogues[s].revision = outbox[s].payload.revision =>
                    dialogues[s] = outbox[s].payload
        /\ outbox[s] # NoMessage /\ outbox[s].status = "delivered" =>
            dialogues[s] = outbox[s].payload
    BY DEF ShownInv, PublishedAsCommitted, NothingUncommitted
  <2>2. Onward(s)
    BY <1>1
  <2>3. CASE outbox'[s] = outbox[s]
    BY <2>1, <2>3
  <2>4. CASE outbox'[s] # outbox[s]
    <3>1. /\ outbox'[s] # NoMessage /\ outbox'[s].status = "pending"
          /\ outbox[s] # NoMessage =>
                outbox[s].payload.revision < outbox'[s].payload.revision
      BY <2>2, <2>4 DEF Onward
    <3>2. outbox'[s].payload.revision \in Nat
      BY <3>1 DEF StoreStep, IInv, Inv, Typed, TypeOK, OutboxRow, Projection
    <3>3. /\ outbox[s] # NoMessage => outbox[s].payload.revision \in Nat
          /\ dialogues[s] # NoMessage => dialogues[s].revision \in Nat
      BY Revisions
    <3> QED
      BY <2>1, <3>1, <3>2, <3>3
  <2> QED
    BY <2>3, <2>4
<1> QED
  BY <1>2, <1>3, <1>4 DEF ShownInv, StoreInv, StoreStep

(* The cycle of one worker goes on; the others stay where they are.        *)
LEMMA CycleGoesOn ==
    ASSUME ShownInv, NEW w \in Workers, NEW cycle \in Cycle, CycleFits(cycle),
           Goto(w, cycle), UNCHANGED moved,
           dialogues' \in [Sprints -> Projection \cup {NoMessage}],
           acks' \in [EventIds -> SUBSET Outcomes]
    PROVE  /\ WorkerTyped'
           /\ workers'[w] = cycle
           /\ \A v \in Workers \ {w} : workers'[v] = workers[v]
PROOF
<1>1. /\ workers'[w] = cycle
      /\ \A v \in Workers \ {w} : workers'[v] = workers[v]
      /\ workers' \in [Workers -> Cycle]
  BY GotoMoves DEF ShownInv, WorkerTyped
<1>2. \A v \in Workers : CycleFits(workers'[v])
  BY <1>1 DEF ShownInv, WorkerTyped
<1>3. WorkerTyped'
  BY <1>1, <1>2 DEF ShownInv, WorkerTyped, CycleFits
<1> QED
  BY <1>1, <1>3

(* Most steps of a cycle.                                                  *)
LEMMA QuietCycle ==
    ASSUME ShownInv, StoreStep, NEW w \in Workers, NEW cycle \in Cycle,
           CycleFits(cycle), Goto(w, cycle), cycle.at # "delivering",
           cycle.rows \subseteq workers[w].rows,
           UNCHANGED <<dialogues, moved>>, acks' \in [EventIds -> SUBSET Outcomes]
    PROVE  ShownInv'
PROOF
<1>1. /\ WorkerTyped'
      /\ workers'[w] = cycle
      /\ \A v \in Workers \ {w} : workers'[v] = workers[v]
  BY CycleGoesOn DEF ShownInv, WorkerTyped
<1> QED
  BY <1>1, QuietStep

-----------------------------------------------------------------------------
(* The steps of a cycle, one by one.                                       *)

(* The record of a cycle, from the invariant.                              *)
LEMMA CycleNow ==
    ASSUME ShownInv, NEW w \in Workers
    PROVE  /\ workers[w] \in Cycle /\ CycleFits(workers[w])
           /\ workers[w].batch \subseteq Answer
           /\ moved \in BOOLEAN /\ answers \subseteq Answer
           /\ acks \in [EventIds -> SUBSET Outcomes]
           /\ dialogues \in [Sprints -> Projection \cup {NoMessage}]
BY TypedNow DEF ShownInv, StoreInv, WorkerTyped, Cycle

(* A cycle that ends is asleep.                                            *)
LEMMA AsleepFits == Asleep \in Cycle /\ CycleFits(Asleep)
BY DEF Asleep, Cycle, CycleFits, Stages, Results

(* Ends, and crashes: what a cycle held is lost.                           *)
LEMMA EndsShown ==
    ASSUME ShownInv, NEW w \in Workers, Goto(w, Asleep), StoreUnchanged, CcUnchanged,
           UNCHANGED moved
    PROVE  ShownInv'
PROOF
<1>1. StoreStep
  BY CycleNow, StoreStays DEF ShownInv, CcUnchanged
<1>2. Asleep.at # "delivering" /\ Asleep.rows \subseteq workers[w].rows
  BY DEF Asleep
<1> QED
  BY <1>1, <1>2, AsleepFits, CycleNow, QuietCycle DEF CcUnchanged

(* A worker wakes and lists the open sprints; nothing is shown.            *)
LEMMA TickShown ==
    ASSUME ShownInv, NEW w \in Workers, Tick(w), UNCHANGED moved
    PROVE  ShownInv'
PROOF
<1> DEFINE open == IF moved THEN {} ELSE {s \in Sprints : IsOpen(sprints[s])}
           cycle == [Asleep EXCEPT !.at = "observing", !.excluded = moved, !.todo = open]
<1>1. Goto(w, cycle) /\ StoreUnchanged /\ CcUnchanged
  BY DEF Tick
<1>2. open \in SUBSET Sprints /\ moved \in BOOLEAN
  BY CycleNow
<1> HIDE DEF open
<1>3. /\ cycle \in Cycle /\ CycleFits(cycle) /\ cycle.at # "delivering"
      /\ cycle.rows \subseteq workers[w].rows
  BY <1>2 DEF Asleep, Cycle, CycleFits, Stages, Results
<1> HIDE DEF cycle
<1>4. StoreStep
  BY <1>1, CycleNow, StoreStays DEF ShownInv, CcUnchanged
<1> QED
  BY <1>1, <1>3, <1>4, CycleNow, QuietCycle DEF CcUnchanged

(* A worker looks at a sprint: the gate may be written, and is written with*)
(* its message.                                                            *)
LEMMA ObserveShown ==
    ASSUME ShownInv, NEW w \in Workers, NEW s \in Sprints, Observe(w, s),
           UNCHANGED moved, PlanningAssumption, GatesAssumption
    PROVE  ShownInv'
PROOF
<1> DEFINE cycle == [workers[w] EXCEPT !.todo = @ \ {s}]
<1>1. Goto(w, cycle) /\ CcUnchanged /\ (View(s) \/ StoreUnchanged)
  BY DEF Observe
<1>2. /\ cycle \in Cycle /\ CycleFits(cycle) /\ cycle.at # "delivering"
      /\ cycle.rows \subseteq workers[w].rows
  BY CycleNow DEF Observe, Cycle, CycleFits
<1>3. StoreStep
  BY <1>1, CycleNow, StoreStays, ViewInStore DEF ShownInv, CcUnchanged
<1> HIDE DEF cycle
<1> QED
  BY <1>1, <1>2, <1>3, CycleNow, QuietCycle DEF CcUnchanged

(* The rows read are the committed ones.                                   *)
LEMMA ReadOutboxShown ==
    ASSUME ShownInv, NEW w \in Workers, ReadOutbox(w), UNCHANGED moved
    PROVE  ShownInv'
PROOF
<1> DEFINE read == IF workers[w].excluded THEN {}
                   ELSE {[sprintId |-> s, row |-> outbox[s]] : s \in ToPublish}
<1>1. StoreUnchanged /\ CcUnchanged
  BY DEF ReadOutbox
<1>2. PICK at \in {"publishing", "failing"} :
        Goto(w, [workers[w] EXCEPT !.at = at, !.rows = read])
  BY DEF ReadOutbox
<1> DEFINE cycle == [workers[w] EXCEPT !.at = at, !.rows = read]
<1>3. \A p \in read : /\ p \in Pending
                      /\ outbox[p.sprintId] # NoMessage
                      /\ p.row.payload = outbox[p.sprintId].payload
  BY ReadTyped DEF ShownInv, StoreInv
<1> HIDE DEF read
<1>4. read \in SUBSET Pending
  BY <1>3
<1>5. /\ cycle \in Cycle /\ CycleFits(cycle) /\ cycle.at # "delivering"
      /\ cycle.rows = read
  BY <1>4, CycleNow DEF Cycle, CycleFits, Stages
<1> HIDE DEF cycle
<1>6. /\ WorkerTyped' /\ workers'[w] = cycle
      /\ \A v \in Workers \ {w} : workers'[v] = workers[v]
  BY <1>1, <1>2, <1>5, CycleGoesOn, CycleNow DEF CcUnchanged, cycle
<1>7. StoreStep
  BY <1>1, CycleNow, StoreStays DEF ShownInv, CcUnchanged
<1>8. outbox' = outbox /\ dialogues' = dialogues
  BY <1>1 DEF StoreUnchanged, CcUnchanged
<1>9. RowsSeen'
  BY <1>3, <1>5, <1>6, <1>8 DEF ShownInv, RowsSeen
<1>10. DeliveredSeen'
  <2> SUFFICES ASSUME NEW v \in Workers, workers'[v].at = "delivering",
                      workers'[v].result = "delivered"
               PROVE  LET p == Any(workers'[v].rows) IN
                      /\ dialogues'[p.sprintId] # NoMessage
                      /\ dialogues'[p.sprintId].revision >= p.row.payload.revision
    BY DEF DeliveredSeen, Current, Any
  <2>1. workers'[v] = workers[v]
    BY <1>5, <1>6
  <2> QED
    BY <1>8, <2>1, HeldInHand DEF ShownInv, DeliveredSeen
<1>11. PublishedAsCommitted'
  BY <1>8 DEF ShownInv, PublishedAsCommitted, NothingUncommitted
<1> QED
  BY <1>6, <1>7, <1>9, <1>10, <1>11 DEF ShownInv, StoreInv, StoreStep

(* The answers to acknowledge are fetched; nothing is shown.               *)
LEMMA FetchAnswersShown ==
    ASSUME ShownInv, NEW w \in Workers, FetchAnswers(w), UNCHANGED moved
    PROVE  ShownInv'
PROOF
<1> DEFINE cycle == [workers[w] EXCEPT !.at = "handling", !.batch = ToAcknowledge]
<1>1. /\ StoreUnchanged /\ CcUnchanged
      /\ Goto(w, cycle) \/ Goto(w, Asleep)
  BY DEF FetchAnswers
<1>2. /\ cycle \in Cycle /\ CycleFits(cycle) /\ cycle.at # "delivering"
      /\ cycle.rows \subseteq workers[w].rows
  BY CycleNow DEF Cycle, CycleFits, Stages, ToAcknowledge, OnDiscord
<1>3. StoreStep
  BY <1>1, CycleNow, StoreStays DEF ShownInv, CcUnchanged
<1> HIDE DEF cycle
<1> QED
  BY <1>1, <1>2, <1>3, CycleNow, QuietCycle, EndsShown DEF CcUnchanged

(* The outcome of an answer is read; nothing is shown.                     *)
LEMMA LookUpShown ==
    ASSUME ShownInv, NEW w \in Workers, LookUp(w), UNCHANGED moved, GatesAssumption
    PROVE  ShownInv'
PROOF
<1> DEFINE e == Handled(w).eventId
<1>1. StoreUnchanged /\ CcUnchanged
  BY DEF LookUp
<1>2. /\ events \in [EventIds -> StoredEvent \cup {NoOutcome}]
      /\ e \in EventIds /\ workers[w].batch # {}
  <2>1. workers[w].batch # {} /\ Handled(w) \in Answer
    BY HeldInHand, CycleNow DEF LookUp
  <2> QED
    BY <2>1, TypedNow DEF ShownInv, StoreInv, Answer
<1>3. PICK cycle :
        /\ Goto(w, cycle)
        /\ \/ \E result \in Outcomes :
                cycle = [workers[w] EXCEPT !.at = "acking", !.result = result]
           \/ cycle = [workers[w] EXCEPT !.at = "deciding"]
  <2>1. events[e] # NoOutcome => events[e].outcome \in Outcomes
    BY <1>2 DEF StoredEvent, Outcomes
  <2> QED
    BY <2>1, CycleNow DEF LookUp, Outcomes, Cycle
<1>4. /\ cycle \in Cycle /\ CycleFits(cycle) /\ cycle.at # "delivering"
      /\ cycle.rows \subseteq workers[w].rows
  BY <1>2, <1>3, CycleNow DEF Cycle, CycleFits, Stages, Results, Outcomes
<1>5. StoreStep
  BY <1>1, CycleNow, StoreStays DEF ShownInv, CcUnchanged
<1> QED
  BY <1>1, <1>3, <1>4, <1>5, CycleNow, QuietCycle DEF CcUnchanged

(* What deciding an answer in the name of somebody leaves behind, whoever  *)
(* it is and whether another worker decided meanwhile.                     *)
LEMMA DecideInStore ==
    ASSUME ShownInv, NEW w \in Workers, NEW who \in Actors, DecideAs(w, who),
           PlanningAssumption, GatesAssumption
    PROVE  LET e == Handled(w).eventId IN
           /\ StoreStep
           /\ e \in EventIds
           /\ events'[e] # NoOutcome /\ events'[e].outcome \in Outcomes
PROOF
<1> DEFINE a == [Handled(w) EXCEPT !.actor = who]
<1>1. StoreInv /\ UNCHANGED answers /\ workers[w].batch # {}
  BY CycleNow DEF ShownInv, DecideAs, CcUnchanged, CycleFits
<1>2. /\ Handled(w) \in Answer /\ a \in Answer
      /\ a.eventId = Handled(w).eventId /\ a.eventId \in EventIds
  BY <1>1, HeldInHand, CycleNow DEF Answer
<1>3. \/ RejectExternal(a)
      \/ \E roleHeld \in BOOLEAN : RejectAnswer(a, roleHeld) \/ ApplyAnswer(a, roleHeld)
      \/ ~Unanswered(a) /\ StoreUnchanged
  BY DEF DecideAs
<1> HIDE DEF a
<1>4. CASE RejectExternal(a)
  BY <1>1, <1>2, <1>4, ExternalInStore
<1>5. ASSUME NEW roleHeld \in BOOLEAN, RejectAnswer(a, roleHeld) \/ ApplyAnswer(a, roleHeld)
      PROVE  /\ StoreStep
             /\ events'[a.eventId] # NoOutcome /\ events'[a.eventId].outcome \in Outcomes
  BY <1>1, <1>2, <1>5, DecisionInStore
<1>6. CASE ~Unanswered(a) /\ StoreUnchanged
  <2>1. StoreStep
    BY <1>1, <1>6, TypedNow, StoreStays DEF StoreInv
  <2>2. events'[a.eventId] # NoOutcome /\ events'[a.eventId] \in StoredEvent
    BY <1>1, <1>2, <1>6, TypedNow DEF StoreInv, StoreUnchanged, Unanswered
  <2> QED
    BY <1>2, <2>1, <2>2 DEF StoredEvent, Outcomes
<1> QED
  BY <1>2, <1>3, <1>4, <1>5, <1>6

(* It goes on to the acknowledgement of that outcome, or ends.             *)
LEMMA DecideAsShown ==
    ASSUME ShownInv, NEW w \in Workers, NEW who \in Actors, DecideAs(w, who),
           UNCHANGED moved, PlanningAssumption, GatesAssumption
    PROVE  ShownInv'
PROOF
<1> DEFINE a == [Handled(w) EXCEPT !.actor = who]
           result == events'[Handled(w).eventId].outcome
           cycle == [workers[w] EXCEPT !.at = "acking", !.result = result]
<1>1. /\ CcUnchanged /\ workers[w].at = "deciding"
      /\ workers[w].batch # {} /\ Handled(w) \in Answer
  BY HeldInHand, CycleNow DEF DecideAs, CycleFits
<1>2. a.eventId = Handled(w).eventId
  BY <1>1 DEF Answer
<1>3. Goto(w, Asleep) \/ Goto(w, cycle)
  BY <1>2 DEF DecideAs
<1>4. StoreStep /\ result \in Outcomes
  BY DecideInStore
<1> HIDE DEF result
<1>5. /\ cycle \in Cycle /\ CycleFits(cycle) /\ cycle.at # "delivering"
      /\ cycle.rows \subseteq workers[w].rows
  <2>1. workers[w] \in Cycle /\ result \in Results
    BY <1>4, CycleNow DEF Results, Outcomes
  <2>2. /\ cycle \in Cycle /\ cycle.at = "acking" /\ cycle.result = result
        /\ cycle.rows = workers[w].rows /\ cycle.batch = workers[w].batch
    BY <2>1 DEF Cycle, Stages
  <2> HIDE DEF cycle
  <2> QED
    BY <1>1, <1>4, <2>2 DEF CycleFits
<1>6. Asleep.at # "delivering" /\ Asleep.rows \subseteq workers[w].rows
  BY DEF Asleep
<1> HIDE DEF cycle
<1> QED
  BY <1>1, <1>3, <1>4, <1>5, <1>6, AsleepFits, CycleNow, QuietCycle DEF CcUnchanged

(* An acknowledgement, arrived or not, changes no table.                   *)
LEMMA AckShown ==
    ASSUME ShownInv, NEW w \in Workers, Ack(w), UNCHANGED moved
    PROVE  ShownInv'
PROOF
<1> DEFINE a == Handled(w)
           cycle == [workers[w] EXCEPT !.at = "handling", !.batch = @ \ {a},
                                       !.result = NoResult]
<1>1. /\ StoreUnchanged /\ UNCHANGED dialogues
      /\ workers[w].at = "acking"
      /\ Goto(w, Asleep) \/ Goto(w, cycle)
      /\ answers' \subseteq answers
      /\ \/ acks' = acks
         \/ acks' = [acks EXCEPT ![a.eventId] = @ \cup {workers[w].result}]
  BY DEF Ack
<1>2. workers[w].result \in Outcomes
  BY <1>1, CycleNow DEF CycleFits
<1>3. acks' \in [EventIds -> SUBSET Outcomes]
  BY <1>1, <1>2, CycleNow
<1>4. /\ cycle \in Cycle /\ CycleFits(cycle) /\ cycle.at # "delivering"
      /\ cycle.rows \subseteq workers[w].rows
  BY CycleNow DEF Cycle, CycleFits, Stages, Results
<1>5. Asleep.at # "delivering" /\ Asleep.rows \subseteq workers[w].rows
  BY DEF Asleep
<1>6. StoreStep
  BY <1>1, CycleNow, StoreStays DEF ShownInv
<1> HIDE DEF cycle
<1> QED
  BY <1>1, <1>3, <1>4, <1>5, <1>6, AsleepFits, QuietCycle

(* The delivery of a row is recorded: what is marked delivered is what     *)
(* Concordia shows.                                                        *)
LEMMA DeliverShown ==
    ASSUME ShownInv, NEW w \in Workers, NEW p \in workers[w].rows,
           NEW status \in DeliveryStatuses, Deliver(p, status),
           status = "delivered" =>
                /\ dialogues[p.sprintId] # NoMessage
                /\ dialogues[p.sprintId].revision >= p.row.payload.revision,
           UNCHANGED <<sprints, tasks, gates, history, events>>, CcUnchanged,
           UNCHANGED moved, NEW cycle \in Cycle, CycleFits(cycle), Goto(w, cycle),
           cycle.at # "delivering", cycle.rows \subseteq workers[w].rows,
           GatesAssumption
    PROVE  ShownInv'
PROOF
<1>1. /\ StoreInv /\ p \in Pending /\ p.sprintId \in Sprints
      /\ outbox[p.sprintId] # NoMessage
      /\ p.row.payload.revision \in Nat
      /\ dialogues' = dialogues /\ answers' = answers
  BY Revisions DEF ShownInv, RowsSeen, CcUnchanged
<1>2. /\ IInv' /\ RecordsInv'
      /\ \A s \in Sprints :
            /\ outbox'[s] = NoMessage <=> outbox[s] = NoMessage
            /\ outbox[s] # NoMessage =>
                /\ outbox'[s].payload = outbox[s].payload
                /\ \/ outbox'[s].status = outbox[s].status
                   \/ /\ s = p.sprintId /\ outbox'[s].status = status
                      /\ outbox[s].payload.revision = p.row.payload.revision
  BY <1>1, DeliverInStore
<1>3. /\ WorkerTyped' /\ workers'[w] = cycle
      /\ \A v \in Workers \ {w} : workers'[v] = workers[v]
  BY CycleGoesOn, CycleNow DEF CcUnchanged
<1>4. RowsSeen'
  <2> SUFFICES ASSUME NEW v \in Workers, NEW q \in workers'[v].rows
               PROVE  /\ outbox'[q.sprintId] # NoMessage
                      /\ \/ q.row.payload = outbox'[q.sprintId].payload
                         \/ q.row.payload.revision < outbox'[q.sprintId].payload.revision
    BY DEF RowsSeen
  <2>1. q \in workers[v].rows
    BY <1>3
  <2>2. q.sprintId \in Sprints
    BY <2>1, Revisions
  <2> QED
    BY <1>2, <2>1, <2>2 DEF ShownInv, RowsSeen
<1>5. DeliveredSeen'
  <2> SUFFICES ASSUME NEW v \in Workers, workers'[v].at = "delivering",
                      workers'[v].result = "delivered"
               PROVE  LET q == Any(workers'[v].rows) IN
                      /\ dialogues'[q.sprintId] # NoMessage
                      /\ dialogues'[q.sprintId].revision >= q.row.payload.revision
    BY DEF DeliveredSeen, Current, Any
  <2>1. workers'[v] = workers[v]
    BY <1>3
  <2> QED
    BY <1>1, <2>1, HeldInHand DEF ShownInv, DeliveredSeen
<1>6. PublishedAsCommitted'
  <2> SUFFICES ASSUME NEW s \in Sprints
               PROVE  /\ dialogues'[s] # NoMessage =>
                            /\ outbox'[s] # NoMessage
                            /\ dialogues'[s].revision <= outbox'[s].payload.revision
                            /\ dialogues'[s].revision = outbox'[s].payload.revision =>
                                    dialogues'[s] = outbox'[s].payload
                      /\ outbox'[s] # NoMessage /\ outbox'[s].status = "delivered" =>
                            dialogues'[s] = outbox'[s].payload
    BY DEF PublishedAsCommitted, NothingUncommitted
  <2>1. /\ dialogues[s] # NoMessage =>
            /\ outbox[s] # NoMessage
            /\ dialogues[s].revision <= outbox[s].payload.revision
            /\ dialogues[s].revision = outbox[s].payload.revision =>
                    dialogues[s] = outbox[s].payload
        /\ outbox[s] # NoMessage /\ outbox[s].status = "delivered" =>
            dialogues[s] = outbox[s].payload
    BY DEF ShownInv, PublishedAsCommitted, NothingUncommitted
  <2>2. /\ outbox[s] # NoMessage => outbox[s].payload.revision \in Nat
        /\ dialogues[s] # NoMessage => dialogues[s].revision \in Nat
    BY Revisions
  <2>3. ASSUME outbox[s] # NoMessage, s = p.sprintId, status = "delivered",
               outbox[s].payload.revision = p.row.payload.revision
        PROVE  dialogues[s] = outbox[s].payload
    BY <2>1, <2>2, <2>3
  <2> QED
    BY <1>1, <1>2, <2>1, <2>3
<1> QED
  BY <1>2, <1>3, <1>4, <1>5, <1>6 DEF ShownInv, StoreInv

(* The delivery of the row in hand.                                        *)
LEMMA RecordDeliveryShown ==
    ASSUME ShownInv, NEW w \in Workers, RecordDelivery(w), UNCHANGED moved,
           GatesAssumption
    PROVE  ShownInv'
PROOF
<1> DEFINE p == Current(w)
           cycle == [workers[w] EXCEPT !.at = "publishing", !.rows = @ \ {p},
                                       !.result = NoResult]
<1>1. /\ workers[w].at = "delivering" /\ CcUnchanged /\ Goto(w, cycle)
      /\ UNCHANGED <<sprints, tasks, gates, history, events>>
      /\ Deliver(p, workers[w].result)
  BY DEF RecordDelivery
<1>2. /\ p \in workers[w].rows /\ workers[w].result \in DeliveryStatuses
  BY <1>1, CycleNow, HeldInHand DEF CycleFits
<1>3. workers[w].result = "delivered" =>
        /\ dialogues[p.sprintId] # NoMessage
        /\ dialogues[p.sprintId].revision >= p.row.payload.revision
  BY <1>1 DEF ShownInv, DeliveredSeen
<1>4. /\ cycle \in Cycle /\ CycleFits(cycle) /\ cycle.at # "delivering"
      /\ cycle.rows \subseteq workers[w].rows
  BY CycleNow DEF Cycle, CycleFits, Stages, Results
<1> HIDE DEF cycle, p
<1> QED
  BY <1>1, <1>2, <1>3, <1>4, DeliverShown

(* Without a usable client, rows are marked failed.                        *)
LEMMA MarkFailedShown ==
    ASSUME ShownInv, NEW w \in Workers, MarkFailed(w), UNCHANGED moved,
           GatesAssumption
    PROVE  ShownInv'
PROOF
<1>1. /\ CcUnchanged /\ UNCHANGED <<sprints, tasks, gates, history, events>>
      /\ workers[w].at = "failing"
  BY DEF MarkFailed
<1>2. CASE workers[w].rows = {}
  <2>1. Goto(w, Asleep) /\ StoreUnchanged
    BY <1>1, <1>2 DEF MarkFailed, StoreUnchanged
  <2> QED
    BY <1>1, <2>1, EndsShown
<1>3. CASE workers[w].rows # {}
  <2>1. PICK p \in workers[w].rows :
            /\ Deliver(p, "failed")
            /\ Goto(w, [workers[w] EXCEPT !.rows = @ \ {p}])
    BY <1>3 DEF MarkFailed
  <2> DEFINE cycle == [workers[w] EXCEPT !.rows = @ \ {p}]
  <2>2. /\ cycle \in Cycle /\ CycleFits(cycle) /\ cycle.at # "delivering"
        /\ cycle.rows \subseteq workers[w].rows
    BY <1>1, CycleNow DEF Cycle, CycleFits
  <2>3. Goto(w, cycle)
    BY <2>1
  <2>4. "failed" \in DeliveryStatuses /\ "failed" # "delivered"
    BY DEF DeliveryStatuses
  <2> HIDE DEF cycle
  <2> QED
    BY <1>1, <2>1, <2>2, <2>3, <2>4, DeliverShown
<1> QED
  BY <1>2, <1>3

(* A call of publish: what Concordia takes was committed, and is newer     *)
(* than what it held.                                                      *)
LEMMA PublishShown ==
    ASSUME ShownInv, NEW w \in Workers, Publish(w), UNCHANGED moved, WorkerAssumption
    PROVE  ShownInv'
PROOF
<1> DEFINE p == Current(w)
           o == p.sprintId
           sent == p.row.payload
<1>1. /\ workers[w].at = "publishing" /\ workers[w].rows # {}
      /\ StoreUnchanged /\ UNCHANGED <<answers, acks>>
  BY DEF Publish
<1>2. PICK status \in DeliveryStatuses :
        /\ Goto(w, [workers[w] EXCEPT !.at = "delivering", !.result = status])
        /\ dialogues' = dialogues \/ dialogues' = Received(p)
        /\ status = "delivered" =>
            dialogues' = Received(p) /\ dialogues'[o].revision = sent.revision
  BY DEF Publish, DeliveryStatuses
<1> DEFINE cycle == [workers[w] EXCEPT !.at = "delivering", !.result = status]
<1>3. /\ p \in workers[w].rows /\ o \in Sprints
      /\ sent \in Projection /\ sent # NoMessage /\ sent.revision \in Nat
      /\ outbox[o] # NoMessage
      /\ sent = outbox[o].payload \/ sent.revision < outbox[o].payload.revision
  BY <1>1, HeldInHand, Revisions DEF ShownInv, RowsSeen, WorkerAssumption
<1>4. dialogues \in [Sprints -> Projection \cup {NoMessage}]
  BY CycleNow
<1>5. /\ cycle \in Cycle /\ CycleFits(cycle) /\ cycle.rows = workers[w].rows
      /\ cycle.result = status
  BY <1>1, CycleNow DEF Cycle, CycleFits, Stages, Results
<1> HIDE DEF sent, o, cycle
<1>6. \A s \in Sprints :
        \/ dialogues'[s] = dialogues[s]
        \/ /\ s = o /\ dialogues'[s] = sent
           /\ dialogues[s] = NoMessage \/ dialogues[s].revision < sent.revision
  BY <1>2, <1>3, <1>4 DEF Received, Newer, o, sent
<1>7. dialogues' \in [Sprints -> Projection \cup {NoMessage}]
  BY <1>2, <1>3, <1>4 DEF Received, o, sent
<1>8. status = "delivered" =>
        dialogues'[o] # NoMessage /\ dialogues'[o].revision = sent.revision
  <2>1. dialogues' = Received(p) => dialogues'[o] # NoMessage
    BY <1>3, <1>4 DEF Received, Newer, o, sent
  <2> QED
    BY <1>2, <2>1
<1>9. /\ WorkerTyped' /\ workers'[w] = cycle
      /\ \A v \in Workers \ {w} : workers'[v] = workers[v]
  <2>1. Goto(w, cycle)
    BY <1>2 DEF cycle
  <2> QED
    BY <1>1, <1>5, <1>7, <2>1, CycleGoesOn, CycleNow
<1>10. StoreStep
  BY <1>1, CycleNow, StoreStays DEF ShownInv
<1>11. outbox' = outbox
  BY <1>1 DEF StoreUnchanged
<1>12. RowsSeen'
  BY <1>5, <1>9, <1>11 DEF ShownInv, RowsSeen
<1>13. \A s \in Sprints :
        /\ dialogues[s] # NoMessage => dialogues[s].revision \in Nat
        /\ outbox[s] # NoMessage => outbox[s].payload.revision \in Nat
  BY Revisions
<1>14. DeliveredSeen'
  <2> SUFFICES ASSUME NEW v \in Workers, workers'[v].at = "delivering",
                      workers'[v].result = "delivered"
               PROVE  LET q == Any(workers'[v].rows) IN
                      /\ dialogues'[q.sprintId] # NoMessage
                      /\ dialogues'[q.sprintId].revision >= q.row.payload.revision
    BY DEF DeliveredSeen, Current, Any
  <2>1. CASE v = w
    <3>1. Any(workers'[v].rows) = p /\ status = "delivered"
      BY <1>5, <1>9, <2>1, HeldInHand
    <3> QED
      BY <1>3, <1>8, <3>1 DEF o, sent
  <2>2. CASE v # w
    <3> DEFINE q == Current(v)
    <3>1. workers'[v] = workers[v] /\ Any(workers'[v].rows) = q
      BY <1>9, <2>2, HeldInHand
    <3>2. /\ dialogues[q.sprintId] # NoMessage
          /\ dialogues[q.sprintId].revision >= q.row.payload.revision
      BY <3>1 DEF ShownInv, DeliveredSeen
    <3>3. q \in workers[v].rows
      BY <3>1, CycleNow, HeldInHand DEF CycleFits
    <3>4. q.sprintId \in Sprints /\ q.row.payload.revision \in Nat
      BY <3>3, Revisions
    <3> HIDE DEF q
    <3>5. \/ dialogues'[q.sprintId] = dialogues[q.sprintId]
          \/ /\ dialogues'[q.sprintId] = sent
             /\ dialogues[q.sprintId].revision < sent.revision
      BY <1>6, <3>2, <3>4
    <3>6. dialogues[q.sprintId].revision \in Nat
      BY <1>13, <3>2, <3>4
    <3>7. dialogues'[q.sprintId] # NoMessage
      BY <1>3, <3>2, <3>5
    <3>8. dialogues'[q.sprintId].revision >= q.row.payload.revision
      <4>1. CASE dialogues'[q.sprintId] = dialogues[q.sprintId]
        BY <3>2, <4>1
      <4>2. ASSUME dialogues'[q.sprintId] = sent,
                   dialogues[q.sprintId].revision < sent.revision
            PROVE  dialogues'[q.sprintId].revision >= q.row.payload.revision
        <5>1. dialogues'[q.sprintId].revision = sent.revision
          BY <4>2
        <5> QED
          BY <1>3, <3>2, <3>4, <3>6, <4>2, <5>1
      <4> QED
        BY <3>5, <4>1, <4>2
    <3> QED
      BY <3>1, <3>7, <3>8
  <2> QED
    BY <2>1, <2>2
<1>15. PublishedAsCommitted'
  <2> SUFFICES ASSUME NEW s \in Sprints
               PROVE  /\ dialogues'[s] # NoMessage =>
                            /\ outbox[s] # NoMessage
                            /\ dialogues'[s].revision <= outbox[s].payload.revision
                            /\ dialogues'[s].revision = outbox[s].payload.revision =>
                                    dialogues'[s] = outbox[s].payload
                      /\ outbox[s] # NoMessage /\ outbox[s].status = "delivered" =>
                            dialogues'[s] = outbox[s].payload
    BY <1>11 DEF PublishedAsCommitted, NothingUncommitted
  <2>1. /\ dialogues[s] # NoMessage =>
            /\ outbox[s] # NoMessage
            /\ dialogues[s].revision <= outbox[s].payload.revision
            /\ dialogues[s].revision = outbox[s].payload.revision =>
                    dialogues[s] = outbox[s].payload
        /\ outbox[s] # NoMessage /\ outbox[s].status = "delivered" =>
            dialogues[s] = outbox[s].payload
    BY DEF ShownInv, PublishedAsCommitted, NothingUncommitted
  <2>2. outbox[s] # NoMessage => outbox[s].payload # NoMessage
    BY Revisions DEF WorkerAssumption
  <2>3. CASE dialogues'[s] = dialogues[s]
    BY <2>1, <2>3
  <2>4. CASE /\ s = o /\ dialogues'[s] = sent
             /\ dialogues[s] = NoMessage \/ dialogues[s].revision < sent.revision
    <3>1. /\ outbox[s] # NoMessage
          /\ sent.revision \in Nat /\ outbox[s].payload.revision \in Nat
          /\ sent = outbox[s].payload \/ sent.revision < outbox[s].payload.revision
      BY <1>3, <1>13, <2>4
    <3>2. /\ sent.revision <= outbox[s].payload.revision
          /\ sent.revision = outbox[s].payload.revision => sent = outbox[s].payload
      <4>1. sent = outbox[s].payload => sent.revision = outbox[s].payload.revision
        OBVIOUS
      <4> QED
        BY <3>1, <4>1
    <3>3. ASSUME outbox[s].status = "delivered"
          PROVE  FALSE
      <4>1. dialogues[s] = outbox[s].payload /\ dialogues[s] # NoMessage
        BY <2>1, <2>2, <3>1, <3>3
      <4>2. dialogues[s].revision < sent.revision
        BY <2>4, <4>1
      <4>3. dialogues[s].revision = outbox[s].payload.revision
        BY <4>1
      <4> QED
        BY <3>1, <3>2, <4>2, <4>3
    <3> QED
      BY <2>4, <3>1, <3>2, <3>3
  <2> QED
    BY <1>6, <2>3, <2>4
<1> QED
  BY <1>9, <1>10, <1>12, <1>14, <1>15 DEF ShownInv, StoreInv, StoreStep

-----------------------------------------------------------------------------
(* What Concordia shows, in every reachable state.                         *)

(* Somebody answers on Discord: the answer is one the store can read.      *)
LEMMA AnswerOnDiscordShown ==
    ASSUME ShownInv, NEW e \in EventIds, NEW s \in Sprints, NEW action \in Asked,
           NEW ids \in SUBSET Tasks, AnswerOnDiscord(e, s, action, ids),
           UNCHANGED <<workers, moved>>,
           GatesAssumption, WorkerAssumption
    PROVE  ShownInv'
PROOF
<1> DEFINE answer == [eventId |-> e, sprintId |-> s, actor |-> Discord, action |-> action,
                      expectedRevision |-> dialogues[s].revision,
                      sourceFingerprint |-> dialogues[s].sourceFingerprint,
                      taskIds |-> ids]
<1>1. /\ StoreUnchanged /\ UNCHANGED <<dialogues, acks>>
      /\ answers' = answers \cup {answer}
      /\ dialogues[s] # NoMessage
  BY DEF AnswerOnDiscord
<1>2. dialogues[s] \in Projection
  BY <1>1, Revisions
<1>3. answer \in Answer
  BY <1>2 DEF Answer, Projection, WorkerAssumption, GatesAssumption
<1> HIDE DEF answer
<1>4. StoreStep
  <2>1. answers' \subseteq Answer
    BY <1>1, <1>3, TypedNow DEF ShownInv, StoreInv
  <2> QED
    BY <1>1, <2>1, StoreStays DEF ShownInv
<1>5. WorkerTyped'
  BY <1>1 DEF ShownInv, WorkerTyped, CycleFits
<1> QED
  BY <1>1, <1>4, <1>5, QuietStep, CycleNow

(* Anything done in the store while the cycles and Concordia wait.         *)
LEMMA OthersShown ==
    ASSUME ShownInv, StoreStep, UNCHANGED <<dialogues, acks>>, UNCHANGED <<workers, moved>>
    PROVE  ShownInv'
PROOF
<1>1. WorkerTyped' /\ dialogues' = dialogues
  BY DEF ShownInv, WorkerTyped, CycleFits
<1> QED
  BY <1>1, QuietStep

(* The team moves to ordinary chat, or back; cycles under way go on.       *)
LEMMA MoveTeamShown ==
    ASSUME ShownInv, MoveTeam
    PROVE  ShownInv'
PROOF
<1>1. StoreUnchanged /\ CcUnchanged /\ UNCHANGED workers /\ moved' \in BOOLEAN
  BY DEF MoveTeam
<1>2. WorkerTyped' /\ dialogues' = dialogues
  BY <1>1 DEF ShownInv, WorkerTyped, CycleFits, CcUnchanged
<1>3. StoreStep
  BY <1>1, TypedNow, StoreStays DEF ShownInv, StoreInv, CcUnchanged
<1> QED
  BY <1>1, <1>2, <1>3, QuietStep

(* Before anybody has called anybody.                                      *)
LEMMA WorkerInitShown ==
    ASSUME WorkerInit, PlanningAssumption, GatesAssumption
    PROVE  ShownInv
PROOF
<1>1. /\ Init
      /\ workers = [w \in Workers |-> Asleep]
      /\ dialogues = [s \in Sprints |-> NoMessage]
      /\ acks = [e \in EventIds |-> {}]
      /\ moved = FALSE
  BY DEF WorkerInit
<1>2. StoreInv
  BY <1>1, InitEstablishes, RecordsStart DEF StoreInv
<1>3. WorkerTyped
  BY <1>1, AsleepFits DEF WorkerTyped
<1>4. RowsSeen /\ DeliveredSeen
  BY <1>1 DEF RowsSeen, DeliveredSeen, Asleep
<1>5. PublishedAsCommitted
  BY <1>1 DEF Init, PublishedAsCommitted, NothingUncommitted
<1> QED
  BY <1>2, <1>3, <1>4, <1>5 DEF ShownInv

(* Every step of a worker, and every step around them, keeps it.           *)
LEMMA WorkerNextShown ==
    ASSUME ShownInv, [WorkerNext]_workerVars,
           PlanningAssumption, GatesAssumption, WorkerAssumption
    PROVE  ShownInv'
PROOF
<1>1. ASSUME NEW w \in Workers, Step(w), UNCHANGED moved
      PROVE  ShownInv'
  <2>1. CASE Tick(w) \/ ReadOutbox(w) \/ MarkFailed(w)
    BY <1>1, <2>1, TickShown, ReadOutboxShown, MarkFailedShown
  <2>2. CASE Publish(w) \/ RecordDelivery(w) \/ FetchAnswers(w)
    BY <1>1, <2>2, PublishShown, RecordDeliveryShown, FetchAnswersShown
  <2>3. CASE FinishCycle(w)
    BY <1>1, <2>3, EndsShown DEF FinishCycle
  <2>4. CASE LookUp(w) \/ Ack(w)
    BY <1>1, <2>4, LookUpShown, AckShown
  <2>5. CASE \E s \in Sprints : Observe(w, s)
    BY <1>1, <2>5, ObserveShown
  <2>6. CASE \E who \in Actors : DecideAs(w, who)
    BY <1>1, <2>6, DecideAsShown
  <2> QED
    BY <1>1, <2>1, <2>2, <2>3, <2>4, <2>5, <2>6 DEF Step
<1>2. ASSUME NEW w \in Workers, Crash(w), UNCHANGED moved
      PROVE  ShownInv'
  BY <1>2, EndsShown DEF Crash
<1>3. CASE Surroundings
  <2>1. UNCHANGED <<workers, moved>>
    BY <1>3 DEF Surroundings
  <2>2. ASSUME NEW e \in EventIds, NEW s \in Sprints, NEW do \in Asked,
               NEW ids \in SUBSET Tasks, AnswerOnDiscord(e, s, do, ids)
        PROVE  ShownInv'
    BY <2>1, <2>2, AnswerOnDiscordShown
  <2>3. CASE OnScreen
    <3>1. UNCHANGED <<dialogues, acks>>
      BY <2>3 DEF OnScreen
    <3> QED
      BY <2>1, <2>3, <3>1, OnScreenInStore, OthersShown DEF ShownInv
  <2> QED
    BY <1>3, <2>2, <2>3 DEF Surroundings
<1>4. CASE MoveTeam
  BY <1>4, MoveTeamShown
<1>5. CASE UNCHANGED workerVars
  <2>1. StoreUnchanged /\ CcUnchanged /\ UNCHANGED <<workers, moved>>
    BY <1>5 DEF workerVars, StoreUnchanged, CcUnchanged
  <2>2. StoreStep
    BY <2>1, TypedNow, StoreStays DEF ShownInv, StoreInv, CcUnchanged
  <2> QED
    BY <2>1, <2>2, OthersShown DEF CcUnchanged
<1> QED
  BY <1>1, <1>2, <1>3, <1>4, <1>5 DEF WorkerNext

(* The conjuncts of ShownInv hold together in every reachable state of the *)
(* gates with their workers.  The next theorems are its parts.             *)
THEOREM ShownInvariance == WorkerSpec => []ShownInv
PROOF
<1>1. WorkerInit => ShownInv
  BY WorkerInitShown, PlanningAssumption, GatesAssumption
<1>2. ShownInv /\ [WorkerNext]_workerVars => ShownInv'
  BY WorkerNextShown, PlanningAssumption, GatesAssumption, WorkerAssumption
<1> QED
  BY <1>1, <1>2, PTL DEF WorkerSpec

(* Concordia never shows a state of a gate that was not committed, and a   *)
(* row marked delivered is what it shows: a late record of an older        *)
(* delivery never hides that a newer revision is still to be sent, however *)
(* many workers publish the same rows and wherever they crash.             *)
THEOREM ShownAsCommitted == WorkerSpec => []PublishedAsCommitted
PROOF
<1>1. ShownInv => PublishedAsCommitted
  BY DEF ShownInv
<1> QED
  BY <1>1, ShownInvariance, PTL

(* With workers deciding in several processes at once, the gates keep what *)
(* they promise on their own: one sprint at work, open periods apart, the  *)
(* phase fitting the status, and history and outbox complete.              *)
THEOREM GatesKeepUnderWorkers ==
    WorkerSpec => [](/\ AtMostOneActive /\ PeriodsDisjoint /\ PhaseMatchesStatus
                     /\ RecordsComplete /\ AcceptedGoalPinned)
PROOF
<1>1. ShownInv => /\ AtMostOneActive /\ PeriodsDisjoint /\ PhaseMatchesStatus
                  /\ RecordsComplete /\ AcceptedGoalPinned
  BY DEF ShownInv, StoreInv, IInv, Inv, RecordsInv
<1> QED
  BY <1>1, ShownInvariance, PTL

-----------------------------------------------------------------------------
(* What the workers do to the gates and to the life of the sprints.        *)

(* The answer a worker is deciding, put in somebody's name.                *)
Named(w, a) ==
    /\ workers[w].at = "deciding" /\ Handled(w) \in Answer
    /\ a = [Handled(w) EXCEPT !.actor = a.actor]

(* It asks for what was asked, whoever it is put in the name of.           *)
LEMMA NamedAsks ==
    ASSUME NEW w \in Workers, NEW a, Named(w, a)
    PROVE  /\ a.eventId = Handled(w).eventId /\ a.sprintId = Handled(w).sprintId
           /\ a.action = Handled(w).action
           /\ a.expectedRevision = Handled(w).expectedRevision
PROOF
<1>1. Handled(w) \in Answer
  BY DEF Named
<1>2. \A who : LET b == [Handled(w) EXCEPT !.actor = who] IN
        /\ b.eventId = Handled(w).eventId /\ b.sprintId = Handled(w).sprintId
        /\ b.action = Handled(w).action
        /\ b.expectedRevision = Handled(w).expectedRevision
  BY <1>1 DEF Answer
<1> QED
  BY <1>2 DEF Named

(* The transactions of the store that steps of the workers, and the steps  *)
(* around them, come to.                                                   *)
Rests == UNCHANGED <<sprints, tasks, gates, history, events>>

Refuses(a) ==
    /\ Unanswered(a) /\ Record(a, "rejected")
    /\ UNCHANGED <<sprints, tasks, gates, history>>

Applies(a) == \E roleHeld \in BOOLEAN : ApplyAnswer(a, roleHeld) /\ UNCHANGED answers

Transaction ==
    \/ Rests
    \/ OnScreen
    \/ \E s \in Sprints : View(s) /\ UNCHANGED answers
    \/ \E a \in Answer : Refuses(a)
    \/ \E w \in Workers, a \in Answer : Named(w, a) /\ Applies(a)

(* A worker's decision applies the answer in its hands, refuses it, or     *)
(* leaves it.                                                              *)
LEMMA DecideAsTransacts ==
    ASSUME ShownInv, NEW w \in Workers, NEW who \in Actors, DecideAs(w, who)
    PROVE  Transaction
PROOF
<1> DEFINE a == [Handled(w) EXCEPT !.actor = who]
<1>1. /\ UNCHANGED answers /\ workers[w].at = "deciding"
      /\ Handled(w) \in Answer /\ a \in Answer /\ a.actor = who
  <2>1. workers[w].batch # {} /\ UNCHANGED answers /\ workers[w].at = "deciding"
    BY CycleNow DEF DecideAs, CcUnchanged, CycleFits
  <2> QED
    BY <2>1, HeldInHand, CycleNow DEF Answer
<1>2. Named(w, a)
  BY <1>1 DEF Named
<1>3. \/ RejectExternal(a)
      \/ \E roleHeld \in BOOLEAN : RejectAnswer(a, roleHeld) \/ ApplyAnswer(a, roleHeld)
      \/ StoreUnchanged
  BY DEF DecideAs
<1> HIDE DEF a
<1>4. CASE RejectExternal(a) \/ StoreUnchanged
  BY <1>1, <1>4 DEF RejectExternal, StoreUnchanged, Transaction, Rests, Refuses
<1>5. ASSUME NEW roleHeld \in BOOLEAN, RejectAnswer(a, roleHeld)
      PROVE  Transaction
  BY <1>1, <1>5 DEF RejectAnswer, Transaction, Refuses
<1>6. ASSUME NEW roleHeld \in BOOLEAN, ApplyAnswer(a, roleHeld)
      PROVE  Transaction
  BY <1>1, <1>2, <1>6 DEF Transaction, Applies
<1> QED
  BY <1>3, <1>4, <1>5, <1>6

(* Whatever the workers and those around them do is one transaction of the *)
(* store, or none.                                                         *)
LEMMA WorkersTransact ==
    ASSUME ShownInv, [WorkerNext]_workerVars
    PROVE  Transaction
PROOF
<1>1. ASSUME NEW w \in Workers, Step(w)
      PROVE  Transaction
  <2>1. CASE Tick(w) \/ ReadOutbox(w) \/ MarkFailed(w) \/ Publish(w) \/ RecordDelivery(w)
    BY <2>1 DEF Tick, ReadOutbox, MarkFailed, Publish, RecordDelivery, StoreUnchanged,
                Transaction, Rests
  <2>2. CASE FetchAnswers(w) \/ FinishCycle(w) \/ LookUp(w) \/ Ack(w)
    BY <2>2 DEF FetchAnswers, FinishCycle, LookUp, Ack, StoreUnchanged, Transaction, Rests
  <2>3. CASE \E s \in Sprints : Observe(w, s)
    BY <2>3 DEF Observe, CcUnchanged, StoreUnchanged, Transaction, Rests
  <2>4. CASE \E who \in Actors : DecideAs(w, who)
    BY <2>4, DecideAsTransacts
  <2> QED
    BY <1>1, <2>1, <2>2, <2>3, <2>4 DEF Step
<1>2. CASE Surroundings
  BY <1>2 DEF Surroundings, AnswerOnDiscord, StoreUnchanged, Transaction, Rests
<1>3. CASE MoveTeam \/ (\E w \in Workers : Crash(w)) \/ UNCHANGED workerVars
  BY <1>3 DEF MoveTeam, Crash, StoreUnchanged, workerVars, Transaction, Rests
<1> QED
  BY <1>1, <1>2, <1>3 DEF WorkerNext

(* A transaction is a move of the life of the sprints, or none.            *)
LEMMA TransactionLives ==
    ASSUME ShownInv, ShownInv', Transaction, IsFiniteSet(Applied),
           PlanningAssumption, GatesAssumption, WorkerAssumption
    PROVE  LivesOn
PROOF
<1>1. IInv /\ IInv'
  BY DEF ShownInv, StoreInv
<1>2. CASE Rests \/ \E a \in Answer : Refuses(a)
  BY <1>1, <1>2, StillLives DEF Rests, Refuses
<1>3. CASE OnScreen
  BY <1>1, <1>3, OnScreenIsNext, StepLives
<1>4. ASSUME NEW s \in Sprints, View(s)
      PROVE  LivesOn
  BY <1>1, <1>4, ViewLives
<1>5. ASSUME NEW a \in Answer, Applies(a)
      PROVE  LivesOn
  BY <1>1, <1>5, ApplyLives DEF Applies
<1> QED
  BY <1>2, <1>3, <1>4, <1>5 DEF Transaction

(* With workers that decide in several processes, retry, crash and look    *)
(* again, and people who plan, work and answer at the phase screen between *)
(* any two awaits, the sprints still live as promised: every step is one   *)
(* move of that life or none, and a move that takes a person's decision is *)
(* paid for by an answer newly recorded as applied.                        *)
THEOREM WorkersImplementLifecycle == WorkerSpec => ImplementsLifecycle
PROOF
<1>1. WorkerInit => Lifecycle!Init /\ IsFiniteSet(Applied)
  BY InitLives, PlanningAssumption DEF WorkerInit
<1>2. ShownInv /\ ShownInv' /\ IsFiniteSet(Applied) /\ [WorkerNext]_workerVars =>
        [Lifecycle!Next]_(Lifecycle!lifecycleVars) /\ IsFiniteSet(Applied)'
  BY WorkersTransact, TransactionLives, PlanningAssumption, GatesAssumption,
     WorkerAssumption DEF Lives, LivesOn
<1> QED
  BY <1>1, <1>2, ShownInvariance, PTL DEF WorkerSpec, ImplementsLifecycle, Lifecycle!Spec

(* And a sprint closes only complete, in the step that starts the one      *)
(* chosen to follow it, whichever worker, or person at the phase screen,   *)
(* takes that step.                                                        *)
THEOREM ClosesUnderWorkers == WorkerSpec => ClosesOnlyIntoNext
PROOF
<1>1. ASSUME ShownInv, ShownInv', [WorkerNext]_workerVars, NEW s \in Sprints, Closes(s),
             PlanningAssumption, GatesAssumption
      PROVE  ClosesRightly(s)
  <2>1. IInv /\ IInv'
    BY <1>1 DEF ShownInv, StoreInv
  <2>2. ~(ChangePlan \/ WorkOnTask) /\ sprints' # sprints
    BY <1>1, <2>1, PlanningCloses DEF Closes
  <2>3. OnScreen => \E a \in Answer : Applies(a)
    <3>1. OnScreen => \E a \in answers, roleHeld \in BOOLEAN :
                        ApplyAnswer(a, roleHeld) /\ UNCHANGED answers
      BY <2>2 DEF OnScreen, AnswerOnScreen, ChangeContext, FormAnswer, View, RejectAnswer
    <3> QED
      BY <2>1, <3>1, TypedNow DEF Applies
  <2>4. PICK a \in Answer : Applies(a)
    BY <1>1, <2>2, <2>3, WorkersTransact DEF Transaction, Rests, Refuses, View
  <2> QED
    BY <1>1, <2>1, <2>4, AnswerCloses DEF Applies
<1>2. ShownInv /\ ShownInv' /\ [WorkerNext]_workerVars =>
        [\A s \in Sprints : Closes(s) => ClosesRightly(s)]_vars
  BY <1>1, PlanningAssumption, GatesAssumption
<1> QED
  BY <1>2, ShownInvariance, PTL DEF WorkerSpec, ClosesOnlyIntoNext, Closes, ClosesRightly

(* A transaction leaves the gates alone or moves gate and records          *)
(* together.                                                               *)
LEMMA TransactionReworks ==
    ASSUME ShownInv, Transaction, PlanningAssumption, GatesAssumption, WorkerAssumption
    PROVE  UNCHANGED gates \/ RecordsMove
PROOF
<1>1. StoreInv /\ IInv
  BY DEF ShownInv, StoreInv
<1>2. CASE OnScreen
  BY <1>1, <1>2, OnScreenIsNext, StepRecords
<1>3. ASSUME NEW s \in Sprints, View(s)
      PROVE  RecordsMove
  BY <1>1, <1>3, ViewWrites DEF RecordsMove, WroteOne, Wrote
<1>4. ASSUME NEW a \in Answer, Applies(a)
      PROVE  RecordsMove
  BY <1>1, <1>4, ApplyMovesRecords DEF Applies
<1> QED
  BY <1>2, <1>3, <1>4 DEF Transaction, Rests, Refuses

(* Tasks sent back, by a rejection on Discord or at the phase screen, come *)
(* to acceptance again only by a resubmission, also with workers that look *)
(* at the gate between the answers.                                        *)
THEOREM ReworkUnderWorkers == WorkerSpec => ReworkNeedsResubmission
PROOF
<1> DEFINE Again(s) ==
            /\ gates[s] # NoGate /\ gates'[s] # NoGate
            /\ gates[s].state.reworkTaskIds # {}
            /\ gates'[s].state.phase = "acceptance"
           Resubmitted(s) ==
            \E h \in history' \ history : h.sprintId = s /\ h.action = "resubmit"
<1>1. ASSUME ShownInv, [WorkerNext]_workerVars, NEW s \in Sprints, Again(s),
             PlanningAssumption, GatesAssumption, WorkerAssumption
      PROVE  Resubmitted(s)
  <2>1. IInv /\ RecordsInv
    BY <1>1 DEF ShownInv, StoreInv
  <2>2. gates'[s] # gates[s]
    BY <1>1, <2>1 DEF RecordsInv, ReworksInPlace, ReworkInPlace
  <2>3. RecordsMove
    BY <1>1, <2>2, WorkersTransact, TransactionReworks
  <2> QED
    BY <1>1, <2>1, <2>3, ReworkMoves
<1>2. ShownInv /\ [WorkerNext]_workerVars =>
        [\A s \in Sprints : Again(s) => Resubmitted(s)]_vars
  BY <1>1, PlanningAssumption, GatesAssumption, WorkerAssumption
<1> QED
  BY <1>2, ShownInvariance, PTL DEF WorkerSpec, ReworkNeedsResubmission

(* What history says of an answer: nothing until it is recorded as applied,*)
(* then one entry.                                                         *)
Claimed(table, e) == {h \in table : h.eventId = e}

Told(stored, table, e) ==
    IF stored[e] # NoOutcome /\ stored[e].outcome = "applied"
    THEN \E h \in table : Claimed(table, e) = {h}
    ELSE Claimed(table, e) = {}

OneEntryEach == \A e \in EventIds : Told(events, history, e)

(* The answers somebody is about to apply: a worker the one it is deciding,*)
(* the phase screen those formed there.                                    *)
InHand ==
    {Handled(w) : w \in {v \in Workers : workers[v].at = "deciding"}}
        \cup (answers \ OnDiscord)

(* Who applies an answer has it in hand, and history takes it in with the  *)
(* revision after the one its author saw.                                  *)
InHandWhenApplied ==
    \A e \in EventIds \ Applied : e \in Applied' =>
        \E a \in InHand, h \in history' :
            /\ h.eventId = e /\ a.eventId = e
            /\ h.sprintId = a.sprintId /\ h.action = a.action
            /\ h.revision = a.expectedRevision + 1

(* A step that claims no answer leaves what is told of them.               *)
LEMMA ClaimsStay ==
    ASSUME OneEntryEach, events' = events, history \subseteq history',
           \A h \in history' \ history : h.eventId = NoEvent, GatesAssumption
    PROVE  OneEntryEach' /\ InHandWhenApplied
PROOF
<1>1. ASSUME NEW e \in EventIds
      PROVE  Claimed(history', e) = Claimed(history, e)
  BY DEF GatesAssumption, Claimed
<1>2. OneEntryEach'
  BY <1>1 DEF OneEntryEach, Told, Claimed
<1>3. InHandWhenApplied
  BY DEF InHandWhenApplied, Applied
<1> QED
  BY <1>2, <1>3

(* An answer refused is not told, an answer that took effect is told once. *)
LEMMA RefusedUntold ==
    ASSUME ShownInv, OneEntryEach, NEW a \in Answer, Refuses(a)
    PROVE  OneEntryEach' /\ InHandWhenApplied
PROOF
<1>1. /\ a.eventId \in EventIds /\ events \in [EventIds -> StoredEvent \cup {NoOutcome}]
      /\ history' = history
  BY TypedNow DEF ShownInv, StoreInv, Answer, Refuses
<1>2. /\ events[a.eventId] = NoOutcome /\ events'[a.eventId].outcome = "rejected"
      /\ \A e \in EventIds \ {a.eventId} : events'[e] = events[e]
  BY <1>1 DEF Refuses, Unanswered, Record
<1>3. OneEntryEach'
  BY <1>1, <1>2 DEF OneEntryEach, Told
<1>4. InHandWhenApplied
  BY <1>2 DEF InHandWhenApplied, Applied
<1> QED
  BY <1>3, <1>4

(* An answer that applies is told once in the history.                     *)
LEMMA AppliedTold ==
    ASSUME ShownInv, OneEntryEach, NEW a \in Answer, Applies(a), NEW b \in InHand,
           b.eventId = a.eventId, b.sprintId = a.sprintId, b.action = a.action,
           b.expectedRevision = a.expectedRevision, PlanningAssumption, GatesAssumption
    PROVE  OneEntryEach' /\ InHandWhenApplied
PROOF
<1>1. /\ a.eventId \in EventIds /\ a.actor \in Actors
      /\ events \in [EventIds -> StoredEvent \cup {NoOutcome}]
  BY TypedNow DEF ShownInv, StoreInv, Answer
<1>2. TookEffect(a)
  BY AppliesWhatWasSeen DEF ShownInv, StoreInv, Applies
<1>3. PICK x \in history' :
        /\ x.sprintId = a.sprintId /\ x.action = a.action /\ x.eventId = a.eventId
        /\ x.revision = a.expectedRevision + 1
        /\ \A h \in history' \ history : h = x \/ h.eventId = NoEvent
  BY <1>2 DEF TookEffect
<1>4. /\ history \subseteq history' /\ events[a.eventId] = NoOutcome
      /\ events'[a.eventId] = [outcome |-> "applied", actor |-> a.actor]
      /\ \A e \in EventIds \ {a.eventId} : events'[e] = events[e]
  BY <1>1, <1>2 DEF TookEffect, Unanswered, Record
<1>5. events'[a.eventId] # NoOutcome /\ events'[a.eventId].outcome = "applied"
  <2>1. events'[a.eventId] \in StoredEvent
    BY <1>1, <1>4 DEF StoredEvent
  <2> QED
    BY <1>4, <2>1 DEF GatesAssumption
<1>6. Claimed(history, a.eventId) = {}
  BY <1>1, <1>4 DEF OneEntryEach, Told
<1>7. Claimed(history', a.eventId) = {x}
  BY <1>1, <1>3, <1>4, <1>6 DEF GatesAssumption, Claimed
<1>8. \A e \in EventIds \ {a.eventId} : Claimed(history', e) = Claimed(history, e)
  BY <1>1, <1>3, <1>4 DEF GatesAssumption, Claimed
<1>9. OneEntryEach'
  <2>1. Told(events', history', a.eventId)
    BY <1>3, <1>5, <1>7 DEF Told
  <2>2. ASSUME NEW e \in EventIds \ {a.eventId}
        PROVE  Told(events', history', e)
    BY <1>4, <1>8 DEF OneEntryEach, Told
  <2> QED
    BY <2>1, <2>2 DEF OneEntryEach
<1>10. InHandWhenApplied
  <2>1. \A e \in EventIds \ Applied : e \in Applied' => e = a.eventId
    BY <1>4 DEF Applied
  <2>2. /\ x.eventId = a.eventId /\ b.eventId = a.eventId
        /\ x.sprintId = b.sprintId /\ x.action = b.action
        /\ x.revision = b.expectedRevision + 1
    BY <1>3
  <2> QED
    BY <1>3, <2>1, <2>2 DEF InHandWhenApplied
<1> QED
  BY <1>9, <1>10

(* History goes on naming each answer applied once, and no other.          *)
LEMMA TransactionTold ==
    ASSUME ShownInv, OneEntryEach, Transaction, PlanningAssumption, GatesAssumption
    PROVE  OneEntryEach' /\ InHandWhenApplied
PROOF
<1>1. CASE Rests
  BY <1>1, ClaimsStay DEF Rests
<1>2. ASSUME NEW s \in Sprints, View(s)
      PROVE  OneEntryEach' /\ InHandWhenApplied
  <2>1. /\ events' = events
        /\ \/ history' = history
           \/ \E new : history' = history \cup {Entry(s, new, "observe", NoEvent)}
    BY <1>2 DEF View, Persist
  <2>2. /\ history \subseteq history'
        /\ \A h \in history' \ history : h.eventId = NoEvent
    BY <2>1 DEF Entry
  <2> QED
    BY <2>1, <2>2, ClaimsStay
<1>3. ASSUME NEW w \in Workers, NEW a \in Answer, Named(w, a), Applies(a)
      PROVE  OneEntryEach' /\ InHandWhenApplied
  BY <1>3, NamedAsks, AppliedTold DEF Named, InHand
<1>4. CASE OnScreen
  <2>1. CASE ChangePlan \/ WorkOnTask
    BY <2>1, ClaimsStay DEF ChangePlan, WorkOnTask
  <2>2. ASSUME NEW s \in Sprints, NEW r \in Retrospectives,
               NEW n \in Sprints \cup {NoSprint}, ChangeContext(s, r, n)
        PROVE  OneEntryEach' /\ InHandWhenApplied
    <3>1. events' = events /\ \E new :
            history' = history \cup {Entry(s, new, "context", NoEvent)}
      BY <2>2 DEF ChangeContext
    <3>2. /\ history \subseteq history'
          /\ \A h \in history' \ history : h.eventId = NoEvent
      BY <3>1 DEF Entry
    <3> QED
      BY <3>1, <3>2, ClaimsStay
  <2>3. ASSUME NEW e, NEW s, NEW who, NEW do, NEW ids, FormAnswer(e, s, who, do, ids)
        PROVE  OneEntryEach' /\ InHandWhenApplied
    BY <2>3, ClaimsStay DEF FormAnswer
  <2>4. ASSUME NEW a \in answers \ OnDiscord, NEW roleHeld \in BOOLEAN,
               \/ RejectAnswer(a, roleHeld)
               \/ ApplyAnswer(a, roleHeld) /\ UNCHANGED answers
        PROVE  OneEntryEach' /\ InHandWhenApplied
    <3>1. a \in Answer /\ a \in InHand
      BY TypedNow DEF ShownInv, StoreInv, InHand
    <3>2. Refuses(a) \/ Applies(a)
      BY <2>4 DEF RejectAnswer, Refuses, Applies
    <3> QED
      BY <3>1, <3>2, RefusedUntold, AppliedTold
  <2> QED
    BY <1>2, <1>4, <2>1, <2>2, <2>3, <2>4 DEF OnScreen, AnswerOnScreen
<1> QED
  BY <1>1, <1>2, <1>3, <1>4, RefusedUntold DEF Transaction

(* An answer repeated by Concordia, or in the hands of two workers, is     *)
(* applied once: history has one entry for it if it is recorded as applied *)
(* and none if not.                                                        *)
THEOREM AppliedOnceUnderWorkers == WorkerSpec => []OneEntryEach
PROOF
<1>1. WorkerInit => OneEntryEach
  BY DEF WorkerInit, Init, OneEntryEach, Told, Claimed
<1>2. ShownInv /\ OneEntryEach /\ [WorkerNext]_workerVars => OneEntryEach'
  BY WorkersTransact, TransactionTold, PlanningAssumption, GatesAssumption
<1> QED
  BY <1>1, <1>2, ShownInvariance, PTL DEF WorkerSpec

(* An answer is applied by a worker that is deciding it or by its author   *)
(* at the phase screen, and on the revision the author saw, however long   *)
(* ago the worker fetched it and whatever people did meanwhile.            *)
THEOREM AppliedAsSeenUnderWorkers == WorkerSpec => [][InHandWhenApplied]_workerVars
PROOF
<1>1. ShownInv /\ OneEntryEach /\ [WorkerNext]_workerVars =>
        [InHandWhenApplied]_workerVars
  BY WorkersTransact, TransactionTold, PlanningAssumption, GatesAssumption
<1> QED
  BY <1>1, AppliedOnceUnderWorkers, ShownInvariance, PTL DEF WorkerSpec

-----------------------------------------------------------------------------
(* What Concordia is told of the answers.                                  *)

(* No step but the decision of an answer writes outcomes, and that one     *)
(* only where there is none.                                               *)
LEMMA OutcomesOnward ==
    ASSUME ShownInv, [WorkerNext]_workerVars,
           PlanningAssumption, GatesAssumption, WorkerAssumption
    PROVE  OutcomesKept
PROOF
<1>1. CASE UNCHANGED events
  BY <1>1 DEF OutcomesKept
<1>2. ASSUME NEW w \in Workers, NEW who \in Actors, DecideAs(w, who)
      PROVE  OutcomesKept
  BY <1>2, DecideInStore DEF StoreStep
<1>3. ASSUME NEW w \in Workers, Step(w)
      PROVE  UNCHANGED events \/ \E who \in Actors : DecideAs(w, who)
  <2>1. CASE Tick(w) \/ ReadOutbox(w) \/ MarkFailed(w) \/ Publish(w)
    BY <2>1 DEF Tick, ReadOutbox, MarkFailed, Publish, StoreUnchanged
  <2>2. CASE RecordDelivery(w) \/ FetchAnswers(w) \/ FinishCycle(w) \/ LookUp(w) \/ Ack(w)
    BY <2>2 DEF RecordDelivery, FetchAnswers, FinishCycle, LookUp, Ack, StoreUnchanged
  <2>3. CASE \E s \in Sprints : Observe(w, s)
    BY <2>3 DEF Observe, View, StoreUnchanged
  <2> QED
    BY <1>3, <2>1, <2>2, <2>3 DEF Step
<1>4. CASE Surroundings
  <2>1. CASE OnScreen
    BY <2>1, OnScreenInStore DEF ShownInv, StoreStep
  <2> QED
    BY <1>1, <1>4, <2>1 DEF Surroundings, AnswerOnDiscord, StoreUnchanged
<1>5. CASE \E w \in Workers : Crash(w)
  BY <1>1, <1>5 DEF Crash, StoreUnchanged
<1>6. CASE MoveTeam \/ UNCHANGED workerVars
  BY <1>1, <1>6 DEF MoveTeam, StoreUnchanged, workerVars
<1> QED
  BY <1>1, <1>2, <1>3, <1>4, <1>5, <1>6 DEF WorkerNext

(* The outcome of an answer stays, also with several workers deciding the  *)
(* same one after each other or in retries.                                *)
THEOREM OutcomesStayUnderWorkers == WorkerSpec => OutcomeStable
PROOF
<1>1. ShownInv /\ [WorkerNext]_workerVars =>
        [\A e \in EventIds : events[e] # NoOutcome => events'[e] = events[e]]_vars
  BY OutcomesOnward, PlanningAssumption, GatesAssumption, WorkerAssumption
     DEF OutcomesKept
<1> QED
  BY <1>1, ShownInvariance, PTL DEF WorkerSpec, OutcomeStable

(* The outcome a worker tells is the recorded one, but for the rejection   *)
(* of an answer it has not looked at because the team had moved.           *)
Vouched(outcome, turns) == outcome = "applied" \/ turns = 0

IsOutcome(stored, outcome) == stored # NoOutcome /\ stored.outcome = outcome

NobodyExcluded == ~moved /\ \A w \in Workers : ~workers[w].excluded

TellsOutcome ==
    \A w \in Workers : workers[w].at = "acking" /\ Vouched(workers[w].result, moves) =>
        IsOutcome(events[Handled(w).eventId], workers[w].result)

ToldOutcome ==
    \A e \in EventIds : \A outcome \in acks[e] :
        Vouched(outcome, moves) => IsOutcome(events[e], outcome)

(* The inductive invariant behind what Concordia is told.                  *)
AckInv ==
    /\ moves \in Nat
    /\ moves = 0 => NobodyExcluded
    /\ TellsOutcome
    /\ ToldOutcome

(* What is recorded stays recorded.                                        *)
LEMMA OutcomeStays ==
    ASSUME OutcomesKept, NEW e \in EventIds, NEW outcome, IsOutcome(events[e], outcome)
    PROVE  IsOutcome(events'[e], outcome)
BY DEF OutcomesKept, IsOutcome

(* The answer in hand is an answer.                                        *)
LEMMA HandledTyped ==
    ASSUME ShownInv, NEW w \in Workers,
           workers[w].at = "deciding" \/ workers[w].at = "acking"
    PROVE  Handled(w) \in workers[w].batch /\ Handled(w).eventId \in EventIds
PROOF
<1>1. workers[w].batch # {} /\ workers[w].batch \subseteq Answer
  BY CycleNow DEF CycleFits
<1> QED
  BY <1>1, HeldInHand DEF Answer

(* A cycle that stays before its acknowledgement, in a step without moves. *)
LEMMA TellStays ==
    ASSUME ShownInv, TellsOutcome, OutcomesKept, moves' = moves \/ moves' # 0,
           NEW v \in Workers, workers'[v] = workers[v], workers[v].at = "acking",
           Vouched(workers[v].result, moves')
    PROVE  IsOutcome(events'[Any(workers'[v].batch).eventId], workers'[v].result)
PROOF
<1> DEFINE e == Handled(v).eventId
<1>1. e \in EventIds /\ Handled(v) = Any(workers'[v].batch)
  BY HandledTyped, HeldInHand
<1>2. Vouched(workers[v].result, moves)
  BY DEF Vouched
<1>3. IsOutcome(events[e], workers[v].result)
  BY <1>2 DEF TellsOutcome
<1> HIDE DEF e
<1>4. IsOutcome(events'[e], workers[v].result)
  BY <1>1, <1>3, OutcomeStays
<1> QED
  BY <1>1, <1>4 DEF e

(* Acknowledgements that arrived stay true.                                *)
LEMMA ToldStays ==
    ASSUME ToldOutcome, OutcomesKept, moves' = moves \/ moves' # 0,
           NEW e \in EventIds, NEW outcome \in acks[e], Vouched(outcome, moves')
    PROVE  IsOutcome(events'[e], outcome)
PROOF
<1>1. IsOutcome(events[e], outcome)
  BY DEF ToldOutcome, Vouched
<1> QED
  BY <1>1, OutcomeStays

(* A step in which no cycle comes to an acknowledgement, and none arrives. *)
LEMMA AckStays ==
    ASSUME ShownInv, AckInv, OutcomesKept, UNCHANGED <<acks, moved, moves>>,
           \A v \in Workers :
                \/ workers'[v] = workers[v]
                \/ /\ workers'[v].at # "acking"
                   /\ workers'[v].excluded \in {FALSE, moved, workers[v].excluded}
    PROVE  AckInv'
PROOF
<1>1. moves' \in Nat /\ (moves' = 0 => NobodyExcluded')
  BY DEF AckInv, NobodyExcluded
<1>2. TellsOutcome'
  <2> SUFFICES ASSUME NEW v \in Workers, workers'[v].at = "acking",
                      Vouched(workers'[v].result, moves')
               PROVE  IsOutcome(events'[Any(workers'[v].batch).eventId], workers'[v].result)
    BY DEF TellsOutcome, Handled, Any
  <2> QED
    BY TellStays DEF AckInv
<1>3. ToldOutcome'
  BY ToldStays DEF AckInv, ToldOutcome
<1> QED
  BY <1>1, <1>2, <1>3 DEF AckInv

(* A step that brings one cycle to the acknowledgement of the answer it    *)
(* has in hand.                                                            *)
LEMMA AckReached ==
    ASSUME ShownInv, AckInv, OutcomesKept, UNCHANGED <<acks, moved, moves>>,
           NEW w \in Workers,
           \A v \in Workers \ {w} : workers'[v] = workers[v],
           workers'[w].excluded = workers[w].excluded,
           workers'[w].batch = workers[w].batch,
           Vouched(workers'[w].result, moves) =>
                IsOutcome(events'[Handled(w).eventId], workers'[w].result)
    PROVE  AckInv'
PROOF
<1>1. moves' \in Nat /\ (moves' = 0 => NobodyExcluded')
  BY DEF AckInv, NobodyExcluded
<1>2. TellsOutcome'
  <2> SUFFICES ASSUME NEW v \in Workers, workers'[v].at = "acking",
                      Vouched(workers'[v].result, moves')
               PROVE  IsOutcome(events'[Any(workers'[v].batch).eventId], workers'[v].result)
    BY DEF TellsOutcome, Handled, Any
  <2>1. CASE v = w
    BY <2>1, HeldInHand
  <2>2. CASE v # w
    BY <2>2, TellStays DEF AckInv
  <2> QED
    BY <2>1, <2>2
<1>3. ToldOutcome'
  BY ToldStays DEF AckInv, ToldOutcome
<1> QED
  BY <1>1, <1>2, <1>3 DEF AckInv

(* The first look at an answer: the recorded outcome is told, or nothing   *)
(* is looked at because the team had moved.                                *)
LEMMA LookUpTells ==
    ASSUME ShownInv, AckInv, NEW w \in Workers, LookUp(w), UNCHANGED <<moved, moves>>
    PROVE  AckInv'
PROOF
<1> DEFINE e == Handled(w).eventId
<1>1. /\ UNCHANGED <<acks, events>> /\ OutcomesKept
      /\ workers \in [Workers -> Cycle]
  BY DEF LookUp, StoreUnchanged, CcUnchanged, OutcomesKept, ShownInv, WorkerTyped
<1>2. PICK cycle :
        /\ Goto(w, cycle)
        /\ \/ /\ workers[w].excluded
              /\ cycle = [workers[w] EXCEPT !.at = "acking", !.result = "rejected"]
           \/ /\ events[e] # NoOutcome
              /\ cycle = [workers[w] EXCEPT !.at = "acking", !.result = events[e].outcome]
           \/ cycle = [workers[w] EXCEPT !.at = "deciding"]
  BY CycleNow DEF LookUp, Cycle
<1>3. workers'[w] = cycle /\ \A v \in Workers \ {w} : workers'[v] = workers[v]
  BY <1>1, <1>2, GotoMoves
<1> HIDE DEF e
<1>4. ASSUME workers[w].excluded,
             cycle = [workers[w] EXCEPT !.at = "acking", !.result = "rejected"]
      PROVE  AckInv'
  <2>1. ~Vouched("rejected", moves)
    BY <1>4 DEF AckInv, NobodyExcluded, Vouched
  <2>2. /\ cycle.result = "rejected"
        /\ cycle.batch = workers[w].batch /\ cycle.excluded = workers[w].excluded
    BY <1>4, CycleNow DEF Cycle
  <2> QED
    BY <1>1, <1>3, <2>1, <2>2, AckReached
<1>5. ASSUME events[e] # NoOutcome,
             cycle = [workers[w] EXCEPT !.at = "acking", !.result = events[e].outcome]
      PROVE  AckInv'
  <2>1. /\ cycle.result = events[e].outcome
        /\ cycle.batch = workers[w].batch /\ cycle.excluded = workers[w].excluded
    BY <1>5, CycleNow DEF Cycle
  <2>2. IsOutcome(events'[e], cycle.result)
    BY <1>1, <1>5, <2>1 DEF IsOutcome
  <2> QED
    BY <1>1, <1>3, <2>1, <2>2, AckReached DEF e
<1>6. CASE cycle = [workers[w] EXCEPT !.at = "deciding"]
  <2>1. cycle.at # "acking" /\ cycle.excluded = workers[w].excluded
    BY <1>6, CycleNow DEF Cycle
  <2> QED
    BY <1>1, <1>3, <2>1, AckStays
<1> QED
  BY <1>2, <1>4, <1>5, <1>6

(* A decision: what is told is what is recorded then, be it another        *)
(* worker's.                                                               *)
LEMMA DecideAsTells ==
    ASSUME ShownInv, AckInv, NEW w \in Workers, NEW who \in Actors, DecideAs(w, who),
           UNCHANGED <<moved, moves>>, PlanningAssumption, GatesAssumption
    PROVE  AckInv'
PROOF
<1> DEFINE e == Handled(w).eventId
           told == events'[e].outcome
           cycle == [workers[w] EXCEPT !.at = "acking", !.result = told]
<1>1. /\ UNCHANGED acks /\ workers[w].at = "deciding"
      /\ workers \in [Workers -> Cycle]
  BY DEF DecideAs, CcUnchanged, ShownInv, WorkerTyped
<1>2. Handled(w) \in Answer
  BY <1>1, CycleNow, HandledTyped
<1>3. [Handled(w) EXCEPT !.actor = who].eventId = e
  BY <1>2 DEF Answer
<1>4. Goto(w, Asleep) \/ Goto(w, cycle)
  BY <1>3 DEF DecideAs
<1>5. OutcomesKept /\ IsOutcome(events'[e], told)
  BY DecideInStore DEF StoreStep, IsOutcome
<1> HIDE DEF e, told
<1>6. CASE Goto(w, Asleep)
  <2>1. workers'[w] = Asleep /\ \A v \in Workers \ {w} : workers'[v] = workers[v]
    BY <1>1, <1>6, GotoMoves
  <2>2. Asleep.at # "acking" /\ Asleep.excluded = FALSE
    BY DEF Asleep
  <2> QED
    BY <1>1, <1>5, <2>1, <2>2, AckStays
<1>7. CASE Goto(w, cycle)
  <2>1. /\ cycle.result = told
        /\ cycle.batch = workers[w].batch /\ cycle.excluded = workers[w].excluded
    BY CycleNow DEF Cycle
  <2> HIDE DEF cycle
  <2>2. workers'[w] = cycle /\ \A v \in Workers \ {w} : workers'[v] = workers[v]
    BY <1>1, <1>7, GotoMoves
  <2> QED
    BY <1>1, <1>5, <2>1, <2>2, AckReached DEF e
<1> QED
  BY <1>4, <1>6, <1>7

(* An acknowledgement arrives, or does not.                                *)
LEMMA AckTells ==
    ASSUME ShownInv, AckInv, NEW w \in Workers, Ack(w), UNCHANGED <<moved, moves>>
    PROVE  AckInv'
PROOF
<1> DEFINE a == Handled(w)
           cycle == [workers[w] EXCEPT !.at = "handling", !.batch = @ \ {a},
                                       !.result = NoResult]
<1>1. /\ UNCHANGED events /\ OutcomesKept
      /\ workers[w].at = "acking"
      /\ Goto(w, Asleep) \/ Goto(w, cycle)
      /\ \/ acks' = acks
         \/ acks' = [acks EXCEPT ![a.eventId] = @ \cup {workers[w].result}]
      /\ workers \in [Workers -> Cycle]
  BY DEF Ack, StoreUnchanged, OutcomesKept, ShownInv, WorkerTyped
<1>2. /\ cycle.at # "acking" /\ cycle.excluded = workers[w].excluded
      /\ Asleep.at # "acking" /\ Asleep.excluded = FALSE
  BY CycleNow DEF Cycle, Asleep
<1> HIDE DEF a, cycle
<1>3. \A v \in Workers :
        \/ workers'[v] = workers[v]
        \/ /\ workers'[v].at # "acking"
           /\ workers'[v].excluded \in {FALSE, moved, workers[v].excluded}
  BY <1>1, <1>2, GotoMoves
<1>4. moves' \in Nat /\ (moves' = 0 => NobodyExcluded')
  BY <1>3 DEF AckInv, NobodyExcluded
<1>5. TellsOutcome'
  <2> SUFFICES ASSUME NEW v \in Workers, workers'[v].at = "acking",
                      Vouched(workers'[v].result, moves')
               PROVE  IsOutcome(events'[Any(workers'[v].batch).eventId], workers'[v].result)
    BY DEF TellsOutcome, Handled, Any
  <2> QED
    BY <1>1, <1>3, TellStays DEF AckInv
<1>6. Vouched(workers[w].result, moves) => IsOutcome(events'[a.eventId], workers[w].result)
  BY <1>1 DEF AckInv, TellsOutcome, a
<1>7. ToldOutcome'
  <2> SUFFICES ASSUME NEW e \in EventIds, NEW outcome \in acks'[e], Vouched(outcome, moves')
               PROVE  IsOutcome(events'[e], outcome)
    BY DEF ToldOutcome
  <2>1. CASE outcome \in acks[e]
    BY <1>1, <2>1, ToldStays DEF AckInv
  <2>2. CASE outcome \notin acks[e]
    <3>1. e = a.eventId /\ outcome = workers[w].result
      BY <1>1, <2>2, CycleNow
    <3> QED
      BY <1>6, <3>1
  <2> QED
    BY <2>1, <2>2
<1> QED
  BY <1>4, <1>5, <1>7 DEF AckInv

(* Steps of a cycle that reach no acknowledgement and hear of none.        *)
LEMMA CycleTellsNothing ==
    ASSUME ShownInv, NEW w \in Workers,
           \/ Tick(w) \/ ReadOutbox(w) \/ MarkFailed(w) \/ Publish(w)
           \/ RecordDelivery(w) \/ FetchAnswers(w) \/ FinishCycle(w) \/ Crash(w)
           \/ \E s \in Sprints : Observe(w, s)
    PROVE  /\ UNCHANGED acks
           /\ \A v \in Workers :
                \/ workers'[v] = workers[v]
                \/ /\ workers'[v].at # "acking"
                   /\ workers'[v].excluded \in {FALSE, moved, workers[v].excluded}
PROOF
<1>1. workers \in [Workers -> Cycle] /\ workers[w] \in Cycle
  BY CycleNow DEF ShownInv, WorkerTyped
<1> DEFINE Aside == /\ UNCHANGED acks
                    /\ \A v \in Workers \ {w} : workers'[v] = workers[v]
                    /\ workers'[w].at # "acking"
                    /\ workers'[w].excluded \in {FALSE, moved, workers[w].excluded}
<1>2. ASSUME NEW cycle, Goto(w, cycle), UNCHANGED acks, cycle.at # "acking",
             cycle.excluded \in {FALSE, moved, workers[w].excluded}
      PROVE  Aside
  BY <1>1, <1>2, GotoMoves
<1>3. Goto(w, Asleep) /\ UNCHANGED acks => Aside
  BY <1>2 DEF Asleep
<1> HIDE DEF Aside
<1>4. Aside
  <2>1. CASE Tick(w)
    BY <1>2, <2>1 DEF Tick, Asleep, CcUnchanged
  <2>2. CASE ReadOutbox(w)
    <3>1. UNCHANGED acks
      BY <2>2 DEF ReadOutbox, CcUnchanged
    <3> DEFINE sent == IF workers[w].excluded THEN {}
                       ELSE {[sprintId |-> s, row |-> outbox[s]] : s \in ToPublish}
    <3>2. PICK configured \in BOOLEAN :
            Goto(w, [workers[w] EXCEPT
                       !.at = IF configured THEN "publishing" ELSE "failing",
                       !.rows = sent])
      BY <2>2, Zenon DEF ReadOutbox
    <3> HIDE DEF sent
    <3> QED
      BY <1>1, <1>2, <3>1, <3>2 DEF Cycle
  <2>3. CASE MarkFailed(w)
    <3>1. UNCHANGED acks /\ workers[w].at = "failing"
      BY <2>3 DEF MarkFailed, CcUnchanged
    <3>2. \/ Goto(w, Asleep)
          \/ \E rows : Goto(w, [workers[w] EXCEPT !.rows = rows])
      BY <2>3 DEF MarkFailed
    <3> QED
      BY <1>1, <1>2, <1>3, <3>1, <3>2 DEF Cycle
  <2>4. CASE Publish(w)
    <3>1. UNCHANGED acks
      BY <2>4 DEF Publish
    <3>2. PICK status : Goto(w, [workers[w] EXCEPT !.at = "delivering", !.result = status])
      BY <2>4 DEF Publish
    <3> QED
      BY <1>1, <1>2, <3>1, <3>2 DEF Cycle
  <2>5. CASE RecordDelivery(w)
    BY <1>1, <1>2, <2>5 DEF RecordDelivery, Cycle, CcUnchanged
  <2>6. CASE FetchAnswers(w)
    <3>1. UNCHANGED acks
      BY <2>6 DEF FetchAnswers, CcUnchanged
    <3>2. \/ Goto(w, Asleep)
          \/ Goto(w, [workers[w] EXCEPT !.at = "handling", !.batch = ToAcknowledge])
      BY <2>6 DEF FetchAnswers
    <3> QED
      BY <1>1, <1>2, <1>3, <3>1, <3>2 DEF Cycle
  <2>7. CASE FinishCycle(w) \/ Crash(w)
    BY <1>3, <2>7 DEF FinishCycle, Crash, CcUnchanged
  <2>8. CASE \E s \in Sprints : Observe(w, s)
    BY <1>1, <1>2, <2>8 DEF Observe, Cycle, CcUnchanged
  <2> QED
    BY <2>1, <2>2, <2>3, <2>4, <2>5, <2>6, <2>7, <2>8
<1> QED
  BY <1>4 DEF Aside

(* Every step keeps what is told true.                                     *)
LEMMA WorkerNextTells ==
    ASSUME ShownInv, AckInv, [WorkerNext]_workerVars,
           PlanningAssumption, GatesAssumption, WorkerAssumption
    PROVE  AckInv'
PROOF
<1>1. OutcomesKept
  BY OutcomesOnward
<1>2. ASSUME NEW w \in Workers, Step(w) \/ Crash(w), UNCHANGED <<moved, moves>>
      PROVE  AckInv'
  <2>1. CASE LookUp(w) \/ Ack(w) \/ \E who \in Actors : DecideAs(w, who)
    BY <1>2, <2>1, LookUpTells, AckTells, DecideAsTells
  <2>2. CASE \/ Tick(w) \/ ReadOutbox(w) \/ MarkFailed(w) \/ Publish(w)
             \/ RecordDelivery(w) \/ FetchAnswers(w) \/ FinishCycle(w) \/ Crash(w)
             \/ \E s \in Sprints : Observe(w, s)
    BY <1>1, <1>2, <2>2, CycleTellsNothing, AckStays
  <2> QED
    BY <1>2, <2>1, <2>2 DEF Step
<1>3. CASE Surroundings \/ UNCHANGED workerVars
  <2>1. UNCHANGED <<workers, acks, moved, moves>>
    BY <1>3 DEF Surroundings, AnswerOnDiscord, OnScreen, workerVars
  <2> QED
    BY <1>1, <2>1, AckStays
<1>4. CASE MoveTeam
  <2>1. UNCHANGED <<workers, acks>> /\ moves \in Nat /\ moves' = moves + 1
    BY <1>4 DEF MoveTeam, CcUnchanged, AckInv
  <2>2. moves' \in Nat /\ moves' # 0
    BY <2>1
  <2>3. TellsOutcome'
    <3> SUFFICES ASSUME NEW v \in Workers, workers'[v].at = "acking",
                        Vouched(workers'[v].result, moves')
                 PROVE  IsOutcome(events'[Any(workers'[v].batch).eventId], workers'[v].result)
      BY DEF TellsOutcome, Handled, Any
    <3> QED
      BY <1>1, <2>1, <2>2, TellStays DEF AckInv
  <2>4. ToldOutcome'
    BY <1>1, <2>1, <2>2, ToldStays DEF AckInv, ToldOutcome
  <2> QED
    BY <2>2, <2>3, <2>4 DEF AckInv
<1> QED
  BY <1>2, <1>3, <1>4 DEF WorkerNext

(* AckInv holds in every reachable state.  The next theorems are its parts.*)
THEOREM AckInvariance == WorkerSpec => []AckInv
PROOF
<1>1. WorkerInit => AckInv
  BY DEF WorkerInit, AckInv, NobodyExcluded, TellsOutcome, ToldOutcome, Asleep
<1>2. ShownInv /\ AckInv /\ [WorkerNext]_workerVars => AckInv'
  BY WorkerNextTells, PlanningAssumption, GatesAssumption, WorkerAssumption
<1> QED
  BY <1>1, <1>2, ShownInvariance, PTL DEF WorkerSpec

(* "Event outcome precedes ack": as long as the team stays, whatever       *)
(* Concordia is told of an answer is the outcome recorded for it, through  *)
(* lost acknowledgements, retries and several workers deciding at once.    *)
THEOREM AcksMatchOutcomes == WorkerSpec => [](moves = 0 => AckMatchesOutcome)
PROOF
<1>1. AckInv => (moves = 0 => AckMatchesOutcome)
  BY DEF AckInv, ToldOutcome, Vouched, IsOutcome, AckMatchesOutcome
<1> QED
  BY <1>1, AckInvariance, PTL

(* Nobody is told that an answer took effect when it did not, even while   *)
(* the team moves to ordinary chat and back: only a rejection may be told  *)
(* of an answer that was not looked at.                                    *)
THEOREM AppliedIsTrue ==
    WorkerSpec => [](\A e \in EventIds : "applied" \in acks[e] =>
                        events[e] # NoOutcome /\ events[e].outcome = "applied")
PROOF
<1>1. AckInv => \A e \in EventIds : "applied" \in acks[e] =>
                    events[e] # NoOutcome /\ events[e].outcome = "applied"
  BY DEF AckInv, ToldOutcome, Vouched, IsOutcome
<1> QED
  BY <1>1, AckInvariance, PTL

=============================================================================
