-------------------------- MODULE SprintGatesProofs --------------------------
(***************************************************************************)
(* The gates keep their promises for every set of sprints, tasks, people   *)
(* and answers, whatever the bounds of the model-checking runs.            *)
(*                                                                         *)
(* First what the judge and the snapshots return, then one lemma per       *)
(* operation of the store, then the theorems.                              *)
(***************************************************************************)
EXTENDS SprintGates, SprintPlanningProofs

(* A gate belongs to a sprint that exists. *)
GatesOnRows == \A s \in Sprints : gates[s] # NoGate => sprints[s] # Absent

(* A gate that has been observed holds the evidence of its last revision.  *)
ObservedHasEvidence ==
    \A s \in Sprints : gates[s] # NoGate /\ gates[s].state.revision > 0 =>
        gates[s].state.sourceFingerprint \in Snapshot

(* The inductive invariant behind type correctness. *)
Typed ==
    /\ TypeOK
    /\ AttachedToRow
    /\ GatesOnRows
    /\ ObservedHasEvidence
    /\ NextPlanLoadable

-----------------------------------------------------------------------------
(* What the store reads.                                                   *)

(* The tasks of a sprint, as a snapshot shows them, are typed.             *)
LEMMA TasksTyped ==
    ASSUME NEW s, tasks \in [Tasks -> TaskRow]
    PROVE  TasksOf(s) \in TaskScope
PROOF
<1> DEFINE scope == {x \in Tasks : tasks[x].sprint = s}
<1>1. TasksOf(s) \in [scope -> TaskData]
  BY DEF TasksOf, TaskData, TaskRow
<1>2. scope \in SUBSET Tasks
  OBVIOUS
<1> QED
  BY <1>1, <1>2 DEF TaskScope

(* A snapshot of a sprint that exists, with a next plan that exists or     *)
(* none, is a snapshot, and remembers which next plan it shows.            *)
LEMMA SnapshotTyped ==
    ASSUME NEW table \in [Sprints -> Row \cup {Absent}], NEW s \in Sprints,
           NEW r \in Retrospectives, NEW next \in Sprints \cup {NoSprint},
           table[s] # Absent,
           next # NoSprint => table[next] # Absent,
           tasks \in [Tasks -> TaskRow],
           PlanningAssumption, GatesAssumption
    PROVE  LET snapshot == SnapshotOf(table, s, r, next) IN
           /\ snapshot \in Snapshot
           /\ snapshot.sprint = table[s]
           /\ snapshot.retrospective = r
           /\ next = NoSprint => snapshot.nextPlan = NoPlan
           /\ next # NoSprint => snapshot.nextPlan # NoPlan /\ snapshot.nextPlan.id = next
PROOF
<1>1. TasksOf(s) \in TaskScope /\ TasksOf(next) \in TaskScope
  BY TasksTyped
<1>2. table[s] \in Row
  OBVIOUS
<1>3. CASE next = NoSprint
  <2>1. PlanOf(table, next) = NoPlan
    BY <1>3 DEF PlanOf
  <2> QED
    BY <1>1, <1>2, <1>3, <2>1 DEF SnapshotOf, Snapshot
<1>4. CASE next # NoSprint
  <2>1. /\ PlanOf(table, next) \in NextPlan
        /\ PlanOf(table, next).id = next
    BY <1>1, <1>4 DEF PlanOf, NextPlan
  <2>2. PlanOf(table, next) # NoPlan
    BY <2>1 DEF GatesAssumption
  <2> QED
    BY <1>1, <1>2, <1>4, <2>1, <2>2 DEF SnapshotOf, Snapshot
<1> QED
  BY <1>3, <1>4

(* The gate of a sprint that can be loaded is a gate row. *)
LEMMA GateOfTyped ==
    ASSUME Typed, NEW s \in Sprints, Loadable(s), PlanningAssumption, GatesAssumption
    PROVE  /\ GateOf(s) \in GateRow
           /\ GateOf(s).state.revision > 0 => GateOf(s).state.sourceFingerprint \in Snapshot
           /\ GateOf(s).nextSprintId # NoSprint =>
                /\ GateOf(s).nextSprintId # s
                /\ gates[GateOf(s).nextSprintId] # NoGate
                /\ sprints[GateOf(s).nextSprintId] # Absent
PROOF
<1>1. CASE gates[s] # NoGate
  BY <1>1 DEF GateOf, Typed, TypeOK, NextPlanLoadable, GatesOnRows, ObservedHasEvidence, GateRow
<1>2. CASE gates[s] = NoGate
  <2> DEFINE p == IF sprints[s].status = "active" THEN "implementation" ELSE "planning"
  <2>1. p \in Phases
    BY DEF Phases
  <2>2. InitialSprintPhase(p) \in PhaseState
    BY <2>1 DEF InitialSprintPhase, PhaseState, Fingerprints
  <2>3. /\ GateOf(s).state = InitialSprintPhase(p)
        /\ GateOf(s).nextSprintId = NoSprint
    BY <1>2 DEF GateOf, NewGate
  <2>4. InitialSprintPhase(p).revision = 0
    BY DEF InitialSprintPhase
  <2>5. GateOf(s) \in GateRow
    BY <1>2, <2>2 DEF GateOf, NewGate, GateRow, Retrospectives
  <2> HIDE DEF p
  <2> QED
    BY <2>3, <2>4, <2>5
<1> QED
  BY <1>1, <1>2

(* So is the snapshot the store takes of a sprint as it stands.            *)
LEMMA CurrentTyped ==
    ASSUME Typed, NEW s \in Sprints, Loadable(s), PlanningAssumption, GatesAssumption
    PROVE  CurrentSnapshot(s) \in Snapshot
PROOF
<1>1. /\ GateOf(s).retrospective \in Retrospectives
      /\ GateOf(s).nextSprintId \in Sprints \cup {NoSprint}
      /\ GateOf(s).nextSprintId # NoSprint => sprints[GateOf(s).nextSprintId] # Absent
  BY GateOfTyped DEF GateRow
<1>2. sprints[s] # Absent
  BY DEF Loadable
<1> QED
  BY <1>1, <1>2, SnapshotTyped DEF CurrentSnapshot, Typed, TypeOK, PlanningTypeOK

-----------------------------------------------------------------------------
(* What the judge returns.                                                 *)

Working == {"implementation", "acceptance"}

(* A decision of the judge keeps the state of a gate typed and observed.   *)
LEMMA RevisedTyped ==
    ASSUME NEW state \in PhaseState, NEW snapshot \in Snapshot
    PROVE  /\ Revised(state, snapshot) \in PhaseState
           /\ Revised(state, snapshot).revision = state.revision + 1
           /\ Revised(state, snapshot).phase = state.phase
           /\ Revised(state, snapshot).held = state.held
           /\ Revised(state, snapshot).reworkTaskIds = state.reworkTaskIds
           /\ Revised(state, snapshot).sourceFingerprint = snapshot
PROOF
<1>1. Revised(state, snapshot) \in PhaseState
  <2>1. snapshot \in Fingerprints
    BY DEF Fingerprints
  <2>2. [state EXCEPT !.revision = state.revision + 1] \in PhaseState
    BY DEF PhaseState
  <2>3. Revised(state, snapshot) =
            [[state EXCEPT !.revision = state.revision + 1] EXCEPT !.sourceFingerprint = snapshot]
    BY DEF Revised, Fingerprint
  <2> QED
    BY <2>1, <2>2, <2>3 DEF PhaseState
<1>2. /\ Revised(state, snapshot).revision = state.revision + 1
      /\ Revised(state, snapshot).phase = state.phase
      /\ Revised(state, snapshot).reworkTaskIds = state.reworkTaskIds
      /\ Revised(state, snapshot).sourceFingerprint = snapshot
  BY DEF Revised, PhaseState, Fingerprint
<1>3. Revised(state, snapshot).held = state.held
  BY DEF Revised, PhaseState, Fingerprint
<1> QED
  BY <1>1, <1>2, <1>3

(* An observation changes nothing, or makes a new revision that differs    *)
(* only between implementation and acceptance.                             *)
LEMMA ObserveTyped ==
    ASSUME NEW state \in PhaseState, NEW snapshot \in Snapshot,
           NEW new \in ObserveOutcomes(state, snapshot)
    PROVE  /\ new \in PhaseState
           /\ \/ new = state /\ state.sourceFingerprint = snapshot
              \/ /\ new.revision = state.revision + 1
                 /\ new.sourceFingerprint = snapshot
           /\ \/ new.phase = state.phase
              \/ new.phase \in Working /\ state.phase \in Working
PROOF
<1> DEFINE next == Revised(state, snapshot)
<1>1. /\ next \in PhaseState /\ next.revision = state.revision + 1
      /\ next.phase = state.phase /\ next.sourceFingerprint = snapshot
  BY RevisedTyped
<1>2. new \in {[next EXCEPT !.phase = "acceptance"], state, next,
               [next EXCEPT !.phase = "implementation"]}
  BY DEF ObserveOutcomes
<1>3. CASE new = [next EXCEPT !.phase = "acceptance"] /\ ReadyForAcceptance(state, snapshot)
  <2>1. state.phase \in Working
    BY <1>3 DEF ReadyForAcceptance, Working
  <2> HIDE DEF next
  <2> QED
    BY <1>1, <1>3, <2>1 DEF PhaseState, Phases, Working
<1>4. CASE new = state /\ state.sourceFingerprint = snapshot
  BY <1>4
<1>5. CASE new = next
  BY <1>1, <1>5
<1>6. CASE new = [next EXCEPT !.phase = "implementation"] /\ state.phase = "acceptance"
  <2> HIDE DEF next
  <2> QED
    BY <1>1, <1>6 DEF PhaseState, Phases, Working
<1>7. \/ new = [next EXCEPT !.phase = "acceptance"] /\ ReadyForAcceptance(state, snapshot)
      \/ new = state /\ state.sourceFingerprint = snapshot
      \/ new = next
      \/ new = [next EXCEPT !.phase = "implementation"] /\ state.phase = "acceptance"
  BY DEF ObserveOutcomes, Fingerprint
<1> QED
  BY <1>3, <1>4, <1>5, <1>6, <1>7

(* An accepted command makes a new revision, and moves the phase as the    *)
(* table of the judge says.                                                *)
LEMMA DecidedTyped ==
    ASSUME NEW state \in PhaseState, NEW snapshot \in Snapshot, NEW a \in Answer,
           Accepts(state, snapshot, a)
    PROVE  LET new == Decided(state, snapshot, a) IN
           /\ new \in PhaseState
           /\ new.revision = state.revision + 1
           /\ new.phase = "planning" =>
                state.phase = "planning" /\ EffectOf(state, a) = "none"
           /\ state.phase = "planning" =>
                \/ new.phase = "planning"
                \/ EffectOf(state, a) = "start_sprint"
           /\ EffectOf(state, a) = "start_sprint" =>
                state.phase = "planning" /\ new.phase = "implementation"
           /\ EffectOf(state, a) = "start_next_sprint" =>
                state.phase = "next_planning" /\ new.phase = "next_planning"
           /\ EffectOf(state, a) \in {"none", "start_sprint", "start_next_sprint"}
PROOF
<1> DEFINE next == Revised(state, snapshot)
<1>1. /\ next \in PhaseState /\ next.revision = state.revision + 1
      /\ next.phase = state.phase
  BY RevisedTyped
<1>2. state.phase \in Phases /\ a.action \in HumanActions /\ a.taskIds \in SUBSET Tasks
  BY DEF PhaseState, Answer
<1>3. CASE a.action = "approve"
  <2>1. Decided(state, snapshot, a) = [next EXCEPT !.phase = PhaseAfterApproval(state.phase)]
    BY <1>3 DEF Decided
  <2>2. state.phase # "implementation"
    BY <1>3 DEF Accepts, ApprovalReady
  <2>3. /\ PhaseAfterApproval(state.phase) \in Phases \ {"planning"}
        /\ state.phase = "planning" => PhaseAfterApproval(state.phase) = "implementation"
        /\ state.phase = "next_planning" => PhaseAfterApproval(state.phase) = "next_planning"
    BY <1>2 DEF PhaseAfterApproval, Phases
  <2>4. /\ EffectOf(state, a) = "start_sprint" <=> state.phase = "planning"
        /\ EffectOf(state, a) = "start_next_sprint" <=> state.phase = "next_planning"
        /\ EffectOf(state, a) \in {"none", "start_sprint", "start_next_sprint"}
    BY <1>2, <1>3 DEF EffectOf, EffectOfApproval, Phases
  <2> HIDE DEF next
  <2> QED
    BY <1>1, <2>1, <2>3, <2>4 DEF PhaseState
<1>4. CASE a.action # "approve"
  <2>1. EffectOf(state, a) = "none"
    BY <1>4 DEF EffectOf
  <2>2. CASE a.action = "reject"
    <3>1. Decided(state, snapshot, a) =
            IF state.phase = "planning" THEN next
            ELSE [next EXCEPT !.phase = "implementation", !.reworkTaskIds = a.taskIds]
      BY <2>2 DEF Decided
    <3> HIDE DEF next
    <3> QED
      BY <1>1, <1>2, <2>1, <3>1 DEF PhaseState, Phases
  <2>3. CASE a.action = "hold"
    <3>1. Decided(state, snapshot, a) = [next EXCEPT !.held = TRUE]
      BY <2>3 DEF Decided
    <3> HIDE DEF next
    <3> QED
      BY <1>1, <1>2, <2>1, <3>1 DEF PhaseState
  <2>4. CASE a.action = "resume"
    <3>1. Decided(state, snapshot, a) = [next EXCEPT !.held = FALSE]
      BY <2>4 DEF Decided
    <3> HIDE DEF next
    <3> QED
      BY <1>1, <1>2, <2>1, <3>1 DEF PhaseState
  <2>5. CASE a.action = "resubmit"
    <3>1. Decided(state, snapshot, a) = [next EXCEPT !.phase = "acceptance", !.reworkTaskIds = {}]
      BY <2>5 DEF Decided
    <3>2. state.phase = "implementation"
      BY <2>5 DEF Accepts
    <3> HIDE DEF next
    <3> QED
      BY <1>1, <1>2, <2>1, <3>1, <3>2 DEF PhaseState, Phases
  <2> QED
    BY <1>2, <1>4, <2>2, <2>3, <2>4, <2>5 DEF HumanActions
<1> QED
  BY <1>3, <1>4

-----------------------------------------------------------------------------
(* What the store writes.                                                  *)

(* What persist writes into sprint_gates is a row, with evidence.          *)
LEMMA PersistedTyped ==
    ASSUME NEW state \in PhaseState, NEW snapshot \in Snapshot
    PROVE  /\ Persisted(state, snapshot) \in GateRow
           /\ Persisted(state, snapshot).state.revision = state.revision
           /\ Persisted(state, snapshot).state.phase = state.phase
           /\ Persisted(state, snapshot).state.held = state.held
           /\ Persisted(state, snapshot).state.reworkTaskIds = state.reworkTaskIds
           /\ Persisted(state, snapshot).state.sourceFingerprint = snapshot
           /\ Persisted(state, snapshot).nextSprintId =
                IF snapshot.nextPlan = NoPlan THEN NoSprint ELSE snapshot.nextPlan.id
PROOF
<1>1. /\ [state EXCEPT !.sourceFingerprint = Fingerprint(snapshot)] \in PhaseState
      /\ [state EXCEPT !.sourceFingerprint = Fingerprint(snapshot)].revision = state.revision
      /\ [state EXCEPT !.sourceFingerprint = Fingerprint(snapshot)].phase = state.phase
      /\ [state EXCEPT !.sourceFingerprint = Fingerprint(snapshot)].held = state.held
      /\ [state EXCEPT !.sourceFingerprint = Fingerprint(snapshot)].reworkTaskIds =
            state.reworkTaskIds
      /\ [state EXCEPT !.sourceFingerprint = Fingerprint(snapshot)].sourceFingerprint = snapshot
  <2>1. snapshot \in Fingerprints
    BY DEF Fingerprints
  <2> QED
    BY <2>1 DEF PhaseState, Fingerprint
<1>2. /\ snapshot.retrospective \in Retrospectives
      /\ snapshot.nextPlan # NoPlan => snapshot.nextPlan.id \in Sprints
  BY DEF Snapshot, NextPlan
<1>3. (IF snapshot.nextPlan = NoPlan THEN NoSprint ELSE snapshot.nextPlan.id)
        \in Sprints \cup {NoSprint}
  BY <1>2
<1> QED
  BY <1>1, <1>2, <1>3 DEF Persisted, GateRow

(* What it writes into sprint_gate_outbox is a row too.                    *)
LEMMA MessageTyped ==
    ASSUME NEW state \in PhaseState, NEW snapshot \in Snapshot, state.revision > 0
    PROVE  Message(state, snapshot) \in OutboxRow
PROOF
<1>1. /\ state.phase \in Phases /\ state.held \in BOOLEAN /\ state.revision \in Nat \ {0}
      /\ Fingerprint(snapshot) \in Snapshot
  BY DEF PhaseState, Fingerprint
<1> QED
  BY <1>1 DEF Message, OutboxRow, Projection, DeliveryStatuses

(* And so is what it appends to sprint_gate_history.                       *)
LEMMA EntryTyped ==
    ASSUME NEW s \in Sprints, NEW state \in PhaseState, NEW action \in HistoryActions,
           NEW e \in EventIds \cup {NoEvent}, state.revision > 0
    PROVE  Entry(s, state, action, e) \in HistoryEntry
BY DEF Entry, HistoryEntry, PhaseState

(* How the status of a sprint and the phase of its gate go together.       *)
PhaseFits(status, phase) ==
    /\ status = "planning" => phase = "planning"
    /\ status = "active" => phase # "planning"
    /\ status = "closed" => phase = "next_planning"

(* A row that may be written to the gate of s in this step.                *)
GoodGate(s, row) ==
    /\ row \in GateRow
    /\ sprints[s] # Absent
    /\ row.state.revision > 0 => row.state.sourceFingerprint \in Snapshot
    /\ row.nextSprintId # NoSprint =>
        row.nextSprintId # s /\ gates'[row.nextSprintId] # NoGate
    /\ PhaseFits(sprints'[s].status, row.state.phase)

(* What a step of the store, or of anybody else, may do to the gates.      *)
GatesMove ==
    /\ DOMAIN gates' = Sprints /\ gates' = [s \in Sprints |-> gates'[s]]
    /\ \A s \in Sprints : sprints[s] # Absent => sprints'[s] # Absent
    /\ \A s \in Sprints :
        \/ /\ gates'[s] = gates[s]
           /\ gates[s] # NoGate => sprints'[s].status = sprints[s].status
        \/ GoodGate(s, gates'[s])

(* Everything about the gates that an induction over the steps needs.      *)
Inv == Typed /\ PhaseMatchesStatus

(* A step that writes only good rows to the gates keeps everything the     *)
(* induction says of them.                                                 *)
LEMMA MoveKeepsGates ==
    ASSUME Inv, GatesMove, GatesAssumption
    PROVE  /\ gates' \in [Sprints -> GateRow \cup {NoGate}]
           /\ GatesOnRows'
           /\ ObservedHasEvidence'
           /\ NextPlanLoadable'
           /\ PhaseMatchesStatus'
PROOF
<1>1. \A s \in Sprints : gates'[s] \in GateRow \cup {NoGate}
  BY DEF Inv, Typed, TypeOK, GatesMove, GoodGate
<1>2. \A s \in Sprints : gates[s] # NoGate => gates'[s] # NoGate
  BY DEF GatesMove, GoodGate, GatesAssumption
<1>3. GatesOnRows'
  BY DEF Inv, Typed, GatesOnRows, GatesMove, GoodGate
<1>4. ObservedHasEvidence'
  BY DEF Inv, Typed, ObservedHasEvidence, GatesMove, GoodGate
<1>5. NextPlanLoadable'
  <2> SUFFICES ASSUME NEW s \in Sprints, gates'[s] # NoGate,
                      gates'[s].nextSprintId # NoSprint
               PROVE  gates'[s].nextSprintId # s /\ gates'[gates'[s].nextSprintId] # NoGate
    BY DEF NextPlanLoadable
  <2>1. CASE gates'[s] = gates[s]
    <3>1. gates[s].nextSprintId \in Sprints
      BY <2>1 DEF Inv, Typed, TypeOK, GateRow
    <3> QED
      BY <1>2, <2>1, <3>1 DEF Inv, Typed, NextPlanLoadable
  <2>2. CASE GoodGate(s, gates'[s])
    BY <2>2 DEF GoodGate
  <2> QED
    BY <2>1, <2>2 DEF GatesMove
<1>6. PhaseMatchesStatus'
  BY <1>3 DEF Inv, PhaseMatchesStatus, GatesMove, GoodGate, PhaseFits, GatesOnRows
<1> QED
  BY <1>1, <1>3, <1>4, <1>5, <1>6 DEF GatesMove

-----------------------------------------------------------------------------
(* One step of the system.                                                 *)

(* The inductive invariant of the theorems below. *)
IInv == Inv /\ AtMostOneActive /\ PeriodsDisjoint

(* What each step does to the tables that are not the gates. *)
OthersTyped ==
    /\ history' \subseteq HistoryEntry
    /\ outbox' \in [Sprints -> OutboxRow \cup {NoMessage}]
    /\ events' \in [EventIds -> StoredEvent \cup {NoOutcome}]
    /\ answers' \subseteq Answer

StepKeeps ==
    /\ Tables'
    /\ AtMostOneActive'
    /\ PeriodsDisjoint'
    /\ GatesMove
    /\ OthersTyped

(* A step that does no more than StepKeeps says keeps the invariant.       *)
LEMMA StepSuffices ==
    ASSUME IInv, StepKeeps, GatesAssumption
    PROVE  IInv'
PROOF
<1>1. Inv
  BY DEF IInv
<1>2. GatesMove
  BY DEF StepKeeps
<1>3. /\ gates' \in [Sprints -> GateRow \cup {NoGate}]
      /\ GatesOnRows' /\ ObservedHasEvidence'
      /\ NextPlanLoadable' /\ PhaseMatchesStatus'
  BY <1>1, <1>2, MoveKeepsGates
<1>4. TypeOK'
  BY <1>3 DEF StepKeeps, Tables, OthersTyped, TypeOK
<1> QED
  BY <1>3, <1>4 DEF IInv, Inv, Typed, StepKeeps, Tables

(* The tables other than the gates, as the invariant has them now.         *)
LEMMA TypedNow ==
    ASSUME IInv
    PROVE  /\ Tables
           /\ sprints \in [Sprints -> Row \cup {Absent}]
           /\ tasks \in [Tasks -> TaskRow]
           /\ gates \in [Sprints -> GateRow \cup {NoGate}]
           /\ history \subseteq HistoryEntry
           /\ outbox \in [Sprints -> OutboxRow \cup {NoMessage}]
           /\ events \in [EventIds -> StoredEvent \cup {NoOutcome}]
           /\ answers \subseteq Answer
BY DEF IInv, Inv, Typed, TypeOK, Tables, PlanningTypeOK

(* The phase a gate is loaded with fits the status of its sprint.          *)
LEMMA LoadedFits ==
    ASSUME Inv, NEW s \in Sprints, Loadable(s)
    PROVE  PhaseFits(sprints[s].status, GateOf(s).state.phase)
PROOF
<1>1. CASE gates[s] = NoGate
  BY <1>1 DEF Loadable, PhaseFits, GateOf, NewGate, InitialSprintPhase
<1>2. CASE gates[s] # NoGate
  BY <1>2 DEF Inv, PhaseMatchesStatus, PhaseFits, GateOf
<1> QED
  BY <1>1, <1>2

(* A gate as it is loaded may be written back by a step that leaves the    *)
(* status of its sprint and the gate of its next plan alone.               *)
LEMMA LoadedIsGood ==
    ASSUME Inv, NEW s \in Sprints, Loadable(s), PlanningAssumption, GatesAssumption,
           sprints'[s].status = sprints[s].status,
           \A n \in Sprints : gates[n] # NoGate => gates'[n] # NoGate
    PROVE  GoodGate(s, GateOf(s))
PROOF
<1>1. Typed
  BY DEF Inv
<1>2. /\ GateOf(s) \in GateRow
      /\ GateOf(s).state.revision > 0 => GateOf(s).state.sourceFingerprint \in Snapshot
      /\ GateOf(s).nextSprintId # NoSprint =>
            /\ GateOf(s).nextSprintId # s
            /\ gates[GateOf(s).nextSprintId] # NoGate
  BY <1>1, GateOfTyped
<1>3. GateOf(s).nextSprintId \in Sprints \cup {NoSprint}
  BY <1>2 DEF GateRow
<1>4. PhaseFits(sprints'[s].status, GateOf(s).state.phase)
  BY LoadedFits
<1> QED
  BY <1>2, <1>3, <1>4 DEF GoodGate, Loadable

(* So may a gate that is persisted with typed state and evidence.          *)
LEMMA PersistedIsGood ==
    ASSUME NEW s \in Sprints, NEW state \in PhaseState, NEW snapshot \in Snapshot,
           sprints[s] # Absent,
           snapshot.nextPlan # NoPlan =>
                snapshot.nextPlan.id # s /\ gates'[snapshot.nextPlan.id] # NoGate,
           PhaseFits(sprints'[s].status, state.phase)
    PROVE  GoodGate(s, Persisted(state, snapshot))
BY PersistedTyped DEF GoodGate

(* The history and the outbox after one persist. *)
LEMMA PersistTyped ==
    ASSUME IInv, NEW s \in Sprints, NEW state \in PhaseState, NEW snapshot \in Snapshot,
           NEW action \in HistoryActions, NEW e \in EventIds \cup {NoEvent},
           state.revision > 0
    PROVE  /\ history \cup {Entry(s, state, action, e)} \subseteq HistoryEntry
           /\ [outbox EXCEPT ![s] = Message(state, snapshot)]
                \in [Sprints -> OutboxRow \cup {NoMessage}]
BY TypedNow, EntryTyped, MessageTyped

(* What a change of the planning tables by a person does: the gates stand  *)
(* still, and no sprint that has one gets another status.                  *)
LEMMA PlanningStep ==
    ASSUME IInv, PlanningCall, UNCHANGED <<gates, history, outbox, events, answers>>,
           PlanningAssumption
    PROVE  StepKeeps
PROOF
<1>1. Tables' /\ AtMostOneActive' /\ PeriodsDisjoint'
  BY TypedNow, CallKeepsTables, CallKeepsOneActive, CallKeepsDisjoint
     DEF IInv, AtMostOneActive, PeriodsDisjoint
<1>2. \A s \in Sprints : sprints[s] # Absent =>
        sprints'[s] # Absent /\ sprints'[s].status = sprints[s].status
  BY TypedNow, CallKeepsStatus
<1>3. GatesMove
  BY <1>2, TypedNow DEF GatesMove, IInv, Inv, Typed, GatesOnRows
<1>4. OthersTyped
  BY TypedNow DEF OthersTyped
<1> QED
  BY <1>1, <1>3, <1>4 DEF StepKeeps

(* Operations of the planning API keep the invariant.                      *)
LEMMA ChangePlanStep ==
    ASSUME IInv, ChangePlan, PlanningAssumption
    PROVE  StepKeeps
PROOF
<1>1. \A s \in Sprints : IsOpen(sprints[s]) => sprints[s].revision \in Nat
  BY TypedNow, OpenIsRow DEF Row
<1>2. PlanningCall
  BY <1>1 DEF ChangePlan, PlanningCall
<1> QED
  BY <1>2, PlanningStep DEF ChangePlan

(* The task routes keep the invariant: they leave memberships alone.       *)
LEMMA WorkOnTaskStep ==
    ASSUME IInv, WorkOnTask, PlanningAssumption
    PROVE  StepKeeps
PROOF
<1>1. PlanningCall
  BY DEF WorkOnTask, PlanningCall
<1> QED
  BY <1>1, PlanningStep DEF WorkOnTask

(* A person who forms an answer keeps the invariant: no table changes.     *)
LEMMA FormAnswerStep ==
    ASSUME IInv, NEW e \in EventIds, NEW s \in Sprints, NEW who \in Actors,
           NEW do \in Asked, NEW ids \in SUBSET Tasks,
           FormAnswer(e, s, who, do, ids), GatesAssumption
    PROVE  StepKeeps
PROOF
<1> DEFINE a == [eventId |-> e, sprintId |-> s, actor |-> who, action |-> do,
                 expectedRevision |-> gates[s].state.revision,
                 sourceFingerprint |-> gates[s].state.sourceFingerprint,
                 taskIds |-> ids]
<1>1. /\ gates[s] # NoGate /\ gates[s].state.revision > 0
      /\ answers' = answers \cup {a}
      /\ UNCHANGED <<sprints, tasks, gates, history, outbox, events>>
  BY DEF FormAnswer
<1>2. gates[s].state.revision \in Nat \ {0}
  BY <1>1, TypedNow DEF GateRow, PhaseState
<1>3. gates[s].state.sourceFingerprint \in Snapshot
  BY <1>1 DEF IInv, Inv, Typed, ObservedHasEvidence
<1>4. do \in HumanActions
  BY DEF GatesAssumption
<1>5. a \in Answer
  BY <1>2, <1>3, <1>4 DEF Answer
<1> HIDE DEF a
<1>6. OthersTyped
  BY <1>1, <1>5, TypedNow DEF OthersTyped
<1>7. GatesMove
  BY <1>1, TypedNow DEF GatesMove
<1>8. Tables' /\ AtMostOneActive' /\ PeriodsDisjoint'
  BY <1>1, TypedNow DEF Tables, PlanningTypeOK, AttachedToRow, AtMostOneActive, OneActive,
     PeriodsDisjoint, OpenPeriodsDisjoint, IInv
<1> QED
  BY <1>6, <1>7, <1>8 DEF StepKeeps

(* The tables of planning stand still in an observation, a change of       *)
(* context and a rejection.                                                *)
LEMMA PlanningStands ==
    ASSUME IInv, UNCHANGED <<sprints, tasks>>
    PROVE  Tables' /\ AtMostOneActive' /\ PeriodsDisjoint'
BY TypedNow DEF Tables, PlanningTypeOK, AttachedToRow, AtMostOneActive, OneActive,
   PeriodsDisjoint, OpenPeriodsDisjoint, IInv

(* view keeps the invariant: it writes the gate of one sprint.             *)
LEMMA ViewStep ==
    ASSUME IInv, NEW s \in Sprints, View(s), UNCHANGED answers,
           PlanningAssumption, GatesAssumption
    PROVE  StepKeeps
PROOF
<1>1. /\ Loadable(s) /\ UNCHANGED <<sprints, tasks, events, answers>>
      /\ sprints[s] # Absent
  BY DEF View, Loadable
<1>2. Tables' /\ AtMostOneActive' /\ PeriodsDisjoint'
  BY <1>1, PlanningStands
<1> DEFINE old == GateOf(s).state
           snapshot == CurrentSnapshot(s)
<1>3. /\ GateOf(s) \in GateRow /\ old \in PhaseState /\ snapshot \in Snapshot
      /\ PhaseFits(sprints[s].status, old.phase)
  BY <1>1, GateOfTyped, CurrentTyped, LoadedFits DEF IInv, Inv, GateRow
<1>4. PICK state \in ObserveOutcomes(old, snapshot) :
        IF state = old
        THEN /\ gates' = [gates EXCEPT ![s] = GateOf(s)]
             /\ UNCHANGED <<history, outbox>>
        ELSE Persist(s, state, snapshot, "observe", NoEvent)
  BY DEF View
<1>5. CASE state = old
  <2>1. \A n \in Sprints : gates[n] # NoGate => gates'[n] # NoGate
    BY <1>3, <1>4, <1>5, TypedNow DEF GatesAssumption
  <2>2. GoodGate(s, GateOf(s))
    BY <1>1, <2>1, LoadedIsGood DEF IInv
  <2>3. GatesMove
    BY <1>1, <1>4, <1>5, <2>2, TypedNow DEF GatesMove
  <2>4. OthersTyped
    BY <1>1, <1>4, <1>5, TypedNow DEF OthersTyped
  <2> QED
    BY <1>2, <2>3, <2>4 DEF StepKeeps
<1>6. CASE state # old
  <2>1. Persist(s, state, snapshot, "observe", NoEvent)
    BY <1>4, <1>6
  <2>2. /\ state \in PhaseState /\ state.revision = old.revision + 1
        /\ \/ state.phase = old.phase
           \/ state.phase \in Working /\ old.phase \in Working
    BY <1>3, <1>6, ObserveTyped
  <2>3. state.revision > 0
    BY <1>3, <2>2 DEF PhaseState
  <2>4. PhaseFits(sprints'[s].status, state.phase)
    BY <1>1, <1>3, <2>2 DEF PhaseFits, Working
  <2>5. snapshot.nextPlan # NoPlan =>
            snapshot.nextPlan.id # s /\ gates'[snapshot.nextPlan.id] # NoGate
    <3>1. /\ GateOf(s).retrospective \in Retrospectives
          /\ GateOf(s).nextSprintId \in Sprints \cup {NoSprint}
          /\ GateOf(s).nextSprintId # NoSprint =>
                /\ GateOf(s).nextSprintId # s
                /\ gates[GateOf(s).nextSprintId] # NoGate
                /\ sprints[GateOf(s).nextSprintId] # Absent
      BY <1>1, <1>3, GateOfTyped DEF GateRow, IInv, Inv
    <3>2. snapshot.nextPlan # NoPlan =>
            /\ GateOf(s).nextSprintId # NoSprint
            /\ snapshot.nextPlan.id = GateOf(s).nextSprintId
      BY <1>1, <3>1, SnapshotTyped, TypedNow DEF CurrentSnapshot
    <3>3. \A n \in Sprints : n # s => gates'[n] = gates[n]
      BY <2>1, TypedNow DEF Persist
    <3> HIDE DEF snapshot
    <3> QED
      BY <3>1, <3>2, <3>3
  <2> HIDE DEF snapshot
  <2>6. GoodGate(s, Persisted(state, snapshot))
    BY <1>1, <1>3, <2>2, <2>4, <2>5, PersistedIsGood
  <2>7. GatesMove
    BY <1>1, <2>1, <2>6, TypedNow DEF GatesMove, Persist
  <2>8. OthersTyped
    BY <1>1, <1>3, <2>1, <2>2, <2>3, TypedNow, PersistTyped
       DEF OthersTyped, Persist, HistoryActions
  <2> QED
    BY <1>2, <2>7, <2>8 DEF StepKeeps
<1> QED
  BY <1>5, <1>6

(* A next plan chosen here is a planning sprint whose gate is created, if  *)
(* it has none, before the gate of this one names it.                      *)
LEMMA ChangeContextStep ==
    ASSUME IInv, NEW s \in Sprints, NEW r \in Retrospectives,
           NEW next \in Sprints \cup {NoSprint}, ChangeContext(s, r, next),
           PlanningAssumption, GatesAssumption
    PROVE  StepKeeps
PROOF
<1> DEFINE snapshot == SnapshotOf(sprints, s, r, next)
           rows == IF next = NoSprint THEN gates
                   ELSE [gates EXCEPT ![next] = GateOf(next)]
<1>1. /\ gates[s] # NoGate
      /\ next # NoSprint => MayFollow(s, next)
      /\ UNCHANGED <<sprints, tasks, events, answers>>
  BY DEF ChangeContext
<1>2. Tables' /\ AtMostOneActive' /\ PeriodsDisjoint'
  BY <1>1, PlanningStands
<1>3. /\ Loadable(s) /\ GateOf(s) = gates[s] /\ sprints[s] # Absent
      /\ gates[s].state \in PhaseState
      /\ PhaseFits(sprints[s].status, gates[s].state.phase)
  BY <1>1, TypedNow DEF Loadable, GateOf, IInv, Inv, Typed, GatesOnRows, GateRow,
     PhaseMatchesStatus, PhaseFits
<1>4. /\ next # NoSprint => next # s /\ Loadable(next) /\ sprints[next] # Absent
  BY <1>1 DEF MayFollow, Loadable
<1>5. /\ snapshot \in Snapshot
      /\ snapshot.nextPlan # NoPlan => next # NoSprint /\ snapshot.nextPlan.id = next
  BY <1>3, <1>4, TypedNow, SnapshotTyped
<1>6. PICK state \in ObserveOutcomes(gates[s].state, snapshot) :
        /\ state # gates[s].state
        /\ gates' = [rows EXCEPT ![s] = Persisted(state, snapshot)]
        /\ history' = history \cup {Entry(s, state, "context", NoEvent)}
        /\ outbox' = [outbox EXCEPT ![s] = Message(state, snapshot)]
  BY DEF ChangeContext
<1> HIDE DEF snapshot
<1>7. /\ state \in PhaseState /\ state.revision = gates[s].state.revision + 1
      /\ \/ state.phase = gates[s].state.phase
         \/ state.phase \in Working /\ gates[s].state.phase \in Working
  BY <1>3, <1>5, <1>6, ObserveTyped
<1>8. state.revision > 0
  BY <1>3, <1>7 DEF PhaseState
<1>9. PhaseFits(sprints'[s].status, state.phase)
  BY <1>1, <1>3, <1>7 DEF PhaseFits, Working
<1>10. next # NoSprint => GateOf(next) \in GateRow
  BY <1>4, GateOfTyped DEF IInv, Inv
<1>11. /\ DOMAIN gates' = Sprints /\ gates' = [x \in Sprints |-> gates'[x]]
       /\ gates'[s] = Persisted(state, snapshot)
       /\ \A n \in Sprints \ {s} : gates'[n] = IF n = next THEN GateOf(n) ELSE gates[n]
  BY <1>6, TypedNow DEF PlanningAssumption
<1>12. /\ next # NoSprint => gates'[next] # NoGate
       /\ \A n \in Sprints : gates[n] # NoGate => gates'[n] # NoGate
  BY <1>4, <1>5, <1>7, <1>10, <1>11, PersistedTyped DEF GatesAssumption
<1>13. GoodGate(s, Persisted(state, snapshot))
  BY <1>3, <1>4, <1>5, <1>7, <1>9, <1>12, PersistedIsGood
<1>14. next # NoSprint => GoodGate(next, GateOf(next))
  BY <1>1, <1>4, <1>12, LoadedIsGood DEF IInv
<1>15. GatesMove
  BY <1>1, <1>11, <1>13, <1>14 DEF GatesMove
<1>16. OthersTyped
  BY <1>1, <1>5, <1>6, <1>7, <1>8, TypedNow, PersistTyped DEF OthersTyped, HistoryActions
<1> QED
  BY <1>2, <1>15, <1>16 DEF StepKeeps

(* decide keeps the invariant when it refuses: it records an outcome,      *)
(* whoever brings the answer and whatever becomes of it afterwards.        *)
LEMMA RejectAnswerStep ==
    ASSUME IInv, NEW a \in Answer, NEW roleHeld \in BOOLEAN,
           RejectAnswer(a, roleHeld), answers' \subseteq answers
    PROVE  StepKeeps
PROOF
<1>1. /\ UNCHANGED <<sprints, tasks, gates, history, outbox>>
      /\ events' = [events EXCEPT ![a.eventId] =
                        [outcome |-> "rejected", actor |-> a.actor]]
  BY DEF RejectAnswer, Record
<1>2. Tables' /\ AtMostOneActive' /\ PeriodsDisjoint'
  BY <1>1, PlanningStands
<1>3. [outcome |-> "rejected", actor |-> a.actor] \in StoredEvent
  BY DEF Answer, StoredEvent
<1>4. events' \in [EventIds -> StoredEvent \cup {NoOutcome}]
  BY <1>1, <1>3, TypedNow
<1>5. OthersTyped
  BY <1>1, <1>4, TypedNow DEF OthersTyped
<1>6. GatesMove
  BY <1>1, TypedNow DEF GatesMove
<1> QED
  BY <1>2, <1>5, <1>6 DEF StepKeeps

(* Nothing is active but possibly s when an effect is allowed. *)
LEMMA AllowedLeavesRoom ==
    ASSUME NEW s \in Sprints, NoOtherActive(s)
    PROVE  \A o \in Sprints \ {s} : sprints[o].status # "active"
BY DEF NoOtherActive, ActiveSprints

(* The revision the effect gives a row does not show in its phase, so the  *)
(* gate fits the new status.                                               *)
LEMMA ApplyHereStep ==
    ASSUME IInv, NEW a \in Answer, NEW roleHeld \in BOOLEAN,
           Stands(a, roleHeld), gates[a.sprintId] # NoGate,
           ApplyHere(a, EffectOf(gates[a.sprintId].state, a)),
           Record(a, "applied"), UNCHANGED <<tasks, answers>>,
           PlanningAssumption, GatesAssumption
    PROVE  StepKeeps
PROOF
<1> DEFINE s == a.sprintId
           old == gates[s].state
           effect == EffectOf(old, a)
           table == AfterEffect(s, effect, NoSprint)
           current == CurrentSnapshot(s)
           state == Decided(old, current, a)
           after == SnapshotOf(table, s, gates[s].retrospective, gates[s].nextSprintId)
<1>1. a \in Answer /\ s \in Sprints /\ a.eventId \in EventIds
      /\ a.action \in HumanActions /\ a.actor \in Actors
  BY TypedNow DEF Answer
<1>2. /\ Loadable(s) /\ IsOpen(sprints[s]) /\ GateOf(s) = gates[s]
      /\ sprints[s] \in Row
      /\ Accepts(old, current, a)
      /\ EffectAllowed(s, effect, gates[s].nextSprintId)
  BY <1>1, TypedNow, OpenIsRow DEF Stands, GateOf
<1>3. /\ gates[s] \in GateRow /\ old \in PhaseState /\ current \in Snapshot
      /\ PhaseFits(sprints[s].status, old.phase)
  BY <1>1, <1>2, GateOfTyped, CurrentTyped, LoadedFits DEF IInv, Inv, GateRow
<1>4. /\ effect # "start_next_sprint"
      /\ sprints' = table
      /\ Persist(s, state, after, a.action, a.eventId)
  BY DEF ApplyHere
<1> HIDE DEF s, old, current
<1>5. /\ state \in PhaseState
      /\ state.revision = old.revision + 1
      /\ state.phase = "planning" => old.phase = "planning" /\ effect = "none"
      /\ old.phase = "planning" => state.phase = "planning" \/ effect = "start_sprint"
      /\ effect = "start_sprint" => old.phase = "planning" /\ state.phase = "implementation"
      /\ effect \in {"none", "start_sprint", "start_next_sprint"}
      /\ state.revision > 0
  <2>1. state.revision = old.revision + 1
    BY <1>1, <1>2, <1>3, DecidedTyped
  <2>2. old.revision \in Nat
    BY <1>3 DEF PhaseState
  <2> QED
    BY <1>1, <1>2, <1>3, <2>1, <2>2, DecidedTyped
<1> HIDE DEF effect, state
<1>6. /\ table \in [Sprints -> Row \cup {Absent}]
      /\ \A o \in Sprints :
            /\ table[o] = Absent <=> sprints[o] = Absent
            /\ o # s => table[o] = sprints[o]
      /\ OneActive(table) /\ OpenPeriodsDisjoint(table)
      /\ PhaseFits(table[s].status, state.phase)
  <2>1. CASE effect = "none"
    <3>1. table = sprints
      BY <2>1 DEF AfterEffect
    <3>2. PhaseFits(sprints[s].status, state.phase)
      BY <1>2, <1>3, <1>5, <2>1 DEF PhaseFits, IsOpen, OpenStatuses
    <3> QED
      BY <3>1, <3>2, TypedNow DEF IInv, AtMostOneActive, PeriodsDisjoint
  <2>2. CASE effect = "start_sprint"
    <3>1. table = Started(sprints, s)
      BY <2>2 DEF AfterEffect
    <3>2. \A o \in Sprints \ {s} : sprints[o].status # "active"
      BY <1>1, <1>2, <2>2, AllowedLeavesRoom DEF EffectAllowed
    <3>3. sprints[s].status = "planning"
      BY <1>2, <1>3, <1>5, <2>2 DEF PhaseFits, IsOpen, OpenStatuses
    <3>4. PhaseFits(Started(sprints, s)[s].status, state.phase)
      BY <1>1, <1>5, <2>2, <3>3, TypedNow, StartedTable DEF PhaseFits
    <3> QED
      BY <1>1, <3>1, <3>2, <3>4, TypedNow, StartedTable, StartKeeps DEF IInv, PeriodsDisjoint
  <2> QED
    BY <1>4, <1>5, <2>1, <2>2
<1> HIDE DEF table
<1>7. Tables' /\ AtMostOneActive' /\ PeriodsDisjoint'
  BY <1>4, <1>6, TypedNow DEF Tables, PlanningTypeOK, AttachedToRow, TaskRow,
     AtMostOneActive, OneActive, PeriodsDisjoint, OpenPeriodsDisjoint
<1>8. /\ gates[s].retrospective \in Retrospectives
      /\ gates[s].nextSprintId \in Sprints \cup {NoSprint}
      /\ gates[s].nextSprintId # NoSprint =>
            /\ gates[s].nextSprintId # s
            /\ gates[gates[s].nextSprintId] # NoGate
            /\ sprints[gates[s].nextSprintId] # Absent
  BY <1>1, <1>2, <1>3, GateOfTyped DEF GateRow, IInv, Inv
<1>9. table[s] # Absent /\ sprints[s] # Absent
  BY <1>1, <1>2, <1>6, RowIsPresent
<1>10. /\ after \in Snapshot
       /\ after.nextPlan # NoPlan =>
            /\ gates[s].nextSprintId # NoSprint
            /\ after.nextPlan.id = gates[s].nextSprintId
  <2> DEFINE next == gates[s].nextSprintId
             r == gates[s].retrospective
  <2>1. /\ r \in Retrospectives /\ next \in Sprints \cup {NoSprint}
        /\ next # NoSprint => table[next] # Absent
    BY <1>6, <1>8
  <2>2. tasks \in [Tasks -> TaskRow]
    BY TypedNow
  <2>3. after = SnapshotOf(table, s, r, next)
    OBVIOUS
  <2> HIDE DEF after, r, next
  <2>4. /\ after \in Snapshot
        /\ next = NoSprint => after.nextPlan = NoPlan
        /\ next # NoSprint => after.nextPlan.id = next
    BY <1>1, <1>6, <1>9, <2>1, <2>2, <2>3, SnapshotTyped
  <2> QED
    BY <2>4 DEF next
<1> HIDE DEF after
<1>11. /\ gates' = [gates EXCEPT ![s] = Persisted(state, after)]
       /\ history' = history \cup {Entry(s, state, a.action, a.eventId)}
       /\ outbox' = [outbox EXCEPT ![s] = Message(state, after)]
  BY <1>4 DEF Persist
<1>12. GoodGate(s, Persisted(state, after))
  <2>1. after.nextPlan # NoPlan =>
            after.nextPlan.id # s /\ gates'[after.nextPlan.id] # NoGate
    BY <1>1, <1>8, <1>10, <1>11, TypedNow
  <2> QED
    BY <1>1, <1>4, <1>5, <1>6, <1>9, <1>10, <2>1, PersistedIsGood
<1>13. GatesMove
  BY <1>1, <1>4, <1>6, <1>11, <1>12, TypedNow DEF GatesMove
<1>14. events' \in [EventIds -> StoredEvent \cup {NoOutcome}]
  BY <1>1, TypedNow DEF Record, StoredEvent
<1>15. OthersTyped
  BY <1>1, <1>5, <1>10, <1>11, <1>14, TypedNow, PersistTyped DEF OthersTyped, HistoryActions
<1> QED
  BY <1>7, <1>13, <1>15 DEF StepKeeps

(* The gate of the next sprint starts over without evidence, so the        *)
(* observation that follows always makes a revision.                       *)
LEMMA RestartedTyped ==
    ASSUME Typed, NEW n \in Sprints, Loadable(n), PlanningAssumption, GatesAssumption,
           NEW snapshot \in Snapshot,
           NEW new \in ObserveOutcomes(Restarted(n), snapshot)
    PROVE  /\ Restarted(n) \in PhaseState
           /\ Restarted(n).reworkTaskIds = {}
           /\ new \in PhaseState
           /\ new.revision = GateOf(n).state.revision + 1
           /\ new.revision > 0
           /\ new.phase \in Working
PROOF
<1> DEFINE first == InitialSprintPhase("implementation")
           again == Restarted(n)
<1>1. GateOf(n).state.revision \in Nat
  BY GateOfTyped DEF GateRow, PhaseState
<1>2. first \in PhaseState /\ first.phase = "implementation"
      /\ first.sourceFingerprint = NoFingerprint /\ first.reworkTaskIds = {}
  BY DEF InitialSprintPhase, PhaseState, Phases, Fingerprints
<1>3. again = [first EXCEPT !.revision = GateOf(n).state.revision]
  BY DEF Restarted
<1> HIDE DEF first, again
<1>4. /\ again \in PhaseState /\ again.phase = "implementation"
      /\ again.sourceFingerprint = NoFingerprint
      /\ again.revision \in Nat /\ again.revision = GateOf(n).state.revision
      /\ again.reworkTaskIds = {}
  BY <1>1, <1>2, <1>3 DEF PhaseState
<1>5. new \in ObserveOutcomes(again, snapshot)
  BY DEF again
<1>6. again.sourceFingerprint # snapshot
  BY <1>4 DEF GatesAssumption
<1> QED
  BY <1>4, <1>5, <1>6, ObserveTyped DEF Working, again

(* The hand-over: this sprint closes in its next planning, and the next    *)
(* one is at work at once.                                                 *)
LEMMA ApplyNextStep ==
    ASSUME IInv, NEW a \in Answer, NEW roleHeld \in BOOLEAN,
           Stands(a, roleHeld), gates[a.sprintId] # NoGate,
           ApplyNext(a, EffectOf(gates[a.sprintId].state, a)),
           Record(a, "applied"), UNCHANGED <<tasks, answers>>,
           PlanningAssumption, GatesAssumption
    PROVE  StepKeeps
PROOF
<1> DEFINE s == a.sprintId
           old == gates[s].state
           effect == EffectOf(old, a)
           next == gates[s].nextSprintId
           table == AfterEffect(s, effect, next)
           current == CurrentSnapshot(s)
           state == Decided(old, current, a)
           r == gates[s].retrospective
           rn == GateOf(next).retrospective
           nn == GateOf(next).nextSprintId
           after == SnapshotOf(table, s, r, next)
           nextAfter == SnapshotOf(table, next, rn, nn)
<1>1. a \in Answer /\ s \in Sprints /\ a.eventId \in EventIds
      /\ a.action \in HumanActions /\ a.actor \in Actors
  BY TypedNow DEF Answer
<1>2. /\ Loadable(s) /\ GateOf(s) = gates[s] /\ sprints[s] \in Row
      /\ Accepts(old, current, a)
      /\ EffectAllowed(s, effect, next)
  BY <1>1, TypedNow, OpenIsRow DEF Stands, GateOf
<1>3. /\ gates[s] \in GateRow /\ old \in PhaseState /\ current \in Snapshot
  BY <1>1, <1>2, GateOfTyped, CurrentTyped DEF IInv, Inv, GateRow
<1>4. effect = "start_next_sprint"
  BY DEF ApplyNext
<1>5. PICK observed \in ObserveOutcomes(Restarted(next), nextAfter) :
        /\ gates' = [gates EXCEPT ![s] = Persisted(state, after),
                                  ![next] = Persisted(observed, nextAfter)]
        /\ history' = history \cup
            {Entry(s, state, a.action, a.eventId),
             Entry(next, observed, "approved_next_start", NoEvent)}
        /\ outbox' = [outbox EXCEPT ![s] = Message(state, after),
                                    ![next] = Message(observed, nextAfter)]
  BY DEF ApplyNext
<1>6. sprints' = table
  BY DEF ApplyNext
<1>7. /\ next \in Sprints /\ next # s /\ Loadable(next)
      /\ sprints[next].status = "planning"
      /\ r \in Retrospectives
      /\ NoOtherActive(s)
  BY <1>1, <1>2, <1>3, <1>4, GateOfTyped DEF EffectAllowed, IInv, Inv, GateRow
<1> HIDE DEF s, old, current, next, nextAfter, after, table
<1>8. /\ state \in PhaseState
      /\ state.revision = old.revision + 1
      /\ state.phase = "next_planning"
  BY <1>1, <1>2, <1>3, <1>4, DecidedTyped
<1>9. state.revision > 0
  BY <1>3, <1>8 DEF PhaseState
<1> HIDE DEF effect, state
<1>10. /\ table \in [Sprints -> Row \cup {Absent}]
       /\ \A o \in Sprints :
            /\ table[o] = Absent <=> sprints[o] = Absent
            /\ o \notin {s, next} => table[o] = sprints[o]
       /\ OneActive(table) /\ OpenPeriodsDisjoint(table)
       /\ table[s].status = "closed"
       /\ table[next].status = "active"
  <2> DEFINE half == Closed(sprints, s)
  <2>1. table = StartedNext(sprints, s, next) /\ table = Started(half, next)
    BY <1>4 DEF table, AfterEffect, StartedNext
  <2>2. /\ half \in [Sprints -> Row \cup {Absent}]
        /\ \A o \in Sprints :
            /\ o # s => half[o] = sprints[o]
            /\ half[o] = Absent <=> sprints[o] = Absent
        /\ half[s].status = "closed"
    BY <1>1, <1>2, TypedNow, ClosedTable
  <2>3. OneActive(table) /\ OpenPeriodsDisjoint(table)
    <3>1. \A o \in Sprints \ {s} : sprints[o].status # "active"
      BY <1>1, <1>7, AllowedLeavesRoom
    <3>2. OpenPeriodsDisjoint(sprints)
      BY DEF IInv, PeriodsDisjoint
    <3>3. sprints \in [Sprints -> Row \cup {Absent}]
      BY TypedNow
    <3> QED
      BY <1>1, <1>2, <1>7, <2>1, <3>1, <3>2, <3>3, HandOverKeeps
  <2> HIDE DEF half
  <2> QED
    BY <1>1, <1>7, <2>1, <2>2, <2>3, StartedTable
<1>11. Tables' /\ AtMostOneActive' /\ PeriodsDisjoint'
  BY <1>6, <1>10, TypedNow DEF Tables, PlanningTypeOK, AttachedToRow, TaskRow,
     AtMostOneActive, OneActive, PeriodsDisjoint, OpenPeriodsDisjoint
<1>12. /\ table[s] # Absent /\ sprints[s] # Absent
       /\ table[next] # Absent /\ sprints[next] # Absent
  BY <1>1, <1>2, <1>7, <1>10, RowIsPresent DEF Loadable
<1>13. /\ rn \in Retrospectives /\ nn \in Sprints \cup {NoSprint}
       /\ nn # NoSprint => nn # next /\ gates[nn] # NoGate /\ sprints[nn] # Absent
  BY <1>7, GateOfTyped DEF GateRow, IInv, Inv
<1> HIDE DEF r, rn, nn
<1>14. nn # NoSprint => table[nn] # Absent
  BY <1>10, <1>13
<1>15. tasks \in [Tasks -> TaskRow]
  BY TypedNow
<1>16. /\ after \in Snapshot
       /\ after.nextPlan # NoPlan => after.nextPlan.id = next
  <2>1. after = SnapshotOf(table, s, r, next)
    BY DEF after
  <2> QED
    BY <1>1, <1>7, <1>10, <1>12, <1>15, <2>1, SnapshotTyped
<1>17. /\ nextAfter \in Snapshot
       /\ nextAfter.nextPlan # NoPlan => nn # NoSprint /\ nextAfter.nextPlan.id = nn
  <2>1. nextAfter = SnapshotOf(table, next, rn, nn)
    BY DEF nextAfter, rn, nn
  <2> QED
    BY <1>7, <1>10, <1>12, <1>13, <1>14, <1>15, <2>1, SnapshotTyped
<1>18. observed \in PhaseState /\ observed.revision > 0 /\ observed.phase \in Working
  BY <1>5, <1>7, <1>17, RestartedTyped DEF IInv, Inv
<1>19. /\ Persisted(state, after) \in GateRow
       /\ Persisted(observed, nextAfter) \in GateRow
  BY <1>8, <1>16, <1>17, <1>18, PersistedTyped
<1>20. /\ DOMAIN gates' = Sprints /\ gates' = [x \in Sprints |-> gates'[x]]
       /\ gates'[s] = Persisted(state, after)
       /\ gates'[next] = Persisted(observed, nextAfter)
       /\ \A n \in Sprints \ {s, next} : gates'[n] = gates[n]
  BY <1>1, <1>5, <1>7, TypedNow
<1>21. \A n \in Sprints : gates[n] # NoGate \/ n \in {s, next} => gates'[n] # NoGate
  BY <1>19, <1>20 DEF GatesAssumption
<1>22. GoodGate(s, gates'[s])
  <2>1. PhaseFits(sprints'[s].status, state.phase)
    BY <1>6, <1>8, <1>10 DEF PhaseFits
  <2> QED
    BY <1>1, <1>7, <1>8, <1>12, <1>16, <1>20, <1>21, <2>1, PersistedIsGood
<1>23. GoodGate(next, gates'[next])
  <2>1. PhaseFits(sprints'[next].status, observed.phase)
    BY <1>6, <1>10, <1>18 DEF PhaseFits, Working
  <2> QED
    BY <1>7, <1>12, <1>13, <1>17, <1>18, <1>20, <1>21, <2>1, PersistedIsGood
<1>24. GatesMove
  <2>1. \A n \in Sprints \ {s, next} : gates'[n] = gates[n] /\ sprints'[n] = sprints[n]
    BY <1>6, <1>10, <1>20
  <2>2. \A n \in Sprints : sprints[n] # Absent => sprints'[n] # Absent
    BY <1>6, <1>10
  <2> QED
    BY <1>20, <1>22, <1>23, <2>1, <2>2 DEF GatesMove
<1>25. OthersTyped
  <2>1. /\ Entry(s, state, a.action, a.eventId) \in HistoryEntry
        /\ Entry(next, observed, "approved_next_start", NoEvent) \in HistoryEntry
    BY <1>1, <1>7, <1>8, <1>9, <1>18, EntryTyped DEF HistoryActions
  <2>2. /\ Message(state, after) \in OutboxRow
        /\ Message(observed, nextAfter) \in OutboxRow
    BY <1>8, <1>9, <1>16, <1>17, <1>18, MessageTyped
  <2>3. events' \in [EventIds -> StoredEvent \cup {NoOutcome}]
    BY <1>1, TypedNow DEF Record, StoredEvent
  <2>4. outbox' \in [Sprints -> OutboxRow \cup {NoMessage}]
    BY <1>5, <2>2, TypedNow
  <2>5. history' \subseteq HistoryEntry
    BY <1>5, <2>1, TypedNow
  <2> QED
    BY <2>3, <2>4, <2>5, TypedNow DEF OthersTyped
<1> QED
  BY <1>11, <1>24, <1>25 DEF StepKeeps

(* decide keeps the invariant when it applies, whatever the effect.        *)
LEMMA ApplyAnswerStep ==
    ASSUME IInv, NEW a \in Answer, NEW roleHeld \in BOOLEAN,
           ApplyAnswer(a, roleHeld), UNCHANGED answers,
           PlanningAssumption, GatesAssumption
    PROVE  StepKeeps
PROOF
<1>1. /\ Stands(a, roleHeld) /\ gates[a.sprintId] # NoGate
      /\ Record(a, "applied") /\ UNCHANGED <<tasks, answers>>
      /\ \/ ApplyHere(a, EffectOf(gates[a.sprintId].state, a))
         \/ ApplyNext(a, EffectOf(gates[a.sprintId].state, a))
  BY DEF ApplyAnswer
<1> QED
  BY <1>1, ApplyHereStep, ApplyNextStep

-----------------------------------------------------------------------------
(* The theorems.                                                           *)

(* An installation starts in the invariant.                                *)
LEMMA InitEstablishes ==
    ASSUME Init, PlanningAssumption, GatesAssumption
    PROVE  IInv
PROOF
<1>1. TypeOK
  BY DEF Init, PlanningInit, TypeOK, PlanningTypeOK, PlanningAssumption
<1>2. AttachedToRow
  BY DEF Init, PlanningInit
<1>3. \A s \in Sprints : gates[s] = NoGate
  BY DEF Init
<1>4. AtMostOneActive /\ PeriodsDisjoint
  BY DEF Init, PlanningInit, PlanningAssumption, AtMostOneActive, PeriodsDisjoint
<1> QED
  BY <1>1, <1>2, <1>3, <1>4 DEF IInv, Inv, Typed, GatesOnRows, ObservedHasEvidence,
     NextPlanLoadable, PhaseMatchesStatus

(* A step that changes nothing keeps it.                                   *)
LEMMA StutterKeeps ==
    ASSUME IInv, UNCHANGED vars
    PROVE  IInv'
BY DEF IInv, vars, Inv, Typed, TypeOK, PlanningTypeOK, AttachedToRow, GatesOnRows,
   ObservedHasEvidence, NextPlanLoadable, PhaseMatchesStatus, AtMostOneActive, OneActive,
   PeriodsDisjoint, OpenPeriodsDisjoint

(* Every step keeps it, action by action.                                  *)
LEMMA NextKeeps ==
    ASSUME IInv, [Next]_vars, PlanningAssumption, GatesAssumption
    PROVE  IInv'
PROOF
<1>1. CASE ChangePlan
  BY <1>1, ChangePlanStep, StepSuffices
<1>2. CASE WorkOnTask
  BY <1>2, WorkOnTaskStep, StepSuffices
<1>3. ASSUME NEW s \in Sprints, NEW r \in Retrospectives,
             NEW n \in Sprints \cup {NoSprint}, ChangeContext(s, r, n)
      PROVE  IInv'
  BY <1>3, ChangeContextStep, StepSuffices
<1>4. ASSUME NEW e \in EventIds, NEW s \in Sprints, NEW who \in Actors,
             NEW do \in Asked, NEW ids \in SUBSET Tasks, FormAnswer(e, s, who, do, ids)
      PROVE  IInv'
  BY <1>4, FormAnswerStep, StepSuffices
<1>5. ASSUME NEW s \in Sprints, View(s), UNCHANGED answers
      PROVE  IInv'
  BY <1>5, ViewStep, StepSuffices
<1>6. ASSUME NEW a \in answers, NEW roleHeld \in BOOLEAN,
             RejectAnswer(a, roleHeld), answers' = answers \ {a}
      PROVE  IInv'
  BY <1>6, TypedNow, RejectAnswerStep, StepSuffices
<1>7. ASSUME NEW a \in answers, NEW roleHeld \in BOOLEAN,
             ApplyAnswer(a, roleHeld), UNCHANGED answers
      PROVE  IInv'
  BY <1>7, TypedNow, ApplyAnswerStep, StepSuffices
<1>8. CASE UNCHANGED vars
  BY <1>8, StutterKeeps
<1> QED
  BY <1>1, <1>2, <1>3, <1>4, <1>5, <1>6, <1>7, <1>8 DEF Next, People

(* The conjuncts of IInv hold together in every reachable state: the tables*)
(* stay typed, every gate stands on a row and fits its status, and the     *)
(* open sprints stay apart.  The theorems below are its parts.             *)
THEOREM Invariance == Spec => []IInv
PROOF
<1>1. Init => IInv
  BY InitEstablishes, PlanningAssumption, GatesAssumption
<1>2. IInv /\ [Next]_vars => IInv'
  BY NextKeeps, PlanningAssumption, GatesAssumption
<1> QED
  BY <1>1, <1>2, PTL DEF Spec

(* Every table keeps the types of its columns: what any of the store's     *)
(* statements writes can be read back.                                     *)
THEOREM TypeCorrect == Spec => []TypeOK
PROOF
<1>1. IInv => TypeOK
  BY DEF IInv, Inv, Typed
<1> QED
  BY <1>1, Invariance, PTL

(* The team never works on two sprints at once: an approval that starts a  *)
(* sprint does so only when no other is active, and the hand-over closes   *)
(* the old one in the same transaction.                                    *)
THEOREM OneSprintActive == Spec => []AtMostOneActive
PROOF
<1>1. IInv => AtMostOneActive
  BY DEF IInv
<1> QED
  BY <1>1, Invariance, PTL

(* Open sprints never share a day: assertNoOverlap guards every operation  *)
(* that gives a sprint days, and nothing reopens a closed one.             *)
THEOREM OpenPeriodsStayDisjoint == Spec => []PeriodsDisjoint
PROOF
<1>1. IInv => PeriodsDisjoint
  BY DEF IInv
<1> QED
  BY <1>1, Invariance, PTL

(* The phase of a gate and the status of its sprint never part, although   *)
(* they live in two tables and change in different operations.             *)
THEOREM PhaseFollowsStatus == Spec => []PhaseMatchesStatus
PROOF
<1>1. IInv => PhaseMatchesStatus
  BY DEF IInv, Inv
<1> QED
  BY <1>1, Invariance, PTL

(* A chosen next plan is another sprint, and has a gate row for the        *)
(* hand-over to take over.                                                 *)
THEOREM NextPlanStaysLoadable == Spec => []NextPlanLoadable
PROOF
<1>1. IInv => NextPlanLoadable
  BY DEF IInv, Inv, Typed
<1> QED
  BY <1>1, Invariance, PTL

(* The outcome recorded for an answer never changes, whichever way and     *)
(* however often the answer arrives.                                       *)
THEOREM OutcomesStay == Spec => OutcomeStable
PROOF
<1>1. ASSUME IInv, [Next]_vars
      PROVE  [\A e \in EventIds : events[e] # NoOutcome => events'[e] = events[e]]_vars
  <2>1. CASE UNCHANGED events
    BY <2>1
  <2>2. ASSUME NEW a \in answers, NEW outcome, Unanswered(a), Record(a, outcome)
        PROVE  \A e \in EventIds : events[e] # NoOutcome => events'[e] = events[e]
    BY <1>1, <2>2, TypedNow DEF Unanswered, Record
  <2> QED
    BY <1>1, <2>1, <2>2 DEF Next, People, vars, ChangePlan, WorkOnTask, ChangeContext,
       FormAnswer, View, RejectAnswer, ApplyAnswer
<1> QED
  BY <1>1, Invariance, PTL DEF Spec, OutcomeStable
=============================================================================
