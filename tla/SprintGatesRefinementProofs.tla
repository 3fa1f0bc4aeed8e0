--------------------- MODULE SprintGatesRefinementProofs ---------------------
(***************************************************************************)
(* What the gates record, what their steps may never do, and that they     *)
(* implement the life of a sprint promised by SprintLifecycle.             *)
(*                                                                         *)
(* Every step of the store either keeps what is recorded of a sprint or    *)
(* writes one more revision of it.  The first part says so action by       *)
(* action (Kept, Wrote); the invariants and the action properties then     *)
(* follow from these two alone, and the refinement from the phase each     *)
(* decision of the judge leads to.                                         *)
(***************************************************************************)
EXTENDS SprintGatesRefinement, SprintGatesProofs, FiniteSetTheorems

(* The part of a history table that is about one sprint. *)
About(table, s) == {h \in table : h.sprintId = s}

(* Tasks sent back are kept with the gate only while it is in              *)
(* implementation, where a person can resubmit them.                       *)
ReworkInPlace(state) == state.reworkTaskIds # {} => state.phase = "implementation"

(* The judge keeps it so, and leaves implementation for acceptance with    *)
(* tasks sent back only on a resubmission.                                 *)
JudgeMove(old, new, action) ==
    ReworkInPlace(old) =>
        /\ ReworkInPlace(new)
        /\ old.reworkTaskIds # {} /\ new.phase = "acceptance" => action = "resubmit"

(* A step writes one more revision of the gate of s, in all three tables,  *)
(* pinning the sprint as it stands after the step.                         *)
Wrote(s, new, snapshot, action, e) ==
    /\ new \in PhaseState /\ snapshot \in Snapshot
    /\ action \in HistoryActions /\ e \in EventIds \cup {NoEvent}
    /\ sprints[s] # Absent
    /\ snapshot.sprint = sprints'[s]
    /\ new.revision = GateOf(s).state.revision + 1
    /\ gates'[s] = Persisted(new, snapshot)
    /\ outbox'[s] = Message(new, snapshot)
    /\ About(history', s) = About(history, s) \cup {Entry(s, new, action, e)}
    /\ JudgeMove(GateOf(s).state, new, action)

WroteOne(s) ==
    \E new \in PhaseState, snapshot \in Snapshot, action \in HistoryActions,
       e \in EventIds \cup {NoEvent} : Wrote(s, new, snapshot, action, e)

(* The goal of a sprint changes only where the guard allows it.            *)
GoalMove(s) ==
    \/ sprints'[s].goal = sprints[s].goal
    \/ GoalEditable(sprints[s].status, GatePhase(s))

(* A step leaves what is recorded of s alone; at most its row is created.  *)
Kept(s) ==
    /\ \/ gates'[s] = gates[s]
       \/ gates[s] = NoGate /\ Loadable(s) /\ gates'[s] = GateOf(s)
    /\ outbox'[s] = outbox[s]
    /\ About(history', s) = About(history, s)
    /\ sprints[s] # Absent => sprints'[s].status = sprints[s].status /\ GoalMove(s)

(* What any step does to the records of any sprint.                        *)
RecordsMove == \A s \in Sprints : Kept(s) \/ WroteOne(s)

-----------------------------------------------------------------------------
(* What the judge does with the tasks sent back.                           *)

(* An observation keeps them, and does not pass them by.                   *)
LEMMA ObserveRework ==
    ASSUME NEW old \in PhaseState, NEW snapshot \in Snapshot,
           NEW new \in ObserveOutcomes(old, snapshot), NEW action
    PROVE  JudgeMove(old, new, action)
PROOF
<1> SUFFICES ASSUME ReworkInPlace(old)
             PROVE  /\ ReworkInPlace(new)
                    /\ old.reworkTaskIds # {} => new.phase # "acceptance"
  BY DEF JudgeMove
<1> DEFINE next == Revised(old, snapshot)
<1>1. /\ next \in PhaseState /\ next.phase = old.phase
      /\ next.reworkTaskIds = old.reworkTaskIds
  BY RevisedTyped
<1>2. \/ /\ new = [next EXCEPT !.phase = "acceptance"]
         /\ old.reworkTaskIds = {}
      \/ new \in {old, next}
      \/ new = [next EXCEPT !.phase = "implementation"]
  BY DEF ObserveOutcomes, ReadyForAcceptance
<1> HIDE DEF next
<1>3. CASE new = [next EXCEPT !.phase = "acceptance"] /\ old.reworkTaskIds = {}
  BY <1>1, <1>3 DEF PhaseState, ReworkInPlace
<1>4. CASE new \in {old, next}
  BY <1>1, <1>4 DEF ReworkInPlace
<1>5. CASE new = [next EXCEPT !.phase = "implementation"]
  BY <1>1, <1>5 DEF PhaseState, ReworkInPlace
<1> QED
  BY <1>2, <1>3, <1>4, <1>5

(* A person's decision sends them back, or resubmits them.                 *)
LEMMA DecidedRework ==
    ASSUME NEW old \in PhaseState, NEW snapshot \in Snapshot, NEW a \in Answer,
           Accepts(old, snapshot, a)
    PROVE  JudgeMove(old, Decided(old, snapshot, a), a.action)
PROOF
<1> DEFINE next == Revised(old, snapshot)
           new == Decided(old, snapshot, a)
<1> SUFFICES ASSUME ReworkInPlace(old)
             PROVE  /\ ReworkInPlace(new)
                    /\ old.reworkTaskIds # {} /\ new.phase = "acceptance" =>
                            a.action = "resubmit"
  BY DEF JudgeMove
<1>1. /\ next \in PhaseState /\ next.phase = old.phase
      /\ next.reworkTaskIds = old.reworkTaskIds
  BY RevisedTyped
<1>2. a.action \in HumanActions
  BY DEF Answer
<1>3. CASE a.action = "approve"
  <2>1. new = [next EXCEPT !.phase = PhaseAfterApproval(old.phase)]
    BY <1>3 DEF Decided
  <2>2. old.phase # "implementation"
    BY <1>3 DEF Accepts, ApprovalReady
  <2> HIDE DEF next, new
  <2> QED
    BY <1>1, <2>1, <2>2 DEF PhaseState, ReworkInPlace
<1>4. CASE a.action = "reject"
  <2>1. new = IF old.phase = "planning" THEN next
              ELSE [next EXCEPT !.phase = "implementation", !.reworkTaskIds = a.taskIds]
    BY <1>4 DEF Decided
  <2> HIDE DEF next, new
  <2> QED
    BY <1>1, <2>1 DEF PhaseState, ReworkInPlace
<1>5. CASE a.action \in {"hold", "resume"}
  <2>1. new = [next EXCEPT !.held = (a.action = "hold")]
    BY <1>5 DEF Decided
  <2> HIDE DEF next, new
  <2> QED
    BY <1>1, <2>1 DEF PhaseState, ReworkInPlace
<1>6. CASE a.action = "resubmit"
  <2>1. new = [next EXCEPT !.phase = "acceptance", !.reworkTaskIds = {}]
    BY <1>6 DEF Decided
  <2> HIDE DEF next, new
  <2> QED
    BY <1>1, <1>6, <2>1 DEF PhaseState, ReworkInPlace
<1> QED
  BY <1>2, <1>3, <1>4, <1>5, <1>6 DEF HumanActions

-----------------------------------------------------------------------------
(* What each operation records, action by action.                          *)

(* A call of the planning API or of the task routes records nothing.       *)
LEMMA PeopleKeep ==
    ASSUME IInv, ChangePlan \/ WorkOnTask, PlanningAssumption, NEW s \in Sprints
    PROVE  Kept(s)
PROOF
<1>1. UNCHANGED <<gates, history, outbox>>
  BY DEF ChangePlan, WorkOnTask
<1>2. Tables /\ \A x \in Sprints : IsOpen(sprints[x]) => sprints[x].revision \in Nat
  BY TypedNow, OpenIsRow DEF Row
<1>3. PlanningCall
  BY <1>2 DEF ChangePlan, WorkOnTask, PlanningCall
<1>4. ASSUME sprints[s] # Absent
      PROVE  sprints'[s].status = sprints[s].status /\ GoalMove(s)
  <2>1. sprints'[s].status = sprints[s].status
    BY <1>2, <1>3, <1>4, CallKeepsStatus
  <2>2. ASSUME OtherCall
        PROVE  GoalMove(s)
    BY <1>2, <1>4, <2>2, OtherCallKeepsGoals DEF GoalMove
  <2>3. ASSUME NEW o \in Sprints, IsOpen(sprints[o]), NEW g \in Goals,
               UpdateGoal(o, sprints[o].revision, g, GatePhase(o))
        PROVE  GoalMove(s)
    <3>1. /\ GoalEditable(sprints[o].status, GatePhase(o))
          /\ \A x \in Sprints \ {o} : sprints'[x] = sprints[x]
      BY <1>2, <2>3, GoalChangesWhereEditable
    <3> QED
      BY <3>1 DEF GoalMove
  <2>4. \/ OtherCall
        \/ \E o \in {x \in Sprints : IsOpen(sprints[x])}, g \in Goals :
                UpdateGoal(o, sprints[o].revision, g, GatePhase(o))
    BY <1>2 DEF ChangePlan, WorkOnTask, OtherCall
  <2> QED
    BY <2>1, <2>2, <2>3, <2>4
<1> QED
  BY <1>1, <1>4 DEF Kept, About

(* An operation that moves no status or goal, and writes neither the gate, *)
(* the history nor the outbox row of o.                                    *)
LEMMA KeptBeside ==
    ASSUME NEW o \in Sprints, sprints' = sprints,
           \/ gates'[o] = gates[o]
           \/ gates[o] = NoGate /\ Loadable(o) /\ gates'[o] = GateOf(o),
           outbox'[o] = outbox[o],
           About(history', o) = About(history, o)
    PROVE  Kept(o)
BY DEF Kept, GoalMove

(* view leaves a gate as it is loaded, or writes what the judge observed.  *)
LEMMA ViewWrites ==
    ASSUME IInv, NEW s \in Sprints, View(s), PlanningAssumption, GatesAssumption
    PROVE  /\ \A o \in Sprints \ {s} : Kept(o)
           /\ \/ Kept(s)
              \/ \E new \in ObserveOutcomes(GateOf(s).state, CurrentSnapshot(s)) :
                    Wrote(s, new, CurrentSnapshot(s), "observe", NoEvent)
PROOF
<1> DEFINE old == GateOf(s).state
           snapshot == CurrentSnapshot(s)
<1>1. /\ Loadable(s) /\ sprints[s] # Absent /\ sprints' = sprints
  BY DEF View, Loadable
<1>2. /\ old \in PhaseState /\ snapshot \in Snapshot
  BY <1>1, GateOfTyped, CurrentTyped DEF IInv, Inv, GateRow
<1>3. snapshot.sprint = sprints'[s]
  BY <1>1 DEF CurrentSnapshot, SnapshotOf
<1>4. PICK new \in ObserveOutcomes(old, snapshot) :
        IF new = old
        THEN /\ gates' = [gates EXCEPT ![s] = GateOf(s)]
             /\ UNCHANGED <<history, outbox>>
        ELSE Persist(s, new, snapshot, "observe", NoEvent)
  BY DEF View
<1>5. CASE new = old
  <2>1. /\ gates' = [gates EXCEPT ![s] = GateOf(s)]
        /\ UNCHANGED <<history, outbox>>
    BY <1>4, <1>5
  <2>2. gates'[s] = gates[s] \/ (gates[s] = NoGate /\ gates'[s] = GateOf(s))
    BY <2>1, TypedNow DEF GateOf
  <2>3. \A o \in Sprints \ {s} : gates'[o] = gates[o]
    BY <2>1, TypedNow
  <2>4. \A o \in Sprints : outbox'[o] = outbox[o] /\ About(history', o) = About(history, o)
    BY <2>1 DEF About
  <2> QED
    BY <1>1, <2>2, <2>3, <2>4, KeptBeside
<1>6. CASE new # old
  <2>1. /\ gates' = [gates EXCEPT ![s] = Persisted(new, snapshot)]
        /\ history' = history \cup {Entry(s, new, "observe", NoEvent)}
        /\ outbox' = [outbox EXCEPT ![s] = Message(new, snapshot)]
    BY <1>4, <1>6 DEF Persist
  <2>2. /\ new \in PhaseState /\ new.revision = old.revision + 1
    BY <1>2, <1>4, <1>6, ObserveTyped
  <2>3. JudgeMove(old, new, "observe")
    BY <1>2, <1>4, ObserveRework
  <2>4. /\ gates'[s] = Persisted(new, snapshot)
        /\ outbox'[s] = Message(new, snapshot)
        /\ \A o \in Sprints \ {s} : gates'[o] = gates[o] /\ outbox'[o] = outbox[o]
    BY <2>1, TypedNow
  <2>5. /\ About(history', s) = About(history, s) \cup {Entry(s, new, "observe", NoEvent)}
        /\ \A o \in Sprints \ {s} : About(history', o) = About(history, o)
    BY <2>1 DEF About, Entry
  <2>6. Wrote(s, new, snapshot, "observe", NoEvent)
    BY <1>1, <1>2, <1>3, <2>2, <2>3, <2>4, <2>5 DEF Wrote, HistoryActions
  <2>7. \A o \in Sprints \ {s} : Kept(o)
    BY <1>1, <2>4, <2>5, KeptBeside
  <2> QED
    BY <1>4, <2>6, <2>7
<1> QED
  BY <1>5, <1>6

(* context writes the gate of one sprint; the chosen next plan at most     *)
(* gets its row.                                                           *)
LEMMA ContextWrites ==
    ASSUME IInv, NEW s \in Sprints, NEW r \in Retrospectives,
           NEW next \in Sprints \cup {NoSprint}, ChangeContext(s, r, next),
           PlanningAssumption, GatesAssumption
    PROVE  LET snapshot == SnapshotOf(sprints, s, r, next) IN
           /\ \A o \in Sprints \ {s} : Kept(o)
           /\ \E new \in ObserveOutcomes(GateOf(s).state, snapshot) :
                Wrote(s, new, snapshot, "context", NoEvent)
PROOF
<1> DEFINE snapshot == SnapshotOf(sprints, s, r, next)
           rows == IF next = NoSprint THEN gates
                   ELSE [gates EXCEPT ![next] = GateOf(next)]
           old == GateOf(s).state
<1>1. /\ gates[s] # NoGate /\ GateOf(s) = gates[s]
      /\ next # NoSprint => next # s /\ Loadable(next) /\ sprints[next] # Absent
      /\ sprints' = sprints
  BY DEF ChangeContext, MayFollow, Loadable, GateOf
<1>2. sprints[s] # Absent /\ old \in PhaseState
  BY <1>1, TypedNow DEF IInv, Inv, Typed, GatesOnRows, GateRow
<1>3. snapshot \in Snapshot /\ snapshot.sprint = sprints'[s]
  BY <1>1, <1>2, TypedNow, SnapshotTyped
<1>4. PICK new \in ObserveOutcomes(old, snapshot) :
        /\ new # old
        /\ gates' = [rows EXCEPT ![s] = Persisted(new, snapshot)]
        /\ history' = history \cup {Entry(s, new, "context", NoEvent)}
        /\ outbox' = [outbox EXCEPT ![s] = Message(new, snapshot)]
  BY <1>1 DEF ChangeContext
<1> HIDE DEF snapshot, old
<1>5. /\ new \in PhaseState /\ new.revision = old.revision + 1
  BY <1>2, <1>3, <1>4, ObserveTyped
<1>6. JudgeMove(old, new, "context")
  BY <1>2, <1>3, <1>4, ObserveRework
<1>7. /\ gates'[s] = Persisted(new, snapshot)
      /\ outbox'[s] = Message(new, snapshot)
      /\ \A o \in Sprints \ {s} :
            /\ gates'[o] = IF o = next THEN GateOf(o) ELSE gates[o]
            /\ outbox'[o] = outbox[o]
  BY <1>4, TypedNow DEF PlanningAssumption
<1>8. /\ About(history', s) = About(history, s) \cup {Entry(s, new, "context", NoEvent)}
      /\ \A o \in Sprints \ {s} : About(history', o) = About(history, o)
  BY <1>4 DEF About, Entry
<1>9. Wrote(s, new, snapshot, "context", NoEvent)
  BY <1>2, <1>3, <1>5, <1>6, <1>7, <1>8 DEF Wrote, HistoryActions, old
<1>10. ASSUME NEW o \in Sprints \ {s}
       PROVE  Kept(o)
  <2>1. \/ gates'[o] = gates[o]
        \/ gates[o] = NoGate /\ Loadable(o) /\ gates'[o] = GateOf(o)
    BY <1>1, <1>7 DEF GateOf, PlanningAssumption
  <2> QED
    BY <1>1, <1>7, <1>8, <2>1, KeptBeside
<1> QED
  BY <1>4, <1>9, <1>10 DEF snapshot, old

(* What an answer that stands was given: a gate that is loaded, typed and  *)
(* open, and the judge's consent.                                          *)
LEMMA StandsTyped ==
    ASSUME IInv, NEW a \in Answer, NEW roleHeld \in BOOLEAN, Stands(a, roleHeld),
           gates[a.sprintId] # NoGate, PlanningAssumption, GatesAssumption
    PROVE  LET s == a.sprintId
               old == gates[s].state
               current == CurrentSnapshot(s)
           IN
           /\ s \in Sprints /\ Loadable(s) /\ GateOf(s) = gates[s]
           /\ sprints[s] \in Row /\ sprints[s] # Absent
           /\ gates[s] \in GateRow /\ old \in PhaseState /\ current \in Snapshot
           /\ Accepts(old, current, a)
           /\ a.action \in HistoryActions /\ a.eventId \in EventIds
           /\ Decided(old, current, a) \in PhaseState
           /\ Decided(old, current, a).revision = old.revision + 1
           /\ JudgeMove(old, Decided(old, current, a), a.action)
PROOF
<1> DEFINE s == a.sprintId
           old == gates[s].state
           current == CurrentSnapshot(s)
<1>1. s \in Sprints /\ a.action \in HistoryActions /\ a.eventId \in EventIds
  BY DEF Answer, HistoryActions
<1>2. /\ Loadable(s) /\ IsOpen(sprints[s]) /\ GateOf(s) = gates[s]
      /\ Accepts(old, current, a)
  BY DEF Stands, GateOf
<1>3. sprints[s] \in Row /\ sprints[s] # Absent
  BY <1>1, <1>2, TypedNow, OpenIsRow, RowIsPresent
<1>4. gates[s] \in GateRow /\ old \in PhaseState /\ current \in Snapshot
  BY <1>1, <1>2, GateOfTyped, CurrentTyped DEF IInv, Inv, GateRow
<1> HIDE DEF s, old, current
<1>5. /\ Decided(old, current, a) \in PhaseState
      /\ Decided(old, current, a).revision = old.revision + 1
  BY <1>2, <1>4, DecidedTyped
<1>6. JudgeMove(old, Decided(old, current, a), a.action)
  BY <1>2, <1>4, DecidedRework
<1> QED
  BY <1>1, <1>2, <1>3, <1>4, <1>5, <1>6 DEF s, old, current

(* An answer whose effect stays with its own sprint writes that gate.      *)
LEMMA HereWrites ==
    ASSUME IInv, NEW a \in Answer, NEW roleHeld \in BOOLEAN,
           Stands(a, roleHeld), gates[a.sprintId] # NoGate,
           ApplyHere(a, EffectOf(gates[a.sprintId].state, a)),
           Record(a, "applied"), UNCHANGED <<tasks, answers>>,
           PlanningAssumption, GatesAssumption
    PROVE  LET s == a.sprintId
               new == Decided(gates[s].state, CurrentSnapshot(s), a)
           IN
           /\ \A o \in Sprints \ {s} : Kept(o) /\ sprints'[o] = sprints[o] /\ gates'[o] = gates[o]
           /\ \E after \in Snapshot : Wrote(s, new, after, a.action, a.eventId)
           /\ Entry(s, new, a.action, a.eventId) \in history'
           /\ \A h \in history' \ history : h = Entry(s, new, a.action, a.eventId)
           /\ sprints'[s].status = "closed" => sprints[s].status = "closed"
PROOF
<1> DEFINE s == a.sprintId
           old == gates[s].state
           effect == EffectOf(old, a)
           table == AfterEffect(s, effect, NoSprint)
           new == Decided(old, CurrentSnapshot(s), a)
           r == gates[s].retrospective
           next == gates[s].nextSprintId
           after == SnapshotOf(table, s, r, next)
<1>1. /\ s \in Sprints /\ GateOf(s) = gates[s]
      /\ sprints[s] # Absent /\ gates[s] \in GateRow
      /\ a.action \in HistoryActions /\ a.eventId \in EventIds
      /\ new \in PhaseState /\ new.revision = old.revision + 1
      /\ JudgeMove(old, new, a.action)
  BY StandsTyped
<1>2. effect \in {"none", "start_sprint"}
  BY DEF ApplyHere, EffectOf, EffectOfApproval
<1>3. /\ sprints' = table
      /\ Persist(s, new, after, a.action, a.eventId)
  BY DEF ApplyHere
<1>4. StepKeeps
  BY ApplyHereStep
<1> HIDE DEF new, effect
<1>5. /\ \A o \in Sprints \ {s} : table[o] = sprints[o]
      /\ table[s].status = "closed" => sprints[s].status = "closed"
  <2>1. CASE effect = "none"
    BY <2>1 DEF AfterEffect
  <2>2. CASE effect = "start_sprint"
    <3>1. table = Started(sprints, s)
      BY <2>2 DEF AfterEffect
    <3>2. sprints \in [Sprints -> Row \cup {Absent}]
      BY TypedNow
    <3> HIDE DEF s, table
    <3>3. /\ \A o \in Sprints : o # s => table[o] = sprints[o]
          /\ table[s].status =
                IF sprints[s].status = "planning" THEN "active" ELSE sprints[s].status
      BY <1>1, <3>1, <3>2, StartedTable
    <3> QED
      BY <3>3
  <2> QED
    BY <1>2, <2>1, <2>2
<1>6. /\ sprints' \in [Sprints -> Row \cup {Absent}]
      /\ \A o \in Sprints : sprints[o] # Absent => sprints'[o] # Absent
  BY <1>4 DEF StepKeeps, Tables, PlanningTypeOK, GatesMove
<1>7. after \in Snapshot /\ after.sprint = sprints'[s]
  <2>1. /\ r \in Retrospectives /\ next \in Sprints \cup {NoSprint}
    BY <1>1 DEF GateRow
  <2>2. next # NoSprint => sprints[next] # Absent
    BY <1>1, <2>1 DEF IInv, Inv, Typed, NextPlanLoadable, GatesOnRows
  <2>3. /\ table \in [Sprints -> Row \cup {Absent}]
        /\ table[s] # Absent
        /\ next # NoSprint => table[next] # Absent
    BY <1>1, <1>3, <1>6, <2>1, <2>2
  <2>4. tasks \in [Tasks -> TaskRow]
    BY TypedNow
  <2> HIDE DEF s, r, next, table
  <2> QED
    BY <1>1, <1>3, <2>1, <2>3, <2>4, SnapshotTyped
<1> HIDE DEF after, table
<1>8. /\ gates' = [gates EXCEPT ![s] = Persisted(new, after)]
      /\ history' = history \cup {Entry(s, new, a.action, a.eventId)}
      /\ outbox' = [outbox EXCEPT ![s] = Message(new, after)]
  BY <1>3 DEF Persist
<1>9. /\ About(history', s) = About(history, s) \cup {Entry(s, new, a.action, a.eventId)}
      /\ \A o \in Sprints \ {s} : About(history', o) = About(history, o)
  BY <1>8 DEF About, Entry
<1>10. /\ gates'[s] = Persisted(new, after) /\ outbox'[s] = Message(new, after)
       /\ \A o \in Sprints \ {s} : gates'[o] = gates[o] /\ outbox'[o] = outbox[o]
  BY <1>1, <1>8, TypedNow
<1>11. Wrote(s, new, after, a.action, a.eventId)
  BY <1>1, <1>7, <1>9, <1>10 DEF Wrote
<1>12. \A o \in Sprints \ {s} : Kept(o) /\ sprints'[o] = sprints[o]
  BY <1>3, <1>5, <1>9, <1>10 DEF Kept, GoalMove
<1>13. /\ Entry(s, new, a.action, a.eventId) \in history'
       /\ \A h \in history' \ history : h = Entry(s, new, a.action, a.eventId)
  BY <1>8
<1>14. sprints'[s].status = "closed" => sprints[s].status = "closed"
  BY <1>3, <1>5
<1> QED
  BY <1>7, <1>10, <1>11, <1>12, <1>13, <1>14 DEF new

(* The hand-over writes the gates of both sprints.                         *)
LEMMA NextWrites ==
    ASSUME IInv, NEW a \in Answer, NEW roleHeld \in BOOLEAN,
           Stands(a, roleHeld), gates[a.sprintId] # NoGate,
           ApplyNext(a, EffectOf(gates[a.sprintId].state, a)),
           Record(a, "applied"), UNCHANGED <<tasks, answers>>,
           PlanningAssumption, GatesAssumption
    PROVE  LET s == a.sprintId
               next == gates[s].nextSprintId
               new == Decided(gates[s].state, CurrentSnapshot(s), a)
           IN
           /\ next \in Sprints /\ next # s
           /\ Loadable(next) /\ GateOf(next).state.phase = "planning"
           /\ sprints[next].status = "planning" /\ sprints'[next].status = "active"
           /\ sprints'[s].status = "closed"
           /\ \A o \in Sprints \ {s, next} :
                Kept(o) /\ sprints'[o] = sprints[o] /\ gates'[o] = gates[o]
           /\ \E after \in Snapshot : Wrote(s, new, after, a.action, a.eventId)
           /\ \E observed \in PhaseState, nextAfter \in Snapshot :
                /\ observed.phase \in Working
                /\ Wrote(next, observed, nextAfter, "approved_next_start", NoEvent)
           /\ Entry(s, new, a.action, a.eventId) \in history'
           /\ \A h \in history' \ history :
                h = Entry(s, new, a.action, a.eventId) \/ h.eventId = NoEvent
PROOF
<1> DEFINE s == a.sprintId
           old == gates[s].state
           effect == EffectOf(old, a)
           next == gates[s].nextSprintId
           table == AfterEffect(s, effect, next)
           new == Decided(old, CurrentSnapshot(s), a)
           r == gates[s].retrospective
           rn == GateOf(next).retrospective
           nn == GateOf(next).nextSprintId
           after == SnapshotOf(table, s, r, next)
           nextAfter == SnapshotOf(table, next, rn, nn)
<1>1. /\ s \in Sprints /\ GateOf(s) = gates[s]
      /\ sprints[s] # Absent /\ sprints[s] \in Row /\ gates[s] \in GateRow
      /\ a.action \in HistoryActions /\ a.eventId \in EventIds
      /\ new \in PhaseState /\ new.revision = old.revision + 1
      /\ JudgeMove(old, new, a.action)
  BY StandsTyped
<1>2. effect = "start_next_sprint" /\ sprints' = table
  BY DEF ApplyNext
<1>3. EffectAllowed(s, effect, next)
  BY <1>1 DEF Stands
<1>4. /\ next \in Sprints /\ next # s /\ Loadable(next)
      /\ GateOf(next).state.phase = "planning"
      /\ sprints[next].status = "planning"
      /\ r \in Retrospectives
  <2>1. /\ next # NoSprint /\ Loadable(next) /\ sprints[next].status = "planning"
        /\ GateOf(next).state.phase = "planning"
    BY <1>2, <1>3 DEF EffectAllowed
  <2>2. next \in Sprints /\ r \in Retrospectives
    BY <1>1, <2>1 DEF GateRow
  <2>3. next # s
    BY <1>1, <2>1 DEF IInv, Inv, Typed, NextPlanLoadable
  <2> QED
    BY <2>1, <2>2, <2>3
<1>5. PICK observed \in ObserveOutcomes(Restarted(next), nextAfter) :
        /\ gates' = [gates EXCEPT ![s] = Persisted(new, after),
                                  ![next] = Persisted(observed, nextAfter)]
        /\ history' = history \cup
            {Entry(s, new, a.action, a.eventId),
             Entry(next, observed, "approved_next_start", NoEvent)}
        /\ outbox' = [outbox EXCEPT ![s] = Message(new, after),
                                    ![next] = Message(observed, nextAfter)]
  BY DEF ApplyNext
<1>6. StepKeeps
  BY ApplyNextStep
<1>7. table = Started(Closed(sprints, s), next)
  BY <1>2 DEF AfterEffect, StartedNext
<1>8. /\ rn \in Retrospectives /\ nn \in Sprints \cup {NoSprint}
      /\ nn # NoSprint => sprints[nn] # Absent
  BY <1>4, GateOfTyped DEF GateRow, IInv, Inv
<1>9. /\ sprints' \in [Sprints -> Row \cup {Absent}]
      /\ \A o \in Sprints : sprints[o] # Absent => sprints'[o] # Absent
  BY <1>6 DEF StepKeeps, Tables, PlanningTypeOK, GatesMove
<1> HIDE DEF s, old, effect, next, table, new, r, rn, nn, after, nextAfter
<1>10. /\ \A o \in Sprints \ {s, next} : table[o] = sprints[o]
       /\ table[s].status = "closed" /\ table[next].status = "active"
  <2> DEFINE half == Closed(sprints, s)
  <2>1. /\ half \in [Sprints -> Row \cup {Absent}]
        /\ \A o \in Sprints : o # s => half[o] = sprints[o]
        /\ half[s].status = "closed"
    BY <1>1, TypedNow, ClosedTable
  <2>2. table = Started(half, next)
    BY <1>7
  <2> HIDE DEF half
  <2>3. /\ \A o \in Sprints : o # next => table[o] = half[o]
        /\ table[next].status =
                IF half[next].status = "planning" THEN "active" ELSE half[next].status
    BY <1>4, <2>1, <2>2, StartedTable
  <2> QED
    BY <1>1, <1>4, <2>1, <2>3
<1>11. tasks \in [Tasks -> TaskRow]
  BY TypedNow
<1>12. sprints[next] # Absent
  BY <1>4 DEF Loadable
<1>13. after \in Snapshot /\ after.sprint = sprints'[s]
  <2>1. after = SnapshotOf(sprints', s, r, next)
    BY <1>2 DEF after
  <2> QED
    BY <1>1, <1>4, <1>9, <1>11, <1>12, <2>1, SnapshotTyped
<1>14. nextAfter \in Snapshot /\ nextAfter.sprint = sprints'[next]
  <2>1. nextAfter = SnapshotOf(sprints', next, rn, nn)
    BY <1>2 DEF nextAfter
  <2> QED
    BY <1>4, <1>8, <1>9, <1>11, <1>12, <2>1, SnapshotTyped
<1>15. /\ observed \in PhaseState /\ observed.phase \in Working
       /\ observed.revision = GateOf(next).state.revision + 1
       /\ JudgeMove(Restarted(next), observed, "approved_next_start")
       /\ Restarted(next).reworkTaskIds = {}
  BY <1>4, <1>5, <1>14, RestartedTyped, ObserveRework DEF IInv, Inv
<1>16. JudgeMove(GateOf(next).state, observed, "approved_next_start")
  BY <1>4, <1>15 DEF JudgeMove, ReworkInPlace
<1>17. /\ gates'[s] = Persisted(new, after) /\ outbox'[s] = Message(new, after)
       /\ gates'[next] = Persisted(observed, nextAfter)
       /\ outbox'[next] = Message(observed, nextAfter)
       /\ \A o \in Sprints \ {s, next} : gates'[o] = gates[o] /\ outbox'[o] = outbox[o]
  BY <1>1, <1>4, <1>5, TypedNow
<1>18. /\ About(history', s) = About(history, s) \cup {Entry(s, new, a.action, a.eventId)}
       /\ About(history', next) = About(history, next) \cup
            {Entry(next, observed, "approved_next_start", NoEvent)}
       /\ \A o \in Sprints \ {s, next} : About(history', o) = About(history, o)
  <2> DEFINE x == Entry(s, new, a.action, a.eventId)
             y == Entry(next, observed, "approved_next_start", NoEvent)
  <2>1. x.sprintId = s /\ y.sprintId = next
    BY DEF Entry
  <2>2. history' = history \cup {x, y}
    BY <1>5
  <2> HIDE DEF x, y
  <2>3. {h \in history' : h.sprintId = s} = {h \in history : h.sprintId = s} \cup {x}
    BY <1>4, <2>1, <2>2
  <2>4. {h \in history' : h.sprintId = next} =
            {h \in history : h.sprintId = next} \cup {y}
    BY <1>4, <2>1, <2>2
  <2>5. \A o \in Sprints \ {s, next} :
            {h \in history' : h.sprintId = o} = {h \in history : h.sprintId = o}
    BY <2>1, <2>2
  <2> QED
    BY <2>3, <2>4, <2>5 DEF About, x, y
<1>19. Wrote(s, new, after, a.action, a.eventId)
  BY <1>1, <1>13, <1>17, <1>18 DEF Wrote, old
<1>20. Wrote(next, observed, nextAfter, "approved_next_start", NoEvent)
  BY <1>12, <1>14, <1>15, <1>16, <1>17, <1>18 DEF Wrote, HistoryActions
<1>21. \A o \in Sprints \ {s, next} : Kept(o) /\ sprints'[o] = sprints[o]
  BY <1>2, <1>10, <1>17, <1>18 DEF Kept, GoalMove
<1>22. /\ Entry(s, new, a.action, a.eventId) \in history'
       /\ \A h \in history' \ history :
                h = Entry(s, new, a.action, a.eventId) \/ h.eventId = NoEvent
  BY <1>5 DEF Entry
<1>23. sprints'[next].status = "active" /\ sprints'[s].status = "closed"
  BY <1>2, <1>10
<1> QED
  BY <1>4, <1>13, <1>14, <1>15, <1>17, <1>19, <1>20, <1>21, <1>22, <1>23
     DEF s, old, next, new

(* Whatever the step, what is recorded of a sprint is kept, or goes on by  *)
(* one revision.                                                           *)
LEMMA StepRecords ==
    ASSUME IInv, [Next]_vars, PlanningAssumption, GatesAssumption
    PROVE  RecordsMove
PROOF
<1>1. CASE ChangePlan \/ WorkOnTask
  BY <1>1, PeopleKeep DEF RecordsMove
<1>2. ASSUME NEW s \in Sprints, NEW r \in Retrospectives,
             NEW n \in Sprints \cup {NoSprint}, ChangeContext(s, r, n)
      PROVE  RecordsMove
  <2> DEFINE snapshot == SnapshotOf(sprints, s, r, n)
  <2>1. /\ \A o \in Sprints \ {s} : Kept(o)
        /\ \E new \in ObserveOutcomes(GateOf(s).state, snapshot) :
                Wrote(s, new, snapshot, "context", NoEvent)
    BY <1>2, ContextWrites
  <2> QED
    BY <2>1 DEF RecordsMove, WroteOne, Wrote
<1>3. ASSUME UNCHANGED <<sprints, gates, history, outbox>>
      PROVE  RecordsMove
  BY <1>3 DEF RecordsMove, Kept, GoalMove, About
<1>4. ASSUME NEW s \in Sprints, View(s)
      PROVE  RecordsMove
  BY <1>4, ViewWrites DEF RecordsMove, WroteOne, Wrote
<1>5. ASSUME NEW a \in answers, NEW roleHeld \in BOOLEAN,
             ApplyAnswer(a, roleHeld), UNCHANGED answers
      PROVE  RecordsMove
  <2> DEFINE s == a.sprintId
             next == gates[s].nextSprintId
             new == Decided(gates[s].state, CurrentSnapshot(s), a)
  <2>1. /\ Stands(a, roleHeld) /\ gates[s] # NoGate
        /\ Record(a, "applied") /\ UNCHANGED <<tasks, answers>>
    BY <1>5 DEF ApplyAnswer
  <2>2. a \in Answer
    BY TypedNow
  <2>3. CASE ApplyHere(a, EffectOf(gates[s].state, a))
    <3>1. /\ \A o \in Sprints \ {s} : Kept(o)
          /\ \E after \in Snapshot : Wrote(s, new, after, a.action, a.eventId)
      BY <2>1, <2>2, <2>3, HereWrites
    <3> QED
      BY <3>1 DEF RecordsMove, WroteOne, Wrote
  <2>4. CASE ApplyNext(a, EffectOf(gates[s].state, a))
    <3>1. /\ \A o \in Sprints \ {s, next} : Kept(o)
          /\ \E after \in Snapshot : Wrote(s, new, after, a.action, a.eventId)
          /\ \E observed \in PhaseState, nextAfter \in Snapshot :
                Wrote(next, observed, nextAfter, "approved_next_start", NoEvent)
      BY <2>1, <2>2, <2>4, NextWrites
    <3> QED
      BY <3>1 DEF RecordsMove, WroteOne, Wrote
  <2> QED
    BY <1>5, <2>3, <2>4 DEF ApplyAnswer
<1>6. ASSUME NEW a \in answers, NEW roleHeld \in BOOLEAN, RejectAnswer(a, roleHeld)
      PROVE  RecordsMove
  BY <1>3, <1>6 DEF RejectAnswer
<1>7. ASSUME NEW e \in EventIds, NEW s \in Sprints, NEW who \in Actors,
             NEW do \in Asked, NEW ids \in SUBSET Tasks, FormAnswer(e, s, who, do, ids)
      PROVE  RecordsMove
  BY <1>3, <1>7 DEF FormAnswer
<1>8. CASE UNCHANGED vars
  BY <1>3, <1>8 DEF vars
<1> QED
  BY <1>1, <1>2, <1>4, <1>5, <1>6, <1>7, <1>8 DEF Next, People

-----------------------------------------------------------------------------
(* What the records say, kept by every step that moves them so.            *)

LastRevision(rows, s) == IF rows[s] = NoGate THEN 0 ELSE rows[s].state.revision

(* No gate holds tasks sent back outside implementation.                   *)
ReworksInPlace == \A s \in Sprints : gates[s] # NoGate => ReworkInPlace(gates[s].state)

(* How the gate, its entry and its message stand after a write.            *)
Written(s, new, snapshot, action, e) ==
    /\ gates'[s] # NoGate
    /\ gates'[s].state.revision = LastRevision(gates, s) + 1
    /\ gates'[s].state.phase = new.phase
    /\ gates'[s].state.reworkTaskIds = new.reworkTaskIds
    /\ gates'[s].state.sourceFingerprint = snapshot
    /\ snapshot.sprint = sprints'[s]
    /\ LastRevision(gates, s) \in Nat
    /\ outbox'[s] # NoMessage
    /\ outbox'[s].payload =
        [phase |-> gates'[s].state.phase, revision |-> gates'[s].state.revision,
         held |-> gates'[s].state.held, closed |-> sprints'[s].status = "closed",
         sourceFingerprint |-> gates'[s].state.sourceFingerprint]
    /\ Entry(s, new, action, e).revision = LastRevision(gates, s) + 1
    /\ JudgeMove(GateOf(s).state, new, action)

(* A write leaves the three telling the same.                              *)
LEMMA WroteRows ==
    ASSUME IInv, NEW s \in Sprints, NEW new \in PhaseState, NEW snapshot \in Snapshot,
           NEW action \in HistoryActions, NEW e \in EventIds \cup {NoEvent},
           Wrote(s, new, snapshot, action, e), GatesAssumption
    PROVE  Written(s, new, snapshot, action, e)
PROOF
<1>1. /\ new \in PhaseState /\ snapshot \in Snapshot
      /\ snapshot.sprint = sprints'[s]
      /\ new.revision = GateOf(s).state.revision + 1
      /\ gates'[s] = Persisted(new, snapshot)
      /\ outbox'[s] = Message(new, snapshot)
      /\ JudgeMove(GateOf(s).state, new, action)
  BY DEF Wrote
<1>2. /\ GateOf(s).state.revision = LastRevision(gates, s)
      /\ LastRevision(gates, s) \in Nat
  BY TypedNow DEF GateOf, NewGate, InitialSprintPhase, LastRevision, GateRow, PhaseState
<1>3. /\ gates'[s] \in GateRow
      /\ gates'[s].state.revision = new.revision
      /\ gates'[s].state.phase = new.phase
      /\ gates'[s].state.held = new.held
      /\ gates'[s].state.reworkTaskIds = new.reworkTaskIds
      /\ gates'[s].state.sourceFingerprint = snapshot
  BY <1>1, PersistedTyped
<1>4. new.revision > 0
  BY <1>1, <1>2
<1>5. outbox'[s] \in OutboxRow
  BY <1>1, <1>4, MessageTyped
<1>6. outbox'[s].payload =
        [phase |-> new.phase, revision |-> new.revision, held |-> new.held,
         closed |-> snapshot.sprint.status = "closed", sourceFingerprint |-> snapshot]
  BY <1>1 DEF Message, Fingerprint
<1>7. Entry(s, new, action, e).revision = new.revision
  BY DEF Entry
<1> QED
  BY <1>1, <1>2, <1>3, <1>5, <1>6, <1>7 DEF GatesAssumption, Written

(* The row a first look creates says nothing yet.                          *)
LEMMA KeptRows ==
    ASSUME IInv, NEW s \in Sprints, Kept(s), GatesAssumption
    PROVE  /\ LastRevision(gates', s) = LastRevision(gates, s)
           /\ gates[s] # NoGate =>
                /\ gates'[s] = gates[s] /\ sprints[s] # Absent
                /\ sprints'[s].status = sprints[s].status
           /\ gates[s] = NoGate /\ gates'[s] # NoGate =>
                /\ gates'[s] = NewGate(s) /\ Loadable(s)
                /\ gates'[s].state.revision = 0
                /\ gates'[s].state.reworkTaskIds = {}
                /\ gates'[s].state.phase \in {"planning", "implementation"}
PROOF
<1>1. gates[s] = NoGate =>
        /\ GateOf(s) = NewGate(s)
        /\ NewGate(s).state.revision = 0
        /\ NewGate(s).state.reworkTaskIds = {}
        /\ NewGate(s).state.phase \in {"planning", "implementation"}
  BY DEF GateOf, NewGate, InitialSprintPhase
<1>2. gates[s] # NoGate => sprints[s] # Absent
  BY DEF IInv, Inv, Typed, GatesOnRows
<1> QED
  BY <1>1, <1>2 DEF Kept, LastRevision

(* One entry per revision: a write appends the entry of the next one.      *)
LEMMA HistoryStaysGapless ==
    ASSUME IInv, RecordsMove, HistoryGapless, GatesAssumption
    PROVE  HistoryGapless'
PROOF
<1> SUFFICES ASSUME NEW s \in Sprints
             PROVE  /\ {h.revision : h \in About(history', s)} = 1..LastRevision(gates', s)
                    /\ \A h, k \in About(history', s) : h.revision = k.revision => h = k
  BY DEF HistoryGapless, About, LastRevision
<1> DEFINE entries == About(history, s)
           last == LastRevision(gates, s)
<1>1. /\ {h.revision : h \in entries} = 1..last
      /\ \A h, k \in entries : h.revision = k.revision => h = k
  BY DEF HistoryGapless, About, LastRevision
<1>2. CASE Kept(s)
  BY <1>1, <1>2, KeptRows DEF Kept
<1>3. ASSUME NEW new \in PhaseState, NEW snapshot \in Snapshot,
             NEW action \in HistoryActions, NEW e \in EventIds \cup {NoEvent},
             Wrote(s, new, snapshot, action, e)
      PROVE  /\ {h.revision : h \in About(history', s)} = 1..LastRevision(gates', s)
             /\ \A h, k \in About(history', s) : h.revision = k.revision => h = k
  <2> DEFINE x == Entry(s, new, action, e)
  <2>1. /\ last \in Nat /\ x.revision = last + 1
        /\ gates'[s] # NoGate /\ gates'[s].state.revision = last + 1
    <3>1. Written(s, new, snapshot, action, e)
      BY <1>3, WroteRows
    <3> QED
      BY <3>1 DEF Written
  <2>2. About(history', s) = entries \cup {x}
    BY <1>3 DEF Wrote
  <2>3. LastRevision(gates', s) = last + 1
    BY <2>1 DEF LastRevision
  <2> HIDE DEF entries, last, x
  <2>4. \A h \in entries : h.revision \in 1..last
    BY <1>1
  <2>5. {h.revision : h \in entries \cup {x}} = 1..(last + 1)
    BY <1>1, <2>1
  <2>6. \A h \in entries : h.revision # x.revision
    BY <2>1, <2>4
  <2>7. \A h, k \in entries \cup {x} : h.revision = k.revision => h = k
    BY <1>1, <2>6
  <2> QED
    BY <2>2, <2>5, <2>7, <2>3
<1> QED
  BY <1>2, <1>3 DEF RecordsMove, WroteOne

(* One message per sprint, of its latest state.                            *)
LEMMA OutboxStaysCurrent ==
    ASSUME IInv, RecordsMove, OutboxCurrent, GatesAssumption
    PROVE  OutboxCurrent'
PROOF
<1> DEFINE Says(s) ==
            IF gates'[s] = NoGate \/ gates'[s].state.revision = 0
            THEN outbox'[s] = NoMessage
            ELSE /\ outbox'[s] # NoMessage
                 /\ outbox'[s].payload =
                    [phase |-> gates'[s].state.phase, revision |-> gates'[s].state.revision,
                     held |-> gates'[s].state.held,
                     closed |-> sprints'[s].status = "closed",
                     sourceFingerprint |-> gates'[s].state.sourceFingerprint]
<1> SUFFICES ASSUME NEW s \in Sprints
             PROVE  Says(s)
  BY DEF OutboxCurrent
<1>1. CASE Kept(s)
  <2>1. outbox'[s] = outbox[s]
    BY <1>1 DEF Kept
  <2>2. CASE gates[s] # NoGate
    BY <1>1, <2>1, <2>2, KeptRows DEF OutboxCurrent
  <2>3. CASE gates[s] = NoGate
    BY <1>1, <2>1, <2>3, KeptRows DEF OutboxCurrent
  <2> QED
    BY <2>2, <2>3
<1>2. ASSUME NEW new \in PhaseState, NEW snapshot \in Snapshot,
             NEW action \in HistoryActions, NEW e \in EventIds \cup {NoEvent},
             Wrote(s, new, snapshot, action, e)
      PROVE  Says(s)
  <2>1. Written(s, new, snapshot, action, e)
    BY <1>2, WroteRows
  <2>2. /\ gates'[s] # NoGate /\ outbox'[s] # NoMessage
        /\ gates'[s].state.revision = LastRevision(gates, s) + 1
        /\ LastRevision(gates, s) \in Nat
    BY <2>1 DEF Written
  <2>3. gates'[s].state.revision # 0
    BY <2>2
  <2>4. outbox'[s].payload =
                [phase |-> gates'[s].state.phase, revision |-> gates'[s].state.revision,
                 held |-> gates'[s].state.held, closed |-> sprints'[s].status = "closed",
                 sourceFingerprint |-> gates'[s].state.sourceFingerprint]
    BY <2>1 DEF Written
  <2> QED
    BY <2>2, <2>4, <2>3
<1> QED
  BY <1>1, <1>2 DEF RecordsMove, WroteOne

(* The goal is pinned by each write, and not editable in between.          *)
LEMMA GoalStaysPinned ==
    ASSUME IInv, RecordsMove, AcceptedGoalPinned, GatesAssumption
    PROVE  AcceptedGoalPinned'
PROOF
<1> SUFFICES ASSUME NEW s \in Sprints, sprints'[s].status = "active", gates'[s] # NoGate,
                    gates'[s].state.phase \in {"acceptance", "retrospective", "next_planning"}
             PROVE  gates'[s].state.sourceFingerprint.sprint.goal = sprints'[s].goal
  BY DEF AcceptedGoalPinned, ActiveSprints, GatePhase
<1>1. CASE Kept(s)
  <2>1. gates[s] # NoGate
    BY <1>1, KeptRows
  <2>2. /\ gates'[s] = gates[s] /\ sprints[s].status = "active"
        /\ sprints[s] # Absent
    BY <1>1, <2>1, KeptRows
  <2>3. gates[s].state.sourceFingerprint.sprint.goal = sprints[s].goal
    BY <2>1, <2>2 DEF AcceptedGoalPinned, ActiveSprints, GatePhase
  <2>4. ~GoalEditable(sprints[s].status, GatePhase(s))
    BY <2>1, <2>2 DEF GoalEditable, GatePhase
  <2> QED
    BY <1>1, <2>2, <2>3, <2>4 DEF Kept, GoalMove
<1>2. ASSUME NEW new \in PhaseState, NEW snapshot \in Snapshot,
             NEW action \in HistoryActions, NEW e \in EventIds \cup {NoEvent},
             Wrote(s, new, snapshot, action, e)
      PROVE  gates'[s].state.sourceFingerprint.sprint.goal = sprints'[s].goal
  <2>1. Written(s, new, snapshot, action, e)
    BY <1>2, WroteRows
  <2>2. gates'[s].state.sourceFingerprint = snapshot /\ snapshot.sprint = sprints'[s]
    BY <2>1 DEF Written
  <2> QED
    BY <2>2
<1> QED
  BY <1>1, <1>2 DEF RecordsMove, WroteOne

(* The judge keeps tasks sent back where they are.                         *)
LEMMA ReworksStay ==
    ASSUME IInv, RecordsMove, ReworksInPlace, GatesAssumption
    PROVE  ReworksInPlace'
PROOF
<1> SUFFICES ASSUME NEW s \in Sprints, gates'[s] # NoGate
             PROVE  ReworkInPlace(gates'[s].state)
  BY DEF ReworksInPlace
<1>1. CASE Kept(s)
  BY <1>1, KeptRows DEF ReworksInPlace, ReworkInPlace
<1>2. ASSUME NEW new \in PhaseState, NEW snapshot \in Snapshot,
             NEW action \in HistoryActions, NEW e \in EventIds \cup {NoEvent},
             Wrote(s, new, snapshot, action, e)
      PROVE  ReworkInPlace(gates'[s].state)
  <2>1. ReworkInPlace(GateOf(s).state)
    BY DEF ReworksInPlace, ReworkInPlace, GateOf, NewGate, InitialSprintPhase
  <2>2. Written(s, new, snapshot, action, e)
    BY <1>2, WroteRows
  <2>3. ReworkInPlace(new)
    BY <2>1, <2>2 DEF Written, JudgeMove
  <2> QED
    BY <2>3, <2>2 DEF Written, ReworkInPlace
<1> QED
  BY <1>1, <1>2 DEF RecordsMove, WroteOne

(* What the theorems about the records need beside the invariant of the    *)
(* tables.                                                                 *)
RecordsInv == RecordsComplete /\ AcceptedGoalPinned /\ ReworksInPlace

(* The invariant of the records is kept by every step that moves them as it*)
(* may.                                                                    *)
LEMMA RecordsKept ==
    ASSUME IInv, RecordsInv, RecordsMove, GatesAssumption
    PROVE  RecordsInv'
BY HistoryStaysGapless, OutboxStaysCurrent, GoalStaysPinned, ReworksStay
   DEF RecordsInv, RecordsComplete

(* There are no records at first.                                          *)
LEMMA RecordsStart ==
    ASSUME Init
    PROVE  RecordsInv
PROOF
<1>1. /\ \A s \in Sprints : gates[s] = NoGate /\ outbox[s] = NoMessage
      /\ history = {}
  BY DEF Init
<1>2. \A s \in Sprints : GatePhase(s) = "none"
  BY <1>1 DEF GatePhase
<1>3. HistoryGapless
  BY <1>1 DEF HistoryGapless
<1>4. OutboxCurrent /\ ReworksInPlace
  BY <1>1 DEF OutboxCurrent, ReworksInPlace
<1>5. AcceptedGoalPinned
  BY <1>2 DEF AcceptedGoalPinned, ActiveSprints
<1> QED
  BY <1>3, <1>4, <1>5 DEF RecordsInv, RecordsComplete

(* The records of the gates stay as the store's transactions keep them in  *)
(* every reachable state.  The next theorems are its parts.                *)
THEOREM RecordsInvariance == Spec => []RecordsInv
PROOF
<1>1. Init => RecordsInv
  BY RecordsStart
<1>2. IInv /\ RecordsInv /\ [Next]_vars => RecordsInv'
  BY StepRecords, RecordsKept, PlanningAssumption, GatesAssumption
<1> QED
  BY <1>1, <1>2, Invariance, PTL DEF Spec

(* The history of every gate has exactly one entry for each revision it    *)
(* has had, and its outbox row carries its latest state and says closed    *)
(* exactly when the sprint is: the three tables written by persist never   *)
(* part, whichever operations write them and however they interleave.      *)
THEOREM RecordsStayComplete == Spec => []RecordsComplete
PROOF
<1>1. RecordsInv => RecordsComplete
  BY DEF RecordsInv
<1> QED
  BY <1>1, RecordsInvariance, PTL

(* From acceptance on the goal in the evidence is the goal of the sprint,  *)
(* whatever the planning API is asked to do meanwhile.                     *)
THEOREM GoalPinned == Spec => []AcceptedGoalPinned
PROOF
<1>1. RecordsInv => AcceptedGoalPinned
  BY DEF RecordsInv
<1> QED
  BY <1>1, RecordsInvariance, PTL

(* Tasks sent back come to acceptance again only by a write that says so   *)
(* in the history.                                                         *)
LEMMA ReworkMoves ==
    ASSUME IInv, RecordsInv, RecordsMove, GatesAssumption, NEW s \in Sprints,
           gates[s] # NoGate, gates'[s] # NoGate, gates[s].state.reworkTaskIds # {},
           gates'[s].state.phase = "acceptance"
    PROVE  \E h \in history' \ history : h.sprintId = s /\ h.action = "resubmit"
PROOF
<1>1. ReworkInPlace(gates[s].state) /\ gates[s].state.phase = "implementation"
  BY DEF RecordsInv, ReworksInPlace, ReworkInPlace
<1>2. ~Kept(s)
  BY <1>1, KeptRows
<1>3. PICK new \in PhaseState, snapshot \in Snapshot, action \in HistoryActions,
           e \in EventIds \cup {NoEvent} : Wrote(s, new, snapshot, action, e)
  BY <1>2 DEF RecordsMove, WroteOne
<1> DEFINE x == Entry(s, new, action, e)
<1>4. /\ new.phase = "acceptance" /\ JudgeMove(gates[s].state, new, action)
      /\ x.revision = LastRevision(gates, s) + 1 /\ LastRevision(gates, s) \in Nat
  <2>1. Written(s, new, snapshot, action, e)
    BY <1>3, WroteRows
  <2> QED
    BY <2>1 DEF Written, GateOf
<1>5. action = "resubmit"
  BY <1>1, <1>4 DEF JudgeMove
<1>6. /\ x \in history' /\ x.sprintId = s /\ x.action = "resubmit"
  BY <1>3, <1>5 DEF Wrote, About, Entry
<1>7. x \notin history
  <2>1. \A h \in history : h.sprintId = s => h.revision \in 1..LastRevision(gates, s)
    BY DEF RecordsInv, RecordsComplete, HistoryGapless, LastRevision
  <2> HIDE DEF x
  <2> QED
    BY <1>4, <1>6, <2>1
<1> QED
  BY <1>6, <1>7

(* Tasks a person sent back come to acceptance again only by a person's    *)
(* resubmission, which the step itself records in the history.             *)
THEOREM ReworkIsResubmitted == Spec => ReworkNeedsResubmission
PROOF
<1>1. IInv /\ RecordsInv /\ [Next]_vars =>
        [\A s \in Sprints :
            /\ gates[s] # NoGate /\ gates'[s] # NoGate
            /\ gates[s].state.reworkTaskIds # {}
            /\ gates'[s].state.phase = "acceptance"
            => \E h \in history' \ history : h.sprintId = s /\ h.action = "resubmit"]_vars
  BY StepRecords, ReworkMoves, PlanningAssumption, GatesAssumption
<1> QED
  BY <1>1, Invariance, RecordsInvariance, PTL DEF Spec, ReworkNeedsResubmission

-----------------------------------------------------------------------------
(* What becomes of the answers.                                            *)

(* No step adds history that claims an answer, unless it applies it.       *)
Beside ==
    /\ events' = events
    /\ answers \subseteq answers'
    /\ history \subseteq history'
    /\ \A h \in history' \ history : h.eventId = NoEvent

Refused(a) ==
    /\ a \in answers /\ Unanswered(a)
    /\ Record(a, "rejected")
    /\ answers \ {a} \subseteq answers'
    /\ history' = history

TookEffect(a) ==
    /\ Unanswered(a)
    /\ Record(a, "applied")
    /\ answers \subseteq answers'
    /\ history \subseteq history'
    /\ \E x \in history' :
        /\ x.sprintId = a.sprintId
        /\ x.action = a.action
        /\ x.eventId = a.eventId
        /\ x.revision = a.expectedRevision + 1
        /\ \A h \in history' \ history : h = x \/ h.eventId = NoEvent

AnswersMove == Beside \/ \E a \in answers : Refused(a) \/ TookEffect(a)

(* An answer that takes effect does so at the revision its author saw.     *)
LEMMA AppliesWhatWasSeen ==
    ASSUME IInv, NEW a \in Answer, NEW roleHeld \in BOOLEAN,
           ApplyAnswer(a, roleHeld), UNCHANGED answers,
           PlanningAssumption, GatesAssumption
    PROVE  TookEffect(a)
PROOF
<1> DEFINE s == a.sprintId
           old == gates[s].state
           new == Decided(old, CurrentSnapshot(s), a)
           x == Entry(s, new, a.action, a.eventId)
<1>1. /\ Unanswered(a) /\ Stands(a, roleHeld) /\ gates[s] # NoGate
      /\ Record(a, "applied") /\ UNCHANGED <<tasks, answers>>
      /\ ApplyHere(a, EffectOf(old, a)) \/ ApplyNext(a, EffectOf(old, a))
  BY DEF ApplyAnswer
<1>2. /\ GateOf(s) = gates[s]
      /\ new.revision = old.revision + 1
  BY <1>1, StandsTyped
<1>3. a.expectedRevision = old.revision
  BY <1>1, <1>2 DEF Stands, Accepts, AnswersCurrent
<1>4. history \subseteq history'
  BY <1>1 DEF ApplyHere, ApplyNext, Persist
<1>5. /\ x \in history'
      /\ \A h \in history' \ history : h = x \/ h.eventId = NoEvent
  <2>1. CASE ApplyHere(a, EffectOf(old, a))
    BY <1>1, <2>1, HereWrites
  <2>2. CASE ApplyNext(a, EffectOf(old, a))
    BY <1>1, <2>2, NextWrites
  <2> QED
    BY <1>1, <2>1, <2>2
<1>6. /\ x.sprintId = s /\ x.action = a.action /\ x.eventId = a.eventId
      /\ x.revision = a.expectedRevision + 1
  BY <1>2, <1>3 DEF Entry
<1> HIDE DEF x
<1> QED
  BY <1>1, <1>4, <1>5, <1>6 DEF TookEffect

(* What any step does to the answers.                                      *)
LEMMA StepAnswers ==
    ASSUME IInv, [Next]_vars, PlanningAssumption, GatesAssumption
    PROVE  AnswersMove
PROOF
<1>1. ASSUME events' = events, history' = history, answers \subseteq answers'
      PROVE  Beside
  BY <1>1 DEF Beside
<1>2. CASE ChangePlan \/ WorkOnTask
  BY <1>1, <1>2 DEF ChangePlan, WorkOnTask, AnswersMove
<1>3. ASSUME NEW s \in Sprints, NEW r \in Retrospectives,
             NEW n \in Sprints \cup {NoSprint}, ChangeContext(s, r, n)
      PROVE  AnswersMove
  <2>1. /\ events' = events /\ answers' = answers
        /\ \E new : history' = history \cup {Entry(s, new, "context", NoEvent)}
    BY <1>3 DEF ChangeContext
  <2> QED
    BY <2>1 DEF AnswersMove, Beside, Entry
<1>4. ASSUME NEW s \in Sprints, View(s), UNCHANGED answers
      PROVE  AnswersMove
  <2>1. /\ events' = events /\ answers' = answers
        /\ \/ history' = history
           \/ \E new : history' = history \cup {Entry(s, new, "observe", NoEvent)}
    BY <1>4 DEF View, Persist
  <2> QED
    BY <2>1 DEF AnswersMove, Beside, Entry
<1>5. ASSUME NEW a \in answers, NEW roleHeld \in BOOLEAN,
             ApplyAnswer(a, roleHeld), UNCHANGED answers
      PROVE  AnswersMove
  BY <1>5, AppliesWhatWasSeen, TypedNow DEF AnswersMove
<1>6. ASSUME NEW a \in answers, NEW roleHeld \in BOOLEAN,
             RejectAnswer(a, roleHeld), answers' = answers \ {a}
      PROVE  AnswersMove
  BY <1>6 DEF RejectAnswer, Refused, AnswersMove
<1>7. ASSUME NEW e \in EventIds, NEW s \in Sprints, NEW who \in Actors,
             NEW do \in Asked, NEW ids \in SUBSET Tasks, FormAnswer(e, s, who, do, ids)
      PROVE  AnswersMove
  BY <1>1, <1>7 DEF FormAnswer, AnswersMove
<1>8. CASE UNCHANGED vars
  BY <1>1, <1>8 DEF vars, AnswersMove
<1> QED
  BY <1>2, <1>3, <1>4, <1>5, <1>6, <1>7, <1>8 DEF Next, People

(* What history says of one answer. *)
Traced(table, said, e) ==
    LET entries == {h \in table : h.eventId = e} IN
    \E h \in entries, a \in said :
        /\ entries = {h}
        /\ a.eventId = e
        /\ h.sprintId = a.sprintId
        /\ h.action = a.action
        /\ h.revision = a.expectedRevision + 1

(* What an applied answer left stays to be traced to it.                   *)
LEMMA AnswersKept ==
    ASSUME IInv, AppliedOnceOnWhatWasSeen, AnswersMove, GatesAssumption
    PROVE  AppliedOnceOnWhatWasSeen'
PROOF
<1> DEFINE claimed(table, e) == {h \in table : h.eventId = e}
<1> SUFFICES ASSUME NEW e \in EventIds
             PROVE  IF events'[e] # NoOutcome /\ events'[e].outcome = "applied"
                    THEN Traced(history', answers', e)
                    ELSE claimed(history', e) = {}
  BY DEF AppliedOnceOnWhatWasSeen, Traced
<1>1. IF events[e] # NoOutcome /\ events[e].outcome = "applied"
      THEN Traced(history, answers, e)
      ELSE claimed(history, e) = {}
  BY DEF AppliedOnceOnWhatWasSeen, Traced
<1>2. ASSUME events'[e] = events[e],
             claimed(history', e) = claimed(history, e),
             \A a \in answers : a.eventId = e /\ events[e] # NoOutcome => a \in answers'
      PROVE  IF events'[e] # NoOutcome /\ events'[e].outcome = "applied"
             THEN Traced(history', answers', e)
             ELSE claimed(history', e) = {}
  <2>1. ASSUME events[e] # NoOutcome, Traced(history, answers, e)
        PROVE  Traced(history', answers', e)
    BY <1>2, <2>1 DEF Traced
  <2> QED
    BY <1>1, <1>2, <2>1
<1>3. NoEvent # e
  BY DEF GatesAssumption
<1>4. events \in [EventIds -> StoredEvent \cup {NoOutcome}]
  BY TypedNow
<1>5. CASE Beside
  <2>1. claimed(history', e) = claimed(history, e)
    BY <1>3, <1>5 DEF Beside
  <2> QED
    BY <1>2, <1>5, <2>1 DEF Beside
<1>6. ASSUME NEW a \in answers, Refused(a)
      PROVE  IF events'[e] # NoOutcome /\ events'[e].outcome = "applied"
             THEN Traced(history', answers', e)
             ELSE claimed(history', e) = {}
  <2>1. CASE a.eventId = e
    <3>1. events[e] = NoOutcome /\ events'[e].outcome = "rejected"
      BY <1>4, <1>6, <2>1 DEF Refused, Unanswered, Record
    <3>2. claimed(history', e) = {}
      BY <1>1, <1>6, <3>1 DEF Refused
    <3> QED
      BY <3>1, <3>2
  <2>2. CASE a.eventId # e
    <3>1. events'[e] = events[e]
      BY <1>4, <1>6, <2>2 DEF Refused, Record
    <3> QED
      BY <1>2, <1>6, <2>2, <3>1 DEF Refused
  <2> QED
    BY <2>1, <2>2
<1>7. ASSUME NEW a \in answers, TookEffect(a)
      PROVE  IF events'[e] # NoOutcome /\ events'[e].outcome = "applied"
             THEN Traced(history', answers', e)
             ELSE claimed(history', e) = {}
  <2>1. PICK x \in history' :
            /\ x.sprintId = a.sprintId
            /\ x.action = a.action
            /\ x.eventId = a.eventId
            /\ x.revision = a.expectedRevision + 1
            /\ \A h \in history' \ history : h = x \/ h.eventId = NoEvent
    BY <1>7 DEF TookEffect
  <2>2. history \subseteq history' /\ answers \subseteq answers'
    BY <1>7 DEF TookEffect
  <2>3. CASE a.eventId = e
    <3>1. events[e] = NoOutcome
      BY <1>7, <2>3 DEF TookEffect, Unanswered
    <3>2. events'[e] # NoOutcome /\ events'[e].outcome = "applied"
      <4>1. events'[e] = [outcome |-> "applied", actor |-> a.actor]
        BY <1>4, <1>7, <2>3 DEF TookEffect, Record
      <4>2. a.actor \in Actors
        BY TypedNow DEF Answer
      <4>3. events'[e] \in StoredEvent
        BY <4>1, <4>2 DEF StoredEvent
      <4> QED
        BY <4>1, <4>3 DEF GatesAssumption
    <3>3. claimed(history, e) = {}
      BY <1>1, <3>1
    <3>4. claimed(history', e) = {x}
      BY <1>3, <2>1, <2>2, <2>3, <3>3
    <3>5. Traced(history', answers', e)
      BY <2>1, <2>2, <2>3, <3>4 DEF Traced
    <3> QED
      BY <3>2, <3>5
  <2>4. CASE a.eventId # e
    <3>1. events'[e] = events[e]
      BY <1>4, <1>7, <2>4 DEF TookEffect, Record
    <3>2. claimed(history', e) = claimed(history, e)
      BY <1>3, <2>1, <2>2, <2>4
    <3> QED
      BY <1>2, <2>2, <3>1, <3>2
  <2> QED
    BY <2>3, <2>4
<1> QED
  BY <1>5, <1>6, <1>7 DEF AnswersMove

(* Whichever way an answer reaches the store, and however often: it is     *)
(* applied at most once, at the revision after the one its author saw, and *)
(* history names no answer that was not applied.                           *)
THEOREM AnswersApplyOnce == Spec => []AppliedOnceOnWhatWasSeen
PROOF
<1>1. Init => AppliedOnceOnWhatWasSeen
  BY DEF Init, AppliedOnceOnWhatWasSeen
<1>2. IInv /\ AppliedOnceOnWhatWasSeen /\ [Next]_vars => AppliedOnceOnWhatWasSeen'
  BY StepAnswers, AnswersKept, PlanningAssumption, GatesAssumption
<1> QED
  BY <1>1, <1>2, Invariance, PTL DEF Spec

-----------------------------------------------------------------------------
(* The statuses and the phases of the sprints, as the promised life of a   *)
(* sprint has them.                                                        *)

LifeStatus == [s \in Sprints |-> sprints[s].status]
LifePhase == [s \in Sprints |-> LifecyclePhase(s)]

(* A sprint whose records and status stay is in the phase it was in, its   *)
(* row created or not.                                                     *)
LEMMA KeptPhase ==
    ASSUME IInv, IInv', NEW o \in Sprints, Kept(o),
           sprints'[o].status = sprints[o].status
    PROVE  LifecyclePhase(o)' = LifecyclePhase(o)
PROOF
<1>1. /\ sprints[o] \in Row \cup {Absent} /\ sprints'[o] \in Row \cup {Absent}
  BY DEF IInv, Inv, Typed, TypeOK, PlanningTypeOK
<1>2. sprints'[o] = Absent <=> sprints[o] = Absent
  BY <1>1 DEF Row, Absent, OpenStatuses
<1>3. gates'[o] = gates[o] \/ (gates[o] = NoGate /\ Loadable(o) /\ gates'[o] = GateOf(o))
  BY DEF Kept
<1>4. CASE gates'[o] = gates[o]
  BY <1>2, <1>4 DEF LifecyclePhase, Loadable, GateOf, NewGate, InitialSprintPhase
<1>5. CASE gates[o] = NoGate /\ Loadable(o) /\ gates'[o] = GateOf(o)
  BY <1>2, <1>5 DEF LifecyclePhase, Loadable, GateOf, NewGate, InitialSprintPhase
<1> QED
  BY <1>3, <1>4, <1>5

(* A sprint whose gate is written is in the phase written.                 *)
LEMMA WrotePhase ==
    ASSUME IInv, NEW s \in Sprints, NEW new \in PhaseState, NEW snapshot \in Snapshot,
           NEW action \in HistoryActions, NEW e \in EventIds \cup {NoEvent},
           Wrote(s, new, snapshot, action, e), GatesAssumption
    PROVE  LifecyclePhase(s)' = new.phase
PROOF
<1>1. Written(s, new, snapshot, action, e)
  BY WroteRows
<1>2. gates'[s] # NoGate /\ gates'[s].state.phase = new.phase
  BY <1>1 DEF Written
<1>3. sprints'[s] \in Row
  BY <1>1 DEF Written, Snapshot
<1>4. sprints'[s] # Absent
  BY <1>3, RowIsPresent
<1> QED
  BY <1>2, <1>4 DEF LifecyclePhase, Loadable, GateOf

(* A sprint that can be loaded is in the phase of its gate; an open one    *)
(* that is past planning is active.                                        *)
LEMMA LoadedPhase ==
    ASSUME IInv, NEW s \in Sprints, Loadable(s)
    PROVE  /\ LifecyclePhase(s) = GateOf(s).state.phase
           /\ IsOpen(sprints[s]) =>
                sprints[s].status =
                    IF LifecyclePhase(s) = "planning" THEN "planning" ELSE "active"
PROOF
<1>1. PhaseFits(sprints[s].status, GateOf(s).state.phase)
  BY LoadedFits DEF IInv
<1> QED
  BY <1>1 DEF LifecyclePhase, PhaseFits, IsOpen, OpenStatuses

(* What only one sprint shows.                                             *)
LEMMA OneMoves ==
    ASSUME NEW s \in Sprints, NEW p, NEW q,
           \A o \in Sprints \ {s} : /\ LifecyclePhase(o)' = LifecyclePhase(o)
                                    /\ sprints'[o].status = sprints[o].status,
           LifecyclePhase(s)' = p, sprints'[s].status = q
    PROVE  /\ LifePhase' = [LifePhase EXCEPT ![s] = p]
           /\ LifeStatus' = [LifeStatus EXCEPT ![s] = q]
           /\ p = LifecyclePhase(s) => LifePhase' = LifePhase
           /\ q = sprints[s].status => LifeStatus' = LifeStatus
BY DEF LifePhase, LifeStatus

-----------------------------------------------------------------------------
(* How each operation moves the statuses.                                  *)

(* A call of the planning API plans a sprint, or moves nothing.            *)
LEMMA PlanningMovesStatus ==
    ASSUME IInv, IInv', ChangePlan \/ WorkOnTask, PlanningAssumption
    PROVE  \/ LifePhase' = LifePhase /\ LifeStatus' = LifeStatus
           \/ \E s \in Sprints :
                /\ sprints[s].status = "absent" /\ sprints'[s].status = "planning"
                /\ LifePhase' = [LifePhase EXCEPT ![s] = "planning"]
                /\ LifeStatus' = [LifeStatus EXCEPT ![s] = "planning"]
PROOF
<1>1. UNCHANGED gates
  BY DEF ChangePlan, WorkOnTask
<1>2. Tables /\ \A x \in Sprints : IsOpen(sprints[x]) => sprints[x].revision \in Nat
  BY TypedNow, OpenIsRow DEF Row
<1>3. PlanningCall
  BY <1>2 DEF ChangePlan, WorkOnTask, PlanningCall
<1>4. ASSUME NEW o \in Sprints, sprints'[o].status = sprints[o].status
      PROVE  LifecyclePhase(o)' = LifecyclePhase(o)
  <2>1. sprints[o] \in Row \cup {Absent} /\ sprints'[o] \in Row \cup {Absent}
    BY DEF IInv, Inv, Typed, TypeOK, PlanningTypeOK
  <2>2. sprints'[o] = Absent <=> sprints[o] = Absent
    BY <1>4, <2>1 DEF Row, Absent, OpenStatuses
  <2> QED
    BY <1>1, <1>4, <2>2 DEF LifecyclePhase, Loadable, GateOf, NewGate, InitialSprintPhase
<1>5. CASE sprints' = sprints
  BY <1>4, <1>5 DEF LifePhase, LifeStatus
<1>6. ASSUME NEW s \in Sprints, NEW row \in Row, RowAllowed(s, row)
      PROVE  \/ LifePhase' = LifePhase /\ LifeStatus' = LifeStatus
             \/ /\ sprints[s].status = "absent" /\ sprints'[s].status = "planning"
                /\ LifePhase' = [LifePhase EXCEPT ![s] = "planning"]
                /\ LifeStatus' = [LifeStatus EXCEPT ![s] = "planning"]
  <2>1. /\ sprints'[s] = row
        /\ \A o \in Sprints \ {s} : sprints'[o] = sprints[o]
    BY <1>2, <1>6 DEF RowAllowed, Tables, PlanningTypeOK
  <2>2. \A o \in Sprints \ {s} : /\ LifecyclePhase(o)' = LifecyclePhase(o)
                                 /\ sprints'[o].status = sprints[o].status
    BY <1>4, <2>1
  <2>3. CASE row.status = "planning" /\ sprints[s] = Absent
    <3>1. gates'[s] = NoGate
      BY <1>1, <2>3 DEF IInv, Inv, Typed, GatesOnRows
    <3>2. sprints'[s].status = "planning" /\ sprints'[s] # Absent
      BY <2>1, <2>3, RowIsPresent
    <3>3. LifecyclePhase(s)' = "planning"
      BY <3>1, <3>2 DEF LifecyclePhase, Loadable, GateOf, NewGate, InitialSprintPhase
    <3> QED
      BY <2>2, <2>3, <3>2, <3>3, OneMoves DEF Absent
  <2>4. CASE row.status = sprints[s].status
    <3>1. LifecyclePhase(s)' = LifecyclePhase(s) /\ sprints'[s].status = sprints[s].status
      BY <1>4, <2>1, <2>4
    <3> QED
      BY <2>2, <3>1, OneMoves
  <2> QED
    BY <1>6, <2>3, <2>4 DEF RowAllowed
<1> QED
  BY <1>2, <1>3, <1>5, <1>6, CallWritesOneRow

(* The effect of an answer on its own sprint: at most it starts it.        *)
LEMMA HereMovesStatus ==
    ASSUME IInv, NEW a \in Answer, NEW effect, ApplyHere(a, effect),
           effect \in {"none", "start_sprint"}
    PROVE  /\ sprints'[a.sprintId].status =
                IF effect = "start_sprint" /\ sprints[a.sprintId].status = "planning"
                THEN "active" ELSE sprints[a.sprintId].status
           /\ \A o \in Sprints \ {a.sprintId} : sprints'[o].status = sprints[o].status
PROOF
<1>1. a.sprintId \in Sprints /\ sprints \in [Sprints -> Row \cup {Absent}]
  BY TypedNow DEF Answer
<1>2. CASE effect = "none"
  BY <1>2 DEF ApplyHere, AfterEffect
<1>3. CASE effect = "start_sprint"
  <2>1. sprints' = Started(sprints, a.sprintId)
    BY <1>3 DEF ApplyHere, AfterEffect
  <2> QED
    BY <1>1, <1>3, <2>1, StartedTable
<1> QED
  BY <1>2, <1>3

(* A sprint that closes, and what becomes true in that step.               *)
Closes(s) == sprints[s].status # "closed" /\ sprints'[s].status = "closed"

ClosesRightly(s) ==
    /\ \E n \in Sprints :
        sprints[n].status = "planning" /\ sprints'[n].status = "active"
    /\ AllDone(CurrentSnapshot(s))
    /\ UNCHANGED tasks

(* The one answer that closes a sprint is the approval of its next plan.   *)
LEMMA AnswerCloses ==
    ASSUME IInv, NEW a \in Answer, NEW roleHeld \in BOOLEAN, NEW o \in Sprints,
           ApplyAnswer(a, roleHeld), UNCHANGED answers, Closes(o),
           PlanningAssumption, GatesAssumption
    PROVE  ClosesRightly(o)
PROOF
<1> DEFINE s == a.sprintId
           old == gates[s].state
           next == gates[s].nextSprintId
<1>1. /\ Stands(a, roleHeld) /\ gates[s] # NoGate
      /\ Record(a, "applied") /\ UNCHANGED <<tasks, answers>>
      /\ ApplyHere(a, EffectOf(old, a)) \/ ApplyNext(a, EffectOf(old, a))
  BY DEF ApplyAnswer
<1>2. CASE ApplyHere(a, EffectOf(old, a))
  <2>1. EffectOf(old, a) \in {"none", "start_sprint"}
    BY <1>2 DEF ApplyHere, EffectOf, EffectOfApproval
  <2> QED
    BY <1>1, <1>2, <2>1, HereMovesStatus DEF Closes
<1>3. CASE ApplyNext(a, EffectOf(old, a))
  <2>1. /\ next \in Sprints
        /\ sprints[next].status = "planning" /\ sprints'[next].status = "active"
        /\ \A x \in Sprints \ {s, next} : sprints'[x] = sprints[x]
    BY <1>1, <1>3, NextWrites
  <2>2. o = s
    BY <2>1 DEF Closes
  <2>3. AllDone(CurrentSnapshot(s))
    <3>1. EffectOf(old, a) = "start_next_sprint"
      BY <1>3 DEF ApplyNext
    <3>2. a.action = "approve" /\ old.phase = "next_planning"
      BY <3>1 DEF EffectOf, EffectOfApproval
    <3>3. Accepts(old, CurrentSnapshot(s), a)
      BY <1>1 DEF Stands, GateOf
    <3> QED
      BY <3>2, <3>3 DEF Accepts, ApprovalReady
  <2> QED
    BY <1>1, <2>1, <2>2, <2>3 DEF ClosesRightly
<1> QED
  BY <1>1, <1>2, <1>3

(* Planning closes nothing.                                                *)
LEMMA PlanningCloses ==
    ASSUME IInv, IInv', ChangePlan \/ WorkOnTask, NEW s \in Sprints, PlanningAssumption
    PROVE  ~Closes(s)
BY PlanningMovesStatus DEF LifeStatus, Closes

(* A sprint closes only complete, in the step that starts the one chosen   *)
(* to follow it, and no task changes in that step: nothing unfinished is   *)
(* carried over or lost sight of.                                          *)
THEOREM ClosesWithSuccessor == Spec => ClosesOnlyIntoNext
PROOF
<1>1. ASSUME IInv, IInv', [Next]_vars, NEW s \in Sprints, Closes(s),
             PlanningAssumption, GatesAssumption
      PROVE  ClosesRightly(s)
  <2>1. ~(ChangePlan \/ WorkOnTask)
    BY <1>1, PlanningCloses
  <2>2. sprints' # sprints
    BY <1>1 DEF Closes
  <2>3. PICK a \in answers, roleHeld \in BOOLEAN :
            ApplyAnswer(a, roleHeld) /\ UNCHANGED answers
    BY <1>1, <2>1, <2>2
       DEF Next, People, ChangeContext, FormAnswer, View, RejectAnswer, vars
  <2>4. a \in Answer
    BY <1>1, TypedNow
  <2> QED
    BY <1>1, <2>3, <2>4, AnswerCloses
<1>2. IInv /\ IInv' /\ [Next]_vars =>
        [\A s \in Sprints : Closes(s) => ClosesRightly(s)]_vars
  BY <1>1, PlanningAssumption, GatesAssumption
<1> QED
  BY <1>2, Invariance, PTL DEF Spec, ClosesOnlyIntoNext, Closes, ClosesRightly

-----------------------------------------------------------------------------
(* The gates implement SprintLifecycle: which of its moves each operation  *)
(* is.                                                                     *)

LifeDecisions == Cardinality(Applied)

Decision == LifeDecisions' = LifeDecisions + 1
NoDecision == LifeDecisions' = LifeDecisions

(* A step of the promised life, or none.                                   *)
Lives == Lifecycle!Next \/ UNCHANGED Lifecycle!lifecycleVars

(* A step that moves no sprint, decided by a person or not.                *)
LEMMA LivesStill ==
    ASSUME LifePhase' = LifePhase, LifeStatus' = LifeStatus, Decision \/ NoDecision
    PROVE  Lives
BY DEF Lives, Lifecycle!Next, Lifecycle!Remark, Lifecycle!lifecycleVars,
       LifePhase, LifeStatus, LifeDecisions, Decision, NoDecision

(* The moves of one sprint.                                                *)
LEMMA LivesPlan ==
    ASSUME NEW s \in Sprints, sprints[s].status = "absent", NoDecision,
           LifeStatus' = [LifeStatus EXCEPT ![s] = "planning"],
           LifePhase' = [LifePhase EXCEPT ![s] = "planning"]
    PROVE  Lives
PROOF
<1>1. Lifecycle!Plan(s)
  BY DEF Lifecycle!Plan, LifePhase, LifeStatus, LifeDecisions, NoDecision
<1> QED
  BY <1>1 DEF Lives, Lifecycle!Next

(* A planned sprint is started, while no other is active.                  *)
LEMMA LivesStart ==
    ASSUME NEW s \in Sprints, sprints[s].status = "planning", Decision,
           \A o \in Sprints \ {s} : sprints[o].status # "active",
           LifeStatus' = [LifeStatus EXCEPT ![s] = "active"],
           LifePhase' = [LifePhase EXCEPT ![s] = "implementation"]
    PROVE  Lives
PROOF
<1>1. Lifecycle!Start(s)
  BY DEF Lifecycle!Start, Lifecycle!Alone, LifePhase, LifeStatus, LifeDecisions, Decision
<1> QED
  BY <1>1 DEF Lives, Lifecycle!Next

(* A sprint is submitted for acceptance.                                   *)
LEMMA LivesSubmit ==
    ASSUME NEW s \in Sprints, sprints[s].status = "active",
           LifecyclePhase(s) = "implementation", Decision \/ NoDecision,
           LifeStatus' = LifeStatus,
           LifePhase' = [LifePhase EXCEPT ![s] = "acceptance"]
    PROVE  Lives
PROOF
<1>1. Lifecycle!Submit(s)
  BY DEF Lifecycle!Submit, LifePhase, LifeStatus, LifeDecisions, Decision, NoDecision
<1> QED
  BY <1>1 DEF Lives, Lifecycle!Next

(* A submission is withdrawn.                                              *)
LEMMA LivesWithdraw ==
    ASSUME NEW s \in Sprints, sprints[s].status = "active",
           LifecyclePhase(s) = "acceptance", NoDecision, LifeStatus' = LifeStatus,
           LifePhase' = [LifePhase EXCEPT ![s] = "implementation"]
    PROVE  Lives
PROOF
<1>1. Lifecycle!Withdraw(s)
  BY DEF Lifecycle!Withdraw, LifePhase, LifeStatus, LifeDecisions, NoDecision
<1> QED
  BY <1>1 DEF Lives, Lifecycle!Next

(* An approval takes a sprint to the next phase of its life.               *)
LEMMA LivesAdvance ==
    ASSUME NEW s \in Sprints, sprints[s].status = "active",
           NEW from \in {"acceptance", "retrospective"}, LifecyclePhase(s) = from,
           Decision, LifeStatus' = LifeStatus,
           LifePhase' = [LifePhase EXCEPT ![s] = PhaseAfterApproval(from)]
    PROVE  Lives
PROOF
<1>1. Lifecycle!Advance(s, from, PhaseAfterApproval(from))
  BY DEF Lifecycle!Advance, LifePhase, LifeStatus, LifeDecisions, Decision
<1>2. PhaseAfterApproval(from) =
        IF from = "acceptance" THEN "retrospective" ELSE "next_planning"
  BY DEF PhaseAfterApproval
<1> QED
  BY <1>1, <1>2 DEF Lives, Lifecycle!Next

(* A rejection sends a sprint back to its implementation.                  *)
LEMMA LivesSendBack ==
    ASSUME NEW s \in Sprints, sprints[s].status = "active", Decision,
           LifeStatus' = LifeStatus,
           LifePhase' = [LifePhase EXCEPT ![s] = "implementation"]
    PROVE  Lives
PROOF
<1>1. Lifecycle!SendBack(s)
  BY DEF Lifecycle!SendBack, LifePhase, LifeStatus, LifeDecisions, Decision
<1> QED
  BY <1>1 DEF Lives, Lifecycle!Next

(* A sprint is closed into the one that follows it.                        *)
LEMMA LivesHandOver ==
    ASSUME NEW s \in Sprints, NEW n \in Sprints, sprints[s].status = "active",
           LifecyclePhase(s) = "next_planning", sprints[n].status = "planning",
           \A o \in Sprints \ {s} : sprints[o].status # "active", Decision,
           LifeStatus' = [LifeStatus EXCEPT ![s] = "closed", ![n] = "active"],
           NEW p \in Working, LifePhase' = [LifePhase EXCEPT ![n] = p]
    PROVE  Lives
PROOF
<1>1. Lifecycle!HandOver(s, n)
  BY DEF Lifecycle!HandOver, Lifecycle!Alone, LifePhase, LifeStatus, LifeDecisions,
         Decision, Working
<1> QED
  BY <1>1 DEF Lives, Lifecycle!Next

-----------------------------------------------------------------------------
(* The decisions counted are the answers that took effect.                 *)

(* Answers that take effect are counted one by one.                        *)
LEMMA AppliedCounts ==
    ASSUME IInv, NEW a \in Answer, Unanswered(a), Record(a, "applied"),
           IsFiniteSet(Applied), GatesAssumption
    PROVE  Decision /\ IsFiniteSet(Applied')
PROOF
<1>1. /\ events \in [EventIds -> StoredEvent \cup {NoOutcome}]
      /\ a.eventId \in EventIds /\ a.actor \in Actors
  BY TypedNow DEF Answer
<1>2. a.eventId \notin Applied
  BY DEF Applied, Unanswered
<1>3. Applied' = Applied \cup {a.eventId}
  <2>1. \A e \in EventIds \ {a.eventId} : events'[e] = events[e]
    BY <1>1 DEF Record
  <2>2. events'[a.eventId] = [outcome |-> "applied", actor |-> a.actor]
    BY <1>1 DEF Record
  <2>3. events'[a.eventId] \in StoredEvent
    BY <1>1, <2>2 DEF StoredEvent
  <2>4. events'[a.eventId] # NoOutcome /\ events'[a.eventId].outcome = "applied"
    BY <2>2, <2>3 DEF GatesAssumption
  <2> QED
    BY <1>1, <2>1, <2>4 DEF Applied
<1>4. /\ IsFiniteSet(Applied \cup {a.eventId})
      /\ Cardinality(Applied \cup {a.eventId}) = Cardinality(Applied) + 1
  BY <1>2, FS_AddElement
<1> QED
  BY <1>3, <1>4 DEF Decision, LifeDecisions

(* Nothing else counts.                                                    *)
LEMMA OthersDoNotCount ==
    ASSUME IInv,
           \/ events' = events
           \/ \E a \in Answer : Unanswered(a) /\ Record(a, "rejected")
    PROVE  Applied' = Applied /\ NoDecision
PROOF
<1>1. ASSUME NEW a \in Answer, Unanswered(a), Record(a, "rejected")
      PROVE  Applied' = Applied
  <2>1. a.eventId \in EventIds /\ events \in [EventIds -> StoredEvent \cup {NoOutcome}]
    BY TypedNow DEF Answer
  <2>2. /\ \A e \in EventIds \ {a.eventId} : events'[e] = events[e]
        /\ events[a.eventId] = NoOutcome /\ events'[a.eventId].outcome = "rejected"
    BY <1>1, <2>1 DEF Record, Unanswered
  <2> QED
    BY <2>2 DEF Applied
<1>2. Applied' = Applied
  BY <1>1 DEF Applied
<1> QED
  BY <1>2 DEF NoDecision, LifeDecisions

-----------------------------------------------------------------------------
(* What each operation does to the life of the sprints.                    *)

(* A gate that is only loaded, its row created or not, moves nothing.      *)
LEMMA KeptLives ==
    ASSUME IInv, IInv', sprints' = sprints, \A o \in Sprints : Kept(o), NoDecision
    PROVE  Lives
PROOF
<1>1. \A o \in Sprints : LifecyclePhase(o)' = LifecyclePhase(o)
  BY KeptPhase
<1>2. LifePhase' = LifePhase /\ LifeStatus' = LifeStatus
  BY <1>1 DEF LifePhase, LifeStatus
<1> QED
  BY <1>2, LivesStill

(* An observation puts finished work up for acceptance, or takes reopened  *)
(* work back, or moves nothing.                                            *)
LEMMA ObservedLives ==
    ASSUME IInv, IInv', NEW s \in Sprints, NEW snapshot \in Snapshot,
           NEW new \in ObserveOutcomes(GateOf(s).state, snapshot),
           NEW action \in HistoryActions, Wrote(s, new, snapshot, action, NoEvent),
           sprints' = sprints, Loadable(s), IsOpen(sprints[s]),
           \A o \in Sprints \ {s} : Kept(o), NoDecision,
           PlanningAssumption, GatesAssumption
    PROVE  Lives
PROOF
<1> DEFINE old == GateOf(s).state
<1>1. new \in PhaseState /\ NoEvent \in EventIds \cup {NoEvent}
  BY DEF Wrote
<1>2. LifecyclePhase(s)' = new.phase
  BY <1>1, WrotePhase
<1>3. \A o \in Sprints \ {s} : LifecyclePhase(o)' = LifecyclePhase(o)
  BY KeptPhase
<1>4. /\ LifePhase' = [LifePhase EXCEPT ![s] = new.phase]
      /\ LifeStatus' = LifeStatus
      /\ new.phase = LifecyclePhase(s) => LifePhase' = LifePhase
  BY <1>2, <1>3, OneMoves
<1>5. /\ LifecyclePhase(s) = old.phase
      /\ sprints[s].status = IF old.phase = "planning" THEN "planning" ELSE "active"
  BY LoadedPhase
<1>6. \/ new.phase = old.phase
      \/ old.phase = "implementation" /\ new.phase = "acceptance"
      \/ old.phase = "acceptance" /\ new.phase = "implementation"
  <2> DEFINE next == Revised(old, snapshot)
  <2>1. old \in PhaseState
    BY GateOfTyped DEF IInv, Inv, GateRow
  <2>2. next \in PhaseState /\ next.phase = old.phase
    BY <2>1, RevisedTyped
  <2>3. \/ new \in {old, next}
        \/ old.phase = "implementation" /\ new = [next EXCEPT !.phase = "acceptance"]
        \/ old.phase = "acceptance" /\ new = [next EXCEPT !.phase = "implementation"]
    BY DEF ObserveOutcomes, ReadyForAcceptance
  <2> HIDE DEF next, old
  <2> QED
    BY <2>2, <2>3 DEF PhaseState
<1>7. CASE new.phase = old.phase
  BY <1>4, <1>5, <1>7, LivesStill
<1>8. CASE old.phase = "implementation" /\ new.phase = "acceptance"
  BY <1>4, <1>5, <1>8, LivesSubmit
<1>9. CASE old.phase = "acceptance" /\ new.phase = "implementation"
  BY <1>4, <1>5, <1>9, LivesWithdraw
<1> QED
  BY <1>6, <1>7, <1>8, <1>9

(* An answer that stays with its own sprint is the move it asks for.       *)
LEMMA HereLives ==
    ASSUME IInv, IInv', NEW a \in Answer, NEW roleHeld \in BOOLEAN,
           Stands(a, roleHeld), gates[a.sprintId] # NoGate,
           ApplyHere(a, EffectOf(gates[a.sprintId].state, a)),
           Record(a, "applied"), UNCHANGED <<tasks, answers>>, Decision,
           PlanningAssumption, GatesAssumption
    PROVE  Lives
PROOF
<1> DEFINE s == a.sprintId
           old == gates[s].state
           effect == EffectOf(old, a)
           current == CurrentSnapshot(s)
           new == Decided(old, current, a)
<1>1. /\ s \in Sprints /\ GateOf(s) = gates[s] /\ Loadable(s) /\ IsOpen(sprints[s])
      /\ a.action \in HistoryActions /\ a.eventId \in EventIds
      /\ new \in PhaseState /\ old \in PhaseState /\ current \in Snapshot
  <2>1. s \in Sprints /\ Loadable(s) /\ IsOpen(sprints[s])
    BY DEF Stands, Answer
  <2>2. old \in PhaseState /\ current \in Snapshot
    BY <2>1, TypedNow, CurrentTyped DEF IInv, Inv, GateRow
  <2> QED
    BY <2>1, <2>2, StandsTyped
<1>2. Accepts(old, current, a) /\ EffectAllowed(s, effect, gates[s].nextSprintId)
  BY <1>1 DEF Stands
<1>3. effect \in {"none", "start_sprint"}
  BY DEF ApplyHere, EffectOf, EffectOfApproval
<1>4. /\ \A o \in Sprints \ {s} : Kept(o)
      /\ \E after \in Snapshot : Wrote(s, new, after, a.action, a.eventId)
  BY HereWrites
<1>5. /\ sprints'[s].status =
            IF effect = "start_sprint" /\ sprints[s].status = "planning"
            THEN "active" ELSE sprints[s].status
      /\ \A o \in Sprints \ {s} : sprints'[o].status = sprints[o].status
  BY <1>3, HereMovesStatus
<1>6. LifecyclePhase(s)' = new.phase
  BY <1>1, <1>4, WrotePhase
<1>7. \A o \in Sprints \ {s} : LifecyclePhase(o)' = LifecyclePhase(o)
  BY <1>4, <1>5, KeptPhase
<1>8. /\ LifecyclePhase(s) = old.phase
      /\ sprints[s].status = IF old.phase = "planning" THEN "planning" ELSE "active"
  BY <1>1, LoadedPhase
<1>9. Revised(old, current) \in PhaseState /\ Revised(old, current).phase = old.phase
  BY <1>1, RevisedTyped
<1>10. a.action \in HumanActions
  BY DEF Answer
<1> DEFINE next == Revised(old, current)
<1>11. /\ a.action = "approve" => new = [next EXCEPT !.phase = PhaseAfterApproval(old.phase)]
       /\ a.action = "reject" =>
            new = IF old.phase = "planning" THEN next
                  ELSE [next EXCEPT !.phase = "implementation", !.reworkTaskIds = a.taskIds]
       /\ a.action \in {"hold", "resume"} => \E held \in BOOLEAN : new = [next EXCEPT !.held = held]
       /\ a.action = "resubmit" =>
            new = [next EXCEPT !.phase = "acceptance", !.reworkTaskIds = {}]
  BY DEF Decided
<1>12. /\ a.action = "approve" =>
            old.phase \in {"planning", "acceptance", "retrospective"}
       /\ a.action = "resubmit" => old.phase = "implementation"
       /\ effect = IF a.action = "approve" /\ old.phase = "planning"
                   THEN "start_sprint" ELSE "none"
  <2>1. old.phase \in Phases
    BY <1>1 DEF PhaseState
  <2>2. a.action = "approve" => old.phase # "implementation"
    BY <1>2 DEF Accepts, ApprovalReady
  <2>3. a.action = "approve" => old.phase # "next_planning"
    BY <1>3 DEF EffectOf, EffectOfApproval
  <2>4. a.action = "resubmit" => old.phase = "implementation"
    BY <1>2 DEF Accepts
  <2> QED
    BY <2>1, <2>2, <2>3, <2>4 DEF Phases, EffectOf, EffectOfApproval
<1> HIDE DEF s, old, effect, current, new, next
<1>13. /\ LifePhase' = [LifePhase EXCEPT ![s] = new.phase]
       /\ LifeStatus' = [LifeStatus EXCEPT ![s] = sprints'[s].status]
       /\ new.phase = LifecyclePhase(s) => LifePhase' = LifePhase
       /\ sprints'[s].status = sprints[s].status => LifeStatus' = LifeStatus
  BY <1>1, <1>5, <1>6, <1>7, OneMoves
<1>14. CASE a.action = "approve" /\ old.phase = "planning"
  <2>1. new.phase = "implementation"
    BY <1>9, <1>11, <1>14 DEF PhaseState, PhaseAfterApproval, next
  <2>2. sprints[s].status = "planning" /\ sprints'[s].status = "active"
    BY <1>5, <1>8, <1>12, <1>14
  <2>3. \A o \in Sprints \ {s} : sprints[o].status # "active"
    BY <1>2, <1>12, <1>14 DEF EffectAllowed, NoOtherActive, ActiveSprints
  <2> QED
    BY <1>1, <1>13, <2>1, <2>2, <2>3, LivesStart
<1>15. ASSUME ~(a.action = "approve" /\ old.phase = "planning")
       PROVE  effect = "none" /\ LifeStatus' = LifeStatus
  BY <1>5, <1>12, <1>13, <1>15
<1>16. CASE a.action = "approve" /\ old.phase # "planning"
  <2>1. new.phase = PhaseAfterApproval(old.phase)
    BY <1>9, <1>11, <1>16 DEF PhaseState, next
  <2>2. sprints[s].status = "active" /\ old.phase \in {"acceptance", "retrospective"}
    BY <1>8, <1>12, <1>16
  <2> QED
    BY <1>1, <1>8, <1>13, <1>15, <1>16, <2>1, <2>2, LivesAdvance
<1>17. CASE a.action = "reject" /\ old.phase = "planning"
  <2>1. new.phase = LifecyclePhase(s)
    BY <1>8, <1>9, <1>11, <1>17 DEF next
  <2> QED
    BY <1>13, <1>15, <1>17, <2>1, LivesStill
<1>18. CASE a.action = "reject" /\ old.phase # "planning"
  <2>1. new.phase = "implementation" /\ sprints[s].status = "active"
    BY <1>8, <1>9, <1>11, <1>18 DEF PhaseState, next
  <2> QED
    BY <1>1, <1>13, <1>15, <1>18, <2>1, LivesSendBack
<1>19. CASE a.action \in {"hold", "resume"}
  <2>1. new.phase = LifecyclePhase(s)
    BY <1>8, <1>9, <1>11, <1>19 DEF PhaseState, next
  <2> QED
    BY <1>13, <1>15, <1>19, <2>1, LivesStill
<1>20. CASE a.action = "resubmit"
  <2>1. /\ new.phase = "acceptance" /\ sprints[s].status = "active"
        /\ LifecyclePhase(s) = "implementation"
    BY <1>8, <1>9, <1>11, <1>12, <1>20 DEF PhaseState, next
  <2> QED
    BY <1>1, <1>13, <1>15, <1>20, <2>1, LivesSubmit
<1> QED
  BY <1>10, <1>14, <1>16, <1>17, <1>18, <1>19, <1>20 DEF HumanActions

(* The approval of the next plan ends this sprint and starts that one.     *)
LEMMA NextLives ==
    ASSUME IInv, IInv', NEW a \in Answer, NEW roleHeld \in BOOLEAN,
           Stands(a, roleHeld), gates[a.sprintId] # NoGate,
           ApplyNext(a, EffectOf(gates[a.sprintId].state, a)),
           Record(a, "applied"), UNCHANGED <<tasks, answers>>, Decision,
           PlanningAssumption, GatesAssumption
    PROVE  Lives
PROOF
<1> DEFINE s == a.sprintId
           old == gates[s].state
           next == gates[s].nextSprintId
           new == Decided(old, CurrentSnapshot(s), a)
<1>1. /\ s \in Sprints /\ GateOf(s) = gates[s] /\ Loadable(s) /\ IsOpen(sprints[s])
      /\ a.action \in HistoryActions /\ a.eventId \in EventIds
      /\ new \in PhaseState /\ old \in PhaseState /\ CurrentSnapshot(s) \in Snapshot
  <2>1. s \in Sprints /\ Loadable(s) /\ IsOpen(sprints[s])
    BY DEF Stands, Answer
  <2>2. old \in PhaseState /\ CurrentSnapshot(s) \in Snapshot
    BY <2>1, TypedNow, CurrentTyped DEF IInv, Inv, GateRow
  <2> QED
    BY <2>1, <2>2, StandsTyped
<1>2. /\ next \in Sprints /\ next # s
      /\ sprints[next].status = "planning" /\ sprints'[next].status = "active"
      /\ sprints'[s].status = "closed"
      /\ \A o \in Sprints \ {s, next} : Kept(o) /\ sprints'[o] = sprints[o]
      /\ \E after \in Snapshot : Wrote(s, new, after, a.action, a.eventId)
      /\ \E observed \in PhaseState, nextAfter \in Snapshot :
            /\ observed.phase \in Working
            /\ Wrote(next, observed, nextAfter, "approved_next_start", NoEvent)
  BY NextWrites
<1>3. /\ EffectOf(old, a) = "start_next_sprint"
      /\ EffectAllowed(s, EffectOf(old, a), next)
  BY <1>1 DEF ApplyNext, Stands
<1>4. a.action = "approve" /\ old.phase = "next_planning"
  BY <1>3 DEF EffectOf, EffectOfApproval
<1>5. new.phase = "next_planning"
  <2>1. new = [Revised(old, CurrentSnapshot(s)) EXCEPT !.phase = PhaseAfterApproval(old.phase)]
    BY <1>4 DEF Decided
  <2>2. Revised(old, CurrentSnapshot(s)) \in PhaseState
    BY <1>1, RevisedTyped
  <2> HIDE DEF new, old
  <2> QED
    BY <1>4, <2>1, <2>2 DEF PhaseState, PhaseAfterApproval
<1>6. /\ LifecyclePhase(s) = "next_planning" /\ sprints[s].status = "active"
  BY <1>1, <1>4, LoadedPhase
<1>7. \A o \in Sprints \ {s} : sprints[o].status # "active"
  BY <1>3 DEF EffectAllowed, NoOtherActive, ActiveSprints
<1> HIDE DEF s, old, next, new
<1>8. LifecyclePhase(s)' = "next_planning"
  BY <1>1, <1>2, <1>5, WrotePhase
<1>9. PICK n \in Sprints, observed \in PhaseState, nextAfter \in Snapshot :
        /\ n = next
        /\ observed.phase \in Working
        /\ Wrote(n, observed, nextAfter, "approved_next_start", NoEvent)
  BY <1>2
<1>10. LifecyclePhase(n)' = observed.phase
  <2>1. "approved_next_start" \in HistoryActions /\ NoEvent \in EventIds \cup {NoEvent}
    BY DEF HistoryActions
  <2> QED
    BY <1>9, <2>1, WrotePhase
<1>11. \A o \in Sprints \ {s, n} :
            LifecyclePhase(o)' = LifecyclePhase(o) /\ sprints'[o].status = sprints[o].status
  BY <1>2, <1>9, KeptPhase
<1>12. LifePhase' = [LifePhase EXCEPT ![n] = observed.phase]
  <2>1. n # s
    BY <1>2, <1>9
  <2> QED
    BY <1>6, <1>8, <1>10, <1>11, <2>1 DEF LifePhase
<1>13. LifeStatus' = [LifeStatus EXCEPT ![s] = "closed", ![n] = "active"]
  BY <1>1, <1>2, <1>9, <1>11 DEF LifeStatus
<1> QED
  BY <1>1, <1>2, <1>6, <1>7, <1>9, <1>12, <1>13, LivesHandOver

(* A step of the promised life that leaves the decisions finite.           *)
LivesOn == Lives /\ IsFiniteSet(Applied')

(* A step that leaves sprints and gates alone, and applies no answer.      *)
LEMMA StillLives ==
    ASSUME IInv, IsFiniteSet(Applied), UNCHANGED <<sprints, gates>>,
           events' = events \/ \E a \in Answer : Unanswered(a) /\ Record(a, "rejected")
    PROVE  LivesOn
PROOF
<1>1. \A o \in Sprints : LifecyclePhase(o)' = LifecyclePhase(o)
  BY DEF LifecyclePhase, Loadable, GateOf, NewGate
<1> QED
  BY <1>1, OthersDoNotCount, LivesStill DEF LifePhase, LifeStatus, LivesOn

(* Planning, and work on tasks.                                            *)
LEMMA PlanningLives ==
    ASSUME IInv, IInv', IsFiniteSet(Applied), ChangePlan \/ WorkOnTask,
           PlanningAssumption
    PROVE  LivesOn
PROOF
<1>1. Applied' = Applied /\ NoDecision
  BY OthersDoNotCount DEF ChangePlan, WorkOnTask
<1> QED
  BY <1>1, PlanningMovesStatus, LivesStill, LivesPlan DEF LivesOn

(* A look at a gate.                                                       *)
LEMMA ViewLives ==
    ASSUME IInv, IInv', IsFiniteSet(Applied), NEW s \in Sprints, View(s),
           PlanningAssumption, GatesAssumption
    PROVE  LivesOn
PROOF
<1>1. Applied' = Applied /\ NoDecision
  BY OthersDoNotCount DEF View
<1>2. /\ sprints' = sprints /\ Loadable(s) /\ IsOpen(sprints[s])
  BY DEF View
<1>3. /\ \A o \in Sprints \ {s} : Kept(o)
      /\ \/ Kept(s)
         \/ \E new \in ObserveOutcomes(GateOf(s).state, CurrentSnapshot(s)) :
                  Wrote(s, new, CurrentSnapshot(s), "observe", NoEvent)
  BY ViewWrites
<1>4. CASE Kept(s)
  BY <1>1, <1>2, <1>3, <1>4, KeptLives DEF LivesOn
<1>5. ASSUME NEW new \in ObserveOutcomes(GateOf(s).state, CurrentSnapshot(s)),
             Wrote(s, new, CurrentSnapshot(s), "observe", NoEvent)
      PROVE  Lives
  <2>1. CurrentSnapshot(s) \in Snapshot /\ "observe" \in HistoryActions
    BY <1>5 DEF Wrote
  <2> QED
    BY <1>1, <1>2, <1>3, <1>5, <2>1, ObservedLives
<1> QED
  BY <1>1, <1>3, <1>4, <1>5 DEF LivesOn

(* A change of the retrospective or of the sprint chosen to follow.        *)
LEMMA ContextLives ==
    ASSUME IInv, IInv', IsFiniteSet(Applied), NEW s \in Sprints,
           NEW r \in Retrospectives, NEW n \in Sprints \cup {NoSprint},
           ChangeContext(s, r, n), PlanningAssumption, GatesAssumption
    PROVE  LivesOn
PROOF
<1> DEFINE snapshot == SnapshotOf(sprints, s, r, n)
<1>1. Applied' = Applied /\ NoDecision
  BY OthersDoNotCount DEF ChangeContext
<1>2. /\ sprints' = sprints /\ Loadable(s) /\ IsOpen(sprints[s])
  BY DEF ChangeContext, Loadable, IInv, Inv, Typed, GatesOnRows
<1>3. /\ \A o \in Sprints \ {s} : Kept(o)
      /\ \E new \in ObserveOutcomes(GateOf(s).state, snapshot) :
              Wrote(s, new, snapshot, "context", NoEvent)
  BY ContextWrites
<1>4. snapshot \in Snapshot /\ "context" \in HistoryActions
  BY <1>3 DEF Wrote
<1> HIDE DEF snapshot
<1> QED
  BY <1>1, <1>2, <1>3, <1>4, ObservedLives DEF LivesOn

(* An answer that takes effect.                                            *)
LEMMA ApplyLives ==
    ASSUME IInv, IInv', IsFiniteSet(Applied), NEW a \in Answer, NEW roleHeld \in BOOLEAN,
           ApplyAnswer(a, roleHeld), UNCHANGED answers,
           PlanningAssumption, GatesAssumption
    PROVE  LivesOn
PROOF
<1>1. /\ Unanswered(a) /\ Stands(a, roleHeld) /\ gates[a.sprintId] # NoGate
      /\ Record(a, "applied") /\ UNCHANGED <<tasks, answers>>
      /\ \/ ApplyHere(a, EffectOf(gates[a.sprintId].state, a))
         \/ ApplyNext(a, EffectOf(gates[a.sprintId].state, a))
  BY DEF ApplyAnswer
<1>2. Decision /\ IsFiniteSet(Applied')
  BY <1>1, AppliedCounts
<1> QED
  BY <1>1, <1>2, HereLives, NextLives DEF LivesOn

(* Every step of the gates is a step of the promised life, or none, and    *)
(* keeps the decisions finite.                                             *)
LEMMA StepLives ==
    ASSUME IInv, IInv', IsFiniteSet(Applied), [Next]_vars,
           PlanningAssumption, GatesAssumption
    PROVE  LivesOn
PROOF
<1>1. CASE ChangePlan \/ WorkOnTask
  BY <1>1, PlanningLives
<1>2. ASSUME NEW s \in Sprints, NEW r \in Retrospectives,
             NEW n \in Sprints \cup {NoSprint}, ChangeContext(s, r, n)
      PROVE  LivesOn
  BY <1>2, ContextLives
<1>3. ASSUME NEW s \in Sprints, View(s)
      PROVE  LivesOn
  BY <1>3, ViewLives
<1>4. ASSUME NEW a \in answers, NEW roleHeld \in BOOLEAN,
             ApplyAnswer(a, roleHeld), UNCHANGED answers
      PROVE  LivesOn
  BY <1>4, ApplyLives, TypedNow
<1>5. ASSUME NEW a \in answers, NEW roleHeld \in BOOLEAN, RejectAnswer(a, roleHeld)
      PROVE  LivesOn
  <2>1. a \in Answer
    BY TypedNow
  <2> QED
    BY <1>5, <2>1, StillLives DEF RejectAnswer
<1>6. ASSUME NEW e \in EventIds, NEW s \in Sprints, NEW who \in Actors,
             NEW do \in Asked, NEW ids \in SUBSET Tasks, FormAnswer(e, s, who, do, ids)
      PROVE  LivesOn
  BY <1>6, StillLives DEF FormAnswer
<1>7. CASE UNCHANGED vars
  BY <1>7, StillLives DEF vars
<1> QED
  BY <1>1, <1>2, <1>3, <1>4, <1>5, <1>6, <1>7 DEF Next, People

(* An installation starts as the promised life may start.                  *)
LEMMA InitLives ==
    ASSUME Init, PlanningAssumption
    PROVE  Lifecycle!Init /\ IsFiniteSet(Applied)
PROOF
<1>1. /\ sprints \in [Sprints -> Row \cup {Absent}] /\ OneActive(sprints)
      /\ \A s \in Sprints : gates[s] = NoGate
      /\ Applied = {}
  BY DEF Init, PlanningInit, PlanningAssumption, Applied
<1>2. LifeStatus \in [Sprints -> Lifecycle!Statuses]
  BY <1>1 DEF LifeStatus, Lifecycle!Statuses, Row, Absent, OpenStatuses
<1>3. LifePhase = [s \in Sprints |->
                    CASE LifeStatus[s] = "planning" -> "planning"
                      [] LifeStatus[s] = "active"   -> "implementation"
                      [] OTHER                      -> "none"]
  <2> SUFFICES ASSUME NEW s \in Sprints
               PROVE  LifecyclePhase(s) =
                        CASE sprints[s].status = "planning" -> "planning"
                          [] sprints[s].status = "active"   -> "implementation"
                          [] OTHER                          -> "none"
    BY DEF LifePhase, LifeStatus
  <2>1. sprints[s].status \in {"planning", "active", "closed", "absent"}
    BY <1>1 DEF Row, Absent, OpenStatuses
  <2>2. sprints[s] = Absent <=> sprints[s].status = "absent"
    BY <1>1 DEF Row, Absent, OpenStatuses
  <2> QED
    BY <1>1, <2>1, <2>2 DEF LifecyclePhase, Loadable, GateOf, NewGate, InitialSprintPhase
<1>4. IsFiniteSet(Applied) /\ LifeDecisions = 0
  BY <1>1, FS_EmptySet DEF LifeDecisions
<1> QED
  BY <1>1, <1>2, <1>3, <1>4
     DEF Lifecycle!Init, LifeStatus, LifePhase, LifeDecisions, OneActive

(* The detailed store implements the promised life of a sprint: whatever   *)
(* the people, the planning API, the tick and repeated answers do, every   *)
(* step is one of its moves or none, and each move that takes a person's   *)
(* decision is an answer recorded as applied, counted once.                *)
THEOREM GatesImplementLifecycle == Spec => ImplementsLifecycle
PROOF
<1>1. Init => Lifecycle!Init /\ IsFiniteSet(Applied)
  BY InitLives, PlanningAssumption
<1>2. IInv /\ IInv' /\ IsFiniteSet(Applied) /\ [Next]_vars =>
        [Lifecycle!Next]_(Lifecycle!lifecycleVars) /\ IsFiniteSet(Applied)'
  BY StepLives, PlanningAssumption, GatesAssumption DEF Lives, LivesOn
<1> QED
  BY <1>1, <1>2, Invariance, PTL DEF Spec, ImplementsLifecycle, Lifecycle!Spec

=============================================================================
