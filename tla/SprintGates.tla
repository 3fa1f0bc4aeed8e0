----------------------------- MODULE SprintGates -----------------------------
(***************************************************************************)
(* The human gates of a sprint: SprintGateStore of                         *)
(* modules/task/sprint-gates/store.ts over the planning tables.            *)
(*                                                                         *)
(* view, context and decide are transactions that hold the team's lock and *)
(* a lock on the tasks (src/db/sprint-gate-database.ts), so each is one    *)
(* action; anything may happen between two of them.  What a person sees is *)
(* modelled by the answer they form: an answer carries the revision and    *)
(* the fingerprint of the gate at the moment the person looked, stays in   *)
(* the set of answers, and may reach the store at any later time.  An     *)
(* applied answer may reach it again any number of times; a rejected one   *)
(* is dropped, since a retry only reads its recorded outcome back.  The    *)
(* content of an event id never changes once formed, so of the request     *)
(* hash only the actor is kept.                                            *)
(***************************************************************************)
EXTENDS SprintPlanning, Terpsichore

CONSTANTS
    EventIds,           \* ids of human answers ("ui:..." or "cc:...")
    Actors,             \* who answers; Leaders need the leader row in team_members
    Leaders,            \* actors whose role the store verifies (requireLeader)
    Asked,              \* the human actions people take in the instance
    NoGate,             \* no row in sprint_gates
    NoOutcome,          \* no row in sprint_gate_events
    NoMessage,          \* no row in sprint_gate_outbox
    NoEvent,            \* history entries that no human answer caused
    MaxUndecided,       \* bound on the answers under way at once
    MaxGateRevision     \* bound on the revision of each sprint's gate

VARIABLES
    gates,              \* table sprint_gates
    history,            \* table sprint_gate_history
    outbox,             \* table sprint_gate_outbox, one row per sprint
    events,             \* table sprint_gate_events
    answers             \* answers formed by people and still deliverable

gateVars == <<gates, history, outbox, events>>
vars == <<sprints, tasks, gates, history, outbox, events, answers>>

Retrospectives == {"", "written"}

TaskData == [status: TaskStatuses, text: Texts]
TaskScope == UNION {[scope -> TaskData] : scope \in SUBSET Tasks}
NextPlan == [id: Sprints, sprint: Row, tasks: TaskScope]
Snapshot == [sprint: Row, tasks: TaskScope, retrospective: Retrospectives,
             nextPlan: NextPlan \cup {NoPlan}]
Fingerprints == Snapshot \cup {NoFingerprint}

PhaseState == [phase: Phases, held: BOOLEAN, revision: Nat,
               sourceFingerprint: Fingerprints, reworkTaskIds: SUBSET Tasks]
GateRow == [state: PhaseState, retrospective: Retrospectives,
            nextSprintId: Sprints \cup {NoSprint}]

HistoryActions == HumanActions \cup {"observe", "context", "approved_next_start"}
HistoryEntry == [sprintId: Sprints, revision: Nat \ {0}, phase: Phases,
                 action: HistoryActions, eventId: EventIds \cup {NoEvent}]

Projection == [phase: Phases, revision: Nat \ {0}, held: BOOLEAN,
               closed: BOOLEAN, sourceFingerprint: Snapshot]
DeliveryStatuses == {"pending", "delivered", "failed", "unknown"}
OutboxRow == [payload: Projection, status: DeliveryStatuses]

Answer == [eventId: EventIds, sprintId: Sprints, actor: Actors, action: HumanActions,
           expectedRevision: Nat \ {0}, sourceFingerprint: Snapshot,
           taskIds: SUBSET Tasks]
StoredEvent == [outcome: {"applied", "rejected"}, actor: Actors]

ASSUME GatesAssumption ==
    /\ MaxGateRevision \in [Sprints -> Nat]
    /\ Leaders \subseteq Actors
    /\ Asked \subseteq HumanActions
    /\ NoEvent \notin EventIds
    /\ NoGate \notin GateRow
    /\ NoMessage \notin OutboxRow
    /\ NoOutcome \notin StoredEvent
    /\ NoPlan \notin NextPlan
    /\ NoFingerprint \notin Snapshot

Init ==
    /\ PlanningInit
    /\ gates = [s \in Sprints |-> NoGate]
    /\ history = {}
    /\ outbox = [s \in Sprints |-> NoMessage]
    /\ events = [e \in EventIds |-> NoOutcome]
    /\ answers = {}

-----------------------------------------------------------------------------
(* Reading a gate: loadGate of snapshot.ts.                                *)

(* A row is created on first use; a sprint that was closed before gates    *)
(* existed has none and never gets one.                                    *)
Loadable(s) ==
    /\ sprints[s] # Absent
    /\ gates[s] = NoGate => sprints[s].status # "closed"

(* Mutant: the phase of a new row ignores the status of the sprint.        *)
NewGateInPlanning(s) ==
    [state |-> InitialSprintPhase("planning"), retrospective |-> "",
     nextSprintId |-> NoSprint]

NewGate(s) ==
    [state |-> InitialSprintPhase(IF sprints[s].status = "active"
                                  THEN "implementation" ELSE "planning"),
     retrospective |-> "", nextSprintId |-> NoSprint]

(* Mutant: a stored state is read back without the tasks sent back.        *)
GateOfWithoutRework(s) ==
    IF gates[s] = NoGate THEN NewGate(s) ELSE [gates[s] EXCEPT !.state.reworkTaskIds = {}]

GateOf(s) == IF gates[s] = NoGate THEN NewGate(s) ELSE gates[s]

(* loadTasks: every attached task, whatever its status. *)
TasksOf(s) ==
    [t \in {x \in Tasks : tasks[x].sprint = s} |->
        [status |-> tasks[t].status, text |-> tasks[t].text]]

PlanOf(table, next) ==
    IF next = NoSprint THEN NoPlan
    ELSE [id |-> next, sprint |-> table[next], tasks |-> TasksOf(next)]

(* Mutant: the gate is not loaded again after the effect.                  *)
SnapshotBefore(table, s, retrospective, next) ==
    [sprint |-> sprints[s], tasks |-> TasksOf(s),
     retrospective |-> retrospective, nextPlan |-> PlanOf(sprints, next)]

(* The snapshot of a sprint, read from the given table of sprints. *)
SnapshotOf(table, s, retrospective, next) ==
    [sprint |-> table[s], tasks |-> TasksOf(s),
     retrospective |-> retrospective, nextPlan |-> PlanOf(table, next)]

CurrentSnapshot(s) ==
    SnapshotOf(sprints, s, GateOf(s).retrospective, GateOf(s).nextSprintId)

-----------------------------------------------------------------------------
(* Writing a gate: persist of persistence.ts, in three tables at once.     *)

(* Mutant: the next plan itself is stored where its sprint's id belongs.   *)
PersistedWithPlan(state, snapshot) ==
    [state |-> [state EXCEPT !.sourceFingerprint = Fingerprint(snapshot)],
     retrospective |-> snapshot.retrospective,
     nextSprintId |-> snapshot.nextPlan]

Persisted(state, snapshot) ==
    [state |-> [state EXCEPT !.sourceFingerprint = Fingerprint(snapshot)],
     retrospective |-> snapshot.retrospective,
     nextSprintId |-> IF snapshot.nextPlan = NoPlan THEN NoSprint ELSE snapshot.nextPlan.id]

Entry(s, state, action, eventId) ==
    [sprintId |-> s, revision |-> state.revision, phase |-> state.phase,
     action |-> action, eventId |-> eventId]

(* The upsert leaves the message pending again, whatever became of the     *)
(* delivery of the previous revision.                                      *)
Message(state, snapshot) ==
    [payload |-> [phase |-> state.phase, revision |-> state.revision,
                  held |-> state.held, closed |-> snapshot.sprint.status = "closed",
                  sourceFingerprint |-> Fingerprint(snapshot)],
     status |-> "pending"]

Persist(s, state, snapshot, action, eventId) ==
    /\ gates' = [gates EXCEPT ![s] = Persisted(state, snapshot)]
    /\ history' = history \cup {Entry(s, state, action, eventId)}
    /\ outbox' = [outbox EXCEPT ![s] = Message(state, snapshot)]

CanRevise(s) == GateOf(s).state.revision < MaxGateRevision[s]

-----------------------------------------------------------------------------
(* view: whoever looks at an open sprint, a person or the tick, lets the   *)
(* judge observe it.                                                       *)
View(s) ==
    /\ Loadable(s)
    /\ IsOpen(sprints[s])
    /\ CanRevise(s)
    /\ \E state \in ObserveOutcomes(GateOf(s).state, CurrentSnapshot(s)) :
        IF state = GateOf(s).state
        THEN /\ gates' = [gates EXCEPT ![s] = GateOf(s)]
             /\ UNCHANGED <<history, outbox>>
        ELSE Persist(s, state, CurrentSnapshot(s), "observe", NoEvent)
    /\ UNCHANGED <<sprints, tasks, events>>

(* Mutant: a sprint may be chosen as its own successor.                    *)
MayFollowItself(s, next) == Loadable(next)

(* The next plan a person may choose. *)
MayFollow(s, next) ==
    /\ next # s
    /\ Loadable(next)
    /\ sprints[next].status = "planning"

(* context: a person records the retrospective and chooses the next plan.  *)
(* The call is refused unless it was formed on the current state and the   *)
(* current evidence.  The view that follows it is a transaction of its own *)
(* and an ordinary View here.                                              *)
ChangeContext(s, retrospective, next) ==
    LET snapshot == SnapshotOf(sprints, s, retrospective, next)
        rows == IF next = NoSprint THEN gates
                ELSE [gates EXCEPT ![next] = GateOf(next)]
    IN
    /\ gates[s] # NoGate
    /\ IsOpen(sprints[s])
    /\ CanRevise(s)
    /\ gates[s].state.sourceFingerprint = Fingerprint(CurrentSnapshot(s))
    /\ next # NoSprint => MayFollow(s, next)
    /\ \E state \in ObserveOutcomes(gates[s].state, snapshot) :
        /\ state # gates[s].state
        /\ gates' = [rows EXCEPT ![s] = Persisted(state, snapshot)]
        /\ history' = history \cup {Entry(s, state, "context", NoEvent)}
        /\ outbox' = [outbox EXCEPT ![s] = Message(state, snapshot)]
    /\ UNCHANGED <<sprints, tasks, events, answers>>

-----------------------------------------------------------------------------
(* decide: a human answer reaches the store.                               *)

(* assertEffect, and the same test again at the head of applyEffect.       *)
EffectAllowed(s, effect, next) ==
    \/ effect = "none"
    \/ /\ NoOtherActive(s)
       /\ effect = "start_next_sprint" =>
            /\ next # NoSprint
            /\ Loadable(next)
            /\ ~GateOf(next).state.held
            /\ GateOf(next).state.phase = "planning"
            /\ sprints[next].status = "planning"

(* The answer passes every check: role, open sprint, the judge, the effect. *)
Stands(a, roleHeld) ==
    LET s == a.sprintId IN
    /\ a.actor \in Leaders => roleHeld
    /\ Loadable(s)
    /\ IsOpen(sprints[s])
    /\ Accepts(GateOf(s).state, CurrentSnapshot(s), a)
    /\ EffectAllowed(s, EffectOf(GateOf(s).state, a), GateOf(s).nextSprintId)

(* Mutant: the recorded outcome is not looked up first.                    *)
NeverAnswered(a) == TRUE

Unanswered(a) == events[a.eventId] = NoOutcome

Record(a, outcome) ==
    events' = [events EXCEPT ![a.eventId] = [outcome |-> outcome, actor |-> a.actor]]

(* An answer that fails a check is recorded as rejected for good. *)
RejectAnswer(a, roleHeld) ==
    /\ Unanswered(a)
    /\ ~Stands(a, roleHeld)
    /\ Record(a, "rejected")
    /\ UNCHANGED <<sprints, tasks, gates, history, outbox>>

(* The table of sprints after the effect. *)
AfterEffect(s, effect, next) ==
    CASE effect = "none"              -> sprints
      [] effect = "start_sprint"      -> Started(sprints, s)
      [] effect = "start_next_sprint" -> StartedNext(sprints, s, next)

CanBump(s) == sprints[s].revision < MaxRowRevision

(* Without a next sprint: the decision and at most the start of this one.  *)
ApplyHere(a, effect) ==
    LET s == a.sprintId
        table == AfterEffect(s, effect, NoSprint)
        state == Decided(gates[s].state, CurrentSnapshot(s), a)
        after == SnapshotOf(table, s, gates[s].retrospective, gates[s].nextSprintId)
    IN
    /\ effect # "start_next_sprint"
    /\ effect = "start_sprint" => CanBump(s)
    /\ sprints' = table
    /\ Persist(s, state, after, a.action, a.eventId)

(* Mutant: the numbering of the revisions starts over with the phase.      *)
RestartedFromZero(next) == InitialSprintPhase("implementation")

(* Mutant: the sprint starts and its gate stays where it was.              *)
RestartedAsPlanned(next) == GateOf(next).state

(* The gate of the next sprint starts over in implementation, keeping its  *)
(* row's revision, retrospective and next plan, and is observed at once.   *)
Restarted(next) ==
    [InitialSprintPhase("implementation") EXCEPT !.revision = GateOf(next).state.revision]

ApplyNext(a, effect) ==
    LET s == a.sprintId
        next == gates[s].nextSprintId
        table == AfterEffect(s, effect, next)
        state == Decided(gates[s].state, CurrentSnapshot(s), a)
        after == SnapshotOf(table, s, gates[s].retrospective, next)
        nextAfter == SnapshotOf(table, next, GateOf(next).retrospective,
                                GateOf(next).nextSprintId)
    IN
    /\ effect = "start_next_sprint"
    /\ CanBump(s) /\ CanBump(next) /\ CanRevise(next)
    /\ sprints' = table
    /\ \E observed \in ObserveOutcomes(Restarted(next), nextAfter) :
        /\ gates' = [gates EXCEPT ![s] = Persisted(state, after),
                                  ![next] = Persisted(observed, nextAfter)]
        /\ history' = history \cup
            {Entry(s, state, a.action, a.eventId),
             Entry(next, observed, "approved_next_start", NoEvent)}
        /\ outbox' = [outbox EXCEPT ![s] = Message(state, after),
                                    ![next] = Message(observed, nextAfter)]

ApplyAnswer(a, roleHeld) ==
    LET effect == EffectOf(gates[a.sprintId].state, a) IN
    /\ Unanswered(a)
    /\ gates[a.sprintId] # NoGate
    /\ Stands(a, roleHeld)
    /\ CanRevise(a.sprintId)
    /\ ApplyHere(a, effect) \/ ApplyNext(a, effect)
    /\ Record(a, "applied")
    /\ UNCHANGED tasks

-----------------------------------------------------------------------------
(* People.                                                                 *)

(* What the phase screen offers for the state it shows. *)
Offered(state) ==
    {"reject"} \cup
    (IF state.held THEN {"resume"} ELSE {"hold"}) \cup
    (IF ~state.held /\ state.phase # "implementation" THEN {"approve"} ELSE {}) \cup
    (IF ~state.held /\ state.phase = "implementation" /\ state.reworkTaskIds # {}
     THEN {"resubmit"} ELSE {})

(* A person looks at the gate and forms an answer about what it shows.     *)
FormAnswer(e, s, actor, action, taskIds) ==
    /\ gates[s] # NoGate
    /\ IsOpen(sprints[s])
    /\ gates[s].state.revision > 0
    /\ action \in Offered(gates[s].state)
    /\ IF action = "reject" /\ gates[s].state.phase # "planning"
       THEN taskIds # {} /\ taskIds \subseteq DOMAIN TasksOf(s)
       ELSE taskIds = {}
    /\ events[e] = NoOutcome
    /\ \A a \in answers : a.eventId # e
    /\ Cardinality({a \in answers : Unanswered(a)}) < MaxUndecided
    /\ answers' = answers \cup
        {[eventId |-> e, sprintId |-> s, actor |-> actor, action |-> action,
          expectedRevision |-> gates[s].state.revision,
          sourceFingerprint |-> gates[s].state.sourceFingerprint,
          taskIds |-> taskIds]}
    /\ UNCHANGED <<sprints, tasks, gates, history, outbox, events>>

(* An operation of the planning API or of the task routes.  The goal guard *)
(* reads the gate's phase.                                                 *)
GatePhase(s) == IF gates[s] = NoGate THEN "none" ELSE gates[s].state.phase

ChangePlan ==
    /\ \/ \E t \in Tasks, x \in Texts : ReviewSpec(t, x)
       \/ \E s \in Sprints, g \in Goals, p \in Plans : CreateSprint(s, g, p)
       \/ \E s \in {x \in Sprints : IsOpen(sprints[x])} :
            LET now == sprints[s].revision IN
            \/ \E g \in Goals \ {sprints[s].goal} : UpdateGoal(s, now, g, GatePhase(s))
            \/ \E d \in Days : ExtendSprint(s, now, d)
            \/ \E p \in Plans : Reschedule(s, now, p)
            \/ \E t \in Tasks : AssignTask(s, now, t) \/ RemoveTask(s, now, t)
    /\ UNCHANGED <<gates, history, outbox, events, answers>>

WorkOnTask ==
    /\ \E t \in Tasks, status \in TaskStatuses, x \in Texts : EditTask(t, status, x)
    /\ UNCHANGED <<gates, history, outbox, events, answers>>

People ==
    \/ ChangePlan
    \/ WorkOnTask
    \/ \E s \in Sprints, r \in Retrospectives, n \in Sprints \cup {NoSprint} :
        ChangeContext(s, r, n)
    \/ \E e \in EventIds, s \in Sprints, who \in Actors, do \in Asked,
          ids \in SUBSET Tasks : FormAnswer(e, s, who, do, ids)

Next ==
    \/ People
    \/ \E s \in Sprints : View(s) /\ UNCHANGED answers
    \/ \E a \in answers, roleHeld \in BOOLEAN :
        \/ RejectAnswer(a, roleHeld) /\ answers' = answers \ {a}
        \/ ApplyAnswer(a, roleHeld) /\ UNCHANGED answers

Spec == Init /\ [][Next]_vars

-----------------------------------------------------------------------------
(* Properties.                                                             *)

(* Every table keeps the types of its columns. *)
TypeOK ==
    /\ PlanningTypeOK
    /\ gates \in [Sprints -> GateRow \cup {NoGate}]
    /\ history \subseteq HistoryEntry
    /\ outbox \in [Sprints -> OutboxRow \cup {NoMessage}]
    /\ events \in [EventIds -> StoredEvent \cup {NoOutcome}]
    /\ answers \subseteq Answer

(* The team never works on two sprints at once, however two approvals and  *)
(* the planning operations interleave.                                     *)
AtMostOneActive == OneActive(sprints)

(* Two sprints the team can still work on never share a day, whatever      *)
(* sequence of creations, extensions, reschedules, starts and closings     *)
(* produced them; only closing frees the days of a sprint.                 *)
PeriodsDisjoint == OpenPeriodsDisjoint(sprints)

(* The phase of a gate and the status of its sprint never part: only a     *)
(* planning sprint is in planning, only a sprint that went through its     *)
(* next planning is closed.                                                *)
PhaseMatchesStatus ==
    \A s \in Sprints : gates[s] # NoGate =>
        /\ sprints[s].status = "planning" => gates[s].state.phase = "planning"
        /\ sprints[s].status = "active" => gates[s].state.phase # "planning"
        /\ sprints[s].status = "closed" => gates[s].state.phase = "next_planning"
        /\ sprints[s] # Absent

(* From acceptance on, the goal of the sprint is the goal in the evidence  *)
(* the people were asked about: no planning call slips a new promise under *)
(* an outcome already being accepted, observed or not.                     *)
AcceptedGoalPinned ==
    \A s \in ActiveSprints(sprints) :
        GatePhase(s) \in {"acceptance", "retrospective", "next_planning"} =>
            gates[s].state.sourceFingerprint.sprint.goal = sprints[s].goal

(* An answer is applied at most once, and exactly at the revision after    *)
(* the one its author saw; a rejected answer leaves no trace in history.   *)
AppliedOnceOnWhatWasSeen ==
    \A e \in EventIds :
        LET entries == {h \in history : h.eventId = e} IN
        IF events[e] # NoOutcome /\ events[e].outcome = "applied"
        THEN \E h \in entries, a \in answers :
                /\ entries = {h}
                /\ a.eventId = e
                /\ h.sprintId = a.sprintId
                /\ h.action = a.action
                /\ h.revision = a.expectedRevision + 1
        ELSE entries = {}

(* History has exactly one entry for each revision a gate has had.         *)
HistoryGapless ==
    \A s \in Sprints :
        LET entries == {h \in history : h.sprintId = s}
            last == IF gates[s] = NoGate THEN 0 ELSE gates[s].state.revision
        IN /\ {h.revision : h \in entries} = 1..last
           /\ \A h, k \in entries : h.revision = k.revision => h = k

(* The one outbox row of a sprint always carries its latest state, and     *)
(* says closed exactly when the sprint is closed.                          *)
OutboxCurrent ==
    \A s \in Sprints :
        IF gates[s] = NoGate \/ gates[s].state.revision = 0
        THEN outbox[s] = NoMessage
        ELSE /\ outbox[s] # NoMessage
             /\ outbox[s].payload =
                [phase |-> gates[s].state.phase, revision |-> gates[s].state.revision,
                 held |-> gates[s].state.held, closed |-> sprints[s].status = "closed",
                 sourceFingerprint |-> gates[s].state.sourceFingerprint]

(* The two records of a gate, for people and for Concordia, agree with it, *)
(* whichever operation wrote it (persistence.ts).                          *)
RecordsComplete == HistoryGapless /\ OutboxCurrent

(* The chosen next plan is another sprint that exists and has a gate row,  *)
(* which the start of the next sprint relies on.                           *)
NextPlanLoadable ==
    \A s \in Sprints : gates[s] # NoGate /\ gates[s].nextSprintId # NoSprint =>
        /\ gates[s].nextSprintId # s
        /\ gates[gates[s].nextSprintId] # NoGate

(* A sprint closes only complete, in the step that starts the next one,    *)
(* and no unfinished task is carried over.                                 *)
ClosesOnlyIntoNext ==
    [][\A s \in Sprints :
        sprints[s].status # "closed" /\ sprints'[s].status = "closed" =>
            /\ \E n \in Sprints :
                sprints[n].status = "planning" /\ sprints'[n].status = "active"
            /\ AllDone(CurrentSnapshot(s))
            /\ UNCHANGED tasks]_vars

(* The outcome recorded for an answer never changes.                       *)
OutcomeStable ==
    [][\A e \in EventIds : events[e] # NoOutcome => events'[e] = events[e]]_vars

(* Tasks a person sent back reach acceptance again only by a person's      *)
(* resubmission, never by an observation of the same done tasks.           *)
ReworkNeedsResubmission ==
    [][\A s \in Sprints :
        /\ gates[s] # NoGate /\ gates'[s] # NoGate
        /\ gates[s].state.reworkTaskIds # {}
        /\ gates'[s].state.phase = "acceptance"
        => \E h \in history' \ history : h.sprintId = s /\ h.action = "resubmit"]_vars
=============================================================================
