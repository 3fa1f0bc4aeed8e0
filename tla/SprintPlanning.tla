--------------------------- MODULE SprintPlanning ---------------------------
(***************************************************************************)
(* The sprints of one team and the tasks attached to them: what            *)
(* SprintStore (modules/task/planning/sprint-store.ts) and its PostgreSQL  *)
(* twin write, what the ordinary task routes write to the same rows, and   *)
(* the two effects by which an approval at the phase gate starts and       *)
(* closes sprints.                                                         *)
(*                                                                         *)
(* Every operation of the store is one transaction, serialized per team    *)
(* (SQLite's single writer, an advisory lock on PostgreSQL), hence one     *)
(* action.  A refused call throws and writes nothing: it is no step.       *)
(***************************************************************************)
EXTENDS Naturals, FiniteSets

CONSTANTS
    Sprints,            \* identifiers a sprint may be created with
    Tasks,              \* the team's tasks on the backlog lane
    Goals,              \* goal texts
    TaskStatuses,       \* values of tasks.status
    Texts,              \* the rest of a task's content
    Days,               \* calendar days
    Plans,              \* the dates a person may submit
    NoSprint,           \* the null sprint_id
    StartRows,          \* the sprint tables an installation may start from
    StartTasks,         \* the task tables it may start from
    MaxRowRevision      \* bound on sprints.revision

VARIABLES
    sprints,            \* table sprints
    tasks               \* table tasks: membership, status and content

planningVars == <<sprints, tasks>>

Dates == [startsOn: Days, endsOn: Days, bufferEndsOn: Days]

OpenStatuses == {"planning", "active"}

Row == [status: OpenStatuses \cup {"closed"}, goal: Goals, startsOn: Days,
        endsOn: Days, bufferEndsOn: Days, revision: Nat]

Absent == [status |-> "absent"]     \* no row with this id yet

TaskRow == [sprint: Sprints \cup {NoSprint}, status: TaskStatuses, text: Texts]

(* calendarDate and the refinement of newSprint: start, deadline, buffer.  *)
Ordered(p) == p.startsOn <= p.endsOn /\ p.endsOn <= p.bufferEndsOn

Overlaps(a, b) == a.startsOn <= b.endsOn /\ a.endsOn >= b.startsOn

IsOpen(row) == row.status \in OpenStatuses

(* Two sprints the team can still work on never share a day.               *)
OpenPeriodsDisjoint(table) ==
    \A s, o \in Sprints :
        s # o /\ IsOpen(table[s]) /\ IsOpen(table[o]) => ~Overlaps(table[s], table[o])

ActiveSprints(table) == {s \in Sprints : table[s].status = "active"}

(* At most one sprint is active; stated without Cardinality for the proofs. *)
OneActive(table) ==
    \A s, o \in Sprints :
        table[s].status = "active" /\ table[o].status = "active" => s = o

ASSUME PlanningAssumption ==
    /\ Days \subseteq Nat
    /\ Plans \subseteq Dates
    /\ NoSprint \notin Sprints
    /\ MaxRowRevision \in Nat
    /\ StartTasks \subseteq [Tasks -> TaskRow]
    /\ StartRows \subseteq [Sprints -> Row \cup {Absent}]
    /\ \A table \in StartRows :
        /\ OneActive(table)
        /\ OpenPeriodsDisjoint(table)
        /\ \A s \in Sprints : table[s] # Absent => Ordered(table[s])

PlanningTypeOK ==
    /\ sprints \in [Sprints -> Row \cup {Absent}]
    /\ tasks \in [Tasks -> TaskRow]

(* A task is attached to a sprint that exists. *)
AttachedToRow ==
    \A t \in Tasks : tasks[t].sprint # NoSprint => sprints[tasks[t].sprint] # Absent

PlanningInit ==
    /\ sprints \in StartRows
    /\ tasks \in StartTasks
    /\ AttachedToRow

-----------------------------------------------------------------------------
(* Mutant: only the active sprint is looked at.                            *)
NoOverlapWithActive(s, startsOn, endsOn) ==
    \A o \in ActiveSprints(sprints) \ {s} :
        ~Overlaps(sprints[o], [startsOn |-> startsOn, endsOn |-> endsOn])

(* assertNoOverlap: no other open sprint of the team touches the period.   *)
NoOverlap(s, startsOn, endsOn) ==
    \A o \in Sprints \ {s} :
        IsOpen(sprints[o]) =>
            ~Overlaps(sprints[o], [startsOn |-> startsOn, endsOn |-> endsOn])

(* SprintStore.create *)
CreateSprint(s, goal, plan) ==
    /\ sprints[s] = Absent
    /\ Ordered(plan)
    /\ NoOverlap(s, plan.startsOn, plan.endsOn)
    /\ sprints' = [sprints EXCEPT ![s] =
            [status |-> "planning", goal |-> goal, startsOn |-> plan.startsOn,
             endsOn |-> plan.endsOn, bufferEndsOn |-> plan.bufferEndsOn, revision |-> 0]]
    /\ UNCHANGED tasks

(* Mutant: the revision the caller read is not compared.                   *)
MayChangeUnseen(s, revision) ==
    /\ IsOpen(sprints[s])
    /\ sprints[s].revision < MaxRowRevision

(* Mutant: a closed sprint takes changes.                                  *)
MayChangeClosed(s, revision) ==
    /\ sprints[s] # Absent
    /\ sprints[s].revision = revision
    /\ revision < MaxRowRevision

(* The head of SprintStore.change: the caller holds the current revision   *)
(* and the sprint is not closed.                                           *)
MayChange(s, revision) ==
    /\ IsOpen(sprints[s])
    /\ sprints[s].revision = revision
    /\ revision < MaxRowRevision

(* The tail of SprintStore.change: whatever was written, the revision of   *)
(* the row moves on.                                                       *)
Bumped(row) == [row EXCEPT !.revision = @ + 1]

(* Mutant: the phase of the gate is not consulted.                         *)
GoalEditableWhileOpen(status, phase) == status \in OpenStatuses

(* assertGoalEditable, given the phase of the gate ("none" without a row). *)
GoalEditable(status, phase) ==
    \/ status = "planning"
    \/ status = "active" /\ phase \in {"none", "implementation"}

UpdateGoal(s, revision, goal, phase) ==
    /\ MayChange(s, revision)
    /\ GoalEditable(sprints[s].status, phase)
    /\ sprints' = [sprints EXCEPT ![s] = Bumped([@ EXCEPT !.goal = goal])]
    /\ UNCHANGED tasks

ExtendSprint(s, revision, endsOn) ==
    /\ MayChange(s, revision)
    /\ endsOn > sprints[s].endsOn
    /\ endsOn <= sprints[s].bufferEndsOn
    /\ NoOverlap(s, sprints[s].startsOn, endsOn)
    /\ sprints' = [sprints EXCEPT ![s] = Bumped([@ EXCEPT !.endsOn = endsOn])]
    /\ UNCHANGED tasks

(* Mutant: any sprint may be given another start.                          *)
AnyStart(s, plan) == TRUE

(* The start of a sprint under way stays. *)
StartKept(s, plan) == sprints[s].status = "active" => plan.startsOn = sprints[s].startsOn

Reschedule(s, revision, plan) ==
    /\ MayChange(s, revision)
    /\ Ordered(plan)
    /\ StartKept(s, plan)
    /\ NoOverlap(s, plan.startsOn, plan.endsOn)
    /\ sprints' = [sprints EXCEPT ![s] =
            Bumped([@ EXCEPT !.startsOn = plan.startsOn, !.endsOn = plan.endsOn,
                             !.bufferEndsOn = plan.bufferEndsOn])]
    /\ UNCHANGED tasks

(* SprintStore.assign with the actions "assign" and "remove". *)
AssignTask(s, revision, t) ==
    /\ MayChange(s, revision)
    /\ tasks[t].sprint = NoSprint
    /\ tasks[t].status \notin {"done", "cancelled"}
    /\ tasks' = [tasks EXCEPT ![t].sprint = s]
    /\ sprints' = [sprints EXCEPT ![s] = Bumped(@)]

RemoveTask(s, revision, t) ==
    /\ MayChange(s, revision)
    /\ tasks[t].sprint = s
    /\ tasks' = [tasks EXCEPT ![t].sprint = NoSprint]
    /\ sprints' = [sprints EXCEPT ![s] = Bumped(@)]

(* PUT /api/tasks/:id with content or status: any value, at any time, and  *)
(* without touching the sprint's revision.                                 *)
EditTask(t, status, text) ==
    /\ <<status, text>> # <<tasks[t].status, tasks[t].text>>
    /\ tasks' = [tasks EXCEPT ![t].status = status, ![t].text = text]
    /\ UNCHANGED sprints

(* SpecImportStore.import over a registered task: new content, and the     *)
(* sprint the task is attached to, open or closed, moves its revision on.  *)
ReviewSpec(t, text) ==
    LET s == tasks[t].sprint IN
    /\ tasks[t].status \notin {"done", "cancelled"}
    /\ text # tasks[t].text
    /\ tasks' = [tasks EXCEPT ![t].text = text]
    /\ IF s = NoSprint
       THEN UNCHANGED sprints
       ELSE /\ sprints[s].revision < MaxRowRevision
            /\ sprints' = [sprints EXCEPT ![s] = Bumped(@)]

-----------------------------------------------------------------------------
(* The effects of an approval on the table of sprints (applyEffect).       *)

(* Mutant: the other sprints are not looked at.                            *)
AnyMayBeActive(s) == TRUE

(* No sprint but s is active.                                              *)
NoOtherActive(s) == ActiveSprints(sprints) \subseteq {s}

(* start_sprint: the sprint under approval becomes active, if it is still  *)
(* in planning (the WHERE clause of the update).                           *)
Started(table, s) ==
    IF table[s].status = "planning"
    THEN [table EXCEPT ![s] = Bumped([@ EXCEPT !.status = "active"])]
    ELSE table

Closed(table, s) == [table EXCEPT ![s] = Bumped([@ EXCEPT !.status = "closed"])]

(* Mutant: the current sprint closes, and the next one is left as it was.  *)
ClosedOnly(table, s, next) == Closed(table, s)

(* start_next_sprint: the current sprint closes and the next one starts in *)
(* the same transaction.                                                   *)
StartedNext(table, s, next) == Started(Closed(table, s), next)
=============================================================================
