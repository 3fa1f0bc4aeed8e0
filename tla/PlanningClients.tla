--------------------------- MODULE PlanningClients ---------------------------
(***************************************************************************)
(* Several people planning the same sprints.  Each reads a sprint, takes   *)
(* their time, and submits a change with the revision they read; the       *)
(* server compares it with the row (SprintStore.change).  In between the   *)
(* others submit theirs, specifications are imported over attached tasks,  *)
(* and leaders start and close sprints at the gate.                        *)
(*                                                                         *)
(* The gate itself is left open here: an approval may come at any time,    *)
(* and the goal guard may find the gate in any phase (SprintGates has the  *)
(* gate in full).                                                          *)
(***************************************************************************)
EXTENDS SprintPlanning

CONSTANTS
    Planners,           \* people, or their browser tabs
    NoDraft             \* a planner who has nothing open

VARIABLE drafts         \* what each planner has on screen

clientVars == <<sprints, tasks, drafts>>

GatePhases == {"none", "planning", "implementation", "acceptance", "retrospective",
               "next_planning"}

MembersOf(table, s) == {t \in Tasks : table[t].sprint = s}

ClientsInit ==
    /\ PlanningInit
    /\ drafts = [c \in Planners |-> NoDraft]

(* A planner opens a sprint: its row and the tasks attached to it. *)
Open(c, s) ==
    /\ sprints[s] # Absent
    /\ drafts' = [drafts EXCEPT ![c] =
            [sprint |-> s, row |-> sprints[s], members |-> MembersOf(tasks, s)]]
    /\ UNCHANGED planningVars

(* A planner submits one change to the sprint on screen.  A refused        *)
(* submission changes nothing, so only the accepted ones are steps.        *)
Submit(c) ==
    LET s == drafts[c].sprint
        seen == drafts[c].row.revision
    IN
    /\ drafts[c] # NoDraft
    /\ \/ \E g \in Goals, phase \in GatePhases : UpdateGoal(s, seen, g, phase)
       \/ \E d \in Days : ExtendSprint(s, seen, d)
       \/ \E p \in Plans : Reschedule(s, seen, p)
       \/ \E t \in Tasks : AssignTask(s, seen, t) \/ RemoveTask(s, seen, t)
    /\ drafts' = [drafts EXCEPT ![c] = NoDraft]

Create == \E s \in Sprints, g \in Goals, p \in Plans : CreateSprint(s, g, p)

(* The tasks go their own way. *)
TouchTask ==
    \E t \in Tasks, x \in Texts :
        ReviewSpec(t, x) \/ \E status \in TaskStatuses : EditTask(t, status, x)

(* An approval at the gate starts a sprint, or closes one into the next. *)
Approve(s, next) ==
    /\ NoOtherActive(s)
    /\ \/ /\ next = NoSprint
          /\ sprints[s].status = "planning"
          /\ sprints[s].revision < MaxRowRevision
          /\ sprints' = Started(sprints, s)
       \/ /\ next # NoSprint
          /\ sprints[s].status = "active"
          /\ sprints[next].status = "planning"
          /\ \A t \in MembersOf(tasks, s) : tasks[t].status = "done"
          /\ sprints[s].revision < MaxRowRevision
          /\ sprints[next].revision < MaxRowRevision
          /\ sprints' = StartedNext(sprints, s, next)
    /\ UNCHANGED tasks

ClientsNext ==
    \/ \E c \in Planners : Submit(c) \/ \E s \in Sprints : Open(c, s)
    \/ /\ \/ Create
          \/ TouchTask
          \/ \E s \in Sprints, next \in Sprints \cup {NoSprint} : Approve(s, next)
       /\ UNCHANGED drafts

ClientsSpec == ClientsInit /\ [][ClientsNext]_clientVars

-----------------------------------------------------------------------------
(* Properties.                                                             *)

(* An accepted change hits exactly what its author was looking at: the     *)
(* same goal, dates and status, and the same attached tasks.  Nobody       *)
(* overwrites a change they have not seen, whoever made it.                *)
ChangesWhatWasSeen ==
    [][\A c \in Planners :
        drafts[c] # NoDraft /\ drafts'[c] = NoDraft =>
            /\ sprints[drafts[c].sprint] = drafts[c].row
            /\ MembersOf(tasks, drafts[c].sprint) = drafts[c].members]_clientVars

(* Nothing brings a closed sprint back or rewrites it: an import over one  *)
(* of its tasks moves its revision on and nothing else, and no call        *)
(* attaches a task to it or takes one out.                                 *)
ClosedForGood ==
    [][\A s \in Sprints : sprints[s].status = "closed" =>
        /\ sprints'[s] = [sprints[s] EXCEPT !.revision = sprints'[s].revision]
        /\ MembersOf(tasks', s) = MembersOf(tasks, s)]_clientVars

(* The days of a sprint under way are not moved from under the people      *)
(* working on it, and every deadline stays inside its buffer.              *)
DatesKept ==
    [][\A s \in Sprints : sprints'[s] # Absent =>
        /\ Ordered(sprints'[s])
        /\ sprints[s].status = "active" /\ sprints'[s].status # "planning" =>
            sprints'[s].startsOn = sprints[s].startsOn]_clientVars

(* Both, for whoever reads a plan (sprint-store.ts).                       *)
PlansKept == ClosedForGood /\ DatesKept
=============================================================================
