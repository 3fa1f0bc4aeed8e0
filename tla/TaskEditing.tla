----------------------------- MODULE TaskEditing -----------------------------
(***************************************************************************)
(* The ordinary task routes, PUT (or PATCH) and DELETE /api/tasks/:id of   *)
(* modules/task/routes.ts, beside the planning API.                        *)
(*                                                                         *)
(* A request reads the task once, checks the fields of its body against    *)
(* what it read, waits for other calls (membership, project, input mode),  *)
(* and then writes the fields of the body by the id of the task alone.     *)
(* Nothing locks the task from the read to the write, so planning calls    *)
(* and other requests run in between.  Only what concerns the membership   *)
(* in a sprint is kept: the team and the lane of a task are one place.     *)
(***************************************************************************)
EXTENDS SprintPlanning

CONSTANTS
    Editors,            \* people whose requests may be under way at once
    NoEdit              \* no request

VARIABLES
    place,              \* where a task is: the team's backlog, elsewhere or deleted
    edits               \* the request of each, what it read and what its body asks

editVars == <<sprints, tasks, place, edits>>

Places == {"backlog", "elsewhere", "deleted"}

(* The body may name a place, the same or another, or leave it unsaid;     *)
(* DELETE asks for the place "deleted".                                    *)
Asked == Places \cup {"unsaid"}

EditInit ==
    /\ PlanningInit
    /\ place = [t \in Tasks |-> "backlog"]
    /\ edits = [r \in Editors |-> NoEdit]

(* Mutant: team and lane are not looked at for an attached task.           *)
AnyPlaceAllowed(sprint, from, to) == TRUE

(* "Remove the task from its sprint before changing team or lane",         *)
(* "... before deleting it", from the task as it was read.                 *)
PlaceAllowed(sprint, from, to) == sprint # NoSprint => to \in {from, "unsaid"}

(* The read and the checks.  The body may carry sprint_id, which must      *)
(* repeat the one that was read.                                           *)
BeginRequest(r, t, repeats, to) ==
    /\ edits[r] = NoEdit
    /\ place[t] # "deleted"
    /\ PlaceAllowed(tasks[t].sprint, place[t], to)
    /\ edits' = [edits EXCEPT ![r] =
            [task |-> t, sprint |-> tasks[t].sprint, place |-> place[t],
             repeatsSprint |-> repeats, asks |-> to]]
    /\ UNCHANGED <<sprints, tasks, place>>

(* The write: taskRepo.update with the fields of the body, or deleteById.  *)
FinishRequest(r) ==
    LET q == edits[r]
        t == q.task
    IN
    /\ q # NoEdit
    /\ edits' = [edits EXCEPT ![r] = NoEdit]
    /\ IF place[t] = "deleted"
       THEN UNCHANGED <<tasks, place>>
       ELSE /\ tasks' = CASE q.asks = "deleted" -> [tasks EXCEPT ![t].sprint = NoSprint]
                          [] q.asks # "deleted" /\ q.repeatsSprint ->
                                [tasks EXCEPT ![t].sprint = q.sprint]
                          [] OTHER -> tasks
            /\ place' = IF q.asks = "unsaid" THEN place ELSE [place EXCEPT ![t] = q.asks]
    /\ UNCHANGED sprints

(* The planning API looks at the place of the task as well (assign).       *)
Plan ==
    /\ \E s \in {x \in Sprints : IsOpen(sprints[x])}, t \in Tasks :
        /\ place[t] = "backlog"
        /\ \/ AssignTask(s, sprints[s].revision, t)
           \/ RemoveTask(s, sprints[s].revision, t)
    /\ UNCHANGED <<place, edits>>

EditNext ==
    \/ \E r \in Editors, t \in Tasks, repeats \in BOOLEAN, to \in Asked :
        BeginRequest(r, t, repeats, to)
    \/ \E r \in Editors : FinishRequest(r)
    \/ Plan

EditSpec == EditInit /\ [][EditNext]_editVars

-----------------------------------------------------------------------------
(* Properties.                                                             *)

Finishing(r) == edits[r] # NoEdit /\ edits'[r] = NoEdit

(* A request that nothing overtook is harmless: it leaves the              *)
(* membership of the task as it is, and an attached task where it is.      *)
UnracedRequestKeepsMembership ==
    [][\A r \in Editors :
        /\ Finishing(r)
        /\ tasks[edits[r].task].sprint = edits[r].sprint
        /\ place[edits[r].task] = edits[r].place
        =>
        /\ tasks' = tasks
        /\ \A t \in Tasks : tasks[t].sprint # NoSprint => place'[t] = place[t]]_editVars

(* What the routes say: "Change sprint membership through the sprint       *)
(* planning API".  Finishing a task request never attaches or detaches.    *)
MembershipOnlyThroughPlanning ==
    [][(\E r \in Editors : Finishing(r)) =>
        \A t \in Tasks : tasks'[t].sprint = tasks[t].sprint]_editVars
=============================================================================
