------------------------ MODULE PlanningClientsProofs ------------------------
(***************************************************************************)
(* What holds of several people planning the same sprints, and of task     *)
(* requests beside them, for any number of people, sprints and tasks.      *)
(*                                                                         *)
(* Whoever writes a sprint or its membership moves its revision on, so a   *)
(* revision names one row with one set of tasks.  That is what a stale     *)
(* screen is compared with.                                                *)
(***************************************************************************)
EXTENDS PlanningClients, TaskEditing, SprintPlanningProofs

-----------------------------------------------------------------------------
(* What one step does to one sprint.                                       *)

Stays(s) ==
    /\ sprints'[s] = sprints[s]
    /\ MembersOf(tasks', s) = MembersOf(tasks, s)

Appears(s) == sprints[s] = Absent /\ sprints'[s] \in Row /\ Ordered(sprints'[s])

(* The row moves on by one revision; a closed one in nothing else.         *)
MovesOn(s) ==
    /\ sprints[s] \in Row /\ sprints'[s] \in Row
    /\ sprints'[s].revision = sprints[s].revision + 1
    /\ Ordered(sprints[s]) => Ordered(sprints'[s])
    /\ sprints[s].status = "active" => sprints'[s].startsOn = sprints[s].startsOn
    /\ sprints[s].status = "closed" =>
        /\ sprints'[s] = [sprints[s] EXCEPT !.revision = sprints'[s].revision]
        /\ MembersOf(tasks', s) = MembersOf(tasks, s)

EachSprint == \A s \in Sprints : Stays(s) \/ Appears(s) \/ MovesOn(s)

(* A row that is bumped, with its dates still in order, moves on.          *)
LEMMA BumpedMovesOn ==
    ASSUME Tables, NEW s \in Sprints, NEW row \in Row,
           sprints[s] \in Row, sprints[s].status # "closed",
           row.revision = sprints[s].revision,
           Ordered(sprints[s]) => Ordered(row),
           sprints[s].status = "active" => row.startsOn = sprints[s].startsOn,
           sprints' = [sprints EXCEPT ![s] = Bumped(row)]
    PROVE  MovesOn(s) /\ \A o \in Sprints \ {s} : sprints'[o] = sprints[o]
<1>1. sprints'[s] = Bumped(row) /\ \A o \in Sprints \ {s} : sprints'[o] = sprints[o]
  BY DEF Tables, PlanningTypeOK
<1>2. Ordered(Bumped(row)) <=> Ordered(row)
  BY BumpedRow DEF Ordered
<1> QED
  BY <1>1, <1>2, BumpedRow DEF MovesOn

(* A task that is not a member of a sprint before or after a step does not *)
(* change who is.                                                          *)
LEMMA SameMembers ==
    ASSUME Tables, NEW t \in Tasks, NEW x, NEW o \in Sprints,
           tasks' = [tasks EXCEPT ![t].sprint = x], x # o, tasks[t].sprint # o
    PROVE  MembersOf(tasks', o) = MembersOf(tasks, o)
BY DEF MembersOf, Tables, PlanningTypeOK, TaskRow

(* No change of a task's status or text changes who is a member.           *)
LEMMA SameSprints ==
    ASSUME \A t \in Tasks : tasks'[t].sprint = tasks[t].sprint
    PROVE  \A o : MembersOf(tasks', o) = MembersOf(tasks, o)
BY DEF MembersOf

(* A change that a person submits moves its sprint on and no other.        *)
LEMMA ChangeMovesOn ==
    ASSUME Tables, PlanningAssumption, NEW s \in Sprints, NEW n \in Nat,
           \/ \E g \in Goals, phase \in GatePhases : UpdateGoal(s, n, g, phase)
           \/ \E d \in Days : ExtendSprint(s, n, d)
           \/ \E p \in Plans : Reschedule(s, n, p)
           \/ \E t \in Tasks : AssignTask(s, n, t) \/ RemoveTask(s, n, t)
    PROVE  MovesOn(s) /\ \A o \in Sprints \ {s} : Stays(o)
<1>1. IsOpen(sprints[s])
  BY DEF UpdateGoal, ExtendSprint, Reschedule, AssignTask, RemoveTask, MayChange
<1>2. sprints[s] \in Row /\ sprints[s].status # "closed"
  BY <1>1, OpenIsRow DEF Tables, PlanningTypeOK, IsOpen, OpenStatuses
<1>3. ASSUME NEW g \in Goals, NEW phase \in GatePhases, UpdateGoal(s, n, g, phase)
      PROVE  MovesOn(s) /\ \A o \in Sprints \ {s} : Stays(o)
  <2> DEFINE row == [sprints[s] EXCEPT !.goal = g]
  <2>1. sprints' = [sprints EXCEPT ![s] = Bumped(row)] /\ UNCHANGED tasks
    BY <1>3 DEF UpdateGoal
  <2>2. /\ row \in Row /\ row.revision = sprints[s].revision
        /\ row.startsOn = sprints[s].startsOn
        /\ Ordered(sprints[s]) => Ordered(row)
    BY <1>2 DEF Row, Ordered
  <2> HIDE DEF row
  <2> QED
    BY <1>2, <2>1, <2>2, BumpedMovesOn DEF Stays
<1>4. ASSUME NEW d \in Days, ExtendSprint(s, n, d)
      PROVE  MovesOn(s) /\ \A o \in Sprints \ {s} : Stays(o)
  <2> DEFINE row == [sprints[s] EXCEPT !.endsOn = d]
  <2>1. /\ sprints' = [sprints EXCEPT ![s] = Bumped(row)] /\ UNCHANGED tasks
        /\ d > sprints[s].endsOn /\ d <= sprints[s].bufferEndsOn
    BY <1>4 DEF ExtendSprint
  <2>2. /\ row \in Row /\ row.revision = sprints[s].revision
        /\ row.startsOn = sprints[s].startsOn
        /\ row.endsOn = d /\ row.bufferEndsOn = sprints[s].bufferEndsOn
    BY <1>2 DEF Row
  <2>3. /\ sprints[s].startsOn \in Nat /\ sprints[s].endsOn \in Nat
        /\ sprints[s].bufferEndsOn \in Nat /\ d \in Nat
    BY <1>2, PlanningAssumption DEF Row
  <2>4. Ordered(sprints[s]) => Ordered(row)
    BY <2>1, <2>2, <2>3 DEF Ordered
  <2> HIDE DEF row
  <2> QED
    BY <1>2, <2>1, <2>2, <2>4, BumpedMovesOn DEF Stays
<1>5. ASSUME NEW p \in Plans, Reschedule(s, n, p)
      PROVE  MovesOn(s) /\ \A o \in Sprints \ {s} : Stays(o)
  <2> DEFINE row == [sprints[s] EXCEPT !.startsOn = p.startsOn, !.endsOn = p.endsOn,
                                       !.bufferEndsOn = p.bufferEndsOn]
  <2>1. /\ sprints' = [sprints EXCEPT ![s] = Bumped(row)] /\ UNCHANGED tasks
        /\ Ordered(p)
        /\ sprints[s].status = "active" => p.startsOn = sprints[s].startsOn
    BY <1>5 DEF Reschedule, StartKept
  <2>2. /\ row \in Row /\ row.revision = sprints[s].revision
        /\ row.startsOn = p.startsOn /\ row.endsOn = p.endsOn
        /\ row.bufferEndsOn = p.bufferEndsOn
    BY <1>2, PlanningAssumption DEF Row, Dates
  <2>3. Ordered(row)
    BY <2>1, <2>2 DEF Ordered
  <2> HIDE DEF row
  <2> QED
    BY <1>2, <2>1, <2>2, <2>3, BumpedMovesOn DEF Stays
<1>6. ASSUME NEW t \in Tasks, AssignTask(s, n, t) \/ RemoveTask(s, n, t)
      PROVE  MovesOn(s) /\ \A o \in Sprints \ {s} : Stays(o)
  <2>1. sprints' = [sprints EXCEPT ![s] = Bumped(sprints[s])]
    BY <1>6 DEF AssignTask, RemoveTask
  <2>2. PICK x \in {s, NoSprint} :
            tasks[t].sprint \in {s, NoSprint} /\ tasks' = [tasks EXCEPT ![t].sprint = x]
    BY <1>6 DEF AssignTask, RemoveTask
  <2>3. ASSUME NEW o \in Sprints \ {s}
        PROVE  MembersOf(tasks', o) = MembersOf(tasks, o)
    <3>1. o # s /\ o # NoSprint
      BY PlanningAssumption
    <3> QED
      BY <2>2, <3>1, SameMembers
  <2> QED
    BY <1>2, <2>1, <2>3, BumpedMovesOn DEF Stays
<1> QED
  BY <1>3, <1>4, <1>5, <1>6

(* What happens to tasks moves at most the revision of their sprint.       *)
LEMMA TouchMovesOn ==
    ASSUME Tables, TouchTask
    PROVE  EachSprint
<1>1. ASSUME NEW t \in Tasks, NEW x \in Texts, ReviewSpec(t, x)
      PROVE  EachSprint
  <2> DEFINE s == tasks[t].sprint
  <2>1. tasks' = [tasks EXCEPT ![t].text = x]
    BY <1>1 DEF ReviewSpec
  <2>2. \A o : MembersOf(tasks', o) = MembersOf(tasks, o)
    BY <2>1, SameSprints DEF Tables, PlanningTypeOK, TaskRow
  <2>3. CASE s = NoSprint
    BY <1>1, <2>2, <2>3 DEF ReviewSpec, EachSprint, Stays
  <2>4. CASE s # NoSprint
    <3>1. s \in Sprints /\ sprints[s] \in Row
      BY <2>4 DEF Tables, PlanningTypeOK, AttachedToRow, TaskRow
    <3>2. sprints' = [sprints EXCEPT ![s] = Bumped(sprints[s])]
      BY <1>1, <2>4 DEF ReviewSpec
    <3>3. sprints'[s] = Bumped(sprints[s]) /\ \A o \in Sprints \ {s} : sprints'[o] = sprints[o]
      BY <3>1, <3>2 DEF Tables, PlanningTypeOK
    <3>4. Bumped(sprints[s]) = [sprints[s] EXCEPT !.revision = Bumped(sprints[s]).revision]
      BY <3>1 DEF Bumped, Row
    <3>5. Ordered(Bumped(sprints[s])) <=> Ordered(sprints[s])
      BY <3>1, BumpedRow DEF Ordered
    <3> QED
      BY <2>2, <3>1, <3>3, <3>4, <3>5, BumpedRow DEF EachSprint, Stays, MovesOn
  <2> QED
    BY <2>3, <2>4
<1>2. ASSUME NEW t \in Tasks, NEW status \in TaskStatuses, NEW x \in Texts,
             EditTask(t, status, x)
      PROVE  EachSprint
  <2>1. \A u \in Tasks : tasks'[u].sprint = tasks[u].sprint
    BY <1>2 DEF EditTask, Tables, PlanningTypeOK, TaskRow
  <2> QED
    BY <1>2, <2>1, SameSprints DEF EditTask, EachSprint, Stays
<1> QED
  BY <1>1, <1>2 DEF TouchTask

(* An approval moves on the sprints it starts and closes.                  *)
LEMMA ApprovalMovesOn ==
    ASSUME Tables, PlanningAssumption, NEW s \in Sprints, NEW next \in Sprints \cup {NoSprint},
           Approve(s, next)
    PROVE  EachSprint /\ Tables'
<1> DEFINE opened(x) == Bumped([sprints[x] EXCEPT !.status = "active"])
           closed == Bumped([sprints[s] EXCEPT !.status = "closed"])
<1>1. \A o : MembersOf(tasks', o) = MembersOf(tasks, o)
  BY DEF Approve, MembersOf
<1>2. \A o \in Sprints : sprints[o].status \in OpenStatuses => sprints[o] \in Row
  BY DEF Tables, PlanningTypeOK, Absent, OpenStatuses
<1>3. ASSUME NEW o \in Sprints, sprints[o] \in Row, sprints[o].status \in OpenStatuses,
             NEW status \in {"active", "closed"},
             sprints'[o] = Bumped([sprints[o] EXCEPT !.status = status])
      PROVE  MovesOn(o)
  <2> DEFINE row == [sprints[o] EXCEPT !.status = status]
  <2>1. /\ row \in Row /\ row.revision = sprints[o].revision
        /\ row.startsOn = sprints[o].startsOn /\ row.endsOn = sprints[o].endsOn
        /\ row.bufferEndsOn = sprints[o].bufferEndsOn
    BY <1>3 DEF Row, OpenStatuses
  <2> HIDE DEF row
  <2>2. Ordered(Bumped(row)) <=> Ordered(sprints[o])
    BY <2>1, BumpedRow DEF Ordered
  <2> QED
    BY <1>3, <2>1, <2>2, BumpedRow DEF MovesOn, row, OpenStatuses
<1>4. CASE next = NoSprint
  <2>1. sprints[s].status = "planning" /\ sprints' = Started(sprints, s)
    BY <1>4, PlanningAssumption DEF Approve
  <2>2. sprints' = [sprints EXCEPT ![s] = opened(s)]
    BY <2>1 DEF Started
  <2>3. sprints'[s] = opened(s) /\ \A o \in Sprints \ {s} : sprints'[o] = sprints[o]
    BY <2>2 DEF Tables, PlanningTypeOK
  <2>4. MovesOn(s)
    BY <1>2, <1>3, <2>1, <2>3 DEF OpenStatuses
  <2> QED
    BY <1>1, <2>1, <2>3, <2>4, StartedTable
       DEF EachSprint, Stays, Tables, PlanningTypeOK, AttachedToRow, Approve, TaskRow
<1>5. CASE next # NoSprint
  <2>1. /\ next \in Sprints /\ sprints[s].status = "active"
        /\ sprints[next].status = "planning" /\ next # s
        /\ sprints' = StartedNext(sprints, s, next)
    BY <1>5 DEF Approve
  <2>2. Closed(sprints, s) = [sprints EXCEPT ![s] = closed]
    BY DEF Closed
  <2>3. Closed(sprints, s)[next] = sprints[next]
    BY <2>1, <2>2 DEF Tables, PlanningTypeOK
  <2>4. sprints' = [Closed(sprints, s) EXCEPT ![next] = opened(next)]
    BY <2>1, <2>3 DEF StartedNext, Started
  <2>5. /\ sprints'[s] = closed /\ sprints'[next] = opened(next)
        /\ \A o \in Sprints \ {s, next} : sprints'[o] = sprints[o]
        /\ sprints' = [x \in Sprints |-> sprints'[x]]
    BY <2>1, <2>2, <2>4 DEF Tables, PlanningTypeOK
  <2>6. MovesOn(s) /\ MovesOn(next)
    BY <1>2, <1>3, <2>1, <2>5 DEF OpenStatuses
  <2>7. \A o \in Sprints : (sprints[o] # Absent => sprints'[o] # Absent)
                        /\ sprints'[o] \in Row \cup {Absent}
    BY <2>5, <2>6, RowIsPresent DEF MovesOn, Tables, PlanningTypeOK
  <2> QED
    BY <1>1, <2>5, <2>6, <2>7
       DEF EachSprint, Stays, Tables, PlanningTypeOK, AttachedToRow, Approve, TaskRow
<1> QED
  BY <1>4, <1>5

-----------------------------------------------------------------------------
(* Planners with screens.                                                  *)

Screens == [sprint: Sprints, row: Row, members: SUBSET Tasks]

(* A screen shows a row of the past, and no other row has its revision.    *)
ScreensTrue ==
    \A c \in Planners : drafts[c] # NoDraft =>
        LET s == drafts[c].sprint IN
        /\ sprints[s] # Absent
        /\ drafts[c].row.revision <= sprints[s].revision
        /\ drafts[c].row.revision = sprints[s].revision =>
            sprints[s] = drafts[c].row /\ MembersOf(tasks, s) = drafts[c].members

DatesInOrder == \A s \in Sprints : sprints[s] # Absent => Ordered(sprints[s])

ClientsInv ==
    /\ Tables
    /\ drafts \in [Planners -> Screens \cup {NoDraft}]
    /\ ScreensTrue
    /\ DatesInOrder

(* Whatever happens to the sprints, screens that are left alone stay true. *)
LEMMA ScreensStayTrue ==
    ASSUME ClientsInv, EachSprint, Tables', NEW c \in Planners,
           drafts[c] # NoDraft, drafts'[c] = drafts[c]
    PROVE  LET s == drafts'[c].sprint IN
           /\ sprints'[s] # Absent
           /\ drafts'[c].row.revision <= sprints'[s].revision
           /\ drafts'[c].row.revision = sprints'[s].revision =>
                sprints'[s] = drafts'[c].row /\ MembersOf(tasks', s) = drafts'[c].members
<1> DEFINE s == drafts[c].sprint
<1>1. /\ drafts[c] \in Screens /\ s \in Sprints /\ drafts[c].row.revision \in Nat
      /\ sprints[s] # Absent /\ sprints[s] \in Row /\ sprints[s].revision \in Nat
      /\ drafts[c].row.revision <= sprints[s].revision
      /\ drafts[c].row.revision = sprints[s].revision =>
            sprints[s] = drafts[c].row /\ MembersOf(tasks, s) = drafts[c].members
  BY DEF ClientsInv, ScreensTrue, Screens, Row, Tables, PlanningTypeOK
<1>2. CASE Stays(s)
  BY <1>1, <1>2 DEF Stays
<1>3. CASE MovesOn(s)
  <2>1. /\ sprints'[s] # Absent
        /\ sprints'[s].revision = sprints[s].revision + 1
    BY <1>3, RowIsPresent DEF MovesOn
  <2> QED
    BY <1>1, <2>1
<1> QED
  BY <1>1, <1>2, <1>3 DEF EachSprint, Appears

(* Whatever happens to the sprints, their dates stay in order.             *)
LEMMA DatesStayInOrder ==
    ASSUME DatesInOrder, EachSprint
    PROVE  DatesInOrder'
BY RowIsPresent DEF DatesInOrder, EachSprint, Stays, Appears, MovesOn

(* A submission is a call of the planning API that moves one sprint on.    *)
LEMMA SubmitMovesOn ==
    ASSUME ClientsInv, PlanningAssumption, NEW c \in Planners, Submit(c)
    PROVE  /\ Tables' /\ EachSprint
           /\ drafts[c] # NoDraft /\ drafts' = [drafts EXCEPT ![c] = NoDraft]
           /\ sprints[drafts[c].sprint].revision = drafts[c].row.revision
<1> DEFINE s == drafts[c].sprint
           n == drafts[c].row.revision
<1>1. drafts[c] # NoDraft /\ drafts' = [drafts EXCEPT ![c] = NoDraft]
  BY DEF Submit
<1>2. s \in Sprints /\ n \in Nat
  BY <1>1 DEF ClientsInv, Screens, Row
<1>3. \/ \E g \in Goals, phase \in GatePhases : UpdateGoal(s, n, g, phase)
      \/ \E d \in Days : ExtendSprint(s, n, d)
      \/ \E p \in Plans : Reschedule(s, n, p)
      \/ \E t \in Tasks : AssignTask(s, n, t) \/ RemoveTask(s, n, t)
  BY DEF Submit
<1>4. PlanningCall
  BY <1>2, <1>3 DEF PlanningCall
<1>5. sprints[s].revision = n
  BY <1>3 DEF UpdateGoal, ExtendSprint, Reschedule, AssignTask, RemoveTask, MayChange
<1>6. EachSprint
  BY <1>2, <1>3, ChangeMovesOn DEF ClientsInv, EachSprint
<1> QED
  BY <1>1, <1>4, <1>5, <1>6, CallKeepsTables DEF ClientsInv

(* A new sprint appears; nothing else changes.                             *)
LEMMA CreateAppears ==
    ASSUME Tables, PlanningAssumption, Create
    PROVE  Tables' /\ EachSprint
<1>1. PICK s \in Sprints, g \in Goals, p \in Plans : CreateSprint(s, g, p)
  BY DEF Create
<1>2. PlanningCall
  BY <1>1 DEF PlanningCall
<1>3. Tables'
  BY <1>2, CallKeepsTables
<1>4. /\ sprints'[s] = [status |-> "planning", goal |-> g, startsOn |-> p.startsOn,
                        endsOn |-> p.endsOn, bufferEndsOn |-> p.bufferEndsOn, revision |-> 0]
      /\ \A o \in Sprints \ {s} : sprints'[o] = sprints[o]
      /\ sprints[s] = Absent /\ Ordered(p) /\ UNCHANGED tasks
  BY <1>1 DEF CreateSprint, Tables, PlanningTypeOK
<1>5. sprints'[s] \in Row
  BY <1>4, PlanningAssumption DEF Row, Dates, OpenStatuses
<1>6. Ordered(sprints'[s])
  BY <1>4 DEF Ordered
<1> QED
  BY <1>3, <1>4, <1>5, <1>6 DEF EachSprint, Appears, Stays

(* Every step leaves each sprint alone, moves it on, or makes it appear.   *)
LEMMA ClientsMove ==
    ASSUME ClientsInv, PlanningAssumption, ClientsNext
    PROVE  Tables' /\ EachSprint
<1>1. ASSUME NEW c \in Planners, NEW s \in Sprints, Open(c, s)
      PROVE  Tables' /\ EachSprint
  BY <1>1 DEF Open, planningVars, ClientsInv, Tables, PlanningTypeOK, AttachedToRow,
     EachSprint, Stays
<1>2. ASSUME TouchTask PROVE Tables' /\ EachSprint
  <2>1. PlanningCall
    BY <1>2 DEF TouchTask, PlanningCall
  <2> QED
    BY <1>2, <2>1, CallKeepsTables, TouchMovesOn DEF ClientsInv
<1> QED
  BY <1>1, <1>2, SubmitMovesOn, CreateAppears, ApprovalMovesOn DEF ClientsNext, ClientsInv

(* What a planner opens is what is there.                                  *)
LEMMA ClientsNextInv ==
    ASSUME ClientsInv, PlanningAssumption, [ClientsNext]_clientVars
    PROVE  ClientsInv'
<1>1. CASE UNCHANGED clientVars
  BY <1>1 DEF clientVars, ClientsInv, Tables, PlanningTypeOK, AttachedToRow, ScreensTrue,
     DatesInOrder, MembersOf
<1>2. CASE ClientsNext
  <2>1. Tables' /\ EachSprint /\ DatesInOrder'
    BY <1>2, ClientsMove, DatesStayInOrder DEF ClientsInv
  <2>2. ASSUME NEW c \in Planners, NEW s \in Sprints, Open(c, s)
        PROVE  ClientsInv'
    <3> DEFINE screen == [sprint |-> s, row |-> sprints[s], members |-> MembersOf(tasks, s)]
    <3>1. /\ sprints[s] # Absent /\ UNCHANGED <<sprints, tasks>>
          /\ drafts' = [drafts EXCEPT ![c] = screen]
      BY <2>2 DEF Open, planningVars
    <3>2. screen \in Screens /\ sprints[s].revision \in Nat
      BY <3>1 DEF Screens, MembersOf, ClientsInv, Tables, PlanningTypeOK, Row
    <3>3. drafts' \in [Planners -> Screens \cup {NoDraft}]
      BY <3>1, <3>2 DEF ClientsInv
    <3>4. drafts'[c] = screen /\ \A b \in Planners \ {c} : drafts'[b] = drafts[b]
      BY <3>1 DEF ClientsInv
    <3>5. ScreensTrue'
      BY <3>1, <3>2, <3>4 DEF ClientsInv, ScreensTrue, MembersOf
    <3> QED
      BY <2>1, <3>3, <3>5 DEF ClientsInv
  <2>3. ASSUME NEW c \in Planners, drafts' = [drafts EXCEPT ![c] = NoDraft] \/ UNCHANGED drafts
        PROVE  ClientsInv'
    <3>1. drafts' \in [Planners -> Screens \cup {NoDraft}]
      BY <2>3 DEF ClientsInv
    <3>2. \A b \in Planners : drafts'[b] # NoDraft => drafts'[b] = drafts[b]
      BY <2>3 DEF ClientsInv
    <3>3. ScreensTrue'
      BY <2>1, <3>2, ScreensStayTrue DEF ScreensTrue
    <3> QED
      BY <2>1, <3>1, <3>3 DEF ClientsInv
  <2>4. ASSUME UNCHANGED drafts PROVE ClientsInv'
    <3>1. drafts' \in [Planners -> Screens \cup {NoDraft}]
      BY <2>4 DEF ClientsInv
    <3>2. ScreensTrue'
      BY <2>1, <2>4, ScreensStayTrue DEF ScreensTrue
    <3> QED
      BY <2>1, <3>1, <3>2 DEF ClientsInv
  <2> QED
    BY <1>2, <2>2, <2>3, <2>4 DEF ClientsNext, Submit
<1> QED
  BY <1>1, <1>2

(* An installation starts with dates in order and no screens.              *)
LEMMA ClientsStart == ClientsInit => ClientsInv
BY PlanningAssumption DEF ClientsInit, PlanningInit, ClientsInv, Tables, PlanningTypeOK,
   AttachedToRow, ScreensTrue, DatesInOrder

(* The inductive invariant of planning with stale screens: a revision      *)
(* names one row with one set of members.                                  *)
THEOREM ClientsInvariance == ClientsSpec => []ClientsInv
<1>1. ClientsInit => ClientsInv
  BY ClientsStart
<1>2. ClientsInv /\ [ClientsNext]_clientVars => ClientsInv'
  BY ClientsNextInv, PlanningAssumption
<1> QED
  BY <1>1, <1>2, PTL DEF ClientsSpec

(* Nobody overwrites what they have not seen: an accepted change meets the *)
(* very row and members its author had on screen, for any number of        *)
(* planners, imports and approvals in between (SprintStore.change).        *)
THEOREM NobodyOverwrites ==
    ASSUME NoDraft \notin Screens
    PROVE  ClientsSpec => ChangesWhatWasSeen
<1> DEFINE Meets(c) == drafts[c] # NoDraft /\ drafts'[c] = NoDraft =>
                            /\ sprints[drafts[c].sprint] = drafts[c].row
                            /\ MembersOf(tasks, drafts[c].sprint) = drafts[c].members
<1>1. ASSUME ClientsInv, [ClientsNext]_clientVars
      PROVE  \A c \in Planners : Meets(c)
  <2> SUFFICES ASSUME NEW c \in Planners, drafts[c] # NoDraft, drafts'[c] = NoDraft
               PROVE  /\ sprints[drafts[c].sprint] = drafts[c].row
                      /\ MembersOf(tasks, drafts[c].sprint) = drafts[c].members
    OBVIOUS
  <2>1. ASSUME NEW b \in Planners, Submit(b), drafts'[c] # drafts[c] PROVE b = c
    BY <1>1, <2>1, SubmitMovesOn, PlanningAssumption DEF ClientsInv
  <2>2. ASSUME NEW b \in Planners, NEW s \in Sprints, Open(b, s) PROVE drafts'[c] # NoDraft
    <3>1. [sprint |-> s, row |-> sprints[s], members |-> MembersOf(tasks, s)] \in Screens
      BY <1>1, <2>2 DEF Open, Screens, MembersOf, ClientsInv, Tables, PlanningTypeOK
    <3> QED
      BY <1>1, <2>2, <3>1 DEF Open, ClientsInv
  <2>3. Submit(c)
    BY <1>1, <2>1, <2>2 DEF ClientsNext, clientVars
  <2> QED
    BY <1>1, <2>3, SubmitMovesOn, PlanningAssumption DEF ClientsInv, ScreensTrue
<1>2. ClientsInv /\ [ClientsNext]_clientVars => [\A c \in Planners : Meets(c)]_clientVars
  BY <1>1
<1> QED
  BY <1>2, ClientsInvariance, PTL DEF ClientsSpec, ChangesWhatWasSeen

(* A plan is kept: a closed sprint stays closed with its members, dates    *)
(* stay in order, and the start of a sprint under way stays, for any       *)
(* sprints, days and planners (sprint-store.ts).                           *)
THEOREM PlansAreKept == ClientsSpec => PlansKept
<1>1. ASSUME ClientsInv, [ClientsNext]_clientVars
      PROVE  EachSprint /\ DatesInOrder'
  <2>1. CASE UNCHANGED clientVars
    BY <1>1, <2>1 DEF clientVars, EachSprint, Stays, DatesInOrder, ClientsInv
  <2>2. CASE ClientsNext
    BY <1>1, <2>2, ClientsMove, DatesStayInOrder, PlanningAssumption DEF ClientsInv
  <2> QED
    BY <1>1, <2>1, <2>2
<1>2. ClientsInv /\ [ClientsNext]_clientVars =>
        [\A s \in Sprints : sprints[s].status = "closed" =>
            /\ sprints'[s] = [sprints[s] EXCEPT !.revision = sprints'[s].revision]
            /\ MembersOf(tasks', s) = MembersOf(tasks, s)]_clientVars
  <2> SUFFICES ASSUME ClientsInv, [ClientsNext]_clientVars, NEW s \in Sprints,
                      sprints[s].status = "closed"
               PROVE  /\ sprints'[s] = [sprints[s] EXCEPT !.revision = sprints'[s].revision]
                      /\ MembersOf(tasks', s) = MembersOf(tasks, s)
    OBVIOUS
  <2>1. sprints[s] \in Row
    BY DEF ClientsInv, Tables, PlanningTypeOK, Absent
  <2>2. CASE Stays(s)
    BY <2>1, <2>2 DEF Stays, Row
  <2> QED
    BY <1>1, <2>1, <2>2, RowIsPresent DEF EachSprint, Appears, MovesOn
<1>3. ClientsInv /\ [ClientsNext]_clientVars =>
        [\A s \in Sprints : sprints'[s] # Absent =>
            /\ Ordered(sprints'[s])
            /\ sprints[s].status = "active" /\ sprints'[s].status # "planning" =>
                sprints'[s].startsOn = sprints[s].startsOn]_clientVars
  <2> SUFFICES ASSUME ClientsInv, [ClientsNext]_clientVars, NEW s \in Sprints,
                      sprints'[s] # Absent
               PROVE  /\ Ordered(sprints'[s])
                      /\ sprints[s].status = "active" /\ sprints'[s].status # "planning" =>
                            sprints'[s].startsOn = sprints[s].startsOn
    OBVIOUS
  <2>1. Ordered(sprints'[s])
    BY <1>1 DEF DatesInOrder
  <2>2. sprints[s].status = "active" => sprints'[s].startsOn = sprints[s].startsOn
    <3>1. Stays(s) \/ Appears(s) \/ MovesOn(s)
      BY <1>1 DEF EachSprint
    <3>2. CASE Stays(s)
      BY <3>2 DEF Stays
    <3>3. CASE Appears(s)
      BY <3>3 DEF Appears, Absent
    <3>4. CASE MovesOn(s)
      BY <3>4 DEF MovesOn
    <3> QED
      BY <3>1, <3>2, <3>3, <3>4
  <2> QED
    BY <2>1, <2>2
<1>4. ClientsSpec => ClosedForGood
  BY <1>2, ClientsInvariance, PTL DEF ClientsSpec, ClosedForGood
<1>5. ClientsSpec => DatesKept
  BY <1>3, ClientsInvariance, PTL DEF ClientsSpec, DatesKept
<1> QED
  BY <1>4, <1>5 DEF PlansKept

(* What a team may rely on in its plan.                                    *)
PlanApart == OneActive(sprints) /\ OpenPeriodsDisjoint(sprints)

(* An approval starts a sprint only where no other is active.              *)
LEMMA ApprovalKeepsApart ==
    ASSUME Tables, PlanApart, NEW s \in Sprints, NEW next \in Sprints \cup {NoSprint},
           Approve(s, next)
    PROVE  PlanApart'
PROOF
<1>1. /\ sprints \in [Sprints -> Row \cup {Absent}]
      /\ \A o \in Sprints \ {s} : sprints[o].status # "active"
  BY DEF Tables, PlanningTypeOK, Approve, NoOtherActive, ActiveSprints
<1>2. CASE sprints' = Started(sprints, s)
  BY <1>1, <1>2, StartKeeps DEF PlanApart, OneActive, OpenPeriodsDisjoint
<1>3. CASE /\ next # NoSprint /\ sprints[s].status = "active"
           /\ sprints' = StartedNext(sprints, s, next)
  <2>1. next \in Sprints /\ sprints[s] \in Row
    BY <1>1, <1>3 DEF Absent
  <2>2. /\ OneActive(StartedNext(sprints, s, next))
        /\ OpenPeriodsDisjoint(StartedNext(sprints, s, next))
    BY <1>1, <2>1, HandOverKeeps DEF PlanApart
  <2> QED
    BY <1>3, <2>2 DEF PlanApart, OneActive, OpenPeriodsDisjoint
<1> QED
  BY <1>2, <1>3 DEF Approve

(* No planner makes two open sprints share a day, and there is one active  *)
(* sprint at most, although screens are old: the checks of a submission    *)
(* read the other sprints as they are (assertNoOverlap), and an approval   *)
(* looks for another active one when it takes effect (effects.ts).         *)
THEOREM PlansStayApart == ClientsSpec => []PlanApart
<1>1. ClientsInit => PlanApart
  BY PlanningAssumption DEF ClientsInit, PlanningInit, PlanApart
<1>2. ASSUME ClientsInv, PlanApart, PlanningAssumption, [ClientsNext]_clientVars
      PROVE  PlanApart'
  <2>1. CASE sprints' = sprints
    BY <1>2, <2>1 DEF PlanApart, OneActive, OpenPeriodsDisjoint
  <2>2. CASE PlanningCall
    BY <1>2, <2>2, CallKeepsOneActive, CallKeepsDisjoint DEF PlanApart, ClientsInv
  <2>3. ASSUME NEW c \in Planners, Submit(c) PROVE PlanningCall
    <3>1. drafts[c].sprint \in Sprints /\ drafts[c].row.revision \in Nat
      BY <1>2, <2>3 DEF Submit, ClientsInv, Screens, Row
    <3> QED
      BY <2>3, <3>1 DEF Submit, PlanningCall
  <2>4. Create \/ TouchTask => PlanningCall
    BY DEF Create, TouchTask, PlanningCall
  <2>5. (\E c \in Planners, s \in Sprints : Open(c, s)) \/ UNCHANGED clientVars =>
            sprints' = sprints
    BY DEF Open, planningVars, clientVars
  <2> QED
    BY <1>2, <2>1, <2>2, <2>3, <2>4, <2>5, ApprovalKeepsApart DEF ClientsNext, ClientsInv
<1> QED
  BY <1>1, <1>2, ClientsInvariance, PlanningAssumption, PTL DEF ClientsSpec

-----------------------------------------------------------------------------
(* Task requests beside planning.                                          *)

TaskRequests == [task: Tasks, sprint: Sprints \cup {NoSprint}, place: Places,
                 repeatsSprint: BOOLEAN, asks: Asked]

(* What a request asks for was allowed for the task as it was read.        *)
EditsAllowed ==
    \A r \in Editors : edits[r] # NoEdit =>
        PlaceAllowed(edits[r].sprint, edits[r].place, edits[r].asks)

EditInv ==
    /\ tasks \in [Tasks -> TaskRow]
    /\ place \in [Tasks -> Places]
    /\ edits \in [Editors -> TaskRequests \cup {NoEdit}]
    /\ EditsAllowed

(* No step of a request or of planning breaks it.                          *)
LEMMA EditNextInv ==
    ASSUME EditInv, [EditNext]_editVars
    PROVE  EditInv'
<1>1. CASE UNCHANGED editVars
  BY <1>1 DEF editVars, EditInv, EditsAllowed
<1>2. ASSUME NEW r \in Editors, NEW t \in Tasks, NEW repeats \in BOOLEAN, NEW to \in Asked,
             BeginRequest(r, t, repeats, to)
      PROVE  EditInv'
  <2> DEFINE q == [task |-> t, sprint |-> tasks[t].sprint, place |-> place[t],
                   repeatsSprint |-> repeats, asks |-> to]
  <2>1. /\ edits' = [edits EXCEPT ![r] = q] /\ UNCHANGED <<tasks, place>>
        /\ PlaceAllowed(q.sprint, q.place, q.asks)
    BY <1>2 DEF BeginRequest
  <2>2. q \in TaskRequests
    BY DEF TaskRequests, EditInv, TaskRow
  <2> QED
    BY <2>1, <2>2 DEF EditInv, EditsAllowed
<1>3. ASSUME NEW r \in Editors, FinishRequest(r)
      PROVE  EditInv'
  <2> DEFINE q == edits[r]
  <2>1. q \in TaskRequests
    BY <1>3 DEF FinishRequest, EditInv
  <2>2. tasks' \in [Tasks -> TaskRow]
    <3>1. \/ tasks' = tasks
          \/ \E x \in Sprints \cup {NoSprint} :
                tasks' = [tasks EXCEPT ![q.task].sprint = x]
      BY <1>3, <2>1 DEF FinishRequest, TaskRequests
    <3>2. tasks \in [Tasks -> TaskRow]
      BY DEF EditInv
    <3>3. ASSUME NEW t \in Tasks, NEW x \in Sprints \cup {NoSprint}
          PROVE  [tasks[t] EXCEPT !.sprint = x] \in TaskRow
      BY <3>2 DEF TaskRow
    <3>4. ASSUME NEW x \in Sprints \cup {NoSprint}
          PROVE  [tasks EXCEPT ![q.task].sprint = x] \in [Tasks -> TaskRow]
      BY <3>2, <3>3
    <3> QED
      BY <3>1, <3>2, <3>4
  <2>3. place' \in [Tasks -> Places]
    BY <1>3, <2>1 DEF FinishRequest, EditInv, TaskRequests, Asked
  <2>4. edits' = [edits EXCEPT ![r] = NoEdit]
    BY <1>3 DEF FinishRequest
  <2> QED
    BY <2>2, <2>3, <2>4 DEF EditInv, EditsAllowed
<1>4. CASE Plan
  <2>1. PICK t \in Tasks, x \in Sprints \cup {NoSprint} :
            tasks' = [tasks EXCEPT ![t].sprint = x]
    BY <1>4 DEF Plan, AssignTask, RemoveTask
  <2>2. tasks' \in [Tasks -> TaskRow]
    BY <2>1 DEF EditInv, TaskRow
  <2>3. UNCHANGED <<place, edits>>
    BY <1>4 DEF Plan
  <2> QED
    BY <2>2, <2>3 DEF EditInv, EditsAllowed
<1> QED
  BY <1>1, <1>2, <1>3, <1>4 DEF EditNext

(* A request that nothing overtook leaves the membership of its task and   *)
(* the place of an attached task alone, for any number of requests beside  *)
(* planning (routes.ts); what one that was overtaken does is in the run    *)
(* MCTaskEditingMembership.                                                *)
THEOREM UnracedIsHarmless ==
    ASSUME NoEdit \notin TaskRequests
    PROVE  EditSpec => UnracedRequestKeepsMembership
<1>1. EditInit => EditInv
  BY PlanningAssumption DEF EditInit, PlanningInit, EditInv, EditsAllowed, Places
<1>2. EditInv /\ [EditNext]_editVars => EditInv'
  BY EditNextInv
<1>3. ASSUME EditInv, [EditNext]_editVars, NEW r \in Editors, Finishing(r),
             tasks[edits[r].task].sprint = edits[r].sprint,
             place[edits[r].task] = edits[r].place
      PROVE  /\ tasks' = tasks
             /\ \A t \in Tasks : tasks[t].sprint # NoSprint => place'[t] = place[t]
  <2> DEFINE q == edits[r]
             t == q.task
  <2>1. q \in TaskRequests /\ q # NoEdit /\ t \in Tasks
    BY <1>3 DEF Finishing, EditInv, TaskRequests
  <2>2. FinishRequest(r)
    <3>1. ~UNCHANGED editVars
      BY <1>3 DEF Finishing, editVars
    <3>2. ASSUME NEW p \in Editors, NEW u \in Tasks, NEW repeats \in BOOLEAN, NEW to \in Asked,
                 BeginRequest(p, u, repeats, to)
          PROVE  FALSE
      <4>1. [task |-> u, sprint |-> tasks[u].sprint, place |-> place[u],
             repeatsSprint |-> repeats, asks |-> to] \in TaskRequests
        BY <1>3 DEF EditInv, TaskRow, TaskRequests
      <4> QED
        BY <1>3, <3>2, <4>1 DEF BeginRequest, Finishing, EditInv
    <3>3. ASSUME NEW p \in Editors, FinishRequest(p) PROVE p = r
      BY <1>3, <3>3 DEF FinishRequest, Finishing, EditInv
    <3>4. ~Plan
      BY <1>3 DEF Plan, Finishing
    <3> QED
      BY <1>3, <3>1, <3>2, <3>3, <3>4 DEF EditNext
  <2>3. CASE place[t] = "deleted"
    BY <2>2, <2>3 DEF FinishRequest
  <2>4. CASE place[t] # "deleted"
    <3>1. PlaceAllowed(q.sprint, q.place, q.asks)
      BY <1>3, <2>1 DEF EditInv, EditsAllowed
    <3>2. tasks[t].sprint # NoSprint => q.asks \in {place[t], "unsaid"}
      BY <1>3, <3>1 DEF PlaceAllowed
    <3>3. /\ tasks' = CASE q.asks = "deleted" -> [tasks EXCEPT ![t].sprint = NoSprint]
                        [] q.asks # "deleted" /\ q.repeatsSprint ->
                                [tasks EXCEPT ![t].sprint = q.sprint]
                        [] OTHER -> tasks
          /\ place' = IF q.asks = "unsaid" THEN place ELSE [place EXCEPT ![t] = q.asks]
      BY <2>2, <2>4 DEF FinishRequest
    <3>4. q.asks = "deleted" => tasks[t].sprint = NoSprint
      BY <2>4, <3>2
    <3>5. [tasks EXCEPT ![t].sprint = tasks[t].sprint] = tasks
      BY <1>3, <2>1 DEF EditInv, TaskRow
    <3>6. tasks' = tasks
      BY <1>3, <3>3, <3>4, <3>5
    <3> QED
      BY <1>3, <2>1, <3>2, <3>3, <3>6 DEF EditInv
  <2> QED
    BY <2>3, <2>4
<1>4. EditInv /\ [EditNext]_editVars =>
        [\A r \in Editors :
            /\ Finishing(r)
            /\ tasks[edits[r].task].sprint = edits[r].sprint
            /\ place[edits[r].task] = edits[r].place
            =>
            /\ tasks' = tasks
            /\ \A t \in Tasks : tasks[t].sprint # NoSprint => place'[t] = place[t]]_editVars
  BY <1>3
<1> QED
  BY <1>1, <1>2, <1>4, PTL DEF EditSpec, UnracedRequestKeepsMembership
=============================================================================
