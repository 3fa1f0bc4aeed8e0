------------------------ MODULE SprintPlanningProofs ------------------------
(***************************************************************************)
(* What every operation on the planning tables preserves, whoever calls    *)
(* it: lemmas about the actions of SprintPlanning, cited by the proofs     *)
(* about the modules that are built from them.                             *)
(***************************************************************************)
EXTENDS SprintPlanning, TLAPS

(* The planning tables are well formed, and attached tasks belong to       *)
(* sprints that exist.                                                     *)
Tables ==
    /\ PlanningTypeOK
    /\ AttachedToRow

(* A call by a person or an import, whatever revision they hold and        *)
(* whatever phase the goal guard finds.                                    *)
PlanningCall ==
    \/ \E s \in Sprints, g \in Goals, p \in Plans : CreateSprint(s, g, p)
    \/ \E s \in Sprints, n \in Nat :
        \/ \E g \in Goals : \E phase : UpdateGoal(s, n, g, phase)
        \/ \E d \in Days : ExtendSprint(s, n, d)
        \/ \E p \in Plans : Reschedule(s, n, p)
        \/ \E t \in Tasks : AssignTask(s, n, t) \/ RemoveTask(s, n, t)
    \/ \E t \in Tasks, x \in Texts : ReviewSpec(t, x)
    \/ \E t \in Tasks, status \in TaskStatuses, x \in Texts : EditTask(t, status, x)

-----------------------------------------------------------------------------
(* An open sprint is a row, never the absence of one.                      *)
LEMMA OpenIsRow ==
    ASSUME NEW x \in Row \cup {Absent}, IsOpen(x)
    PROVE  x \in Row
BY DEF IsOpen, OpenStatuses, Absent

(* Nor is a row the absence of one.                                        *)
LEMMA RowIsPresent ==
    ASSUME NEW x \in Row
    PROVE  x # Absent
BY DEF Row, Absent, OpenStatuses

(* Moving the revision on keeps a row a row, with its other columns.       *)
LEMMA BumpedRow ==
    ASSUME NEW x \in Row
    PROVE  /\ Bumped(x) \in Row
           /\ Bumped(x).status = x.status
           /\ Bumped(x).goal = x.goal
           /\ Bumped(x).startsOn = x.startsOn
           /\ Bumped(x).endsOn = x.endsOn
           /\ Bumped(x).bufferEndsOn = x.bufferEndsOn
           /\ Bumped(x).revision = x.revision + 1
BY DEF Row, Bumped

(* What the call writes: one sprint's row, which stays a row, and at most  *)
(* the membership or the content of one task.                              *)
LEMMA CallKeepsTables ==
    ASSUME Tables, PlanningCall, PlanningAssumption
    PROVE  Tables'
PROOF
<1> USE DEF Tables, PlanningTypeOK, AttachedToRow, PlanningAssumption
<1>1. CASE \E s \in Sprints, g \in Goals, p \in Plans : CreateSprint(s, g, p)
  <2>1. PICK s \in Sprints, g \in Goals, p \in Plans : CreateSprint(s, g, p)
    BY <1>1
  <2>2. p \in Dates
    OBVIOUS
  <2>3. sprints'[s] \in Row
    BY <2>1, <2>2 DEF CreateSprint, Row, Dates, OpenStatuses
  <2> QED
    BY <2>1, <2>3, RowIsPresent DEF CreateSprint
<1>2. CASE \E s \in Sprints, n \in Nat :
        \/ \E g \in Goals : \E phase : UpdateGoal(s, n, g, phase)
        \/ \E d \in Days : ExtendSprint(s, n, d)
        \/ \E p \in Plans : Reschedule(s, n, p)
        \/ \E t \in Tasks : AssignTask(s, n, t) \/ RemoveTask(s, n, t)
  <2>1. PICK s \in Sprints, n \in Nat :
        \/ \E g \in Goals : \E phase : UpdateGoal(s, n, g, phase)
        \/ \E d \in Days : ExtendSprint(s, n, d)
        \/ \E p \in Plans : Reschedule(s, n, p)
        \/ \E t \in Tasks : AssignTask(s, n, t) \/ RemoveTask(s, n, t)
    BY <1>2
  <2>2. sprints[s] \in Row
    BY <2>1, OpenIsRow
       DEF UpdateGoal, ExtendSprint, Reschedule, AssignTask, RemoveTask, MayChange
  <2>3. CASE \E g \in Goals : \E phase : UpdateGoal(s, n, g, phase)
    <3>1. PICK g \in Goals : \E phase : UpdateGoal(s, n, g, phase)
      BY <2>3
    <3>2. [sprints[s] EXCEPT !.goal = g] \in Row
      BY <2>2 DEF Row
    <3>3. /\ sprints' = [sprints EXCEPT ![s] = Bumped([sprints[s] EXCEPT !.goal = g])]
          /\ UNCHANGED tasks
      BY <3>1 DEF UpdateGoal
    <3> QED
      BY <3>2, <3>3, BumpedRow, RowIsPresent
  <2>4. CASE \E d \in Days : ExtendSprint(s, n, d)
    <3>1. PICK d \in Days : ExtendSprint(s, n, d)
      BY <2>4
    <3>2. [sprints[s] EXCEPT !.endsOn = d] \in Row
      BY <2>2 DEF Row
    <3>3. /\ sprints' = [sprints EXCEPT ![s] = Bumped([sprints[s] EXCEPT !.endsOn = d])]
          /\ UNCHANGED tasks
      BY <3>1 DEF ExtendSprint
    <3> QED
      BY <3>2, <3>3, BumpedRow, RowIsPresent
  <2>5. CASE \E p \in Plans : Reschedule(s, n, p)
    <3>1. PICK p \in Plans : Reschedule(s, n, p)
      BY <2>5
    <3> DEFINE row == [sprints[s] EXCEPT !.startsOn = p.startsOn, !.endsOn = p.endsOn,
                                         !.bufferEndsOn = p.bufferEndsOn]
    <3>2. row \in Row
      BY <2>2 DEF Row, Dates
    <3>3. /\ sprints' = [sprints EXCEPT ![s] = Bumped(row)]
          /\ UNCHANGED tasks
      BY <3>1 DEF Reschedule
    <3> HIDE DEF row
    <3> QED
      BY <3>2, <3>3, BumpedRow, RowIsPresent
  <2>6. CASE \E t \in Tasks : AssignTask(s, n, t) \/ RemoveTask(s, n, t)
    <3>1. PICK t \in Tasks, x \in {s, NoSprint} :
            /\ sprints' = [sprints EXCEPT ![s] = Bumped(@)]
            /\ tasks' = [tasks EXCEPT ![t].sprint = x]
      BY <2>6 DEF AssignTask, RemoveTask
    <3>2. [tasks[t] EXCEPT !.sprint = x] \in TaskRow
      BY DEF TaskRow
    <3>3. tasks' \in [Tasks -> TaskRow]
      BY <3>1, <3>2
    <3>4. sprints' \in [Sprints -> Row \cup {Absent}] /\ sprints'[s] \in Row
      BY <2>2, <3>1, BumpedRow
    <3>5. \A u \in Tasks : tasks'[u].sprint \in {tasks[u].sprint, x}
      BY <3>1 DEF TaskRow
    <3>6. \A r \in Sprints : sprints[r] # Absent => sprints'[r] # Absent
      BY <3>1, <3>4, RowIsPresent
    <3>7. s # NoSprint /\ sprints'[s] # Absent
      BY <3>4, RowIsPresent
    <3>8. ASSUME NEW u \in Tasks, tasks'[u].sprint # NoSprint
          PROVE  sprints'[tasks'[u].sprint] # Absent
      BY <3>5, <3>6, <3>7, <3>8 DEF TaskRow
    <3> QED
      BY <3>3, <3>4, <3>8
  <2> QED
    BY <2>1, <2>3, <2>4, <2>5, <2>6
<1>3. CASE \E t \in Tasks, x \in Texts : ReviewSpec(t, x)
  <2>1. PICK t \in Tasks, x \in Texts : ReviewSpec(t, x)
    BY <1>3
  <2>2. /\ tasks' \in [Tasks -> TaskRow]
        /\ \A u \in Tasks : tasks'[u].sprint = tasks[u].sprint
    BY <2>1 DEF ReviewSpec, TaskRow
  <2>3. CASE tasks[t].sprint = NoSprint
    BY <2>1, <2>2, <2>3 DEF ReviewSpec
  <2>4. CASE tasks[t].sprint # NoSprint
    <3>1. tasks[t].sprint \in Sprints /\ sprints[tasks[t].sprint] \in Row
      BY <2>4 DEF TaskRow
    <3>2. sprints' = [sprints EXCEPT ![tasks[t].sprint] = Bumped(@)]
      BY <2>1, <2>4 DEF ReviewSpec
    <3> QED
      BY <2>2, <3>1, <3>2, BumpedRow, RowIsPresent
  <2> QED
    BY <2>3, <2>4
<1>4. CASE \E t \in Tasks, status \in TaskStatuses, x \in Texts : EditTask(t, status, x)
  <2>1. PICK t \in Tasks, status \in TaskStatuses, x \in Texts : EditTask(t, status, x)
    BY <1>4
  <2>2. /\ tasks' \in [Tasks -> TaskRow]
        /\ \A u \in Tasks : tasks'[u].sprint = tasks[u].sprint
    BY <2>1 DEF EditTask, TaskRow
  <2> QED
    BY <2>1, <2>2 DEF EditTask
<1> QED
  BY <1>1, <1>2, <1>3, <1>4 DEF PlanningCall

(* Except for a new sprint, which is in planning, a call leaves every      *)
(* status alone; and the days it gives a sprint were free.                 *)
RowAllowed(s, row) ==
    /\ sprints' = [sprints EXCEPT ![s] = row]
    /\ row \in Row
    /\ \/ row.status = "planning" /\ sprints[s] = Absent
       \/ row.status = sprints[s].status /\ sprints[s] \in Row
    /\ \/ NoOverlap(s, row.startsOn, row.endsOn)
       \/ /\ sprints[s] \in Row
          /\ row.startsOn = sprints[s].startsOn
          /\ row.endsOn = sprints[s].endsOn

(* A call of the planning API writes at most one row, an allowed one.      *)
LEMMA CallWritesOneRow ==
    ASSUME Tables, PlanningCall, PlanningAssumption
    PROVE  \/ sprints' = sprints
           \/ \E s \in Sprints, row \in Row : RowAllowed(s, row)
PROOF
<1> USE DEF Tables, PlanningTypeOK, AttachedToRow, PlanningAssumption
<1>1. ASSUME NEW s \in Sprints, NEW g \in Goals, NEW p \in Plans, CreateSprint(s, g, p)
      PROVE  \E r \in Sprints, row \in Row : RowAllowed(r, row)
  <2> DEFINE row == [status |-> "planning", goal |-> g, startsOn |-> p.startsOn,
                     endsOn |-> p.endsOn, bufferEndsOn |-> p.bufferEndsOn, revision |-> 0]
  <2>1. row \in Row /\ row.status = "planning"
        /\ row.startsOn = p.startsOn /\ row.endsOn = p.endsOn
    BY DEF Row, Dates, OpenStatuses
  <2>2. /\ sprints' = [sprints EXCEPT ![s] = row]
        /\ sprints[s] = Absent
        /\ NoOverlap(s, p.startsOn, p.endsOn)
    BY <1>1 DEF CreateSprint
  <2> HIDE DEF row
  <2>3. RowAllowed(s, row)
    BY <2>1, <2>2 DEF RowAllowed
  <2> QED
    BY <2>1, <2>3
<1>2. ASSUME NEW s \in Sprints, NEW n \in Nat, NEW g \in Goals, NEW phase,
             UpdateGoal(s, n, g, phase)
      PROVE  \E r \in Sprints, row \in Row : RowAllowed(r, row)
  <2>1. sprints[s] \in Row
    BY <1>2, OpenIsRow DEF UpdateGoal, MayChange
  <2> DEFINE old == [sprints[s] EXCEPT !.goal = g]
  <2>2. old \in Row /\ old.status = sprints[s].status
        /\ old.startsOn = sprints[s].startsOn /\ old.endsOn = sprints[s].endsOn
    BY <2>1 DEF Row
  <2>3. sprints' = [sprints EXCEPT ![s] = Bumped(old)]
    BY <1>2 DEF UpdateGoal
  <2> HIDE DEF old
  <2>4. Bumped(old) \in Row /\ RowAllowed(s, Bumped(old))
    BY <2>1, <2>2, <2>3, BumpedRow DEF RowAllowed
  <2> QED
    BY <2>4
<1>3. ASSUME NEW s \in Sprints, NEW n \in Nat, NEW d \in Days, ExtendSprint(s, n, d)
      PROVE  \E r \in Sprints, row \in Row : RowAllowed(r, row)
  <2>1. sprints[s] \in Row
    BY <1>3, OpenIsRow DEF ExtendSprint, MayChange
  <2> DEFINE old == [sprints[s] EXCEPT !.endsOn = d]
  <2>2. old \in Row /\ old.status = sprints[s].status
        /\ old.startsOn = sprints[s].startsOn /\ old.endsOn = d
    BY <2>1 DEF Row
  <2>3. /\ sprints' = [sprints EXCEPT ![s] = Bumped(old)]
        /\ NoOverlap(s, sprints[s].startsOn, d)
    BY <1>3 DEF ExtendSprint
  <2> HIDE DEF old
  <2>4. Bumped(old) \in Row /\ RowAllowed(s, Bumped(old))
    BY <2>1, <2>2, <2>3, BumpedRow DEF RowAllowed
  <2> QED
    BY <2>4
<1>4. ASSUME NEW s \in Sprints, NEW n \in Nat, NEW p \in Plans, Reschedule(s, n, p)
      PROVE  \E r \in Sprints, row \in Row : RowAllowed(r, row)
  <2>1. sprints[s] \in Row
    BY <1>4, OpenIsRow DEF Reschedule, MayChange
  <2> DEFINE old == [sprints[s] EXCEPT !.startsOn = p.startsOn, !.endsOn = p.endsOn,
                                       !.bufferEndsOn = p.bufferEndsOn]
  <2>2. old \in Row /\ old.status = sprints[s].status
        /\ old.startsOn = p.startsOn /\ old.endsOn = p.endsOn
    BY <2>1 DEF Row, Dates
  <2>3. /\ sprints' = [sprints EXCEPT ![s] = Bumped(old)]
        /\ NoOverlap(s, p.startsOn, p.endsOn)
    BY <1>4 DEF Reschedule
  <2> HIDE DEF old
  <2>4. Bumped(old) \in Row /\ RowAllowed(s, Bumped(old))
    BY <2>1, <2>2, <2>3, BumpedRow DEF RowAllowed
  <2> QED
    BY <2>4
<1>5. ASSUME NEW s \in Sprints, sprints[s] \in Row,
             sprints' = [sprints EXCEPT ![s] = Bumped(@)]
      PROVE  \E r \in Sprints, row \in Row : RowAllowed(r, row)
  <2>1. Bumped(sprints[s]) \in Row /\ RowAllowed(s, Bumped(sprints[s]))
    BY <1>5, BumpedRow DEF RowAllowed
  <2> QED
    BY <2>1
<1>6. ASSUME NEW s \in Sprints, NEW n \in Nat, NEW t \in Tasks,
             AssignTask(s, n, t) \/ RemoveTask(s, n, t)
      PROVE  \E r \in Sprints, row \in Row : RowAllowed(r, row)
  <2>1. sprints[s] \in Row
    BY <1>6, OpenIsRow DEF AssignTask, RemoveTask, MayChange
  <2> QED
    BY <1>5, <1>6, <2>1 DEF AssignTask, RemoveTask
<1>7. ASSUME NEW t \in Tasks, NEW x \in Texts, ReviewSpec(t, x), sprints' # sprints
      PROVE  \E r \in Sprints, row \in Row : RowAllowed(r, row)
  <2>1. tasks[t].sprint \in Sprints /\ sprints[tasks[t].sprint] \in Row
    BY <1>7 DEF ReviewSpec, TaskRow
  <2>2. sprints' = [sprints EXCEPT ![tasks[t].sprint] = Bumped(@)]
    BY <1>7 DEF ReviewSpec
  <2> QED
    BY <1>5, <2>1, <2>2
<1>8. ASSUME NEW t \in Tasks, NEW status \in TaskStatuses, NEW x \in Texts,
             EditTask(t, status, x)
      PROVE  sprints' = sprints
  BY <1>8 DEF EditTask
<1> QED
  BY <1>1, <1>2, <1>3, <1>4, <1>6, <1>7, <1>8 DEF PlanningCall

(* No call activates a sprint. *)
LEMMA CallKeepsOneActive ==
    ASSUME Tables, PlanningCall, PlanningAssumption, OneActive(sprints)
    PROVE  OneActive(sprints')
PROOF
<1>1. CASE sprints' = sprints
  BY <1>1
<1>2. CASE \E s \in Sprints, row \in Row : RowAllowed(s, row)
  BY <1>2 DEF RowAllowed, OneActive, Tables, PlanningTypeOK
<1> QED
  BY <1>1, <1>2, CallWritesOneRow

(* A call other than updateGoal, whatever revision its caller holds.        *)
OtherCall ==
    \/ \E s \in Sprints, g \in Goals, p \in Plans : CreateSprint(s, g, p)
    \/ \E s \in Sprints, n \in Nat :
        \/ \E d \in Days : ExtendSprint(s, n, d)
        \/ \E p \in Plans : Reschedule(s, n, p)
        \/ \E t \in Tasks : AssignTask(s, n, t) \/ RemoveTask(s, n, t)
    \/ \E t \in Tasks, x \in Texts : ReviewSpec(t, x)
    \/ \E t \in Tasks, status \in TaskStatuses, x \in Texts : EditTask(t, status, x)

(* No other call touches the goal of a sprint that exists.                 *)
LEMMA OtherCallKeepsGoals ==
    ASSUME Tables, OtherCall, PlanningAssumption, NEW o \in Sprints, sprints[o] # Absent
    PROVE  sprints'[o].goal = sprints[o].goal
PROOF
<1> USE DEF Tables, PlanningTypeOK
<1>1. ASSUME NEW s \in Sprints, NEW row, row \in Row, row.goal = sprints[s].goal,
             sprints' = [sprints EXCEPT ![s] = Bumped(row)]
      PROVE  sprints'[o].goal = sprints[o].goal
  BY <1>1, BumpedRow
<1>2. ASSUME NEW s \in Sprints, NEW g \in Goals, NEW p \in Plans, CreateSprint(s, g, p)
      PROVE  sprints'[o].goal = sprints[o].goal
  BY <1>2 DEF CreateSprint
<1>3. ASSUME NEW s \in Sprints, NEW n \in Nat, NEW d \in Days, ExtendSprint(s, n, d)
      PROVE  sprints'[o].goal = sprints[o].goal
  <2> DEFINE row == [sprints[s] EXCEPT !.endsOn = d]
  <2>1. sprints[s] \in Row
    BY <1>3, OpenIsRow DEF ExtendSprint, MayChange
  <2>2. row \in Row /\ row.goal = sprints[s].goal
    BY <2>1 DEF Row
  <2>3. sprints' = [sprints EXCEPT ![s] = Bumped(row)]
    BY <1>3 DEF ExtendSprint
  <2> HIDE DEF row
  <2> QED
    BY <1>1, <2>2, <2>3
<1>4. ASSUME NEW s \in Sprints, NEW n \in Nat, NEW p \in Plans, Reschedule(s, n, p)
      PROVE  sprints'[o].goal = sprints[o].goal
  <2> DEFINE row == [sprints[s] EXCEPT !.startsOn = p.startsOn, !.endsOn = p.endsOn,
                                       !.bufferEndsOn = p.bufferEndsOn]
  <2>1. sprints[s] \in Row
    BY <1>4, OpenIsRow DEF Reschedule, MayChange
  <2>2. row \in Row /\ row.goal = sprints[s].goal
    BY <2>1 DEF Row, Dates, PlanningAssumption
  <2>3. sprints' = [sprints EXCEPT ![s] = Bumped(row)]
    BY <1>4 DEF Reschedule
  <2> HIDE DEF row
  <2> QED
    BY <1>1, <2>2, <2>3
<1>5. ASSUME NEW s \in Sprints, sprints[s] \in Row,
             sprints' = [sprints EXCEPT ![s] = Bumped(@)]
      PROVE  sprints'[o].goal = sprints[o].goal
  BY <1>5, BumpedRow
<1>6. ASSUME NEW s \in Sprints, NEW n \in Nat, NEW t \in Tasks,
             AssignTask(s, n, t) \/ RemoveTask(s, n, t)
      PROVE  sprints'[o].goal = sprints[o].goal
  <2>1. sprints[s] \in Row
    BY <1>6, OpenIsRow DEF AssignTask, RemoveTask, MayChange
  <2> QED
    BY <1>5, <1>6, <2>1 DEF AssignTask, RemoveTask
<1>7. ASSUME NEW t \in Tasks, NEW x \in Texts, ReviewSpec(t, x)
      PROVE  sprints'[o].goal = sprints[o].goal
  <2>1. CASE sprints' = sprints
    BY <2>1
  <2>2. CASE sprints' # sprints
    <3>1. tasks[t].sprint \in Sprints /\ sprints[tasks[t].sprint] \in Row
      BY <1>7, <2>2 DEF ReviewSpec, TaskRow, AttachedToRow
    <3>2. sprints' = [sprints EXCEPT ![tasks[t].sprint] = Bumped(@)]
      BY <1>7, <2>2 DEF ReviewSpec
    <3> QED
      BY <1>5, <3>1, <3>2
  <2> QED
    BY <2>1, <2>2
<1>8. ASSUME NEW t \in Tasks, NEW status \in TaskStatuses, NEW x \in Texts,
             EditTask(t, status, x)
      PROVE  sprints'[o].goal = sprints[o].goal
  BY <1>8 DEF EditTask
<1> QED
  BY <1>2, <1>3, <1>4, <1>5, <1>6, <1>7, <1>8 DEF OtherCall

(* updateGoal touches the goal of the sprint it names, where its guard     *)
(* lets it, and of no other.                                               *)
LEMMA GoalChangesWhereEditable ==
    ASSUME Tables, NEW s \in Sprints, NEW n \in Nat, NEW g \in Goals, NEW phase,
           UpdateGoal(s, n, g, phase)
    PROVE  /\ GoalEditable(sprints[s].status, phase)
           /\ \A o \in Sprints \ {s} : sprints'[o] = sprints[o]
BY DEF UpdateGoal, Tables, PlanningTypeOK

(* No call changes the status of a sprint that exists.                     *)
LEMMA CallKeepsStatus ==
    ASSUME Tables, PlanningCall, PlanningAssumption, NEW s \in Sprints,
           sprints[s] # Absent
    PROVE  sprints'[s] # Absent /\ sprints'[s].status = sprints[s].status
PROOF
<1>1. CASE sprints' = sprints
  BY <1>1
<1>2. CASE \E o \in Sprints, row \in Row : RowAllowed(o, row)
  BY <1>2, RowIsPresent DEF RowAllowed, Tables, PlanningTypeOK
<1> QED
  BY <1>1, <1>2, CallWritesOneRow

(* Two periods overlap or do not, in whatever order they are compared.     *)
LEMMA OverlapsSymmetric ==
    ASSUME NEW a \in Row, NEW b \in Row, Days \subseteq Nat, Overlaps(a, b)
    PROVE  Overlaps(b, a)
BY DEF Overlaps, Row

(* No call makes two open periods overlap. *)
LEMMA CallKeepsDisjoint ==
    ASSUME Tables, PlanningCall, PlanningAssumption, OpenPeriodsDisjoint(sprints)
    PROVE  OpenPeriodsDisjoint(sprints')
PROOF
<1>1. CASE sprints' = sprints
  BY <1>1
<1>2. CASE \E s \in Sprints, row \in Row : RowAllowed(s, row)
  <2>1. PICK s \in Sprints, row \in Row : RowAllowed(s, row)
    BY <1>2
  <2>2. /\ sprints' = [sprints EXCEPT ![s] = row]
        /\ sprints \in [Sprints -> Row \cup {Absent}]
    BY <2>1 DEF RowAllowed, Tables, PlanningTypeOK
  <2>3. ASSUME NEW o \in Sprints, o # s, IsOpen(sprints[o]), IsOpen(row)
        PROVE  ~Overlaps(sprints[o], row)
    <3>1. CASE NoOverlap(s, row.startsOn, row.endsOn)
      BY <2>3, <3>1 DEF NoOverlap, Overlaps
    <3>2. CASE /\ sprints[s] \in Row
               /\ row.startsOn = sprints[s].startsOn
               /\ row.endsOn = sprints[s].endsOn
      <4>1. sprints[s] # Absent
        BY <3>2, RowIsPresent
      <4>2. row.status = sprints[s].status
        BY <2>1, <4>1 DEF RowAllowed
      <4>3. IsOpen(sprints[s])
        BY <2>3, <4>2 DEF IsOpen
      <4> QED
        BY <2>3, <3>2, <4>3 DEF OpenPeriodsDisjoint, Overlaps
    <3> QED
      BY <2>1, <3>1, <3>2 DEF RowAllowed
  <2>4. ASSUME NEW o \in Sprints, o # s, IsOpen(sprints[o]), IsOpen(row)
        PROVE  ~Overlaps(row, sprints[o])
    BY <2>2, <2>3, <2>4, OverlapsSymmetric, OpenIsRow DEF PlanningAssumption
  <2> QED
    BY <2>2, <2>3, <2>4 DEF OpenPeriodsDisjoint
<1> QED
  BY <1>1, <1>2, CallWritesOneRow

-----------------------------------------------------------------------------
(* What starting and closing do to the table: some rows get another        *)
(* status and the next revision, nothing else.                             *)
LEMMA StartedTable ==
    ASSUME NEW table \in [Sprints -> Row \cup {Absent}], NEW s \in Sprints
    PROVE  /\ Started(table, s) \in [Sprints -> Row \cup {Absent}]
           /\ \A o \in Sprints :
                /\ o # s => Started(table, s)[o] = table[o]
                /\ Started(table, s)[o] = Absent <=> table[o] = Absent
                /\ table[o] # Absent =>
                    /\ Started(table, s)[o].goal = table[o].goal
                    /\ Started(table, s)[o].startsOn = table[o].startsOn
                    /\ Started(table, s)[o].endsOn = table[o].endsOn
                    /\ Started(table, s)[o].bufferEndsOn = table[o].bufferEndsOn
           /\ Started(table, s)[s].status =
                IF table[s].status = "planning" THEN "active" ELSE table[s].status
PROOF
<1>1. CASE table[s].status = "planning"
  <2>1. table[s] \in Row
    BY <1>1 DEF Absent
  <2> DEFINE row == [table[s] EXCEPT !.status = "active"]
  <2>2. /\ row \in Row /\ row.status = "active" /\ row.goal = table[s].goal
        /\ row.startsOn = table[s].startsOn /\ row.endsOn = table[s].endsOn
        /\ row.bufferEndsOn = table[s].bufferEndsOn
    BY <2>1 DEF Row, OpenStatuses
  <2>3. Started(table, s) = [table EXCEPT ![s] = Bumped(row)]
    BY <1>1 DEF Started
  <2> HIDE DEF row
  <2> QED
    BY <1>1, <2>1, <2>2, <2>3, BumpedRow, RowIsPresent
<1>2. CASE table[s].status # "planning"
  BY <1>2 DEF Started
<1> QED
  BY <1>1, <1>2

(* The table after the close: one row gets the status closed, no day moves. *)
LEMMA ClosedTable ==
    ASSUME NEW table \in [Sprints -> Row \cup {Absent}], NEW s \in Sprints,
           table[s] \in Row
    PROVE  /\ Closed(table, s) \in [Sprints -> Row \cup {Absent}]
           /\ \A o \in Sprints :
                /\ o # s => Closed(table, s)[o] = table[o]
                /\ Closed(table, s)[o] = Absent <=> table[o] = Absent
                /\ table[o] # Absent => Closed(table, s)[o].goal = table[o].goal
           /\ Closed(table, s)[s].status = "closed"
PROOF
<1> DEFINE row == [table[s] EXCEPT !.status = "closed"]
<1>1. row \in Row /\ row.status = "closed" /\ row.goal = table[s].goal
  BY DEF Row, OpenStatuses
<1>2. Closed(table, s) = [table EXCEPT ![s] = Bumped(row)]
  BY DEF Closed
<1> HIDE DEF row
<1> QED
  BY <1>1, <1>2, BumpedRow, RowIsPresent

(* Starting a sprint keeps one active and the periods apart.               *)
LEMMA StartKeeps ==
    ASSUME NEW table \in [Sprints -> Row \cup {Absent}], NEW s \in Sprints,
           \A o \in Sprints \ {s} : table[o].status # "active",
           OpenPeriodsDisjoint(table)
    PROVE  OneActive(Started(table, s)) /\ OpenPeriodsDisjoint(Started(table, s))
PROOF
<1>1. OneActive(Started(table, s))
  BY StartedTable DEF OneActive
<1>2. ASSUME NEW o \in Sprints, IsOpen(Started(table, s)[o])
      PROVE  /\ IsOpen(table[o])
             /\ Started(table, s)[o].startsOn = table[o].startsOn
             /\ Started(table, s)[o].endsOn = table[o].endsOn
  <2>1. IsOpen(table[o])
    BY <1>2, StartedTable DEF IsOpen, OpenStatuses
  <2>2. table[o] # Absent
    BY <2>1 DEF IsOpen, OpenStatuses, Absent
  <2> QED
    BY <2>1, <2>2, StartedTable
<1>3. OpenPeriodsDisjoint(Started(table, s))
  BY <1>2 DEF OpenPeriodsDisjoint, Overlaps
<1> QED
  BY <1>1, <1>3

(* Closing one keeps the periods apart, and leaves none active but others. *)
LEMMA CloseKeeps ==
    ASSUME NEW table \in [Sprints -> Row \cup {Absent}], NEW s \in Sprints,
           table[s] \in Row, OpenPeriodsDisjoint(table)
    PROVE  OpenPeriodsDisjoint(Closed(table, s))
PROOF
<1>1. \A o \in Sprints : IsOpen(Closed(table, s)[o]) => Closed(table, s)[o] = table[o]
  BY ClosedTable DEF IsOpen, OpenStatuses
<1> QED
  BY <1>1 DEF OpenPeriodsDisjoint

(* The hand-over from s to n: both together.                               *)
LEMMA HandOverKeeps ==
    ASSUME NEW table \in [Sprints -> Row \cup {Absent}],
           NEW s \in Sprints, NEW n \in Sprints, table[s] \in Row,
           \A o \in Sprints \ {s} : table[o].status # "active",
           OpenPeriodsDisjoint(table)
    PROVE  /\ OneActive(StartedNext(table, s, n))
           /\ OpenPeriodsDisjoint(StartedNext(table, s, n))
PROOF
<1> DEFINE half == Closed(table, s)
<1>1. /\ half \in [Sprints -> Row \cup {Absent}]
      /\ \A o \in Sprints : half[o].status # "active"
      /\ OpenPeriodsDisjoint(half)
  BY ClosedTable, CloseKeeps
<1>2. StartedNext(table, s, n) = Started(half, n)
  BY DEF StartedNext
<1> HIDE DEF half
<1> QED
  BY <1>1, <1>2, StartKeeps
=============================================================================
