----------------------------- MODULE ProjectSync -----------------------------
(***************************************************************************)
(* Projects of Concordia and the tasks that name them                      *)
(* (modules/task/team/cc-project-{sync,plan,apply}.ts): codes are renamed, *)
(* projects get and lose teams, and a tick of ten minutes follows.         *)
(*                                                                         *)
(* Concordia is EXTERNAL.  One process syncs, one tick at a time.  Task    *)
(* requests check the project they name against the copy and write later;  *)
(* an attached task always has a team, so sprints are left out.  Names and *)
(* local projects, which the sync does not touch, are left out as well.    *)
(***************************************************************************)
EXTENDS Naturals, FiniteSets

CONSTANTS
    Codes, Teams, Tasks,
    Requests,           \* task requests under way at once
    None,
    MaxChanges,         \* bound on the changes in Concordia
    MaxWrites,          \* bound on task requests
    MaxFaults           \* bound on failed ticks

VARIABLES
    registry,           \* project_codes of Concordia
    refs,               \* project_refs
    tasks,
    sync,               \* the tick under way
    requests,
    changes, writes, faults,
    owed                \* history: what the last tick found to be followed

projectVars == <<registry, refs, tasks, sync, requests, changes, writes, faults, owed>>

Registered == {c \in Codes : registry[c] # None}

Resting == [at |-> "done", projects |-> [c \in Codes |-> None], todo |-> {}, picked |-> {},
            bindings |-> {}]

ProjectInit ==
    /\ registry \in [Codes -> {None, [teams |-> {}, renamedFrom |-> {}]}]
    /\ Registered # {}
    /\ refs = [c \in Codes |-> None]
    /\ tasks \in [Tasks -> [project : Codes \cup {None}, team : {None}]]
    /\ sync = Resting
    /\ requests = [r \in Requests |-> None]
    /\ changes = 0 /\ writes = 0 /\ faults = 0
    /\ owed = [t \in Tasks |-> None]

-----------------------------------------------------------------------------
(* Concordia.                                                              *)

Change ==
    /\ changes < MaxChanges
    /\ changes' = changes + 1
    /\ UNCHANGED <<refs, tasks, sync, requests, writes, faults, owed>>

AssignTeams(c, teams) ==
    /\ c \in Registered /\ teams # registry[c].teams
    /\ registry' = [registry EXCEPT ![c].teams = teams]
    /\ Change

(* The new code names every older one.                                     *)
RenameCode(old, new) ==
    /\ old \in Registered /\ new \notin Registered
    /\ registry' = [registry EXCEPT ![old] = None, ![new] =
            [registry[old] EXCEPT !.renamedFrom = (@ \cup {old}) \ {new}]]
    /\ Change

(* A code given up by a rename may serve another project.                  *)
Register(c) ==
    /\ c \notin Registered
    /\ registry' = [registry EXCEPT ![c] = [teams |-> {}, renamedFrom |-> {}]]
    /\ Change

Unregister(c) ==
    /\ c \in Registered
    /\ registry' = [registry EXCEPT ![c] = None]
    /\ Change

-----------------------------------------------------------------------------
(* cc-project-plan.ts.                                                     *)

Listed(projects) == {c \in Codes : projects[c] # None}

OldCodes(projects) ==
    (UNION {projects[c].renamedFrom : c \in Listed(projects)}) \ Listed(projects)

(* Of two projects that name an old code, the first one listed takes it.   *)
Renames(projects) ==
    {f \in [OldCodes(projects) -> Listed(projects)] :
        \A old \in DOMAIN f : old \in projects[f[old]].renamedFrom}

TeamsBefore(c) == IF refs[c] = None THEN {} ELSE refs[c].teams

Bindings(projects) ==
    {b \in [code : Listed(projects), team : Teams] :
        /\ projects[b.code].teams = {b.team}
        /\ TeamsBefore(b.code) # {b.team}}

-----------------------------------------------------------------------------
(* cc-project-apply.ts.                                                    *)

(* What this tick should do to a task nobody touches meanwhile.            *)
Owing(t, renames, bindings) ==
    LET old == tasks[t].project
        code == IF old \in DOMAIN renames THEN renames[old] ELSE old
    IN  [code |-> code,
         teams |-> IF tasks[t].team = None THEN {b.team : b \in {x \in bindings : x.code = code}}
                   ELSE {}]

Fetch ==
    /\ sync.at \in {"done", "failed"}
    /\ \E renames \in Renames(registry) :
        /\ sync' = [at |-> "rename", projects |-> registry, picked |-> {},
                    todo |-> {[from |-> old, to |-> renames[old]] : old \in DOMAIN renames},
                    bindings |-> Bindings(registry)]
        /\ owed' = [t \in Tasks |-> Owing(t, renames, Bindings(registry))]
    /\ UNCHANGED <<registry, refs, tasks, requests, changes, writes, faults>>

(* Mutant: the copy is updated before the tasks.                           *)
CopyFirst(phase) ==
    CASE phase = "rename" -> "record" [] phase = "record" -> "bind" [] phase = "bind" -> "remove"

(* The copy is updated last: a tick that fails finds the same difference   *)
(* again.                                                                  *)
Following(phase) ==
    CASE phase = "rename" -> "bind" [] phase = "bind" -> "record" [] phase = "record" -> "remove"

Work(phase) ==
    CASE phase = "bind" -> sync.bindings
      [] phase = "record" -> Listed(sync.projects)
      [] phase = "remove" -> {}

(* A phase that has nothing left to do gives way to the next.              *)
Advance ==
    /\ sync.at \in {"rename", "bind", "record"} /\ sync.todo = {}
    /\ sync' = [sync EXCEPT !.at = Following(@), !.todo = Work(Following(sync.at))]
    /\ UNCHANGED <<registry, refs, tasks, requests, changes, writes, faults, owed>>

(* reassignProject and bindTeamToProjectTasks select ids, and then update  *)
(* by id; binding looks once more whether there is a team.                 *)
Selected(job) ==
    IF sync.at = "rename" THEN {t \in Tasks : tasks[t].project = job.from}
    ELSE {t \in Tasks : tasks[t].project = job.code /\ tasks[t].team = None}

Select(job) ==
    /\ sync.at \in {"rename", "bind"} /\ sync.picked = {} /\ job \in sync.todo
    /\ sync' = IF Selected(job) = {} THEN [sync EXCEPT !.todo = @ \ {job}]
               ELSE [sync EXCEPT !.picked = {job} \X Selected(job)]
    /\ UNCHANGED <<registry, refs, tasks, requests, changes, writes, faults, owed>>

Followed(job, t) ==
    IF sync.at = "rename" THEN [tasks[t] EXCEPT !.project = job.to]
    ELSE [tasks[t] EXCEPT !.team = IF @ = None THEN job.team ELSE @]

Update(job) ==
    /\ sync.at \in {"rename", "bind"} /\ \E t \in Tasks : <<job, t>> \in sync.picked
    /\ tasks' = [t \in Tasks |->
            IF <<job, t>> \in sync.picked THEN Followed(job, t) ELSE tasks[t]]
    /\ sync' = [sync EXCEPT !.todo = @ \ {job}, !.picked = {}]
    /\ UNCHANGED <<registry, refs, requests, changes, writes, faults, owed>>

Record(c) ==
    /\ sync.at = "record" /\ c \in sync.todo
    /\ refs' = [refs EXCEPT ![c] = [teams |-> sync.projects[c].teams, removed |-> FALSE]]
    /\ sync' = [sync EXCEPT !.todo = @ \ {c}]
    /\ UNCHANGED <<registry, tasks, requests, changes, writes, faults, owed>>

MarkRemoved ==
    /\ sync.at = "remove"
    /\ refs' = [c \in Codes |->
            IF refs[c] = None \/ c \in Listed(sync.projects) THEN refs[c]
            ELSE [refs[c] EXCEPT !.removed = TRUE]]
    /\ sync' = Resting
    /\ UNCHANGED <<registry, tasks, requests, changes, writes, faults, owed>>

(* A database call fails or the process ends.                              *)
Fail ==
    /\ sync.at \notin {"done", "failed"} /\ faults < MaxFaults
    /\ faults' = faults + 1
    /\ sync' = [Resting EXCEPT !.at = "failed"]
    /\ UNCHANGED <<registry, refs, tasks, requests, changes, writes, owed>>

-----------------------------------------------------------------------------
(* PUT /api/tasks/:id (routes.ts): the project and the team a body names,  *)
(* or leaves unsaid, are checked with the task as it was read.             *)

Said(value, otherwise) == IF value = "unsaid" THEN otherwise ELSE value

(* validateTeamProject                                                     *)
MayName(team, project) ==
    team # None /\ project # None =>
        refs[project] # None /\ ~refs[project].removed /\ team \in refs[project].teams

BeginRequest(r, t, project, team) ==
    /\ requests[r] = None /\ writes < MaxWrites
    /\ writes' = writes + 1
    /\ <<project, team>> # <<"unsaid", "unsaid">>
    /\ MayName(Said(team, tasks[t].team), Said(project, tasks[t].project))
    /\ requests' = [requests EXCEPT ![r] = [task |-> t, project |-> project, team |-> team]]
    /\ UNCHANGED <<registry, refs, tasks, sync, changes, faults, owed>>

FinishRequest(r) ==
    LET q == requests[r] IN
    /\ q # None
    /\ tasks' = [tasks EXCEPT ![q.task] =
            [project |-> Said(q.project, @.project), team |-> Said(q.team, @.team)]]
    /\ owed' = [owed EXCEPT ![q.task] = None]
    /\ requests' = [requests EXCEPT ![r] = None]
    /\ UNCHANGED <<registry, refs, sync, changes, writes, faults>>

ProjectNext ==
    \/ \E c \in Codes :
        \/ \E teams \in SUBSET Teams : AssignTeams(c, teams)
        \/ \E new \in Codes : RenameCode(c, new)
        \/ Register(c) \/ Unregister(c)
        \/ Record(c)
    \/ Fetch \/ Advance \/ MarkRemoved \/ Fail
    \/ \E job \in sync.todo : Select(job) \/ Update(job)
    \/ \E r \in Requests :
        \/ FinishRequest(r)
        \/ \E t \in Tasks, project \in Codes \cup {None, "unsaid"},
              team \in Teams \cup {None, "unsaid"} : BeginRequest(r, t, project, team)

ProjectSpec == ProjectInit /\ [][ProjectNext]_projectVars

-----------------------------------------------------------------------------
(* Properties.                                                             *)

(* "A tick that fails half way finds the same differences and does them    *)
(* again": between ticks, a task nobody touched since the last one began   *)
(* has a team if the copy holds the team it was to get, and after a tick   *)
(* that ended well it names the code its project has now.                  *)
TasksFollow ==
    \A t \in Tasks :
        /\ sync.at \in {"done", "failed"} /\ owed[t] # None
        =>
        /\ \A team \in owed[t].teams :
            tasks[t].team # None \/ TeamsBefore(owed[t].code) # {team}
        /\ sync.at = "done" => tasks[t].project = owed[t].code
=============================================================================
