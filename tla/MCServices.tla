------------------------------ MODULE MCServices ------------------------------
(***************************************************************************)
(* The services around the gates, checked in one run: the outbox of task   *)
(* notifications, the events of task requests, the list cache, task and    *)
(* planning requests, the sync with GitHub and Notion, the critical path,  *)
(* delegations to Concordia, the review of implemented specifications, and *)
(* the projects of Concordia that tasks name.                              *)
(*                                                                         *)
(* They share no state but the planning tables, which task requests and    *)
(* planning clients both work on.  Each behaviour explores one of them:    *)
(* "part" names the one that moves, the others stay in their initial       *)
(* states.  The bounds are in MCServices.cfg; those of second instances    *)
(* are here.                                                               *)
(***************************************************************************)
EXTENDS Services, TLC

CONSTANTS
    a1, a2, b1, b2,     \* interchangeable: requests, people; keys, members, processes
    s1, s2              \* sprints

VARIABLE part

(* Beside the two readers of the same list, who may join each other around *)
(* a write: two writes whose announcements overlap; and lists that expire  *)
(* while a call to Redis fails.                                            *)
BusyCache == INSTANCE TaskListCache WITH
    Processes <- Servers, Requests <- {"client"}, NoGeneration <- None,
    MaxVersion <- 2, MaxTime <- 0, MaxFaults <- 0,
    requests <- lists, faults <- cacheFaults

FaultyCache == INSTANCE TaskListCache WITH
    Processes <- Servers, Requests <- {"client"}, NoGeneration <- None,
    MaxVersion <- 1, MaxTime <- 2, MaxFaults <- 1,
    requests <- lists, faults <- cacheFaults

(* Two planners on two sprints; one is under way, with a day to extend     *)
(* into.  Two task requests beside the planning of two sprints.            *)
NewRow(day) ==
    [status |-> "planning", goal |-> "g1", startsOn |-> day, endsOn |-> day,
     bufferEndsOn |-> day, revision |-> 0]

FreeTask == [t \in Tasks |-> [sprint |-> NoSprint, status |-> "open", text |-> "x"]]

TwoPlans ==
    {[startsOn |-> 1, endsOn |-> 1, bufferEndsOn |-> 2],
     [startsOn |-> 3, endsOn |-> 3, bufferEndsOn |-> 3]}

OneBegun ==
    [s \in {s1, s2} |->
        IF s = s1 THEN [NewRow(1) EXCEPT !.status = "active", !.bufferEndsOn = 2]
        ELSE Absent]

BothPlanned == [s \in {s1, s2} |-> NewRow(IF s = s1 THEN 1 ELSE 2)]

Tables == {OneBegun, BothPlanned}
Attached == {FreeTask}

(* Beside syncs that run alone, with writebacks that may fail: writebacks  *)
(* that never fail, while people edit.                                     *)
EditedPm == INSTANCE PmSync WITH
    Texts <- FieldTexts, Overlap <- {"edit"}, MaxEdits <- MaxLocalEdits, MaxFaults <- 0,
    row <- mirrored, sync <- pull, edits <- localEdits, faults <- writebackFaults

(* Four tasks: a diamond, and two that wait for each other; either is       *)
(* changed twice.                                                          *)
Waiting(blockedBy) ==
    [blockedBy |-> blockedBy, days |-> None, minutes |-> None, counted |-> TRUE]

Diamond == <<Waiting({}), Waiting({1}), Waiting({1}), Waiting({2, 3})>>
Knot == <<Waiting({2}), Waiting({1}), Waiting({1}), Waiting({3})>>

(* While other parts move, nothing is in the backlog.                      *)
Emptied == [t \in BacklogTasks |-> [Waiting({}) EXCEPT !.counted = FALSE]]

StartPlans == {Diamond, Knot, Emptied}

Algorithm == INSTANCE CriticalPath WITH Tasks <- BacklogTasks, DailyMinutes <- 120

PathOf(plan) == Algorithm!Computed(plan)
PathMeantBy(plan) == Algorithm!Meant(plan)

(* Beside one leader with two tasks: two people with one.                  *)
SharedReview == INSTANCE ImplementationReview WITH
    Tasks <- {"task"}, People <- {a1, a2}, MaxRevision <- 2, MaxEdits <- 2,
    tasks <- linked, requests <- visits, edits <- linkedEdits

Parts == {"notifications", "cache", "busy cache", "faulty cache", "events", "editing",
          "clients", "pm", "edited pm", "critical path", "execution", "review",
          "shared review", "projects"}

cacheVars == <<committed, generation, localGeneration, entries, inflight, writes, lists,
               clock, cacheFaults, announced, slowest>>
pathVars == <<backlog, pathRows, recomputesOwed, recompute, incomplete, backlogEdits,
              recomputeFaults>>
reviewVars == <<specification, linked, versions, links, reviews, screens, visits,
                linkedEdits, epoch, accepted>>
projectVars == <<registry, refs, naming, tick, namings, projectChanges, namingWrites,
                 failedTicks, owing>>

servicesVars == <<part, vars, cacheVars, eventVars, planningVars, place, edits, drafts,
                  pmVars, pathVars, executionVars, reviewVars, projectVars>>

(* What stands still begins in one state.                                  *)
PlanningBegins ==
    /\ EditInit /\ ClientsInit
    /\ sprints = IF part = "editing" THEN BothPlanned ELSE OneBegun

PathBegins == Path!PathInit /\ (part = "critical path" <=> backlog # Emptied)

ReviewBegins ==
    IF part = "shared review" THEN SharedReview!ReviewInit
    ELSE Review!ReviewInit /\ (part = "review" \/ \A t \in LinkedTasks : linked[t] = "open")

ProjectsBegin ==
    /\ Projects!ProjectInit
    /\ part = "projects" \/ (Projects!Registered = Codes /\ naming["task"].project = None)

ServicesInit ==
    /\ part \in Parts
    /\ IF part \in {"busy cache", "faulty cache"} THEN BusyCache!CacheInit ELSE Cache!CacheInit
    /\ Init /\ EventsInit /\ PlanningBegins /\ Pm!PmInit /\ PathBegins
    /\ ExecutionInit /\ ReviewBegins /\ ProjectsBegin

Moves(name) == part = name /\ UNCHANGED part

planVars == <<planningVars, place, edits, drafts>>

ServicesNext ==
    \/ /\ Moves("notifications") /\ Next
       /\ UNCHANGED <<cacheVars, eventVars, planVars, pmVars, pathVars, executionVars,
                      reviewVars, projectVars>>
    \/ /\ \/ Moves("cache") /\ Cache!CacheNext
          \/ Moves("busy cache") /\ BusyCache!CacheNext
          \/ Moves("faulty cache") /\ FaultyCache!CacheNext
       /\ UNCHANGED <<vars, eventVars, planVars, pmVars, pathVars, executionVars,
                      reviewVars, projectVars>>
    \/ /\ Moves("events") /\ EventsNext
       /\ UNCHANGED <<vars, cacheVars, planVars, pmVars, pathVars, executionVars,
                      reviewVars, projectVars>>
    \/ /\ \/ Moves("editing") /\ EditNext /\ UNCHANGED drafts
          \/ Moves("clients") /\ ClientsNext /\ UNCHANGED <<place, edits>>
       /\ UNCHANGED <<vars, cacheVars, eventVars, pmVars, pathVars, executionVars,
                      reviewVars, projectVars>>
    \/ /\ (Moves("pm") /\ Pm!PmNext) \/ (Moves("edited pm") /\ EditedPm!PmNext)
       /\ UNCHANGED <<vars, cacheVars, eventVars, planVars, pathVars, executionVars,
                      reviewVars, projectVars>>
    \/ /\ Moves("critical path") /\ Path!PathNext
       /\ UNCHANGED <<vars, cacheVars, eventVars, planVars, pmVars, executionVars,
                      reviewVars, projectVars>>
    \/ /\ Moves("execution") /\ ExecutionNext
       /\ UNCHANGED <<vars, cacheVars, eventVars, planVars, pmVars, pathVars,
                      reviewVars, projectVars>>
    \/ /\ \/ Moves("review") /\ Review!ReviewNext
          \/ Moves("shared review") /\ SharedReview!ReviewNext
       /\ UNCHANGED <<vars, cacheVars, eventVars, planVars, pmVars, pathVars,
                      executionVars, projectVars>>
    \/ /\ Moves("projects") /\ Projects!ProjectNext
       /\ UNCHANGED <<vars, cacheVars, eventVars, planVars, pmVars, pathVars,
                      executionVars, reviewVars>>

ServicesSpec == ServicesInit /\ [][ServicesNext]_servicesVars

ServicesSymmetry == Permutations({a1, a2}) \cup Permutations({b1, b2})
=============================================================================
