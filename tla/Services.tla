------------------------------ MODULE Services ------------------------------
(***************************************************************************)
(* The services around the gates, side by side: the outbox of task         *)
(* notifications and the events of task requests, planning clients and     *)
(* task requests on the planning tables, delegations to Concordia, the     *)
(* list cache, the review of implemented specifications, the projects of   *)
(* Concordia that tasks name, the sync with GitHub and Notion, and the     *)
(* recomputation of critical paths, whatever it computes.  They share no   *)
(* state but the planning tables.                                          *)
(*                                                                         *)
(* Here are their properties, for any values of their constants, with      *)
(* names of their own for the constants and variables that several of them *)
(* call alike.  MCServices gives the values; ServicesProofs proves.        *)
(***************************************************************************)
EXTENDS NotificationOutbox, TaskChangeEvents, TaskEditing, PlanningClients,
        TerpsichoreExecution

CONSTANTS
    Servers, Readers, TtlSec, MaxVersion, MaxTime, MaxCacheFaults,
    LinkedTasks, People, MaxRevision, MaxEdits,
    Codes, Teams, NamingTasks, Namers, MaxChanges, MaxNamings, MaxFailedTicks,
    Fields, Written, FieldTexts, Resolvers, Overlap, MaxLocalEdits, MaxOutside,
    MaxWritebackFaults,
    BacklogTasks, StartBacklogs, Durations, Estimates, MaxBacklogEdits,
    MaxRecomputeFaults, ComputedPath(_), MeantPath(_)

VARIABLES
    committed, generation, localGeneration, entries, inflight, writes, lists, clock,
    cacheFaults, announced, slowest,
    specification, linked, versions, links, reviews, screens, visits, linkedEdits, epoch,
    accepted,
    registry, refs, naming, tick, namings, projectChanges, namingWrites, failedTicks, owing,
    outside, mirrored, base, conflict, pull, resolvers, localEdits, writebackFaults, overlaps,
    backlog, pathRows, recomputesOwed, recompute, incomplete, backlogEdits,
    recomputeFaults

Cache == INSTANCE TaskListCache WITH
    Processes <- Servers, Requests <- Readers, NoGeneration <- None,
    MaxFaults <- MaxCacheFaults, requests <- lists, faults <- cacheFaults

Review == INSTANCE ImplementationReview WITH
    Tasks <- LinkedTasks, tasks <- linked, requests <- visits, edits <- linkedEdits

Projects == INSTANCE ProjectSync WITH
    Tasks <- NamingTasks, Requests <- Namers, MaxWrites <- MaxNamings,
    MaxFaults <- MaxFailedTicks, tasks <- naming, sync <- tick, requests <- namings,
    changes <- projectChanges, writes <- namingWrites, faults <- failedTicks, owed <- owing

Pm == INSTANCE PmSync WITH
    Texts <- FieldTexts, MaxEdits <- MaxLocalEdits, MaxFaults <- MaxWritebackFaults,
    row <- mirrored, sync <- pull, edits <- localEdits, faults <- writebackFaults

Path == INSTANCE PathRecompute WITH
    Tasks <- BacklogTasks, StartTasks <- StartBacklogs, MaxEdits <- MaxBacklogEdits,
    MaxFaults <- MaxRecomputeFaults, Computed <- ComputedPath, Meant <- MeantPath,
    tasks <- backlog, stored <- pathRows, owed <- recomputesOwed, job <- recompute,
    edits <- backlogEdits, faults <- recomputeFaults

pmVars == <<outside, mirrored, base, conflict, pull, resolvers, localEdits,
            writebackFaults, overlaps>>

-----------------------------------------------------------------------------
(* Properties; those of the other components are in their modules.         *)

(* A list shows every write announced before its request began, and lacks  *)
(* none older than the time to live and the time a list waits to be stored *)
(* (task-list-cache.ts).                                                   *)
ListsFreshEnough == Cache!ListsFreshEnough

(* A subject is shown as completed only if somebody confirmed all that is  *)
(* true of it now (implementation/store.ts, state.ts).                     *)
CompletedWasAccepted == Review!CompletedWasAccepted

(* Whatever fails half way, between ticks no task is left behind whose     *)
(* project changed its code or got its team (cc-project-apply.ts).         *)
TasksFollow == Projects!TasksFollow

(* A task nobody changed outside keeps its values through a pull, however  *)
(* people edit it meanwhile (sync-project.ts, sync-plan.ts).               *)
KeptWhileUnchanged == [][Pm!KeptWhileUnchanged]_pmVars

(* As long as syncs run alone, no difference from the outside is forgotten *)
(* (sync-project.ts, resolve-conflict.ts).                                 *)
NothingForgotten == Pm!NothingForgotten

(* When no recomputation is owed or failed, the rows hold the critical     *)
(* path and the slack of the tasks as they are (compute.ts, recompute.ts). *)
StoredIsCurrent == Path!StoredIsCurrent
=============================================================================
