------------------------------ MODULE MCProgress ------------------------------
(***************************************************************************)
(* What must happen in the end, checked in one run: a notification is      *)
(* settled, a closed sprint's channel archived, a deleted message gone, a  *)
(* task and its issue equal.  As in MCServices, each behaviour explores    *)
(* one component; "part" names it.                                         *)
(***************************************************************************)
EXTENDS Integers, FiniteSets

CONSTANTS p1, p2, k1, k2, root, NoRow, NoKey, None

VARIABLES
    part,
    rows, cycles, received, dispatchFaults,
    sprint, surface, channelOps, cursor, logged, discord, channelWorkers, channelLease,
    channelFaults, due, announced,
    text, threads, messages, intakes, intakeOps, rejected, offset, intakeWorkers, holder,
    seen, intakeFaults,
    outside, row, base, conflict, sync, resolvers, edits, pmFaults, overlaps

(* Two notifications in batches of one, two processes, receivers that may  *)
(* stay down.                                                              *)
Outbox == INSTANCE NotificationOutbox WITH
    Keys <- {k1, k2}, Processes <- {p1, p2}, Unusable <- {}, MaxAttempts <- 2, Batch <- 1,
    MaxFaults <- 1, faults <- dispatchFaults

(* A worker that may crash, and posts on two pages.                        *)
Channel == INSTANCE SprintChannel WITH
    Workers <- {p1}, Rooms <- {root}, Root <- root, PageSize <- 2,
    MaxRevision <- 2, MaxPosts <- 2, MaxFaults <- 1,
    ops <- channelOps, workers <- channelWorkers, lease <- channelLease,
    faults <- channelFaults

(* Two messages looked at one at a time, by two workers; and a command     *)
(* that makes an intake of another message, by one.                        *)
Messages == INSTANCE ChatIntake WITH
    Workers <- {p1, p2}, Commands <- {}, Sources <- {1, 2}, Replies <- {},
    Target <- [c \in {} |-> None], ThreadOf <- [r \in {} |-> 1],
    Watched <- {}, Window <- 1, MaxVersion <- 1, MaxFaults <- 1,
    ops <- intakeOps, workers <- intakeWorkers, faults <- intakeFaults

Intake == INSTANCE ChatIntake WITH
    Workers <- {p1}, Commands <- {1}, Sources <- {2}, Replies <- {},
    Target <- [c \in {1} |-> 2], ThreadOf <- [r \in {} |-> 1],
    Watched <- {}, Window <- 1, MaxVersion <- 1, MaxFaults <- 1,
    ops <- intakeOps, workers <- intakeWorkers, faults <- intakeFaults

(* Syncs alone, a writeback that may fail.                                 *)
Pm == INSTANCE PmSync WITH
    Fields <- {"status", "labels"}, Written <- {"status", "labels"},
    Texts <- {"x", "y"}, Resolvers <- {p1}, Overlap <- {},
    MaxEdits <- 1, MaxOutside <- 2, MaxFaults <- 1, faults <- pmFaults

outboxVars == <<rows, cycles, received, dispatchFaults>>
channelVars == <<sprint, surface, channelOps, cursor, logged, discord, channelWorkers,
                 channelLease, channelFaults, due, announced>>
intakeVars == <<text, threads, messages, intakes, intakeOps, rejected, offset,
                intakeWorkers, holder, seen, intakeFaults>>
pmVars == <<outside, row, base, conflict, sync, resolvers, edits, pmFaults, overlaps>>

progressVars == <<part, outboxVars, channelVars, intakeVars, pmVars>>

ProgressInit ==
    /\ part \in {"outbox", "channel", "messages", "intake", "pm"}
    /\ Outbox!Init /\ Channel!ChannelInit /\ Pm!PmInit
    /\ IF part = "messages" THEN Messages!IntakeInit ELSE Intake!IntakeInit

(* The others stand still.                                                 *)
InOutbox ==
    part = "outbox" /\ UNCHANGED <<part, channelVars, intakeVars, pmVars>>
InChannel ==
    part = "channel" /\ UNCHANGED <<part, outboxVars, intakeVars, pmVars>>
InMessages ==
    part = "messages" /\ UNCHANGED <<part, outboxVars, channelVars, pmVars>>
InIntake ==
    part = "intake" /\ UNCHANGED <<part, outboxVars, channelVars, pmVars>>
InPm ==
    part = "pm" /\ UNCHANGED <<part, outboxVars, channelVars, intakeVars>>

ProgressNext ==
    \/ InOutbox /\ Outbox!Next
    \/ InChannel /\ Channel!ChannelNext
    \/ InMessages /\ Messages!IntakeNext
    \/ InIntake /\ Intake!IntakeNext
    \/ InPm /\ Pm!PmNext

(* Timers fire and calls end: the fairness of each component.  A sync and  *)
(* a resolution that has begun run to their end.                           *)
OutboxFairness ==
    \A p \in {p1, p2} : WF_progressVars(InOutbox /\ Outbox!Step(p))

ChannelFairness ==
    /\ WF_progressVars(InChannel /\ Channel!Step(p1))
    /\ WF_progressVars(InChannel /\ channelLease.owner = {"dead"} /\ Channel!LeaseRunsOut)

IntakeFairness ==
    /\ \A p \in {p1, p2} :
        WF_progressVars(InMessages /\ (Messages!Step(p) \/ Messages!Abandon(p)))
    /\ WF_progressVars(InIntake /\ (Intake!Step(p1) \/ Intake!Abandon(p1)))

PmFairness ==
    /\ WF_progressVars(InPm /\ Pm!StartSync)
    /\ WF_progressVars(InPm /\ Pm!SyncStep)
    /\ WF_progressVars(InPm /\ (Pm!Apply(p1) \/ Pm!SaveResolved(p1)))

FairProgressSpec ==
    /\ ProgressInit /\ [][ProgressNext]_progressVars
    /\ OutboxFairness /\ ChannelFairness /\ IntakeFairness /\ PmFairness

-----------------------------------------------------------------------------
(* Every notification is settled for good, though its receiver may stay    *)
(* down, older rows fill the batches and processes crash (dispatcher.ts).  *)
EverySettles == Outbox!EverySettles

(* The channel of a closed sprint is archived, or its summary or archive   *)
(* was refused, or its summary cannot be reconciled, and waits for a       *)
(* leader's retry (sprint-publication.ts, outbox.ts, routes.ts).           *)
ClosedIsArchived == Channel!ClosedIsArchived

(* What people delete leaves the log and the intakes for good, though a    *)
(* slow worker may bring it back for a while (ingestion.ts).               *)
DeletedGoesAway == Intake!DeletedGoesAway

(* A task and its issue come to agree, or people are asked to decide,      *)
(* although writebacks fail (sync-project.ts).                             *)
EverySyncAgrees == <>[](part = "pm" => Pm!Agreed)
=============================================================================
