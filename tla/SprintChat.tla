------------------------------ MODULE SprintChat ------------------------------
(***************************************************************************)
(* Sprint chat: the delivery of messages (ChatOutbox), the life of a       *)
(* sprint's channel, the intake of tasks and the remarks of Di.  They run  *)
(* in one tick but share no rows.                                          *)
(*                                                                         *)
(* Here are their properties, for any values of their constants, with      *)
(* names of their own for the constants and variables that several of them *)
(* call alike.  MCChat gives the values; ChatProofs proves.                *)
(***************************************************************************)
EXTENDS ChatOutbox

CONSTANTS
    ChannelWorkers, ChannelRooms, Root, PageSize, MaxRevision, MaxPosts, MaxChannelFaults,
    IntakeWorkers, Commands, Sources, Replies, Target, ThreadOf, Watched, Window,
    MaxVersion, MaxIntakeFaults,
    RemarkWorkers, MaxMessages, MaxSettings, MaxOverlaps

ASSUME ChannelAssumption == Root \in ChannelRooms /\ PageSize \in Nat \ {0}

ASSUME IntakeAssumption ==
    /\ Watched \subseteq Commands
    /\ Target \in [Commands -> Sources \cup {Nobody}]

ASSUME DiscussionAssumption == MaxMessages \in Nat /\ MaxOverlaps \in Nat

VARIABLES
    sprint, surface, channelOps, cursor, logged, discord, channelWorkers, channelLease,
    channelFaults, due, announced,
    text, threads, messages, intakes, intakeOps, rejected, offset, intakeWorkers, holder,
    seen, intakeFaults,
    said, saved, setting, remarkOps, consent, remarks, remarkWorkers, overlaps

Channel == INSTANCE SprintChannel WITH
    Workers <- ChannelWorkers, Rooms <- ChannelRooms, MaxFaults <- MaxChannelFaults,
    ops <- channelOps, workers <- channelWorkers, lease <- channelLease,
    faults <- channelFaults

Intake == INSTANCE ChatIntake WITH
    Workers <- IntakeWorkers, None <- Nobody, MaxFaults <- MaxIntakeFaults,
    ops <- intakeOps, workers <- intakeWorkers, faults <- intakeFaults

Discussion == INSTANCE ChatDiscussion WITH
    Workers <- RemarkWorkers, MaxRevision <- MaxSettings,
    ops <- remarkOps, workers <- remarkWorkers

-----------------------------------------------------------------------------
(* Properties; PostedOncePerDecision and SentIsThere are ChatOutbox's own. *)

(* What the cursor of a room says was read is in the log, without a hole,  *)
(* whatever crashed and whichever worker saved last (ingestion.ts).        *)
LogHasNoHoles == Channel!LogHasNoHoles

(* The channel is archived only with its final summary in the log          *)
(* (sprint-publication.ts).                                                *)
FinalBeforeArchive == Channel!FinalBeforeArchive

(* An intake quotes its messages as they are saved now, and the review     *)
(* shown with it is of the text shown with it, although the model answers  *)
(* long after it was asked (intake-store.ts).                              *)
IntakeIsCurrent == Intake!NoStaleContent /\ Intake!ReviewIsOfContent

(* What a leader registers is what the leader has read (intake-store.ts).  *)
ConfirmedWhatWasSeen == Intake!ConfirmedWhatWasSeen

(* Di remarks once on a message, on the last one read, and under the       *)
(* consent it was asked with, whoever delivers (discussion.ts, outbox.ts,  *)
(* delivery.ts).                                                           *)
RemarkIsCurrent == Discussion!RemarkIsCurrent
=============================================================================
