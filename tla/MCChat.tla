-------------------------------- MODULE MCChat --------------------------------
(***************************************************************************)
(* Sprint chat, checked in one run: the delivery of messages, the life of  *)
(* a sprint's channel, the intake of tasks and the remarks of Di.          *)
(*                                                                         *)
(* They run in one tick but share no rows.  Each behaviour explores one of *)
(* them: "part" names the one that moves, the others stay in their initial *)
(* states.  Two of them have a second instance, with bounds given here.     *)
(***************************************************************************)
EXTENDS SprintChat, TLC

CONSTANTS
    w1, w2, o1, o2,     \* interchangeable workers and operations
    one,                \* a worker that is alone
    thread

VARIABLE part

(* Beside a worker that may crash, the channel and a thread, pages of one  *)
(* post: two workers on the channel alone, whose cursors overwrite each    *)
(* other.                                                                  *)
SharedChannel == INSTANCE SprintChannel WITH
    Workers <- {w1, w2}, Rooms <- {Root}, PageSize <- 2,
    MaxPosts <- 3, MaxFaults <- MaxChannelFaults,
    ops <- channelOps, workers <- channelWorkers, lease <- channelLease,
    faults <- channelFaults

(* A command and a reply in its thread, both edited and deleted: with a    *)
(* leader who reads and confirms; and with two workers.                    *)
OfItself == [c \in Commands |-> Nobody]
OfTheCommand == [r \in Replies |-> 1]

SharedIntake == INSTANCE ChatIntake WITH
    Workers <- {w1, w2}, Watched <- {}, None <- Nobody, MaxFaults <- MaxIntakeFaults,
    ops <- intakeOps, workers <- intakeWorkers, faults <- intakeFaults

Parts == {"outbox", "channel", "shared channel", "intake", "shared intake", "discussion"}

channelVars == <<sprint, surface, channelOps, cursor, logged, discord, channelWorkers,
                 channelLease, channelFaults, due, announced>>
intakeVars == <<text, threads, messages, intakes, intakeOps, rejected, offset,
                intakeWorkers, holder, seen, intakeFaults>>
discussionVars == <<said, saved, setting, remarkOps, consent, remarks, remarkWorkers,
                    overlaps>>

unionVars == <<part, chatVars, channelVars, intakeVars, discussionVars>>

UnionInit ==
    /\ part \in Parts
    /\ ChatInit
    /\ IF part = "shared channel" THEN SharedChannel!ChannelInit ELSE Channel!ChannelInit
    /\ IF part = "shared intake" THEN SharedIntake!IntakeInit ELSE Intake!IntakeInit
    /\ Discussion!DiscussionInit

Moves(name) == part = name /\ UNCHANGED part

UnionNext ==
    \/ /\ Moves("outbox") /\ ChatNext
       /\ UNCHANGED <<channelVars, intakeVars, discussionVars>>
    \/ /\ \/ Moves("channel") /\ Channel!ChannelNext
          \/ Moves("shared channel") /\ SharedChannel!ChannelNext
       /\ UNCHANGED <<chatVars, intakeVars, discussionVars>>
    \/ /\ \/ Moves("intake") /\ Intake!IntakeNext
          \/ Moves("shared intake") /\ SharedIntake!IntakeNext
       /\ UNCHANGED <<chatVars, channelVars, discussionVars>>
    \/ /\ Moves("discussion") /\ Discussion!DiscussionNext
       /\ UNCHANGED <<chatVars, channelVars, intakeVars>>

UnionSpec == UnionInit /\ [][UnionNext]_unionVars

ChatSymmetry == Permutations({w1, w2}) \cup Permutations({o1, o2})
=============================================================================
