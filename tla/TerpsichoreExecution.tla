------------------------ MODULE TerpsichoreExecution ------------------------
(***************************************************************************)
(* Delegating the prepared tasks of one project to Concordia: the table    *)
(* terpsichore_runs with its ExecutionStore (execution-store.ts) and the   *)
(* routes that start a delegation and ask how it stands                    *)
(* (execution-routes.ts), all of modules/task/terpsichore.                 *)
(*                                                                         *)
(* Concordia (Cc) is EXTERNAL: a call starts the work, starts it and loses *)
(* the answer, never arrives, or arrives after the caller has given up.    *)
(* Work that Cc hands over to a further run counts as one piece of work:   *)
(* followContinuations leads to the run that has it.  The plan, and what   *)
(* of it is delegated, are left out.                                       *)
(***************************************************************************)
EXTENDS Naturals

CONSTANTS
    Delegations,        \* the rows that may come to be
    Callers,            \* requests that may be under way at once
    None,
    MaxCallFaults       \* bound on lost calls, failed writes and crashes

VARIABLES
    runs,               \* terpsichore_runs
    remote,             \* how the work of each delegation stands at Cc
    late,               \* delegations whose call is still on its way
    calls,
    callFaults

executionVars == <<runs, remote, late, calls, callFaults>>

Ended == {"completed", "failed"}

Active == {"submitting", "running", "unknown"}

(* runId: whether it is known; fallback: a write that fails is followed by *)
(* that of "unknown".                                                      *)
Run == [state: Active \cup Ended \cup {"free"}, runId: BOOLEAN]

Idle == [at |-> "idle", id |-> None, runId |-> FALSE, state |-> "unknown",
         fallback |-> FALSE]

Call == {Idle} \cup
    [at: {"sending", "asking", "telling"}, id: Delegations, runId: BOOLEAN,
     state: Active \cup Ended, fallback: BOOLEAN]

ExecutionInit ==
    /\ runs = [d \in Delegations |-> [state |-> "free", runId |-> FALSE]]
    /\ remote = [d \in Delegations |-> "none"]
    /\ late = {}
    /\ calls = [c \in Callers |-> Idle]
    /\ callFaults = 0

CallFault == callFaults < MaxCallFaults /\ callFaults' = callFaults + 1
NoCallFault == UNCHANGED callFaults

Becomes(c, call) == calls' = [calls EXCEPT ![c] = call]

-----------------------------------------------------------------------------
(* ExecutionStore.                                                         *)

(* Mutant: a delegation whose outcome is unknown does not hold up others.  *)
UnlessUnknown(run) == run.state \in {"submitting", "running"}

(* The condition of the unique index over the rows of a project.           *)
Indexed(run) == run.state \in Active

Reserve(c) ==
    /\ calls[c] = Idle
    /\ \A d \in Delegations : ~Indexed(runs[d])
    /\ \E d \in Delegations :
        /\ runs[d].state = "free"
        /\ runs' = [runs EXCEPT ![d] = [state |-> "submitting", runId |-> FALSE]]
        /\ Becomes(c, [Idle EXCEPT !.at = "sending", !.id = d])
    /\ NoCallFault /\ UNCHANGED <<remote, late>>

(* Mutant: whatever is observed is written.                                *)
AlwaysObservable(run) == TRUE

Observable(run) == run.state \in Active

(* observe; the request has its answer.                                    *)
Tell(c) ==
    /\ calls[c].at = "telling"
    /\ runs' = [d \in Delegations |->
            IF d = calls[c].id /\ Observable(runs[d])
            THEN [state |-> calls[c].state, runId |-> calls[c].runId] ELSE runs[d]]
    /\ Becomes(c, Idle)
    /\ NoCallFault /\ UNCHANGED <<remote, late>>

Unanswered(c) ==
    Becomes(c, [calls[c] EXCEPT !.at = "telling", !.runId = FALSE, !.state = "unknown",
                             !.fallback = FALSE])

TellFails(c) ==
    /\ calls[c].at = "telling"
    /\ CallFault
    /\ IF calls[c].fallback THEN Unanswered(c) ELSE Becomes(c, Idle)
    /\ UNCHANGED <<runs, remote, late>>

-----------------------------------------------------------------------------
(* POST: the call to Cc, once, after the reservation.                      *)

(* A started run is under way, or could not be spawned.                    *)
Starts(d) == \E s \in {"running", "failed"} : remote' = [remote EXCEPT ![d] = s]

Send(c) ==
    LET d == calls[c].id IN
    /\ calls[c].at = "sending"
    /\ \/ /\ Starts(d)
          /\ Becomes(c, [calls[c] EXCEPT !.at = "telling", !.runId = TRUE, !.state = remote'[d],
                                       !.fallback = TRUE])
          /\ NoCallFault /\ UNCHANGED late
       \/ Starts(d) /\ Unanswered(c) /\ CallFault /\ UNCHANGED late
       \/ late' = late \cup {d} /\ Unanswered(c) /\ CallFault /\ UNCHANGED remote
       \/ Unanswered(c) /\ CallFault /\ UNCHANGED <<remote, late>>
    /\ UNCHANGED runs

-----------------------------------------------------------------------------
(* GET: an active delegation is compared with Cc.                          *)

Look(c) ==
    /\ calls[c] = Idle
    /\ \E d \in Delegations :
        /\ runs[d].state \in Active
        /\ Becomes(c, [Idle EXCEPT !.at = "asking", !.id = d, !.runId = runs[d].runId])
    /\ NoCallFault /\ UNCHANGED <<runs, remote, late>>

(* Without its id, a run is looked for among the latest of Cc, and may not *)
(* be among them.  A call that fails ends the request.                     *)
Ask(c) ==
    LET d == calls[c].id
        answered(known, state) ==
            Becomes(c, [calls[c] EXCEPT !.at = "telling", !.runId = known, !.state = state])
    IN
    /\ calls[c].at = "asking"
    /\ \/ remote[d] # "none" /\ answered(TRUE, remote[d]) /\ NoCallFault
       \/ ~calls[c].runId /\ answered(FALSE, "unknown") /\ NoCallFault
       \/ Becomes(c, Idle) /\ CallFault
    /\ UNCHANGED <<runs, remote, late>>

-----------------------------------------------------------------------------
(* Cc, and crashes of Actio.                                               *)

Arrive ==
    /\ \E d \in late : Starts(d) /\ late' = late \ {d}
    /\ UNCHANGED <<runs, calls, callFaults>>

RunEnds ==
    /\ \E d \in Delegations, s \in Ended :
        remote[d] = "running" /\ remote' = [remote EXCEPT ![d] = s]
    /\ UNCHANGED <<runs, late, calls, callFaults>>

CallerDies(c) ==
    /\ calls[c] # Idle
    /\ CallFault
    /\ Becomes(c, Idle)
    /\ UNCHANGED <<runs, remote, late>>

ExecutionNext ==
    \/ \E c \in Callers :
        Reserve(c) \/ Send(c) \/ Look(c) \/ Ask(c) \/ Tell(c) \/ TellFails(c) \/ CallerDies(c)
    \/ Arrive \/ RunEnds

ExecutionSpec == ExecutionInit /\ [][ExecutionNext]_executionVars

-----------------------------------------------------------------------------
(* Properties.                                                             *)

ExecutionTypeOK ==
    /\ runs \in [Delegations -> Run]
    /\ remote \in [Delegations -> Ended \cup {"none", "running"}]
    /\ late \subseteq Delegations
    /\ calls \in [Callers -> Call]
    /\ callFaults \in Nat

(* Work that Cc does, or may yet begin to do.                              *)
UnderWay(d) ==
    \/ remote[d] = "running"
    \/ d \in late
    \/ \E c \in Callers : calls[c].at = "sending" /\ calls[c].id = d

(* No two delegations of a project are worked on at once, whatever calls   *)
(* were lost, arrived late or were cut off by a crash.                     *)
OneUnderWay == \A d, e \in Delegations : UnderWay(d) /\ UnderWay(e) => d = e

(* A delegation is called ended only as Cc ended it.                       *)
EndedAsTold == \A d \in Delegations : runs[d].state \in Ended => remote[d] = runs[d].state

(* An old answer does not revive what was seen to have ended.              *)
EndedStays ==
    [][\A d \in Delegations : runs[d].state \in Ended => runs'[d] = runs[d]]_executionVars

(* "terminal観測後の古い応答で実行を復活させない", and one execution at a time  *)
(* (spec/feature/terpsichore.md).                                          *)
ExecutionKept == [](OneUnderWay /\ EndedAsTold) /\ EndedStays
=============================================================================
