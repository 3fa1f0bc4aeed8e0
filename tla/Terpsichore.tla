----------------------------- MODULE Terpsichore -----------------------------
(***************************************************************************)
(* The sprint phase judge, package @ludiars/terpsichore.  Its source is    *)
(* not in the repository, so this module is EXTERNAL: it states what the   *)
(* store, the tests and the phase screen rely on.                          *)
(*                                                                         *)
(* The judge is pure.  Given the state of a gate, the snapshot of the      *)
(* sprint and a command, it either returns the next state of the gate or   *)
(* throws SprintPhaseError.  Where the repository leaves the answer open,  *)
(* the operators below return every answer it allows.                      *)
(*                                                                         *)
(* A snapshot is [sprint, tasks, retrospective, nextPlan], where tasks     *)
(* maps each attached task to its data.  A fingerprint is a collision-free *)
(* digest of a snapshot, modelled by the snapshot itself.                  *)
(***************************************************************************)
EXTENDS Naturals

CONSTANTS NoFingerprint,    \* the fingerprint of a gate nobody has observed yet
          NoPlan            \* the next plan of a snapshot when none is chosen

Phases == {"planning", "implementation", "acceptance", "retrospective", "next_planning"}

HumanActions == {"approve", "reject", "hold", "resume", "resubmit"}

(* sprintPhaseFingerprint *)
Fingerprint(snapshot) == snapshot

(* initialSprintPhase *)
InitialSprintPhase(phase) ==
    [phase |-> phase, held |-> FALSE, revision |-> 0,
     sourceFingerprint |-> NoFingerprint, reworkTaskIds |-> {}]

(* "Empty, cancelled or partial is not completion": there is a task, and   *)
(* every one of them is done.                                              *)
AllDone(snapshot) ==
    /\ DOMAIN snapshot.tasks # {}
    /\ \A t \in DOMAIN snapshot.tasks : snapshot.tasks[t].status = "done"

(* Every decision that changes anything moves the revision on and pins the *)
(* evidence it was taken from.                                             *)
Revised(state, snapshot) ==
    [state EXCEPT !.revision = @ + 1, !.sourceFingerprint = Fingerprint(snapshot)]

(* A finished implementation goes to acceptance by itself, unless the gate *)
(* is held or a person has sent tasks back and not resubmitted them.       *)
ReadyForAcceptance(state, snapshot) ==
    /\ state.phase = "implementation"
    /\ ~state.held
    /\ state.reworkTaskIds = {}
    /\ AllDone(snapshot)

(* decideSprintPhase with the command "observe".  Nothing in the           *)
(* repository says whether a sprint awaiting acceptance falls back to      *)
(* implementation when a task is reopened, so both are possible.           *)
ObserveOutcomes(state, snapshot) ==
    IF ReadyForAcceptance(state, snapshot)
    THEN {[Revised(state, snapshot) EXCEPT !.phase = "acceptance"]}
    ELSE IF state.sourceFingerprint = Fingerprint(snapshot)
    THEN {state}
    ELSE {Revised(state, snapshot)} \cup
         (IF state.phase = "acceptance" /\ ~state.held /\ ~AllDone(snapshot)
          THEN {[Revised(state, snapshot) EXCEPT !.phase = "implementation"]}
          ELSE {})

(* The person answered about exactly this state and this evidence.         *)
AnswersCurrent(state, snapshot, command) ==
    /\ command.expectedRevision = state.revision
    /\ command.sourceFingerprint = state.sourceFingerprint
    /\ command.sourceFingerprint = Fingerprint(snapshot)

(* What an approval needs, phase by phase, besides not being held.         *)
ApprovalReady(state, snapshot) ==
    CASE state.phase = "planning"       -> TRUE
      [] state.phase = "implementation" -> FALSE
      [] state.phase = "acceptance"     -> AllDone(snapshot)
      [] state.phase = "retrospective"  -> snapshot.retrospective # ""
      [] state.phase = "next_planning"  ->
            /\ AllDone(snapshot)
            /\ snapshot.nextPlan # NoPlan
            /\ snapshot.nextPlan.sprint.status = "planning"

PhaseAfterApproval(phase) ==
    CASE phase = "planning"      -> "implementation"
      [] phase = "acceptance"    -> "retrospective"
      [] phase = "retrospective" -> "next_planning"
      [] OTHER                   -> phase

EffectOfApproval(phase) ==
    CASE phase = "planning"      -> "start_sprint"
      [] phase = "next_planning" -> "start_next_sprint"
      [] OTHER                   -> "none"

(* Whether decideSprintPhase accepts a human command, or throws.           *)
Accepts(state, snapshot, command) ==
    /\ AnswersCurrent(state, snapshot, command)
    /\ \/ /\ command.action = "approve"
          /\ ~state.held
          /\ ApprovalReady(state, snapshot)
       \/ /\ command.action = "reject"
          /\ \/ state.phase = "planning"
             \/ command.taskIds # {} /\ command.taskIds \subseteq DOMAIN snapshot.tasks
       \/ command.action = "hold" /\ ~state.held
       \/ command.action = "resume" /\ state.held
       \/ /\ command.action = "resubmit"
          /\ state.phase = "implementation"
          /\ ~state.held
          /\ state.reworkTaskIds # {}
          /\ state.reworkTaskIds \subseteq DOMAIN snapshot.tasks
          /\ AllDone(snapshot)

(* The effect an accepted command has on the sprints themselves.           *)
EffectOf(state, command) ==
    IF command.action = "approve" THEN EffectOfApproval(state.phase) ELSE "none"

(* The state an accepted command leads to.                                 *)
Decided(state, snapshot, command) ==
    LET next == Revised(state, snapshot) IN
    CASE command.action = "approve"  -> [next EXCEPT !.phase = PhaseAfterApproval(state.phase)]
      [] command.action = "reject"   ->
            IF state.phase = "planning" THEN next
            ELSE [next EXCEPT !.phase = "implementation", !.reworkTaskIds = command.taskIds]
      [] command.action = "hold"     -> [next EXCEPT !.held = TRUE]
      [] command.action = "resume"   -> [next EXCEPT !.held = FALSE]
      [] command.action = "resubmit" -> [next EXCEPT !.phase = "acceptance", !.reworkTaskIds = {}]
=============================================================================
