--------------------------- MODULE SprintLifecycle ---------------------------
(***************************************************************************)
(* What the gates promise about the sprints of a team, without rows,       *)
(* revisions, fingerprints or messages: the life of a sprint, and which of *)
(* its moves take a decision by a person                                   *)
(* (spec/feature/sprint-human-gates.md, the section on invariants).        *)
(***************************************************************************)
EXTENDS Naturals

CONSTANT Sprints

VARIABLES
    status,         \* absent, planning, active or closed
    phase,          \* the phase of the sprint's gate, none without one
    decisions       \* how many decisions by people have taken effect

lifecycleVars == <<status, phase, decisions>>

Statuses == {"absent", "planning", "active", "closed"}

Alone(s) == \A o \in Sprints \ {s} : status[o] # "active"

Init ==
    /\ status \in [Sprints -> Statuses]
    /\ \A s, o \in Sprints : status[s] = "active" /\ status[o] = "active" => s = o
    /\ phase = [s \in Sprints |->
                    CASE status[s] = "planning" -> "planning"
                      [] status[s] = "active"   -> "implementation"
                      [] OTHER                  -> "none"]
    /\ decisions = 0

(* Somebody plans a sprint. *)
Plan(s) ==
    /\ status[s] = "absent"
    /\ status' = [status EXCEPT ![s] = "planning"]
    /\ phase' = [phase EXCEPT ![s] = "planning"]
    /\ UNCHANGED decisions

(* A person starts a planned sprint; no other may be active. *)
Start(s) ==
    /\ status[s] = "planning"
    /\ Alone(s)
    /\ status' = [status EXCEPT ![s] = "active"]
    /\ phase' = [phase EXCEPT ![s] = "implementation"]
    /\ decisions' = decisions + 1

(* The only moves nobody has to decide: finished work is put up for        *)
(* acceptance, reopened work is taken back.                                *)
Submit(s) ==
    /\ status[s] = "active" /\ phase[s] = "implementation"
    /\ phase' = [phase EXCEPT ![s] = "acceptance"]
    /\ decisions' \in {decisions, decisions + 1}
    /\ UNCHANGED status

Withdraw(s) ==
    /\ status[s] = "active" /\ phase[s] = "acceptance"
    /\ phase' = [phase EXCEPT ![s] = "implementation"]
    /\ UNCHANGED <<status, decisions>>

(* A person accepts the outcome, or confirms the retrospective. *)
Advance(s, from, to) ==
    /\ status[s] = "active" /\ phase[s] = from
    /\ phase' = [phase EXCEPT ![s] = to]
    /\ decisions' = decisions + 1
    /\ UNCHANGED status

(* A person sends the sprint back to implementation from any phase. *)
SendBack(s) ==
    /\ status[s] = "active"
    /\ phase' = [phase EXCEPT ![s] = "implementation"]
    /\ decisions' = decisions + 1
    /\ UNCHANGED status

(* A person approves the next plan: this sprint ends and that one starts   *)
(* in the same instant.  Its work may already be finished.                 *)
HandOver(s, n) ==
    /\ status[s] = "active" /\ phase[s] = "next_planning"
    /\ Alone(s)
    /\ status[n] = "planning"
    /\ status' = [status EXCEPT ![s] = "closed", ![n] = "active"]
    /\ \E p \in {"implementation", "acceptance"} : phase' = [phase EXCEPT ![n] = p]
    /\ decisions' = decisions + 1

(* A decision that moves nothing: a hold, its release, a remark on a plan. *)
Remark ==
    /\ decisions' = decisions + 1
    /\ UNCHANGED <<status, phase>>

Next ==
    \/ Remark
    \/ \E s \in Sprints :
        \/ Plan(s) \/ Start(s) \/ Submit(s) \/ Withdraw(s) \/ SendBack(s)
        \/ Advance(s, "acceptance", "retrospective")
        \/ Advance(s, "retrospective", "next_planning")
        \/ \E n \in Sprints : HandOver(s, n)

Spec == Init /\ [][Next]_lifecycleVars
=============================================================================
