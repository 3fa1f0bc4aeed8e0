--------------------------- MODULE ChatDiscussion ---------------------------
(***************************************************************************)
(* Di's part in the discussion of one channel: consent (the setting, in    *)
(* routes.ts), the proposal (discussion.ts), and the recheck before it is  *)
(* delivered (delivery.ts), all of modules/task/chat.                      *)
(*                                                                         *)
(* Di and Discord are EXTERNAL.  The messages of people are numbered; Di   *)
(* may propose one remark about each.  A tick runs beside another one only *)
(* if the lease of the other ran out; lost answers are in ChatOutbox.      *)
(***************************************************************************)
EXTENDS Naturals, FiniteSets

CONSTANTS
    Workers,            \* processes that run the chat tick
    MaxMessages,        \* bound on the messages of people
    MaxRevision,        \* bound on the changes of the setting
    MaxOverlaps         \* bound on leases that run out

VARIABLES
    said,               \* EXTERNAL: the last message of people
    saved,              \* the last one in the log
    setting,            \* record 'discussion-setting'
    ops,                \* outbox: the operation about each message
    consent,            \* record 'discussion-delivery': revision of the setting
    remarks,            \* EXTERNAL: how often Di's remark about each was posted
    workers,
    overlaps

discussionVars == <<said, saved, setting, ops, consent, remarks, workers, overlaps>>

Remarks == 1..MaxMessages

Asleep == [at |-> "idle", setting |-> 0, human |-> 0, todo |-> {}, fresh |-> {}, op |-> 0,
           since |-> 0, news |-> 0, ok |-> FALSE]

DiscussionInit ==
    /\ said = 0 /\ saved = 0
    /\ setting = [enabled |-> FALSE, revision |-> 0, from |-> 0]
    /\ ops = [m \in Remarks |-> "none"]
    /\ consent = [m \in Remarks |-> 0]
    /\ remarks = [m \in Remarks |-> 0]
    /\ workers = [w \in Workers |-> Asleep]
    /\ overlaps = 0

Goto(w, state) == workers' = [workers EXCEPT ![w] = state]

Say ==
    /\ said < MaxMessages
    /\ said' = said + 1
    /\ UNCHANGED <<saved, setting, ops, consent, remarks, workers, overlaps>>

(* A leader turns the participation of Di on (from the next message) or    *)
(* off.                                                                    *)
Toggle ==
    /\ setting.revision < MaxRevision
    /\ setting' = [enabled |-> ~setting.enabled, revision |-> setting.revision + 1,
                   from |-> IF setting.enabled THEN setting.from ELSE said]
    /\ UNCHANGED <<said, saved, ops, consent, remarks, workers, overlaps>>

(* The room is read, then the setting, then the conversation.              *)
StartTick(w) ==
    /\ workers[w].at = "idle"
    /\ IF \A v \in Workers : workers[v].at = "idle" THEN UNCHANGED overlaps
       ELSE overlaps < MaxOverlaps /\ overlaps' = overlaps + 1
    /\ saved' = said
    /\ Goto(w, [Asleep EXCEPT !.at = "reading", !.since = setting.revision])
    /\ UNCHANGED <<said, setting, ops, consent, remarks>>

(* What is sent to Di, if it is asked at all.                              *)
Consider(w) ==
    /\ workers[w].at = "reading"
    /\ Goto(w, [workers[w] EXCEPT
                  !.at = IF setting.enabled /\ saved > setting.from THEN "asking" ELSE "listing",
                  !.setting = setting.revision, !.human = saved])
    /\ UNCHANGED <<said, saved, setting, ops, consent, remarks, overlaps>>

StillCurrent(d) == setting.enabled /\ setting.revision = d.setting /\ saved = d.human

(* enqueue: an operation is recorded once, whatever became of it.          *)
Enqueued(m) == IF ops[m] = "none" THEN "queued" ELSE ops[m]

(* Di has nothing to say, or its proposal is recorded with the consent.    *)
Propose(w) ==
    LET d == workers[w] IN
    /\ d.at = "asking"
    /\ Goto(w, [d EXCEPT !.at = "listing"])
    /\ \/ UNCHANGED <<ops, consent>>
       \/ /\ StillCurrent(d)
          /\ ops' = [ops EXCEPT ![d.human] = Enqueued(d.human)]
          /\ consent' = [consent EXCEPT ![d.human] = d.setting]
    /\ UNCHANGED <<said, saved, setting, remarks, overlaps>>

ListOps(w) ==
    /\ workers[w].at = "listing"
    /\ Goto(w, [workers[w] EXCEPT !.at = "delivering",
                    !.todo = {m \in Remarks : ops[m] \in {"queued", "sending", "unknown"}},
                    !.fresh = {m \in Remarks : ops[m] = "queued"}])
    /\ UNCHANGED <<said, saved, setting, ops, consent, remarks, overlaps>>

(* An operation listed as under way is claimed without a recheck.          *)
Resume(w, m) ==
    /\ workers[w].at = "delivering" /\ m \in workers[w].todo \ workers[w].fresh
    /\ Goto(w, [workers[w] EXCEPT !.at = "deciding", !.todo = @ \ {m}, !.op = m, !.ok = TRUE])
    /\ UNCHANGED <<said, saved, setting, ops, consent, remarks, overlaps>>

(* The channel is read once more before a new one is delivered.            *)
Refresh(w, m) ==
    /\ workers[w].at = "delivering" /\ m \in workers[w].todo \cap workers[w].fresh
    /\ saved' = said
    /\ Goto(w, [workers[w] EXCEPT !.at = "checking", !.todo = @ \ {m}, !.op = m,
                                  !.setting = consent[m], !.since = setting.revision, !.news = said])
    /\ UNCHANGED <<said, setting, ops, consent, remarks, overlaps>>

(* Mutant: consent withdrawn and given again counts as never withdrawn.    *)
EnabledNow(d) == setting.enabled /\ saved = d.op

(* Mutant: what people have said meanwhile does not matter.                *)
ConsentOnly(d) == setting.enabled /\ setting.revision = d.setting

UpToDate(d) == setting.enabled /\ setting.revision = d.setting /\ saved = d.op

Check(w) ==
    /\ workers[w].at = "checking"
    /\ Goto(w, [workers[w] EXCEPT !.at = "deciding", !.ok = UpToDate(workers[w])])
    /\ UNCHANGED <<said, saved, setting, ops, consent, remarks, overlaps>>

(* Cancelled: the operation as it was listed is written back as failed.    *)
Cancel(w) ==
    /\ workers[w].at = "deciding" /\ ~workers[w].ok
    /\ ops' = [ops EXCEPT ![workers[w].op] = "failed"]
    /\ Goto(w, [workers[w] EXCEPT !.at = "delivering"])
    /\ UNCHANGED <<said, saved, setting, consent, remarks, overlaps>>

(* Mutant: an operation another worker has in hand is claimed as if new.   *)
ClaimedAnew(m) == ops[m] \in {"queued", "sending"}

New(m) == ops[m] = "queued"

(* claim, and the look for the remark.  Only a first attempt posts it.     *)
Claim(w) ==
    LET m == workers[w].op IN
    /\ workers[w].at = "deciding" /\ workers[w].ok
    /\ IF New(m)
       THEN /\ ops' = [ops EXCEPT ![m] = "sending"]
            /\ Goto(w, [workers[w] EXCEPT !.at = "posting"])
       ELSE /\ ops' = IF ops[m] \in {"sent", "failed"} THEN ops
                      ELSE [ops EXCEPT ![m] = IF remarks[m] > 0 THEN "sent" ELSE "unknown"]
            /\ Goto(w, [workers[w] EXCEPT !.at = "delivering"])
    /\ UNCHANGED <<said, saved, setting, consent, remarks, overlaps>>

(* deliver and finish; finish leaves a sent operation alone.               *)
Post(w) ==
    LET m == workers[w].op IN
    /\ workers[w].at = "posting"
    /\ remarks' = [remarks EXCEPT ![m] = @ + 1]
    /\ ops' = [ops EXCEPT ![m] = "sent"]
    /\ Goto(w, [workers[w] EXCEPT !.at = "delivering"])
    /\ UNCHANGED <<said, saved, setting, consent, overlaps>>

EndTick(w) ==
    /\ workers[w].at = "delivering" /\ workers[w].todo = {}
    /\ Goto(w, Asleep)
    /\ UNCHANGED <<said, saved, setting, ops, consent, remarks, overlaps>>

DiscussionNext ==
    \/ Say \/ Toggle
    \/ \E w \in Workers :
        \/ StartTick(w) \/ Consider(w) \/ Propose(w) \/ ListOps(w)
        \/ \E m \in Remarks : Resume(w, m) \/ Refresh(w, m)
        \/ Check(w) \/ Cancel(w) \/ Claim(w) \/ Post(w) \/ EndTick(w)

DiscussionSpec == DiscussionInit /\ [][DiscussionNext]_discussionVars

-----------------------------------------------------------------------------
(* Properties.                                                             *)

Posts(w) == workers[w].at = "posting" /\ remarks' # remarks

(* Di remarks on a message once, whichever worker delivers, and only while *)
(* the remark is current.                                                  *)
(* "Recheck after generation; humans may have replied while Di was         *)
(* thinking": no remark is posted on a message that had been answered when *)
(* the channel was last read.  And consent is for what was enabled: a      *)
(* remark proposed before a leader turned Di off is not posted by a        *)
(* delivery begun after that, not even once Di is on again, unless Di was  *)
(* asked again.                                                            *)
RemarkIsCurrent ==
    [][\A w \in Workers : Posts(w) =>
        /\ remarks[workers[w].op] = 0
        /\ workers[w].op = workers[w].news
        /\ workers[w].since <= workers[w].setting]_discussionVars
=============================================================================
