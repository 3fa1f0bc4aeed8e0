------------------------ MODULE ImplementationReview ------------------------
(***************************************************************************)
(* One subject of a specification and the tasks that implement it: links,  *)
(* people's confirmations and the state shown (modules/task/implementation *)
(* store.ts, state.ts, routes.ts), and the triggers that number the        *)
(* changes of linked tasks (src/db/implementation-migration.ts).           *)
(*                                                                         *)
(* Praeforma is EXTERNAL: it revises the specification at any time.  A     *)
(* request fetches its manifest first and runs one transaction with it     *)
(* later.  Assumed of Praeforma, whose revision is an opaque string: a     *)
(* revision never comes back once another took its place.  A fingerprint   *)
(* is what it digests.  A task that left the team and a deleted one look   *)
(* the same, "missing".  Titles, notes and who may confirm are left out.   *)
(***************************************************************************)
EXTENDS Naturals, FiniteSets

CONSTANTS
    Tasks,
    People,             \* screens and the requests made from them
    None,
    MaxRevision,        \* bound on the revisions of the specification
    MaxEdits            \* bound on the changes of tasks

VARIABLES
    specification,      \* the revision at Praeforma
    tasks,              \* their status; "none": not created yet
    versions,           \* pf_implementation_task_versions
    links,              \* pf_implementation_links
    reviews,            \* pf_implementation_reviews, by fingerprint
    screens,            \* what each person has in front of them
    requests,
    edits,
    epoch,              \* history: changes of what people accept
    accepted            \* history: the epochs people saw when they confirmed

reviewVars == <<specification, tasks, versions, links, reviews, screens, requests,
                edits, epoch, accepted>>

Linked == {t \in DOMAIN links : links[t] # None}

ReviewInit ==
    /\ specification = 1
    /\ tasks \in [Tasks -> {"none", "open"}]
    /\ versions = [t \in Tasks |-> 0]
    /\ links = [t \in Tasks |-> None]
    /\ reviews = {}
    /\ screens = [p \in People |-> None]
    /\ requests = [p \in People |-> None]
    /\ edits = 0 /\ epoch = 0 /\ accepted = {}

-----------------------------------------------------------------------------
(* state.ts and the read that every operation begins with.                 *)

(* Mutant: the number of a task's changes is not digested.                 *)
RowUnnumbered(t) == [id |-> t, status |-> tasks[t], link |-> links[t]]

Row(t) == [id |-> t, status |-> tasks[t], link |-> links[t], version |-> versions[t]]

Fingerprint(revision) == [revision |-> revision, tasks |-> {Row(t) : t \in Linked}]

AllDone == \A t \in Linked : tasks[t] = "done"

ReviewState(revision) ==
    IF Linked = {} THEN "unregistered"
    ELSE IF \A t \in Linked : links[t].revision # revision THEN "specification_changed"
    ELSE IF ~AllDone
    THEN IF \E t \in Linked : tasks[t] # "done" /\ links[t].isBacklog
         THEN "returned" ELSE "in_progress"
    ELSE IF Fingerprint(revision) \in reviews THEN "completed" ELSE "awaiting_confirmation"

-----------------------------------------------------------------------------
(* Praeforma, and whoever writes tasks.                                    *)

Revise ==
    /\ specification < MaxRevision
    /\ specification' = specification + 1
    /\ epoch' = epoch + 1
    /\ UNCHANGED <<tasks, versions, links, reviews, screens, requests, edits, accepted>>

(* The triggers: only a linked task's changes are numbered.                *)
Numbered(t) ==
    versions' = [versions EXCEPT ![t] = IF t \in Linked THEN @ + 1 ELSE @]

(* The status, the team, or only the content of a task changes.            *)
EditTask(t, status) ==
    /\ edits < MaxEdits
    /\ edits' = edits + 1
    /\ tasks[t] # "none"
    /\ status # tasks[t] \/ (status # "missing" /\ t \in Linked)
    /\ tasks' = [tasks EXCEPT ![t] = status]
    /\ Numbered(t)
    /\ epoch' = IF t \in Linked THEN epoch + 1 ELSE epoch
    /\ UNCHANGED <<specification, links, reviews, screens, requests, accepted>>

-----------------------------------------------------------------------------
(* Requests: the manifest, then the transaction.                           *)

FetchManifest(p, purpose) ==
    /\ requests[p] = None
    /\ purpose = "change" => screens[p] # None
    /\ requests' = [requests EXCEPT ![p] = [purpose |-> purpose, revision |-> specification]]
    /\ UNCHANGED <<specification, tasks, versions, links, reviews, screens, edits, epoch,
                   accepted>>

Serves(p, purpose) == requests[p] # None /\ requests[p].purpose = purpose

Answered(p) == requests' = [requests EXCEPT ![p] = None]

List(p) ==
    /\ Serves(p, "list")
    /\ screens' = [screens EXCEPT ![p] =
            [fingerprint |-> Fingerprint(requests[p].revision), epoch |-> epoch]]
    /\ Answered(p)
    /\ UNCHANGED <<specification, tasks, versions, links, reviews, edits, epoch, accepted>>

(* What the person saw is what the transaction finds.                      *)
Current(p) ==
    /\ Serves(p, "change")
    /\ Fingerprint(requests[p].revision) = screens[p].fingerprint

Confirm(p) ==
    /\ Current(p)
    /\ ReviewState(requests[p].revision) = "awaiting_confirmation"
    /\ reviews' = reviews \cup {screens[p].fingerprint}
    /\ accepted' = accepted \cup {screens[p].epoch}
    /\ Answered(p)
    /\ UNCHANGED <<specification, tasks, versions, links, screens, edits, epoch>>

(* A link made again takes the new revision and keeps its kind.            *)
LinkTo(p, t, isBacklog) ==
    /\ links' = [links EXCEPT ![t] =
            [revision |-> requests[p].revision,
             isBacklog |-> IF t \in Linked THEN links[t].isBacklog ELSE isBacklog]]
    /\ epoch' = IF links' = links THEN epoch ELSE epoch + 1
    /\ Answered(p)
    /\ UNCHANGED <<specification, versions, reviews, screens, edits, accepted>>

LinkTask(p, t) ==
    /\ Current(p)
    /\ tasks[t] \notin {"none", "missing"}
    /\ LinkTo(p, t, FALSE)
    /\ UNCHANGED tasks

(* A new task; after others it says that the work came back.               *)
AddBacklog(p, t) ==
    /\ Current(p)
    /\ tasks[t] = "none"
    /\ tasks' = [tasks EXCEPT ![t] = "open"]
    /\ LinkTo(p, t, Linked # {})

Refused(p) ==
    /\ requests[p] # None
    /\ Answered(p)
    /\ UNCHANGED <<specification, tasks, versions, links, reviews, screens, edits, epoch,
                   accepted>>

ReviewNext ==
    \/ Revise
    \/ \E t \in Tasks, s \in {"open", "done", "missing"} : EditTask(t, s)
    \/ \E p \in People :
        \/ \E purpose \in {"list", "change"} : FetchManifest(p, purpose)
        \/ List(p) \/ Confirm(p) \/ Refused(p)
        \/ \E t \in Tasks : LinkTask(p, t) \/ AddBacklog(p, t)

ReviewSpec == ReviewInit /\ [][ReviewNext]_reviewVars

-----------------------------------------------------------------------------
(* Properties.                                                             *)

(* "Task completion and human acceptance are separate facts" and           *)
(* "Monotonic versions invalidate acceptance": a subject is shown as       *)
(* completed only if somebody confirmed it and nothing they had looked at  *)
(* changed since: neither the specification, nor a task, be it reopened    *)
(* and done again, nor a link.                                             *)
CompletedWasAccepted ==
    ReviewState(specification) = "completed" => AllDone /\ epoch \in accepted
=============================================================================
