------------------------------- MODULE PmSync -------------------------------
(***************************************************************************)
(* One task of a project kept in GitHub or Notion and in Actio: the sync   *)
(* (application/sync-project.ts), the resolution of conflicts              *)
(* (resolve-conflict.ts) and the edits of people (routes.ts) of            *)
(* modules/pm, each interrupted at its awaits.                             *)
(*                                                                         *)
(* The outside is EXTERNAL: people change a field there at any time.       *)
(* Values are members of a small set: what matters is which are equal.     *)
(*                                                                         *)
(* The lock against a second sync of a project lives in the memory of one  *)
(* process (SyncLock): one process is assumed.                             *)
(***************************************************************************)
EXTENDS Naturals, FiniteSets

CONSTANTS
    Fields,             \* TRACKED_FIELDS
    Written,            \* the fields the source's writeback carries: not all
                        \* of them for any source (external-source.ts)
    Texts,              \* values of a field other than "status"
    Resolvers,          \* people and the merging model, resolving conflicts
    None,               \* no row, no version
    Overlap,            \* what may happen during a sync: "edit", "resolve"
    MaxEdits,           \* bound on the edits in Actio
    MaxOutside,         \* bound on the changes outside
    MaxFaults           \* bound on writebacks that fail

Values(f) == IF f = "status" THEN {"open", "closed"} ELSE Texts

Versions == {v \in [Fields -> UNION {Values(f) : f \in Fields}] :
                \A f \in Fields : v[f] \in Values(f)}

VARIABLES
    outside,            \* EXTERNAL: the issue; how often people changed it
    row,                \* pm_tasks: the task, or None
    base,               \* the newest of pm_task_snapshots, or None
    conflict,           \* pm_conflicts: the newest row that was opened; those
                        \* written as resolved (force_external) are left out
    sync,               \* the sync under way
    resolvers,          \* the resolutions under way
    edits,              \* history: how many edits people made in Actio, and the
                        \* fields they gave a value that no writeback carries
    faults,
    overlaps            \* history: what has happened during syncs so far

pmVars == <<outside, row, base, conflict, sync, resolvers, edits, faults, overlaps>>

Quiet == [at |-> "idle", ext |-> None, news |-> 0, row |-> None, base |-> None]
Away == [at |-> "idle", of |-> None, merged |-> None]
NoConflict == [id |-> 0, pending |-> FALSE, local |-> None, ext |-> None, base |-> None,
               news |-> 0]

PmInit ==
    /\ outside = [v |-> [f \in Fields |-> IF f = "status" THEN "open"
                                          ELSE CHOOSE x \in Texts : TRUE], changes |-> 0]
    /\ row = None /\ base = None
    /\ conflict = NoConflict
    /\ sync = Quiet
    /\ resolvers = [r \in Resolvers |-> Away]
    /\ edits = [made |-> 0, unsent |-> {}]
    /\ faults = 0 /\ overlaps = {}

Resting == \A r \in Resolvers : resolvers[r].at \notin {"claimed", "applied"}

(* What falls into a sync is remembered.                                   *)
Falls(kind, intoSync) ==
    /\ intoSync => kind \in Overlap
    /\ overlaps' = IF intoSync THEN overlaps \cup {kind} ELSE overlaps

-----------------------------------------------------------------------------
(* People.                                                                 *)

ChangeOutside(f, x) ==
    /\ outside.changes < MaxOutside
    /\ x \in Values(f) \ {outside.v[f]}
    /\ outside' = [v |-> [outside.v EXCEPT ![f] = x], changes |-> outside.changes + 1]
    /\ UNCHANGED <<row, base, conflict, sync, resolvers, edits, faults, overlaps>>

(* PUT /tasks/:taskId                                                      *)
Edit(f, x) ==
    /\ row # None /\ edits.made < MaxEdits
    /\ Falls("edit", sync.at # "idle")
    /\ x \in Values(f) \ {row.v[f]}
    /\ row' = [v |-> [row.v EXCEPT ![f] = x], dirty |-> TRUE]
    /\ edits' = [made |-> edits.made + 1, unsent |-> edits.unsent \cup ({f} \ Written)]
    /\ UNCHANGED <<outside, base, conflict, sync, resolvers, faults>>

-----------------------------------------------------------------------------
(* domain/conflict-policy.ts and sync-plan.ts                              *)

Changed(a, b) == {f \in Fields : a[f] # b[f]}

(* overlayChanges: the changes of both sides, the outside's where both     *)
(* changed a field.                                                        *)
Overlaid(b, local, ext) ==
    [f \in Fields |-> IF ext[f] # b[f] THEN ext[f] ELSE local[f]]

Overlapping(b, local, ext) == Changed(b, local) \cap Changed(b, ext)

(* Stage 3: most fields changed outside, or one side closed what is open   *)
(* on the other.                                                           *)
ForcesExternal(b, local, ext) ==
    \/ 10 * Cardinality(Changed(b, ext)) > 7 * Cardinality(Fields)
    \/ {local["status"], ext["status"]} = {"open", "closed"}

-----------------------------------------------------------------------------
(* The sync.                                                               *)

SyncTo(state) == sync' = state

(* One sync of a project at a time; first the issue is fetched.            *)
StartSync ==
    /\ sync.at = "idle"
    /\ Falls("resolve", ~Resting)
    /\ SyncTo([Quiet EXCEPT !.at = "fetched", !.ext = outside.v, !.news = outside.changes])
    /\ UNCHANGED <<outside, row, base, conflict, resolvers, edits, faults>>

ReadRow ==
    /\ sync.at = "fetched"
    /\ SyncTo([sync EXCEPT !.at = "reading", !.row = row])
    /\ UNCHANGED <<outside, row, base, conflict, resolvers, edits, faults, overlaps>>

ReadBase ==
    /\ sync.at = "reading"
    /\ SyncTo([sync EXCEPT !.at = "comparing", !.base = base])
    /\ UNCHANGED <<outside, row, base, conflict, resolvers, edits, faults, overlaps>>

(* Without a snapshot, what is stored is taken for the base.               *)
Base == IF sync.base = None THEN sync.row.v ELSE sync.base.v

(* Mutant: the outside is compared with the row, not with what it was.     *)
DecisionByRow(pending) ==
    IF sync.row = None THEN "create"
    ELSE IF pending THEN "await_resolution"
    ELSE IF sync.row.v = sync.ext THEN "keep"
    ELSE "apply_external"

(* decideTaskSync                                                          *)
Decision(pending) ==
    IF sync.row = None THEN "create"
    ELSE IF pending THEN "await_resolution"
    ELSE IF Changed(Base, sync.ext) = {} THEN "keep"
    ELSE IF ~sync.row.dirty THEN "apply_external"
    ELSE "conflict"

Compare ==
    /\ sync.at = "comparing"
    /\ SyncTo([sync EXCEPT !.at = Decision(conflict.pending)])
    /\ UNCHANGED <<outside, row, base, conflict, resolvers, edits, faults, overlaps>>

Keep ==
    /\ sync.at = "keep"
    /\ SyncTo([sync EXCEPT !.at = "pushing"])
    /\ UNCHANGED <<outside, row, base, conflict, resolvers, edits, faults, overlaps>>

(* refreshPendingConflict: by the conflict's id, whatever its status.      *)
Refresh ==
    /\ sync.at = "await_resolution"
    /\ conflict' = [conflict EXCEPT !.ext = sync.ext, !.news = sync.news]
    /\ SyncTo([sync EXCEPT !.at = "pushing"])
    /\ UNCHANGED <<outside, row, base, resolvers, edits, faults, overlaps>>

CreateTask ==
    /\ sync.at = "create"
    /\ row' = [v |-> sync.ext, dirty |-> FALSE]
    /\ SyncTo([sync EXCEPT !.at = "pulled"])
    /\ UNCHANGED <<outside, base, conflict, resolvers, edits, faults, overlaps>>

(* The columns of the outside; the flag is left as it is.                  *)
ApplyExternal ==
    /\ sync.at = "apply_external"
    /\ row' = [row EXCEPT !.v = sync.ext]
    /\ SyncTo([sync EXCEPT !.at = "pulled"])
    /\ UNCHANGED <<outside, base, conflict, resolvers, edits, faults, overlaps>>

(* resolveOnPull, stages 3 and 1.                                          *)
MergeOnPull ==
    LET local == sync.row.v
        forced == ForcesExternal(Base, local, sync.ext)
        merged == IF forced THEN sync.ext ELSE Overlaid(Base, local, sync.ext)
    IN
    /\ sync.at = "conflict"
    /\ forced \/ Overlapping(Base, local, sync.ext) = {}
    /\ row' = [v |-> merged, dirty |-> merged # sync.ext]
    /\ SyncTo([sync EXCEPT !.at = "pulled"])
    /\ UNCHANGED <<outside, base, conflict, resolvers, edits, faults, overlaps>>

(* resolveOnPull, stage 2: people or the model have to decide.             *)
OpenConflict ==
    /\ sync.at = "conflict"
    /\ ~ForcesExternal(Base, sync.row.v, sync.ext)
    /\ Overlapping(Base, sync.row.v, sync.ext) # {}
    /\ conflict' = [id |-> conflict.id + 1, pending |-> TRUE, local |-> sync.row.v,
                    ext |-> sync.ext, base |-> Base, news |-> sync.news]
    /\ SyncTo([sync EXCEPT !.at = "pushing"])
    /\ UNCHANGED <<outside, row, base, resolvers, edits, faults, overlaps>>

(* The snapshot of the outside becomes the base of the next pull.          *)
SaveBase ==
    /\ sync.at = "pulled"
    /\ base' = [v |-> sync.ext, news |-> sync.news]
    /\ SyncTo([sync EXCEPT !.at = "pushing"])
    /\ UNCHANGED <<outside, row, conflict, resolvers, edits, faults, overlaps>>

(* pushDirty: a task in conflict is not written back.                      *)
StartPush ==
    /\ sync.at = "pushing"
    /\ SyncTo(IF row.dirty /\ ~conflict.pending
              THEN [sync EXCEPT !.at = "writing", !.row = row] ELSE Quiet)
    /\ UNCHANGED <<outside, row, base, conflict, resolvers, edits, faults, overlaps>>

Patched == [f \in Fields |-> IF f \in Written THEN sync.row.v[f] ELSE outside.v[f]]

Writeback ==
    /\ sync.at = "writing"
    /\ outside' = [outside EXCEPT !.v = Patched]
    /\ SyncTo([sync EXCEPT !.at = "written"])
    /\ UNCHANGED <<row, base, conflict, resolvers, edits, faults, overlaps>>

(* Mutant: a task whose writeback failed is not tried again.               *)
CleanAfterFault == [row EXCEPT !.dirty = FALSE]

AfterFault == row

(* The writeback fails, before or after the source took it.                *)
WritebackFails ==
    /\ sync.at = "writing" /\ faults < MaxFaults
    /\ faults' = faults + 1
    /\ outside' \in {outside, [outside EXCEPT !.v = Patched]}
    /\ row' = AfterFault
    /\ SyncTo(Quiet)
    /\ UNCHANGED <<base, conflict, resolvers, edits, overlaps>>

(* The labels become those sent, whatever people made of them meanwhile.   *)
ClearDirty ==
    /\ sync.at = "written"
    /\ row' = [v |-> [row.v EXCEPT !["labels"] = sync.row.v["labels"]], dirty |-> FALSE]
    /\ SyncTo([sync EXCEPT !.at = "saving"])
    /\ UNCHANGED <<outside, base, conflict, resolvers, edits, faults, overlaps>>

(* What was sent becomes the base, so that it does not come back as news.  *)
SaveSent ==
    /\ sync.at = "saving"
    /\ base' = [v |-> sync.row.v, news |-> sync.news]
    /\ SyncTo(Quiet)
    /\ UNCHANGED <<outside, row, conflict, resolvers, edits, faults, overlaps>>

SyncStep ==
    \/ ReadRow \/ ReadBase \/ Compare \/ Keep \/ Refresh \/ CreateTask \/ ApplyExternal
    \/ MergeOnPull \/ OpenConflict \/ SaveBase \/ StartPush
    \/ Writeback \/ WritebackFails \/ ClearDirty \/ SaveSent

-----------------------------------------------------------------------------
(* The resolution of a conflict.                                           *)

ResolverTo(r, state) == resolvers' = [resolvers EXCEPT ![r] = state]

Load(r) ==
    /\ resolvers[r].at = "idle" /\ conflict.pending
    /\ ResolverTo(r, [Away EXCEPT !.at = "deciding", !.of = conflict])
    /\ UNCHANGED <<outside, row, base, conflict, sync, edits, faults, overlaps>>

(* The model fails or is unavailable; the data of a person is invalid.     *)
GiveUp(r) ==
    /\ resolvers[r].at = "deciding"
    /\ ResolverTo(r, Away)
    /\ UNCHANGED <<outside, row, base, conflict, sync, edits, faults, overlaps>>

(* updateIfPending                                                         *)
StillPending(c) == conflict.id = c.id /\ conflict.pending

(* The conflict is claimed first, or found resolved.  People may choose    *)
(* either side, or give every field a value of their own.                  *)
Claim(r, v) ==
    /\ resolvers[r].at = "deciding"
    /\ Falls("resolve", sync.at # "idle")
    /\ IF StillPending(resolvers[r].of)
       THEN /\ conflict' = [conflict EXCEPT !.pending = FALSE]
            /\ ResolverTo(r, [resolvers[r] EXCEPT !.at = "claimed", !.merged = v])
            /\ edits' = [made |-> edits.made, unsent |-> edits.unsent \cup
                            (Changed(v, resolvers[r].of.ext) \ Written)]
       ELSE /\ ResolverTo(r, Away)
            /\ UNCHANGED <<conflict, edits>>
    /\ UNCHANGED <<outside, row, base, sync, faults>>

(* Mutant: what was resolved is taken for sent.                            *)
ResolvedClean(r) == [v |-> resolvers[r].merged, dirty |-> FALSE]

Resolved(r) ==
    [v |-> resolvers[r].merged, dirty |-> resolvers[r].merged # resolvers[r].of.ext]

Apply(r) ==
    /\ resolvers[r].at = "claimed"
    /\ row' = Resolved(r)
    /\ ResolverTo(r, [resolvers[r] EXCEPT !.at = "applied"])
    /\ UNCHANGED <<outside, base, conflict, sync, edits, faults, overlaps>>

(* The outside as the conflict had it is the base of the next pull.        *)
SaveResolved(r) ==
    /\ resolvers[r].at = "applied"
    /\ base' = [v |-> resolvers[r].of.ext, news |-> resolvers[r].of.news]
    /\ ResolverTo(r, Away)
    /\ UNCHANGED <<outside, row, conflict, sync, edits, faults, overlaps>>

PmNext ==
    \/ \E f \in Fields : \E x \in Values(f) : ChangeOutside(f, x) \/ Edit(f, x)
    \/ StartSync \/ SyncStep
    \/ \E r \in Resolvers :
        \/ Load(r) \/ GiveUp(r) \/ Apply(r) \/ SaveResolved(r)
        \/ \E v \in Versions : Claim(r, v)

PmSpec == PmInit /\ [][PmNext]_pmVars

-----------------------------------------------------------------------------
(* Properties.                                                             *)

(* A pull is about to store what it takes for a change outside, though     *)
(* nobody changed the task there since the last sync.                      *)
UnchangedOutside ==
    sync.at \in {"apply_external", "conflict"} /\ base # None /\ sync.news = base.news

(* A task nobody changed outside since the last sync keeps the values it   *)
(* has in Actio through every step of a pull (ApplyExternal, MergeOnPull), *)
(* however the edits of people fall between the steps, unless a writeback  *)
(* failed or a field that no writeback carries was given a value of its    *)
(* own in Actio: "if unchanged outside, a pull does not overwrite"         *)
(* (spec/feature/pm/completion.md, AT-PM-SYNC).                            *)
KeptWhileUnchanged ==
    UnchangedOutside /\ overlaps \subseteq {"edit"} /\ faults = 0 /\ edits.unsent = {}
    => row' = row

(* As long as syncs run alone, a task that differs from the outside is     *)
(* known to between them, whatever writebacks fail: it waits to be written *)
(* back, a conflict is open, or the next pull will see the outside's       *)
(* change.                                                                 *)
NothingForgotten ==
    sync.at = "idle" /\ Resting /\ overlaps = {} /\ base # None /\ row.v # outside.v =>
        row.dirty \/ conflict.pending \/ base.v # outside.v

(* In the end Actio and the outside agree, or people are asked to decide.  *)
Agreed == row # None /\ (row.v = outside.v \/ conflict.pending)
=============================================================================
