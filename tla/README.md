# Actio: verification of its protocols

Actio manages the tasks of teams. Much of it is CRUD over rows; what this directory verifies are the
parts where several people, processes and services act on the same state over time: sprints and the
human decisions that move them, their conversation with Concordia (Cc), sprint chat on Discord and
Slack, notifications, the list cache, the critical path, the sync with GitHub and Notion, delegated
work, the review of implemented specifications, and the projects of Concordia. It holds TLA+ modules of
these parts, TLC configurations that check them on small instances, and TLAPS proofs of the main
invariants for every instance.

## 1. Inventory

### Components

| component | where | state | operations | what makes it correct |
|---|---|---|---|---|
| Planning store | `modules/task/planning/{sprint-store,postgres-sprint-store}.ts` | `sprints`, `tasks.sprint_id` | create; change: update_goal, extend, reschedule, assign, remove | nobody overwrites an unseen change; open periods disjoint; closed is final |
| Specification import | `planning/{spec,postgres-spec}-import-store.ts` | `tasks`, `sprints.revision` | import | only the revision of a sprint moves |
| Phase judge | package `@ludiars/terpsichore` (external) | none | `decideSprintPhase` and helpers | decides on current evidence only |
| Gate store | `modules/task/sprint-gates/{store,persistence,effects,snapshot,legacy-guard}.ts` | `sprint_gates`, `_history`, `_outbox`, `_events` | view, context, decide, pending, delivery, eventOutcome, rejectExternal | one sprint active; answers applied once, on what was seen; phase and status agree; history without gaps |
| Gate worker | `sprint-gates/{worker,runtime,concordia-client}.ts` | memory of a cycle | `runSprintGateCycle`, every 30 s | commit before publish, outcome before ack, nothing forgotten |
| Task routes | `modules/task/routes.ts` | `tasks` | POST, PUT/PATCH, DELETE `/api/tasks` | membership changes only through planning; people are told what happened |
| Sprint chat | `modules/task/chat/*` | `task_chat_records`, lease | a tick per connection: deliver, publish, ingest, review, discuss; intake routes | each message once per decision, no archive before the log is complete, intakes as people wrote them, Di only with consent |
| Task notifications | `modules/task/notifications/*` | `task_notifications` | enqueue, dispatch, deadline scan | each is sent or given up on after five attempts |
| Task list cache | `modules/task/cache/*` | Redis keys, in-process generation | getOrLoad, invalidate | no list older than the last write, beyond the time to live |
| Critical path | `modules/task/critical-path/*` | derived columns of `tasks` | recompute | longest path; cycles reported; the rows are those of the last change |
| PM sync | `modules/pm/*` | `pm_tasks`, snapshots, conflicts | pull, writeback, resolve | no edit lost, nothing forgotten, both sides agree in the end |
| Delegations | `modules/task/terpsichore/{execution-store,execution-routes}.ts` | `terpsichore_runs` | start, look | one under way per project, ended as Cc ended it |
| Implementation review | `modules/task/implementation/*`, triggers of `src/db/implementation-migration.ts` | links, versions, reviews | list, link, backlog, confirm | completed only if accepted as it is now |
| Team reconciliation | `modules/task/team/*` | `team_refs`, `project_refs` | sync, every ten minutes | tasks follow renamed codes and assigned teams |
| Identity packages, WebSocket sessions | `packages/{id-service,id-cache}`, `src/ws` | sessions, caches, timers | login, refresh, invalidate, ping | a revoked session is not served |
| Everything else | auth, plugins, settings, secrets, groups, profile, public issues, web server, frontend, migrations | rows and requests | CRUD and plumbing | no protocol |

### How they interact

* The planning store, the gate store and the task routes write the same rows. The stores run one
  transaction per operation, serialized per team (SQLite's writer; on PostgreSQL an advisory lock,
  and for the gate a lock of `tasks` as well, `src/db/sprint-gate-database.ts`). The task routes take
  no lock from their read to their write; nor do the critical path and the team reconciliation, which
  write task rows of their own accord.
* The gate store reads planning rows into a *snapshot*; its digest, the *fingerprint*, pins what a
  person was asked about. An approval writes planning rows back: it starts a sprint, or closes one
  and starts the next. `update_goal` reads the phase of the gate.
* Every change of a gate leaves a row in its outbox. The gate worker publishes it to Cc, fetches
  people's answers, has the store decide them and acknowledges the recorded outcomes. A team connected
  to ordinary chat channels is skipped: there the chat tick does the talking.
* The chat tick reads sprints and gates, keeps its own records, and creates tasks from confirmed
  intakes. Its parts share the lease and the outbox, and otherwise their own kinds of records.
* Every task write calls the listeners of the list cache. The task routes also queue notifications and
  recomputations of the critical path; other writers of tasks do not.

### What is hard

Several people and processes act on one sprint with think time and network calls in between; answers
arrive late, twice, or after the team has moved; calls fail before or after they took effect; leases
run out during slow calls; processes die between two writes; rows read before an await are written
after it; caches and mirrors are filled while what they copy changes; gates were introduced into
installations that already had sprints. `PROJECT.json` lists these hazards by line, with the
properties that cover them.

## 2. Modules

| module | models | state |
|---|---|---|
| `Terpsichore` | the phase judge, **external**: what the store, the tests and the screen rely on | – |
| `SprintPlanning` | the planning tables, every call of the planning API, task edits, the import, and the effects of an approval | `sprints`, `tasks` |
| `SprintGates` | `SprintGateStore` over those tables, and the people who answer | + `gates`, `history`, `outbox`, `events`, `answers` |
| `SprintLifecycle` | abstract: the life of a sprint and which of its moves take a decision | `status`, `phase`, `decisions` |
| `SprintGatesRefinement` | the mapping under which `SprintGates` implements `SprintLifecycle` | – |
| `SprintGateWorker` | the worker cycle await by await, Cc, faults, moved teams, over `SprintGates`, every operation of which may happen between two awaits | + `workers`, `dialogues`, `acks`, `moved` |
| `PlanningClients` | several planners with stale screens, over `SprintPlanning` | + `drafts` |
| `TaskEditing` | PUT and DELETE of tasks as read, check, wait, write, over `SprintPlanning` | + `place`, `edits` |
| `TaskChangeEvents` | PUT of tasks and what people are told of it: read, write, re-read, queue the differences | `task`, `requests`, `queued` |
| `NotificationOutbox` | the notification table and its dispatcher in several processes | `rows`, `cycles`, `received` |
| `TaskListCache` | readers and writers of one list, the generation in Redis and in memory, single flight, time to live | `generation`, `entries`, `inflight`, `requests`, ... |
| `CriticalPath` | the computation of `compute.ts` beside its definition over chains of tasks | – |
| `PathRecompute` | the recomputations a process queues and how they come into the rows, for any computation | `tasks`, `stored`, `owed`, `job` |
| `PmSync` | one synced task: pull, three-way comparison, writeback, conflicts, people on both sides | `outside`, `row`, `base`, `conflict`, `sync`, `resolvers` |
| `TerpsichoreExecution` | delegations: reserve, send, observe; calls lost or late | `runs`, `remote`, `late`, `calls` |
| `ImplementationReview` | one subject, its linked tasks, the triggers that number changes, confirmations | `tasks`, `versions`, `links`, `reviews`, `requests` |
| `ProjectSync` | the tick that copies Cc's projects and lets tasks follow, beside task requests | `registry`, `refs`, `tasks`, `sync` |
| `ChatOutbox` | lease, outbox, delivery in pieces, reconciliation, retries by a leader | `ops`, `lease`, `workers`, `posted`, ... |
| `SprintChannel` | the channel of a sprint from creation to archive, and the reading of its log page by page | `surface`, `ops`, `cursor`, `logged`, ... |
| `ChatIntake` | messages received, edited and deleted; intakes rebuilt, reviewed, confirmed | `messages`, `intakes`, `rejected`, `offset`, ... |
| `ChatDiscussion` | consent to Di, its remarks, and the recheck before one is delivered | `setting`, `ops`, `consent`, ... |
| `Services` | what stands beside the gates, side by side: the modules from `PlanningClients` to `ProjectSync`, with their properties for any constants; the computation of the critical path is a constant there, and `MCServices` gives `CriticalPath` for it | – |
| `SprintChat` | the four parts of chat, side by side, likewise | – |
| `MC*` | values for the constants; `MCServices`, `MCChat` and `MCProgress` check many components in one run | + `part` |
| `SprintPlanningProofs`, `SprintGatesProofs`, `SprintGatesRefinementProofs`, `SprintGateWorkerProofs` | lemmas and theorems about the gates, each module building on the one before | – |
| `PlanningClientsProofs` | about `PlanningClients` and `TaskEditing`, building on `SprintPlanningProofs` | – |
| `TaskNotificationProofs`, `ServicesProofs`, `ChatProofs` | about the services that stand alone and the four parts of chat, each component in a section of its own | – |

How they correspond to the code:

* One action is one transaction of a store, or the code between two awaits of a worker or a route. A
  refused call writes nothing and is no step; a refused *decision* is one, since its outcome is
  recorded (`RejectAnswer`).
* A gate row's `revision` column repeats `state.revision` and is not kept twice. Digests are taken to
  be free of collisions, so a fingerprint *is* what it digests. Of a task only what the component's
  properties tell apart is kept, of a text only whether two are equal.
* An answer carries what its author saw. It stays deliverable until it is rejected, so an applied one
  may be delivered again at any time. Event ids are not reused with other content, except through
  the worker, where the actor decides (`DecideAs`).
* `context` and `view` share a shape: an observation by the judge on the current, or on the changed,
  snapshot. The gate row of a sprint is created by whichever operation loads it first.
* In `SprintGateWorker` people plan, work, note retrospectives and answer at the phase screen between
  the awaits of the workers (`OnScreen`), and answer on Discord about what Cc shows, with any list of
  tasks. Of the set `answers` those of the actor *Discord* are Cc's queue.
* The judge's source is not in the repository. Where it is left open whether a sprint awaiting
  acceptance returns to implementation when a task is reopened, both are modelled.
* External services are whatever their callers allow: a call may fail, take effect and lose its
  answer, or (delegations) arrive after its caller gave up. Crashes and leases that run out are
  actions, counted by `MaxFaults`.
* Variables marked *history* in a module (`accepted`, `owed` of `ProjectSync`, `announced`, ...) are
  read by properties only.

## 3. Runs

| run | question | bounds and why they suffice |
|---|---|---|
| `MCSprintGatesLifecycle` | do the gate tables stay consistent from a legacy active sprint to the start of its successor, and is every step one of `SprintLifecycle`? | two sprints, one task, three approvals (acceptance, retrospective, hand-over), revision 5 for the first gate, exactly the longest path with room for an observation and a context change, and 2 for its successor, which may have been viewed before it starts |
| `MCSprintGatesRework` | with every human action on one sprint, its task and its goal changing: are answers applied once, on what was seen; does rework need resubmission; is the accepted goal pinned? | three answers, five revisions: reject, observe, resubmit, accept |
| `MCSprintGatesStarts` | can approvals start two sprints, or planning calls and a start bring two open periods to overlap? | two sprints, two answers under way at once, three days with room to extend |
| `MCSprintGateWorkerTwo` | two workers on one sprint: is what Cc shows and is told what was committed? | two answers, on Discord or at the phase screen, approvals and holds, one failed call or crash, three gate revisions |
| `MCSprintGateWorkerOne` | is every answer acknowledged and the latest state published in the end? | one worker, a planned or an active sprint with a task done and reopened, an answer on Discord or at the phase screen that approves or rejects tasks, one fault, two moves of the team, two gate revisions |
| `MCServices` | are the services around the gates safe? | below |
| `MCChat` | is sprint chat safe? | below |
| `MCProgress` | do notifications, archives, deletions and syncs get done? | below |
| `MCTaskEditingMembership` | does the rule of the task routes hold when requests are overtaken? It does **not** | two requests, one task, two sprints |
| `MCSprintGateWorkerMoved` | does the rule on lost acks hold when the team moves? It does **not** | one answer, one fault, one move |
| `MCSprintChannelGap` | is a channel archived only when its log is complete? It is **not** | one worker, pages of two, three posts, one fault |
| `MCPmSync` | does a task nobody changed outside keep its values, with a writeback that leaves fields out? It does **not** | two fields of which one is written, two edits, no fault |

`MCServices` (over `Services`), `MCChat` (over `SprintChat`) and `MCProgress` hold components that share
no state, but for the planning tables of `TaskEditing` and `PlanningClients`. The variable `part`,
chosen in the initial state, names the one that moves; the others stand still, in one initial state of
theirs. So a run is the sum, not the product, of its components, each explored in full within the
bounds of its instantiation, and a property of one component is not watered down by the others.

| instantiation (run) | bounds |
|---|---|
| `NotificationOutbox` (`MCServices`, `MCProgress`) | two keys, one of them without a channel (safety); two processes, batches of one, two attempts, one crash or failed write: batches overlap, rows starve each other, outcomes overwrite each other |
| `Cache`, `BusyCache`, `FaultyCache` (`MCServices`) | two processes throughout: two readers around one write, who may join each other, a tick and a time to live of one; one reader and two writes, whose announcements overlap; one reader, one write, one failed call and two ticks. `ListsStayFresh` has them all together |
| `Events` (`MCServices`) | two requests with any body, three writes, one failure to queue |
| `Editing`, `Clients` (`MCServices`) | two requests, two sprints, one task; two planners, two sprints, three days, three row revisions |
| `Pm`, `EditedPm` (`MCServices`), `Pm` (`MCProgress`) | two fields, two edits on each side, two resolvers; a writeback that may fail with syncs that run alone; edits during a sync without failures. In `MCServices` the writeback carries one field of the two, as no source's writeback carries all of them; in `MCProgress` both. The two properties say themselves how much may overlap and fail; the theorems have every overlap and failure in one specification |
| `Path` (`MCServices`) | `PathRecompute` with the computation of `CriticalPath`: four tasks, a diamond and a knot with a cycle, two changes of any row, one failure or crash |
| `Execution` (`MCServices`) | two delegations, two requests, two faults: a lost call and a crash after it |
| `Review`, `SharedReview` (`MCServices`) | one leader with two tasks and three changes; two people with one task; two revisions of the specification |
| `Projects` (`MCServices`) | two codes, two teams, one task, two changes at Cc, one task request, one failed tick: an assignment and a rename meet a failure |
| `ChatOutbox` (`MCChat`) | two workers, two messages of two pieces, one retry each, three faults |
| `Channel`, `SharedChannel` (`MCChat`), `Channel` (`MCProgress`) | a channel with a thread and pages of one post; two workers on the channel alone, three posts; one fault, which may be a refusal |
| `Intake`, `SharedIntake` (`MCChat`), `Messages`, `Intake` (`MCProgress`) | a command and a reply in its thread, two versions each, one fault: with a leader who reads and confirms, with two workers; for liveness two messages checked one at a time by two workers, and an intake of another message |
| `Discussion` (`MCChat`) | two workers, two messages, four changes of the setting, one lease that runs out |

Named bounds: `MaxRowRevision` (sprints.revision), `MaxGateRevision` (per gate), `MaxUndecided`
(answers not yet decided), `MaxFaults`, `MaxMoves`, `MaxEdits`, `MaxOutside`, `MaxChanges`,
`MaxWrites`, `MaxVersion`, `MaxUpdatedAt`, `MaxTime`, `MaxPosts`, `MaxMessages`, `MaxRevision`,
`MaxRetries`, `MaxOverlaps`. They stand in guards, so that a run ends. `MaxAttempts`, `Batch`,
`PageSize`, `Window`, `Pieces` and `TtlSec` are limits of the code, made small. In the theorems all
of them are arbitrary.

The runs of `SprintGates` and `MCServices` set `CHECK_DEADLOCK FALSE`: their bounds (revisions,
answers, requests) stop them, as a team that has nothing more to do would. Workers and the chat tick
never stop, and there deadlock is checked.

### The properties

Sprints and gates:

* `AtMostOneActive`, `PeriodsDisjoint`, `ClosesOnlyIntoNext`: what a team may rely on, across the
  planning API and the approvals.
* `PhaseMatchesStatus`, `NextPlanLoadable`, `RecordsComplete`: the tables agree; history has one entry
  per revision, and the queued message tells the gate as it is.
* `AppliedOnceOnWhatWasSeen`, `OutcomeStable`, `AcceptedGoalPinned`, `ReworkNeedsResubmission`:
  people decide about what they have in front of them, once.
* `ImplementsLifecycle`: no phase is passed, and no sprint started or closed, without a decision of
  a person recorded for it; an observation only moves between implementation and acceptance.
* `PublishedAsCommitted`, `AckMatchesOutcome`: the conversation tells what was committed.
  `EveryAnswerAcked`, `LatestPublished`: in the end it tells all of it.
* `TypeOK`: the tables of the gate store are typed.

Services (`MCServices`, `MCProgress`):

* `SentWasReceived`, `FailedStays`, `EverySettles`: a notification called sent has arrived, one given
  up on stays so, and each comes to one of the two though older ones fill the batches.
* `OnlyWhatHappened`: what people are told of a task did happen to it, however requests overtake: some
  write made it so, or raised the priority towards the one that is told.
* `ListsFreshEnough`: a list shows every write announced before its request began, and lacks none
  older than the time to live.
* `UnracedRequestKeepsMembership`: the checks of the task routes suffice as long as nothing overtakes.
  `ChangesWhatWasSeen`, `PlansKept`: planners with stale screens overwrite nothing, closed sprints stay
  closed, dates are kept.
* `KeptWhileUnchanged`, `NothingForgotten`, `EverySyncAgrees`: a pull leaves alone what nobody changed
  outside, whatever is edited meanwhile, as long as no resolution falls into a sync, no writeback
  failed, and nobody gave a value to a field that the writeback does not carry (`edits.unsent`; the
  violation `MCPmSync` is what happens then); a difference between the sides is a change to be pulled, a
  dirty row or a conflict, as long as syncs ran alone; in the end the sides agree or people are asked.
  The history variable `overlaps` says what fell into a sync.
* `StoredIsCurrent`: when nothing is owed, the rows hold the longest paths and slacks as *defined*
  over all chains of tasks, and the tasks on a cycle.
* `ExecutionKept`: one delegation of a project is worked on at a time, and an end is recorded as Cc
  told it, for good.
* `CompletedWasAccepted`: a subject is shown as completed only if somebody confirmed it and nothing
  they had looked at changed since, be it reopened and done again.
* `TasksFollow`: between ticks, no task is left without a team that the copy says was assigned, nor,
  after a good tick, under a renamed code.

Chat (`MCChat`, `MCProgress`):

* `PostedOncePerDecision`, `SentIsThere`: a piece is posted at most once per decision to send it, and
  a message recorded as sent is there in full.
* `LogHasNoHoles`, `FinalBeforeArchive`, `ClosedIsArchived`: the log has everything the cursor
  passed; the archive comes after the final summary; and it comes, or waits for a leader
  (`WaitsForLeader`): after a refusal of the archive or the summary (a 400 or 403 of Discord, a wrong
  channel or category), or when nobody can tell whether the summary was posted. A leader's retry
  (`routes.ts:127`) leads there again.
* `IntakeIsCurrent`, `ConfirmedWhatWasSeen`, `DeletedGoesAway`: intakes quote the messages as they
  are saved, the review shown is of that text, a leader registers what the leader read, and what
  people delete leaves.
* `RemarkIsCurrent`: Di remarks once on a message, on the last one read, under the consent it was
  asked with.

Every property has a mutant of the code's definition that violates it (`PROJECT.json`); the mutants
stand before the definitions they would replace, each with the comment *Mutant*.

### Fairness

Safety properties assume none. The liveness properties assume weak fairness of the machine's steps:

* each gate worker's `Step`: the timer of a live process ticks every 30 s and a cycle is always
  followed by the next (`runtime.ts`, `running` is reset in `finally`); every call to Cc is cut off
  after ten seconds (`concordia-client.ts`), and database calls end;
* the notification cycle and the chat tick of each process, for the same reasons (`notifications/tick.ts`,
  `chat/runtime.ts`), the end of a lease whose holder died (it has an expiry), and the end of a tick
  that lost its lease (`Abandon`);
* a sync is started again and again (`modules/pm/runtime/tick.ts`), and a sync or a resolution that
  has begun runs to its end.

Fairness covers a worker as a whole, never the success of one call: a call that may fail is one of
several outcomes of a step, and it is `MaxFaults` that keeps faults, and with them the retries that
follow them, finite; the receivers of
notifications may even stay down for ever. A Cc that fails forever is outside the claims about the
gate worker, as is a permanently missing configuration. Nothing is assumed of people, or of the moves
of a team.

### What the violations show

1. **An applied answer is acknowledged as rejected** (`MCSprintGateWorkerMoved`). The answer is
   applied, the ack is lost, the team is connected to chat, and the next cycle rejects every event of
   the team unseen (`worker.ts:84`), although the recorded outcome is *applied*.
2. **A task request changes sprint membership** (`MCTaskEditingMembership`). PUT repeats the
   `sprint_id` it read; a planning call changes it before the write at `routes.ts:541`. The sprint's
   revision does not move, so planners do not notice either.
3. **A channel is archived with posts unread** (`MCSprintChannelGap`). `logCaughtUp` is only written
   by a tick that finished (`cycle.ts:54`); one that fails after an incomplete page leaves the flag of
   an earlier tick, and `publishSprint` believes it. `ArchivedUnlessCutShort` (section 4) proves that
   in this model nothing else can cause it but readings cut short, and leases that run out under a worker.
4. **A local edit is lost although nobody changed the task outside** (`MCPmSync`). The writeback to
   Notion carries the title and the status only; the push marks the whole task, say with labels changed
   in Actio, as sent (`sync-project.ts:260`), and the next pull takes the old outside value for a change.
   `UnsentIsKept` is `KeptWhileUnchanged` without its conditions, in an instance in which nothing fails
   and nothing happens during a sync.

Other behaviour met while modelling, stated here and not checked as a violation:

* A task request overtaken by an assignment can move or delete an attached task (`routes.ts:541`, 562);
  after a change of team the sprint's evidence cannot be loaded, and planning and PUT both refuse to
  repair it. The same window undoes `completed_at` (`routes.ts:439`), has a completion told twice or an
  assignment not at all (`routes.ts:545`), and lets a request that names a project pass its check just
  before `ProjectSync` gives the task another team (`repository.ts:2503`).
* `reassignProject` and `bindTeamToProjectTasks` select ids and update by id (`repository.ts:2490`,
  2504): a person's change of project in between is overwritten, or gets the old project's team.
* A crash between deliver and `markSent` sends a notification again (`dispatcher.ts:44`); the
  receivers' own keys decide whether people see it twice.
* A refused archive or final message ends as *failed*, which no tick takes up again (`outbox.ts:22`, 28):
  the channel of a closed sprint stays until a leader asks for another try (`ClosedIsArchived`).
* A command that refers to another command has that one saved without its request
  (`discord-transport.ts:70`, `ingestion.ts:25`). If the other is a slash command, a message of the bot, a
  deletion before the next page restores the request leaves the text in its intake (`intake-store.ts:20`).
  `ChatIntake` does not have such commands.
* A chat worker that lost its lease during a slow call finishes that call (`delivery.ts:41`), may write
  an archived surface back (`cycle.ts:54`), and an intake registered meanwhile no longer collects
  replies (`intake-store.ts:19`).
* PM sync: an edit or a resolution during a pull or a push is overwritten or counted as sent
  (`sync-project.ts:172`, 251, 258, 260, `resolve-conflict.ts:75`), and a writeback whose answer was
  lost is pulled back as a change made outside (266). `Overlap` in `PmSync` says which of these a run
  allows.
* Critical path: `spec/feature/task-integration/spec.md` §5.2 asks for a recomputation after sprint
  assignment and a change of `default_daily_minutes`, a lock per team and one transaction. The code
  recomputes after the three task routes only, serializes within a process only and writes row by row.

`SprintGates` does not include the races of task requests with planning: there the routes change status
and content only. What it shows holds for installations in which they do not happen.

## 4. Proofs

### Gates

`SprintGatesProofs` proves, for every value of the constants that satisfies `PlanningAssumption` and
`GatesAssumption` (days are numbers; null values are not values of the type they stand for;
installations start with at most one active sprint, disjoint open periods and ordered dates):

| theorem | statement |
|---|---|
| `Invariance` | `Spec => []IInv` |
| `TypeCorrect` | `Spec => []TypeOK` |
| `OneSprintActive` | `Spec => []AtMostOneActive` |
| `OpenPeriodsStayDisjoint` | `Spec => []PeriodsDisjoint` |
| `PhaseFollowsStatus` | `Spec => []PhaseMatchesStatus` |
| `NextPlanStaysLoadable` | `Spec => []NextPlanLoadable` |
| `OutcomesStay` | `Spec => OutcomeStable` |

None of these invariants is inductive alone, and `IInv` is their conjunction with what the steps rely
on: a task is attached to a sprint that exists (or a snapshot could not be typed), a gate stands on a
sprint that exists, and a gate with a revision has evidence (`AttachedToRow`, `GatesOnRows`,
`ObservedHasEvidence`). That a gate cannot start a sprint twice, for instance, needs that an
approval in the phase *planning* finds a sprint in *planning*; that the hand-over writes two
different gates needs `NextPlanLoadable`.

The argument has three layers. `SprintPlanningProofs`: a call of the planning API writes at most one
row, never a status, and gives a sprint only days that were free; starting, closing and handing over
keep one sprint active and the periods apart. Then the operators of the store and the judge: what is
read is typed, what is persisted is typed. Then one lemma per action, each showing `StepKeeps`: the
tables stay typed, and each gate is untouched or overwritten by a `GoodGate`, from which the
conjuncts about gates follow once and for all (`MoveKeepsGates`, `StepSuffices`).

### Records, answers and the life of a sprint

`SprintGatesRefinementProofs`, under the same assumptions:

| theorem | statement |
|---|---|
| `RecordsInvariance` | `Spec => []RecordsInv` |
| `RecordsStayComplete` | `Spec => []RecordsComplete` |
| `GoalPinned` | `Spec => []AcceptedGoalPinned` |
| `ReworkIsResubmitted` | `Spec => ReworkNeedsResubmission` |
| `AnswersApplyOnce` | `Spec => []AppliedOnceOnWhatWasSeen` |
| `ClosesWithSuccessor` | `Spec => ClosesOnlyIntoNext` |
| `GatesImplementLifecycle` | `Spec => ImplementsLifecycle` |

*Records.* `persist` is the only writer of the gate row, its history and its outbox row, and one step
writes the row of at most two sprints (the hand-over). `RecordsMove` says so once for all actions: each
gate's three records stay, or grow together by one revision (`WroteOne`). Completeness, the pinned goal
and the rule on rework are consequences of that move alone. The pinned goal needs the planning tables as
well: a goal can be edited while its sprint is *planning*, or *active* without a gate past implementation
(`GoalEditable`), and by `PhaseMatchesStatus` a gate from acceptance on is neither.

*Answers.* `AppliedOnceOnWhatWasSeen` is inductive on top of `IInv`: an answer is decided only while its
event has no outcome, and its history entry is written in the same step. The work is in showing that no
other step forges an entry that names an event.

*The refinement.* `decisions` of `SprintLifecycle` is mapped to the number of answers recorded as
applied, so the proof carries that this set is finite. Each action is shown to be one named move of the
life of a sprint (`LivesStart`, `LivesSubmit`, `LivesWithdraw`, `LivesAdvance`, `LivesSendBack`,
`LivesHandOver`) or none. The two moves taken without a decision, submission and withdrawal, come from
the judge's observation; everything else must be paid for by an answer newly applied, which holds since
the judge never moves a gate in another phase without one.

### The worker

`SprintGateWorkerProofs`, for any number of workers, under `WorkerAssumption` as well (the actor
behind the answers of Discord is no leader of the team; null values are not values of the type they stand
for; the bounds are numbers):

| theorem | statement |
|---|---|
| `ShownInvariance` | `WorkerSpec => []ShownInv` |
| `ShownAsCommitted` | `WorkerSpec => []PublishedAsCommitted` |
| `GatesKeepUnderWorkers` | `WorkerSpec => [](AtMostOneActive /\ PeriodsDisjoint /\ PhaseMatchesStatus /\ RecordsComplete /\ AcceptedGoalPinned)` |
| `OutcomesStayUnderWorkers` | `WorkerSpec => OutcomeStable` |
| `WorkersImplementLifecycle` | `WorkerSpec => ImplementsLifecycle` |
| `ClosesUnderWorkers` | `WorkerSpec => ClosesOnlyIntoNext` |
| `ReworkUnderWorkers` | `WorkerSpec => ReworkNeedsResubmission` |
| `AppliedOnceUnderWorkers` | `WorkerSpec => [](one history entry per answer recorded as applied, none for others)` |
| `AppliedAsSeenUnderWorkers` | `WorkerSpec => [][an answer newly applied is in the hands of a deciding worker, or is its author's at the phase screen, and meets the revision its author saw]` |
| `AckInvariance` | `WorkerSpec => []AckInv` |
| `AcksMatchOutcomes` | `WorkerSpec => [](moves = 0 => AckMatchesOutcome)` |
| `AppliedIsTrue` | `WorkerSpec => [](an answer told as applied is recorded as applied)` |

The composition decides through other actions than `Next` (`DecideAs`: the actor may be another than the
answer's), so its safety does not follow from that of `Spec`; the lemmas about the store's operators
are stated over steps, not over `Next`, and serve both.

*The gates under the workers.* Many steps of a worker move nothing in the store. `WorkersTransact` says
what the others are: each step of the composition rests, is an operation of people as in `SprintGates`
(`OnScreen`), looks at a gate, refuses an answer, or applies one that some worker has in its hands, put in
the name of whoever it is decided for (`Transaction`). `WorkerSpec` has all of them between any two
awaits: planning calls and task edits, retrospectives and next plans, answers at the phase screen by
whoever is in `Screen`, and answers on Discord with any tasks. So sprints close there, and tasks are sent
back there: TLC, asked whether either is impossible, finds a close after three approvals and tasks
sent back by a rejection on Discord that was acknowledged. With that one lemma the composition
implements the life of a sprint, closes sprints and sends tasks back as the gates alone do, whatever
lies between a worker's fetch and its decision. An answer there is not consumed: Concordia repeats it
until it is acknowledged, and two workers may hold it at once. That it is applied once is a property of
history and events together (`OneEntryEach`), inductive only with what `ShownInv` says of the store.

What is stale in a worker's hands is what makes the first invariant interesting. A cycle reads rows of
the outbox and publishes them several awaits later, when the row may have moved on. `RowsSeen` says that
what it read is the row's payload or that of an earlier revision, so nothing uncommitted is ever shown;
`DeliveredSeen` says that a cycle about to record a delivery has seen Concordia hold that revision. Since
Concordia never goes back, a late record cannot mark a newer row as shown: its update names the revision
it delivered. For the acknowledgements, what a cycle holds as an outcome at *acking* must be the recorded
one, which rests on `OutcomeStable` from the read of the outcome to the call. While the team is moving it
is not: `MCSprintGateWorkerMoved` shows an applied answer told as rejected, hence the hypothesis
`moves = 0`. `AppliedIsTrue` is what remains without it.

### Planning

`PlanningClientsProofs`, under `PlanningAssumption`:

| theorem | statement | hypothesis |
|---|---|---|
| `ClientsInvariance` | `ClientsSpec => []ClientsInv` | – |
| `NobodyOverwrites` | `ClientsSpec => ChangesWhatWasSeen` | *no draft* is not a screen |
| `PlansAreKept` | `ClientsSpec => PlansKept` | – |
| `PlansStayApart` | `ClientsSpec => [](at most one sprint active, open periods disjoint)` | – |
| `UnracedIsHarmless` | `EditSpec => UnracedRequestKeepsMembership` | *no edit* is not a request |

The check of a revision protects what a planner saw only if a revision *names* one row with one set of
members: members are rows of another table, and a screen shows both. That is the invariant
(`ScreensTrue`): a screen's revision is at most the row's, and if it is the row's, then row and members are
those on the screen. It holds since every operation that changes a row or its membership moves the
revision on (`EachSprint`), imports and approvals included. `MCTaskEditingMembership` shows the one
writer that does not, a task request that was overtaken; `UnracedIsHarmless` is what is true of the
others. `PlansStayApart` needs no screens at all: it rests on the checks that a submission, or an approval,
makes of the *other* sprints when it takes effect.

### Notifications and their events

`TaskNotificationProofs`: `OutboxInvariance`, `OutboxTypeCorrect`, `SentArrived` (`SentWasReceived`)
and `FailedIsFinal` (`FailedStays`), for any keys, processes, batch and number of attempts
(`OutboxAssumption`, `NoRowAssumption`: finite keys, positive limits, null values apart). *Sent* is
written a step after the delivery by a process that remembers it, so the invariant says what processes
remember: a mark is about a row of the table and *sent* only if the message arrived; batches stay in
the table; pending rows have attempts left.

`EventsInvariance` and `NoRumours` (`OnlyWhatHappened`), under `EventsAssumption`: a request compares the
task it read before its write with the one it reads after it, and others may have written in between. The
invariant (`MadeSince`) says that whatever is new in the task as it is now, against the version a request
read, was made so by one of the recorded writes. A priority may be raised in several steps, so it speaks
of every rank crossed, not of the two ends.

### List cache, review, projects and sync

`ServicesProofs` speaks of the instances of `Services`, for all values of their constants; the properties
are those of the run `MCServices`:

| theorem | statement | hypothesis |
|---|---|---|
| `ListsStayFresh` | `Cache!CacheSpec => []ListsFreshEnough` | `TtlSec` is a positive number, as `DEFAULT_TTL_SEC` (15) is |
| `CompletedWasConfirmed` | `Review!ReviewSpec => []CompletedWasAccepted` | *no link* is not a link; that Praeforma's revisions do not come back is part of the model |
| `TasksDoFollow` | `Projects!ProjectSpec => []TasksFollow` | *no team* is not a team |
| `UnchangedIsKept` | `Pm!PmSpec => KeptWhileUnchanged` | no row is not a row; a field has a value |
| `RowsAreComputed` | `Path!PathSpec => [](when nothing is owed, the rows are what is computed of the tasks as they are)` | the computation gives an outcome for every backlog; installations start with a backlog |
| `RowsAreCurrent` | `Path!PathSpec => []StoredIsCurrent` | the same, and the computation gives what each backlog means |
| `NothingIsForgotten` | `Pm!PmSpec => []NothingForgotten` | no row is not a row; a field has a value |
| `ExecutionInvariance`, `ExecutionTypeCorrect`, `OneExecution` | `ExecutionSpec => ExecutionKept`, and its invariant | none |

*The cache.* A list can be stale in three places: in an entry, in the hands of a job that has read the
tasks and not yet stored them, in the hands of a reader who joined that job. `CacheInv` follows the
promise from one to the next. While the store works, a list of the *current* generation, stored or in
hand, shows all that is announced, except by a process whose announcement is still on its way (`Told`);
so a reader, who cannot read the generation before its own process' announcement has arrived, gets a
generation whose lists are all new enough for it (`Promised`), now and later, since a list read later is
newer. A reader who joins has the key of the job it joins (`Joined`), and so its generation. The proof
uses neither the local generation in the key nor that a write empties the in-flight map: while the store
works, the generation alone keeps a late reader from an old job. They matter when an announcement is
lost, of which the property promises no more than the time to live. That second half rests on `InHand`
and `NotOlder`: a list lacks nothing older than its reading, and its entry expires a TTL after it was
*stored*. A list that waits between the two (its job, or its SET) lives that much longer, whence the term
`slowest`, the longest such wait, in the property.

*The critical path.* The rows are computed from one reading of the tasks and written one by one while
people go on editing. The invariant says that a job's results are those of the tasks as they are, or
another recomputation is owed (`ComputedOrOwed`), and that the rows a job has no more to write are as its
results (`RestIsWritten`). The computation is a constant operator of `PathRecompute`, so the theorems hold
for every computation, and separate the two ways in which rows could be wrong: the order of reads, writes
and failures, which is proved, and the computation itself, for which `RowsAreCurrent` has a hypothesis and
`MCServices` a check.

*The review.* An `epoch` numbers what is true of a subject; it moves exactly when something a fingerprint
digests does. The invariant says that a fingerprint seen before is at most what is true now, in every
revision and task version (`Behind`), and that a fingerprint *equal* to the present one was seen in this
epoch (`ScreensStand`, `ReviewsStand`). Going back is impossible because versions only climb; that is
what a task reopened and done again, or linked again under an older request, would need.

*Projects.* A tick that fails half way leaves tasks between the old and the new. `ProjectInv` says of
every task promised something what will give it to the task: it has it, or a job of the tick, still to be
done and about its present code, leads to it, or the copy has not been updated yet and the next tick finds
the difference again (`NotCopied`). The copy is written after the tasks, and that order is what the last
case rests on. Renamings lead from codes that are no more to codes that are, so that no job undoes another
(`JobsStand`).

*The sync.* Between the steps of a sync the promise passes from hand to hand. *Nothing forgotten*: a
task not as the last base has it is dirty, and before a base is written so is a task that is not as that
base (`DifferencesNoted`); without resolutions during syncs a conflict is claimed by one person at a time
and never during a sync (`OneAtATime`), or the bases of two resolutions would be mixed. *Kept*: whatever
was seen at the last change outside is what is there now, in the base, in a pull, in a conflict and in
the hands of a resolver (`SeenIsCurrent`); so a pull that finds as many changes as the base has finds the
same values and decides to keep (`ChangesAreNews`). A writeback is no change of people, and that is where
the conditions on failures and unsent fields are needed. No writeback of the code carries every field, so
`Written` is any set: what it leaves out is the same in every version in hand (`Level`) as long as nobody
has given it a value in Actio (`OthersFromOutside`), for all of them come from outside then.

*Delegations.* Work may go on, or begin late, when the request that asked for it is long gone; the
invariant says that its row still holds the one place of the unique index then, because an end is written
only after Cc told it, and what has not begun has no end to tell.

### Chat

`ChatProofs` speaks of the four parts of `SprintChat`:

| theorem | statement | assumption |
|---|---|---|
| `DeliveryInvariance`, `ChatTypeCorrect` | the inductive invariant, types | `ChatAssumption` |
| `PostedAsDecided` | `ChatSpec => []PostedOncePerDecision` | the same |
| `SentMessagesAreThere` | `ChatSpec => []SentIsThere` | the same |
| `LogIsWhole` | `Channel!ChannelSpec => []LogHasNoHoles` | `ChannelAssumption`: the channel is one of its rooms, a page has a size |
| `SummaryBeforeArchive` | `Channel!ChannelSpec => []FinalBeforeArchive` | the same |
| `ArchivedUnlessCutShort` | `Channel!ChannelSpec /\ [][~CutShort]_(Channel!channelVars) => []Channel!ArchivedWithLogs` | the same |
| `IntakesAreCurrent` | `Intake!IntakeSpec => []IntakeIsCurrent` | `IntakeAssumption`: a command points to a message or to nobody |
| `RegisteredWasRead` | `Intake!IntakeSpec => ConfirmedWhatWasSeen` | the same |
| `RemarksAreCurrent` | `Discussion!DiscussionSpec => RemarkIsCurrent` | `DiscussionAssumption`: bounds are numbers |

*Delivery.* The invariant counts permissions: a queued operation is a permission to post each piece once,
the claim takes it over, and several workers may hold one for the same message when a slow worker lost
its lease and a leader queued it again. What was posted, may still be posted and is queued never exceeds
what people decided (`WithinDecisions`). The lease plays no part in it: posting once does not rest on the
lease, but on who claimed a queued operation.

*The log.* A cursor may claim what the page in its worker's hands holds, and no more (`Whole`): messages
are saved before the cursor, so whoever crashes in between has claimed nothing, and of two workers
whoever saves last saves a cursor that is true. The archive is decided in a tick that found the summary
posted and in the log (`SummaryFirst`), neither of which is ever undone.

*The archive.* `MCSprintChannelGap` shows that an archived channel may lack posts. `CutShort` names the
steps it takes: a tick that ends between reading the surface and writing it back, or a lease that runs out
while its worker lives. Faults elsewhere, deliveries lost or repeated and posts written at any time remain.
Without such a step the promise passes from the tick to the rows. A worker at work is alone; a surface that
says *caught up*, while nobody reads, means that the last reading came to the end in every room
(`CaughtUp`), so that the archive is decided on cursors which a reading begun *afterwards* will mark; and
whatever page such a reading is at, it will pass the posts of that time (`Covers`). TLC has confirmed that
each of the two kinds of steps alone breaks the property.

*Intakes.* A row quotes its own messages as they are saved (`Quotes`), because every change of a message
rebuilds the rows that quote it in the same transaction; and the text somebody read with a revision is the
row's text as long as the revision stands (`ReadFrom`), which carries reviews of the model and leaders'
confirmations over their think time.

*Remarks.* A delivery that posts was the only one to take its operation (`OnePoster`) and has rechecked,
after taking it, the last message and the setting (`Holds`); nothing was posted that no delivery took
(`RemarksCounted`).

### Only model-checked

* Liveness (`EveryAnswerAcked`, `LatestPublished` and the properties of `MCProgress`): the prover does not
  handle fairness and ENABLED.
* That `CriticalPath` computes what the plan means, the hypothesis of `RowsAreCurrent`: its cycle search is
  a recursive operator, which the prover cannot reason about, and that the computed paths are the longest
  takes an induction over chains of tasks, which it cannot apply. In `MCServices`
  `StoredIsCurrent` compares the two.
* That the violations are violations: they are counterexamples of TLC.
* The type invariants of the worker and of chat discussion as such; what the proofs need of them is part
  of their invariants.

## 5. Not modelled

Within the modelled parts:

* planning and gates: names, capacity, cadence, the assignee test, the `sprint_changes` log, summaries
  and wording; registration of a new specification; the limit of one hundred events per fetch (Cc's queue is
  handed out whole); the screen beyond the decisions it offers. MySQL deployments have no planning;
* task routes: creation, listing, and the fields no property is about;
* chat: the setup of connections, daily posts, the history of Slack, rendering. In `SprintChannel` the
  rooms exist from the outset, a delivery is one step (its inside is `ChatOutbox`), and the channel is
  not read a further time before a remark of Di (`delivery.ts:30`). In `ChatIntake` a command refers to
  an ordinary message or to none, never to another command; the message it refers to is fetched and
  received in one step; and the lease is checked together with the answer of the reviewing model, while
  the code checks it before the call (`cycle.ts:61`) and saves the answer regardless, so that only the
  revision guards it. A reply received before its thread is known to the intake stays out of it until
  another of its messages changes. In `ChatDiscussion` no answers are lost, messages are not edited, Di
  proposes once for a message, and the reading before the recheck comes to the end of the channel;
* notifications: the deadline scan, which only enqueues under keys of its own, and wording;
* critical path: other processes, and the writers of tasks that trigger no recomputation; a deleted
  task counts as a finished one;
* PM sync: several tasks, credentials, the listing of issues, tasks deleted outside, the reminder
  cycle; a second process, which the lock in memory (`sync-project.ts:34`) would not keep out;
* delegations: the plan and the choice of what is delegated; a run that continues in another counts as
  one piece of work;
* review: more than one subject, who may confirm, notes. A revision of a specification is an opaque
  string of Praeforma; the model *assumes* that it never comes back to an earlier one. If it did, a
  confirmation of that time would count again, and `CompletedWasAccepted` would not hold;
* projects: the copy of the teams (an idempotent upsert), local projects, the one-time backfill.

The type invariants of the components in `MCServices` and `MCChat` that have no proofs are not among
the checked properties; TLC would stop at an ill-typed expression.

The components marked `not_modelled` in `PROJECT.json` have no protocol, or one with a single step.

## 6. Plan

1. Proofs: that each of the parts of `Services` keeps its types; refinements of the outboxes to one
   abstract queue.
2. `SessionStore` (`packages/id-service`): the rotation of sessions, and a fetch of `id-cache` that
   races an invalidation. The setup of chat connections, and the deadline scan beside edits of a
   deadline, in front of `NotificationOutbox`.
3. The chat tick and the gate worker together, for a team that moves from one to the other.
