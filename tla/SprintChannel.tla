---------------------------- MODULE SprintChannel ----------------------------
(***************************************************************************)
(* The chat channel of one sprint, from its creation to its archive: the   *)
(* surface and the operations of sprint-publication.ts, the ingestion of   *)
(* the log page by page (discord-history.ts, ingestion.ts), and the order  *)
(* of the tick that does both (cycle.ts, delivery.ts), all of              *)
(* modules/task/chat.                                                      *)
(*                                                                         *)
(* Discord is EXTERNAL: rooms (the channel and its threads) hold posts     *)
(* numbered in the order of their ids.  How one message is delivered is    *)
(* the subject of ChatOutbox: here a delivery is one step, whose outcome   *)
(* may be lost.  Times are compared only with the creation of the archive  *)
(* operation.  Left out: the daily posts, and the further reading of the   *)
(* channel before a remark of Di (delivery.ts).                            *)
(***************************************************************************)
EXTENDS Integers, FiniteSets

CONSTANTS
    Workers,            \* processes that run the chat tick
    Rooms, Root,        \* the sprint's channel and its threads; the channel
    PageSize,           \* 100 in the code
    MaxRevision,        \* bound on the sprint's revisions
    MaxPosts,           \* bound on the posts of people, per room
    MaxFaults           \* bound on crashes, leases run out, calls lost or refused

VARIABLES
    sprint,             \* the sprint, written by people
    surface,            \* its record 'surface'
    ops,                \* its operations in the outbox
    cursor,             \* records 'cursor', one for each room
    logged,             \* records 'message': the posts saved, by room
    discord,            \* EXTERNAL: the channel
    workers, lease, faults,
    due,                \* history: posts there when the archive was decided
    announced           \* revisions whose update was enqueued

channelVars == <<sprint, surface, ops, cursor, logged, discord, workers, lease,
                 faults, due, announced>>

Kinds == {"channel", "final", "archive"}

NoSurface == [state |-> "none", made |-> FALSE, lastRevision |-> -1, caughtUp |-> FALSE]
NoCursor == [last |-> 0, before |-> 0, high |-> 0, complete |-> FALSE, after |-> FALSE]

Asleep == [at |-> "idle", view |-> [status |-> "active", revision |-> 0],
           surface |-> NoSurface, rooms |-> {}, room |-> Root, cursor |-> NoCursor,
           page |-> {}, complete |-> TRUE, todo |-> {}]

ChannelInit ==
    /\ sprint = [status |-> "active", revision |-> 0]
    /\ surface = NoSurface
    /\ ops = [k \in Kinds |-> "none"]
    /\ cursor = [r \in Rooms |-> NoCursor]
    /\ logged = [r \in Rooms |-> {}]
    /\ discord = [made |-> FALSE, posts |-> [r \in Rooms |-> 0],
                  final |-> 0, archived |-> FALSE]
    /\ workers = [w \in Workers |-> Asleep]
    /\ lease = [owner |-> {}, expired |-> FALSE]
    /\ faults = 0
    /\ due = [r \in Rooms |-> 0]
    /\ announced = {}

Fault == faults < MaxFaults /\ faults' = faults + 1
Goto(w, state) == workers' = [workers EXCEPT ![w] = state]
Available(w) == lease.owner \subseteq {w} \/ lease.expired
Renewed(w) == [owner |-> {w}, expired |-> FALSE]
Released(w) == IF lease.owner = {w} THEN [owner |-> {}, expired |-> FALSE] ELSE lease

-----------------------------------------------------------------------------
(* The people: they move the sprint on, close it, and write in its rooms.  *)

Advance ==
    /\ sprint.status = "active" /\ sprint.revision < MaxRevision
    /\ \E status \in {"active", "closed"} :
        sprint' = [status |-> status, revision |-> sprint.revision + 1]
    /\ UNCHANGED <<surface, ops, cursor, logged, discord, workers, lease, faults, due, announced>>

Write(r) ==
    /\ discord.made /\ ~discord.archived
    /\ discord.posts[r] < MaxPosts
    /\ discord' = [discord EXCEPT !.posts[r] = @ + 1]
    /\ UNCHANGED <<sprint, surface, ops, cursor, logged, workers, lease, faults, due, announced>>

-----------------------------------------------------------------------------
(* The tick.                                                               *)

StartTick(w) ==
    /\ workers[w].at = "idle"
    /\ Available(w)
    /\ lease' = Renewed(w)
    /\ Goto(w, [Asleep EXCEPT !.at = "publishing", !.view = sprint])
    /\ UNCHANGED <<sprint, surface, ops, cursor, logged, discord, faults, due, announced>>

(* A lost lease ends the tick wherever it is checked.                      *)
GiveUp(w) ==
    /\ workers[w].at \in {"ingesting", "delivering"}
    /\ ~Available(w)
    /\ Goto(w, Asleep)
    /\ UNCHANGED <<sprint, surface, ops, cursor, logged, discord, lease, faults, due, announced>>

LeaseRunsOut ==
    /\ lease.owner # {} /\ ~lease.expired
    /\ IF lease.owner \subseteq Workers THEN Fault ELSE UNCHANGED faults
    /\ lease' = [lease EXCEPT !.expired = TRUE]
    /\ UNCHANGED <<sprint, surface, ops, cursor, logged, discord, workers, due, announced>>

(* A call fails and ends the tick, or the worker dies and its lease stays  *)
(* until it runs out.                                                      *)
Crash(w) ==
    /\ workers[w].at # "idle"
    /\ Fault
    /\ lease' \in {Released(w), IF lease.owner = {w} THEN [lease EXCEPT !.owner = {"dead"}] ELSE lease}
    /\ Goto(w, Asleep)
    /\ UNCHANGED <<sprint, surface, ops, cursor, logged, discord, due, announced>>

(* Mutant: a log read to its end is enough, whatever became of the summary.*)
ReadIsEnough(saved) == saved.caughtUp

(* The log was read to its end, the final summary with it.                 *)
MayArchive(saved) ==
    /\ saved.caughtUp
    /\ ops["final"] = "sent"
    /\ discord.final \in logged[Root]

(* No channel yet, or none any more.                                       *)
NothingToSay == ~surface.made \/ surface.state = "archived"

(* publishSprint, one transaction over the view read before it.            *)
Publish(w) ==
    LET view == workers[w].view
        update == surface.lastRevision # view.revision
        saved == [surface EXCEPT !.lastRevision = view.revision]
    IN
    /\ workers[w].at = "publishing"
    /\ Goto(w, [workers[w] EXCEPT !.at = "reading"])
    /\ \/ /\ surface.state = "none" /\ view.status = "active"
          /\ surface' = [NoSurface EXCEPT !.state = "pending"]
          /\ ops' = [ops EXCEPT !["channel"] = "queued"]
          /\ UNCHANGED <<due, announced>>
       \/ /\ \/ surface.state = "none" /\ view.status # "active"
             \/ surface.state # "none" /\ NothingToSay
          /\ UNCHANGED <<surface, ops, due, announced>>
       \/ /\ surface.state # "none" /\ ~NothingToSay
          /\ announced' = announced \cup (IF update THEN {view.revision} ELSE {})
          /\ IF view.status = "active"
             THEN surface' = saved /\ UNCHANGED <<ops, due>>
             ELSE /\ surface' = [saved EXCEPT !.state = "archive_pending"]
                  /\ LET decide == MayArchive(saved) /\ ops["archive"] = "none" IN
                     /\ ops' = [ops EXCEPT
                          !["final"] = IF @ = "none" THEN "queued" ELSE @,
                          !["archive"] = IF decide THEN "queued" ELSE @]
                     /\ due' = IF decide THEN discord.posts ELSE due
    /\ UNCHANGED <<sprint, cursor, logged, discord, lease, faults>>

(* The surfaces are read once, for the whole loop over the rooms.          *)
ReadSurface(w) ==
    /\ workers[w].at = "reading"
    /\ Goto(w, [workers[w] EXCEPT !.at = "ingesting", !.surface = surface,
                                  !.rooms = IF surface.made THEN Rooms ELSE {}])
    /\ UNCHANGED <<sprint, surface, ops, cursor, logged, discord, lease, faults, due, announced>>

(* ownsLease, then ingestChannel: its time, and the cursor.                *)
BeginRoom(w, r) ==
    /\ workers[w].at = "ingesting"
    /\ r \in workers[w].rooms
    /\ Available(w)
    /\ lease' = Renewed(w)
    /\ Goto(w, [workers[w] EXCEPT !.at = "fetching", !.room = r, !.rooms = @ \ {r},
                    !.cursor = [cursor[r] EXCEPT !.after = ops["archive"] # "none"]])
    /\ UNCHANGED <<sprint, surface, ops, cursor, logged, discord, faults, due, announced>>

Highest(S) == CHOOSE i \in S \cup {0} : \A j \in S : j <= i
Lowest(S) == CHOOSE i \in S : \A j \in S : i <= j

(* The newest posts older than the cursor's `before`.                      *)
PageOf(c, n) ==
    LET end == IF c.before = 0 THEN n ELSE c.before - 1
    IN  {i \in 1..end : i > end - PageSize}

(* Mutant: the mark jumps to the newest post before the gap is filled.     *)
MarkAtOnce(c, page) ==
    LET high == IF c.high # 0 THEN c.high ELSE IF page # {} THEN Highest(page) ELSE c.last
        complete == Cardinality(page) < PageSize \/ \E i \in page : i <= c.last /\ c.last # 0
    IN  [c EXCEPT !.last = high, !.complete = complete,
                  !.before = IF complete THEN 0 ELSE Lowest(page),
                  !.high = IF complete THEN 0 ELSE high]

(* discordHistory: the mark advances only after reaching the previous one. *)
NextCursor(c, page) ==
    LET high == IF c.high # 0 THEN c.high ELSE IF page # {} THEN Highest(page) ELSE c.last
        complete == Cardinality(page) < PageSize \/ \E i \in page : i <= c.last /\ c.last # 0
    IN  [c EXCEPT !.last = IF complete THEN high ELSE @, !.complete = complete,
                  !.before = IF complete THEN 0 ELSE Lowest(page),
                  !.high = IF complete THEN 0 ELSE high]

Fetch(w) ==
    LET d == workers[w]
        page == PageOf(d.cursor, discord.posts[d.room])
    IN
    /\ d.at = "fetching"
    /\ Goto(w, [d EXCEPT !.at = "receiving", !.page = page, !.cursor = NextCursor(@, page)])
    /\ UNCHANGED <<sprint, surface, ops, cursor, logged, discord, lease, faults, due, announced>>

(* The messages of the page are saved one by one, the last first here.     *)
Receive(w) ==
    LET d == workers[w] IN
    /\ d.at = "receiving" /\ d.page # {}
    /\ LET i == Highest(d.page) IN
       /\ logged' = [logged EXCEPT ![d.room] = @ \cup {i}]
       /\ Goto(w, [d EXCEPT !.page = @ \ {i}])
    /\ UNCHANGED <<sprint, surface, ops, cursor, discord, lease, faults, due, announced>>

SaveCursor(w) ==
    LET d == workers[w] IN
    /\ d.at = "receiving" /\ d.page = {}
    /\ cursor' = [cursor EXCEPT ![d.room] = d.cursor]
    /\ Goto(w, [d EXCEPT !.at = "ingesting", !.complete = @ /\ d.cursor.complete,
                         !.cursor = NoCursor, !.room = Root])
    /\ UNCHANGED <<sprint, surface, ops, logged, discord, lease, faults, due, announced>>

(* The surface read before the loop, with the result of the loop.          *)
WrittenBack(d) == [d.surface EXCEPT !.caughtUp = d.complete]

(* Mutant: an operation of unknown outcome is not looked at again.         *)
QueuedOnly == {k \in Kinds : ops[k] = "queued"}

Open == {k \in Kinds : ops[k] \in {"queued", "unknown"}}

WriteBack(w) ==
    LET d == workers[w] IN
    /\ d.at = "ingesting" /\ d.rooms = {}
    /\ surface' = IF d.surface.made THEN WrittenBack(d) ELSE surface
    /\ Goto(w, [d EXCEPT !.at = "delivering", !.todo = Open])
    /\ UNCHANGED <<sprint, ops, cursor, logged, discord, lease, faults, due, announced>>

(* Every room was read to its end after the archive was decided.           *)
LogsRead == \A r \in Rooms : cursor[r].complete /\ cursor[r].after

Reconciled(k) == (k = "channel" /\ discord.made) \/ (k = "final" /\ discord.final # 0)

(* Only an archive is repeated blindly: it changes nothing the second time.*)
MayAct(k) == k = "archive" \/ (ops[k] = "queued" /\ ~Reconciled(k))

(* What the rooms look like once operation k has been acted upon.          *)
Effect(k) ==
    CASE ~MayAct(k) -> discord
      [] MayAct(k) /\ k = "channel" -> [discord EXCEPT !.made = TRUE]
      [] MayAct(k) /\ k = "final" -> [discord EXCEPT !.posts[Root] = @ + 1,
                                                     !.final = discord.posts[Root] + 1]
      [] MayAct(k) /\ k = "archive" -> [discord EXCEPT !.archived = TRUE]

(* finish: the surface follows a delivered channel or archive.             *)
Settled(k) ==
    CASE k = "channel" -> [surface EXCEPT !.made = TRUE, !.state = "active"]
      [] k = "archive" -> [surface EXCEPT !.made = TRUE, !.state = "archived"]
      [] k = "final" -> surface

(* What a refusal (a 400 or 403, or a channel that is not the expected one) *)
(* leaves: of the final message, an earlier piece may be posted already.   *)
Refused(k) == {discord} \cup (IF k = "final" THEN {Effect(k)} ELSE {})

(* An archive waits for the logs; an outcome is known, stays unknown, is   *)
(* lost, or is a refusal, which ends the operation: no tick takes it up.   *)
Deliver(w, k) ==
    /\ workers[w].at = "delivering" /\ k \in workers[w].todo
    /\ Available(w)
    /\ lease' = Renewed(w)
    /\ Goto(w, [workers[w] EXCEPT !.todo = @ \ {k}])
    /\ \/ /\ \/ ops[k] \notin {"queued", "unknown"}
             \/ k = "archive" /\ ~LogsRead
             \/ ~Reconciled(k) /\ ~MayAct(k)
          /\ UNCHANGED <<ops, surface, discord, faults>>
       \/ /\ ops[k] \in {"queued", "unknown"}
          /\ k = "archive" => LogsRead
          /\ \/ /\ Reconciled(k) \/ MayAct(k)
                /\ ops' = [ops EXCEPT ![k] = "sent"]
                /\ surface' = Settled(k)
                /\ discord' = Effect(k)
                /\ UNCHANGED faults
             \/ /\ Fault
                /\ \/ /\ ops' = [ops EXCEPT ![k] = "unknown"]
                      /\ discord' \in {discord, Effect(k)}
                   \/ /\ ops' = [ops EXCEPT ![k] = "failed"]
                      /\ discord' \in Refused(k)
                /\ UNCHANGED surface
    /\ UNCHANGED <<sprint, cursor, logged, due, announced>>

(* A leader asks for another try of what failed or is unknown.  No bound:  *)
(* each retry follows a fault.                                             *)
Retry(k) ==
    /\ ops[k] \in {"unknown", "failed"}
    /\ ops' = [ops EXCEPT ![k] = "queued"]
    /\ UNCHANGED <<sprint, surface, cursor, logged, discord, workers, lease, faults, due, announced>>

EndTick(w) ==
    /\ workers[w].at = "delivering" /\ workers[w].todo = {}
    /\ lease' = Released(w)
    /\ Goto(w, Asleep)
    /\ UNCHANGED <<sprint, surface, ops, cursor, logged, discord, faults, due, announced>>

Step(w) ==
    \/ StartTick(w) \/ GiveUp(w) \/ Publish(w) \/ ReadSurface(w)
    \/ \E r \in Rooms : BeginRoom(w, r)
    \/ Fetch(w) \/ Receive(w) \/ SaveCursor(w) \/ WriteBack(w)
    \/ \E k \in Kinds : Deliver(w, k)
    \/ EndTick(w)

ChannelNext ==
    \/ \E w \in Workers : Step(w) \/ Crash(w)
    \/ Advance \/ LeaseRunsOut
    \/ \E r \in Rooms : Write(r)
    \/ \E k \in Kinds : Retry(k)

ChannelSpec == ChannelInit /\ [][ChannelNext]_channelVars

-----------------------------------------------------------------------------
(* Properties.                                                             *)

(* "欠落": what the cursor of a room says was read is in the log, without a *)
(* hole, whatever crashed between the messages of a page and its cursor,   *)
(* and whichever of two workers saved it last.                             *)
LogHasNoHoles ==
    \A r \in DOMAIN cursor :
        /\ 1..cursor[r].last \subseteq logged[r]
        /\ cursor[r].before # 0 => cursor[r].before..cursor[r].high \subseteq logged[r]

(* The channel is archived only with its final summary in the log.         *)
FinalBeforeArchive ==
    discord.archived => discord.final # 0 /\ discord.final \in logged[Root]

(* "ログの取込完了 → … → チャンネル保管": an archived channel has in its log      *)
(* every post, of every room, that was there when the archive was decided. *)
ArchivedWithLogs ==
    discord.archived => \A r \in Rooms : 1..due[r] \subseteq logged[r]

(* What only a leader's retry moves on: a refused summary or archive, or a *)
(* summary of which nobody can tell whether it was posted.                 *)
WaitsForLeader ==
    \/ ops["archive"] = "failed" \/ ops["final"] = "failed"
    \/ ops["final"] = "unknown" /\ ~Reconciled("final")

(* A sprint whose channel exists is archived in the end once it is closed, *)
(* or waits for a leader: no tick ever drops it silently, whatever became  *)
(* of its messages, and every retry leads there again.                     *)
ClosedIsArchived ==
    (sprint.status = "closed" /\ surface.made)
        ~> (surface.state = "archived" \/ WaitsForLeader)
=============================================================================
