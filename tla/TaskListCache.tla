---------------------------- MODULE TaskListCache ----------------------------
(***************************************************************************)
(* The short-lived cache of GET /api/tasks: createTaskListCache of         *)
(* modules/task/cache/task-list-cache.ts, resolveStore of                  *)
(* redis-task-list-cache.ts, and the listeners that a write to the tasks   *)
(* calls (src/db/task-write-listeners.ts).                                 *)
(*                                                                         *)
(* One filter is followed; a list is the version of the tasks it was made  *)
(* from.  The store is Redis; without it, a process uses a store in its    *)
(* memory (memory-task-list-store.ts), which is the instance with one      *)
(* process and no faults.  A call may time out; the calls of one process   *)
(* arrive in their order.  An entry may go before its time (maxEntries,    *)
(* maxTotalBytes), so a miss is always possible.  A load() that fails is    *)
(* left out: its requests fail with it and nothing is stored.              *)
(***************************************************************************)
EXTENDS Integers

CONSTANTS
    Processes,          \* server processes
    Requests,           \* requests for the list
    NoGeneration,       \* the generation could not be read
    None,               \* no process, no key
    TtlSec,             \* ttlSec, in ticks of the clock
    MaxVersion,         \* bound on writes to the tasks
    MaxTime,            \* bound on the clock
    MaxFaults           \* bound on calls to the store that fail

VARIABLES
    committed,          \* committed[v]: when version v of the tasks was committed
    generation,         \* GENERATION_KEY of the store
    localGeneration,    \* per process
    entries,            \* the cached lists
    inflight,           \* per process, the request that produces each key
    writes,             \* per process, what an unfinished write has still to do
    requests,
    clock,
    faults,
    announced,          \* history: newest version each process knows to be announced
    slowest             \* history: the longest it took to store what had been read

cacheVars == <<committed, generation, localGeneration, entries, inflight, writes,
               requests, clock, faults, announced, slowest>>

Newest == CHOOSE v \in DOMAIN committed : \A u \in DOMAIN committed : u <= v

(* leader: whose job a waiting request waits for; floor: the version the   *)
(* list must at least show if the request begins now (history); since and  *)
(* readAt: when it began, and when the tasks were read for it (history).   *)
Idle(r) == [at |-> "idle", process |-> None,
            generation |-> NoGeneration, key |-> None, leader |-> r,
            version |-> -1, floor |-> 0, since |-> 0, readAt |-> 0]

CacheInit ==
    /\ committed = [v \in {0} |-> 0]
    /\ generation = 0
    /\ localGeneration = [p \in Processes |-> 0]
    /\ entries = {}
    /\ inflight = [p \in Processes |-> {}]
    /\ writes = [p \in Processes |-> "none"]
    /\ requests = [r \in Requests |-> Idle(r)]
    /\ clock = 0
    /\ faults = 0
    /\ announced = [p \in Processes |-> 0]
    /\ slowest = 0

Fault == faults < MaxFaults /\ faults' = faults + 1
NoFault == UNCHANGED faults

-----------------------------------------------------------------------------
(* Writes.                                                                 *)

Commit(p) ==
    /\ writes[p] = "none"
    /\ Newest < MaxVersion
    /\ committed' = [v \in 0..Newest + 1 |-> IF v = Newest + 1 THEN clock ELSE committed[v]]
    /\ writes' = [writes EXCEPT ![p] = "committed"]
    /\ UNCHANGED <<generation, localGeneration, entries, inflight, requests, clock,
                   faults, announced, slowest>>

AdvanceLocal(p) == localGeneration' = [localGeneration EXCEPT ![p] = @ + 1]

(* notifyTaskWrite and the part of invalidate before its await.  (The app  *)
(* announces a request that changed tasks once more, src/app.ts: another   *)
(* generation, of the same tasks.)                                         *)
Invalidate(p) ==
    /\ writes[p] = "committed"
    /\ AdvanceLocal(p)
    /\ inflight' = [inflight EXCEPT ![p] = {}]
    /\ announced' = [announced EXCEPT ![p] = Newest]
    /\ writes' = [writes EXCEPT ![p] = "announcing"]
    /\ UNCHANGED <<committed, generation, entries, requests, clock, faults, slowest>>

(* The INCR arrives: from then on every process must notice; or it fails.  *)
AdvanceGeneration(p) ==
    /\ writes[p] = "announcing"
    /\ writes' = [writes EXCEPT ![p] = "none"]
    /\ \/ /\ NoFault
          /\ generation' = generation + 1
          /\ announced' = [q \in Processes |->
                IF announced[q] < announced[p] THEN announced[p] ELSE announced[q]]
       \/ Fault /\ UNCHANGED <<generation, announced>>
    /\ UNCHANGED <<committed, localGeneration, entries, inflight, requests, clock, slowest>>

-----------------------------------------------------------------------------
(* Requests.  Every await is a boundary.                                   *)

Becomes(r, request) == requests' = [requests EXCEPT ![r] = request]

Begin(r, p) ==
    /\ requests[r].at = "idle"
    /\ Becomes(r, [Idle(r) EXCEPT !.at = "asking", !.process = p,
                                  !.floor = announced[p], !.since = clock])
    /\ UNCHANGED <<committed, generation, localGeneration, entries, inflight, writes,
                   clock, faults, announced, slowest>>

(* Mutant: the generation is not part of the key.                          *)
GenerationIgnored == 0

CurrentGeneration == generation

(* readGeneration: the process' own INCR is ahead of it on the connection. *)
ReadGeneration(r) ==
    LET p == requests[r].process
        reads(g) == Becomes(r, [requests[r] EXCEPT !.at = "looking", !.generation = g])
    IN
    /\ requests[r].at = "asking"
    /\ \/ writes[p] # "announcing" /\ reads(CurrentGeneration) /\ NoFault
       \/ reads(NoGeneration) /\ Fault
    /\ UNCHANGED <<committed, generation, localGeneration, entries, inflight, writes,
                   clock, announced, slowest>>

Producing(p, key) == {q \in inflight[p] : requests[q].key = key}

(* The key is made from the local generation after the await; a job under  *)
(* way for the same key is joined, or one is registered.                   *)
LookUp(r) ==
    LET p == requests[r].process
        key == [generation |-> requests[r].generation,
                localGeneration |-> localGeneration[p]]
    IN
    /\ requests[r].at = "looking"
    /\ IF Producing(p, key) # {}
       THEN /\ \E q \in Producing(p, key) :
                Becomes(r, [requests[r] EXCEPT !.at = "waiting", !.key = key, !.leader = q])
            /\ UNCHANGED inflight
       ELSE /\ Becomes(r, [requests[r] EXCEPT !.at = "getting", !.key = key])
            /\ inflight' = [inflight EXCEPT ![p] = @ \cup {r}]
    /\ UNCHANGED <<committed, generation, localGeneration, entries, writes, clock,
                   faults, announced, slowest>>

(* The job of r is done: those who wait for it have their list as well.    *)
Answer(r, version) ==
    /\ requests' = [q \in Requests |->
            IF q = r \/ (requests[q].at = "waiting" /\ requests[q].leader = r)
            THEN [requests[q] EXCEPT !.at = "done", !.version = version, !.key = None,
                                     !.generation = NoGeneration, !.leader = q,
                                     !.process = None, !.readAt = 0]
            ELSE requests[q]]
    /\ inflight' = [inflight EXCEPT ![requests[r].process] = @ \ {r}]

(* Mutant: an entry does not expire.                                       *)
NeverExpires(e, time) == TRUE

LiveAt(e, time) == e.expiresAt > time

(* produce: the store is asked first.                                      *)
Get(r) ==
    /\ requests[r].at = "getting"
    /\ \/ \E e \in entries : e.key = requests[r].key /\ LiveAt(e, clock) /\ Answer(r, e.version)
       \/ Becomes(r, [requests[r] EXCEPT !.at = "loading"]) /\ UNCHANGED inflight
    /\ UNCHANGED <<committed, generation, localGeneration, entries, writes, clock,
                   faults, announced, slowest>>

(* load() reads the tasks.                                                 *)
Load(r) ==
    /\ requests[r].at = "loading"
    /\ Becomes(r, [requests[r] EXCEPT !.at = "loaded", !.version = Newest, !.readAt = clock])
    /\ UNCHANGED <<committed, generation, localGeneration, entries, inflight, writes,
                   clock, faults, announced, slowest>>

(* The list read some time ago is stored, replacing whatever is there, or  *)
(* the SET is lost.                                                        *)
Store(r) ==
    LET job == requests[r] IN
    /\ job.at = "loaded"
    /\ Answer(r, job.version)
    /\ \/ entries' = {e \in entries : e.key # job.key} \cup
            {[key |-> job.key, version |-> job.version, expiresAt |-> clock + TtlSec]}
       \/ UNCHANGED entries
    /\ slowest' = IF clock - job.readAt > slowest THEN clock - job.readAt ELSE slowest
    /\ UNCHANGED <<committed, generation, localGeneration, writes, clock, faults, announced>>

(* The list has been sent; the client may ask again.                       *)
Forget(r) ==
    /\ requests[r].at = "done"
    /\ Becomes(r, Idle(r))
    /\ UNCHANGED <<committed, generation, localGeneration, entries, inflight, writes,
                   clock, faults, announced, slowest>>

(* Time passes; what has expired can never be read again.                  *)
Advance ==
    /\ clock < MaxTime
    /\ clock' = clock + 1
    /\ entries' = {e \in entries : LiveAt(e, clock')}
    /\ UNCHANGED <<committed, generation, localGeneration, inflight, writes, requests,
                   faults, announced, slowest>>

CacheNext ==
    \/ \E p \in Processes : Commit(p) \/ Invalidate(p) \/ AdvanceGeneration(p)
    \/ \E r \in Requests :
        \/ \E p \in Processes : Begin(r, p)
        \/ ReadGeneration(r) \/ LookUp(r) \/ Get(r) \/ Load(r) \/ Store(r) \/ Forget(r)
    \/ Advance

CacheSpec == CacheInit /\ [][CacheNext]_cacheVars

-----------------------------------------------------------------------------
(* Properties.                                                             *)

Done == {r \in DOMAIN requests : requests[r].at = "done"}

(* "以後のキーを切り替えることで古い一覧を返さない": while the store works,    *)
(* a request that begins after a write was announced to its process shows  *)
(* that write, whatever was loading, stored or joined at that moment.  And *)
(* "Redis の世代が進まなくても TTL で追いつく": even when announcements are     *)
(* lost, a list lacks no write that is a TTL older than its request, but   *)
(* for the time between reading and storing: the TTL begins after it.      *)
ListsFreshEnough ==
    \A r \in Done :
        /\ faults = 0 => requests[r].version >= requests[r].floor
        /\ \A v \in DOMAIN committed :
            committed[v] <= requests[r].since - TtlSec - slowest => requests[r].version >= v
=============================================================================
