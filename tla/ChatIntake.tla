------------------------------ MODULE ChatIntake ------------------------------
(***************************************************************************)
(* The intake of backlog items from chat: messages received from the pages *)
(* of a room (ingestion.ts), intakes rebuilt from them, reviewed and       *)
(* confirmed (intake-store.ts), the thread of an intake (outbox.ts,        *)
(* discord-transport.ts) and the tick that does all this in order          *)
(* (cycle.ts), all of modules/task/chat.                                   *)
(*                                                                         *)
(* Discord is EXTERNAL.  A message is a version: people post it, edit it   *)
(* (a new version) and delete it.  A command opens an intake, of itself or *)
(* of the message it refers to; replies are posted in the thread that the  *)
(* bot opens under the command.  Left out: a command that refers to        *)
(* another command, which is then saved without its request.               *)
(***************************************************************************)
EXTENDS Integers, FiniteSets

CONSTANTS
    Workers,            \* processes that run the chat tick
    Commands,           \* messages of the backlog channel that are commands;
                        \* messages are numbers, in the order of their age
    Sources,            \* ordinary messages of that channel
    Replies,            \* messages of threads
    Target,             \* the source a command refers to, or None
    ThreadOf,           \* the command under which a reply is posted
    None,
    Watched,            \* the intakes a leader looks at
    Window,             \* messages whose deletion is checked at once: 5
    MaxVersion,         \* bound on the versions of a message
    MaxFaults           \* bound on lost answers, failed calls, lost leases

Messages == Commands \cup Sources \cup Replies
Backlog == 0            \* the room that is no command's thread

VARIABLES
    text,               \* EXTERNAL: the version of each message
    threads,            \* EXTERNAL: the commands that have a thread
    messages,           \* records 'message': the version saved
    intakes,            \* records 'intake', by the command that opened them
    ops,                \* outbox: the operation 'thread' of each intake
    rejected,           \* outbox: commands told they cannot be accepted
    offset,             \* the rotating check of a room, in its cursor
    workers, holder,    \* the ticks; the owner of the lease
    seen,               \* what the leader has on screen
    faults

intakeVars == <<text, threads, messages, intakes, ops, rejected, offset,
                workers, holder, seen, faults>>

Absent == 0
Deleted == -1
Rooms == {Backlog} \cup Commands
RoomOf(m) == IF m \in Replies THEN ThreadOf[m] ELSE Backlog
InRoom(room) == {m \in Messages : RoomOf(m) = room}

NoReview == [verdict |-> "none", of |-> {}]
NotSeen == [revision |-> 0, content |-> {}]

NoIntake == [state |-> "none", revision |-> 0, content |-> {}, thread |-> FALSE,
             sourceDeleted |-> FALSE, review |-> NoReview]

Asleep == [at |-> "idle", rooms |-> {}, room |-> Backlog, page |-> {}, next |-> 0,
           source |-> None, reviews |-> {}, todo |-> {}]

IntakeInit ==
    /\ text = [m \in Messages |-> Absent]
    /\ threads = {}
    /\ messages = [m \in Messages |-> Absent]
    /\ intakes = [c \in Commands |-> NoIntake]
    /\ ops = [c \in Commands |-> "none"]
    /\ rejected = {}
    /\ offset = [room \in Rooms |-> 0]
    /\ workers = [w \in Workers |-> Asleep]
    /\ holder = None
    /\ seen = [c \in Watched |-> NotSeen]
    /\ faults = 0

Fault == faults < MaxFaults /\ faults' = faults + 1
Goto(w, state) == workers' = [workers EXCEPT ![w] = state]

-----------------------------------------------------------------------------
(* The people on Discord.                                                  *)

Say(m) ==
    /\ text[m] \in 0..MaxVersion - 1
    /\ m \in Replies => ThreadOf[m] \in threads
    /\ m \in Commands /\ Target[m] # None => text[Target[m]] # Absent
    /\ text' = [text EXCEPT ![m] = @ + 1]
    /\ UNCHANGED <<threads, messages, intakes, ops, rejected, offset, workers, holder, seen, faults>>

Delete(m) ==
    /\ text[m] > 0
    /\ text' = [text EXCEPT ![m] = Deleted]
    /\ UNCHANGED <<threads, messages, intakes, ops, rejected, offset, workers, holder, seen, faults>>

-----------------------------------------------------------------------------
(* receive.                                                                *)

SourceOf(c) == IF Target[c] # None THEN Target[c] ELSE c

(* Mutant: a later version of a message is added to the text.              *)
Accumulated(c, saved, thread) ==
    intakes[c].content \cup
        {<<m, saved[m]>> : m \in {x \in {SourceOf(c), c} \cup (IF thread THEN InRoom(c) ELSE {}) :
                                     saved[x] > 0}}

(* The text of an intake, rebuilt from the messages as they are saved.     *)
Rebuilt(c, saved, thread) ==
    {<<m, saved[m]>> : m \in {x \in {SourceOf(c), c} \cup (IF thread THEN InRoom(c) ELSE {}) :
                                 saved[x] > 0}}

(* The intakes a message belongs to.                                       *)
Concerned(m) ==
    {c \in Commands : /\ intakes[c].state # "none"
                      /\ m \in {c, SourceOf(c)} \/ (m \in InRoom(c) /\ intakes[c].thread)}

Duplicates(c) == {d \in Commands : intakes[d].state # "none" /\ SourceOf(d) = SourceOf(c)}

(* Mutant: the review stays with an intake that has changed.               *)
StillReviewed(old, content, gone) ==
    [old EXCEPT !.content = content, !.sourceDeleted = gone, !.revision = @ + 1,
                !.state = "checking"]

(* An open intake whose messages changed is checked again.                 *)
Reopened(old, content, gone) ==
    [old EXCEPT !.content = content, !.sourceDeleted = gone, !.revision = @ + 1,
                !.state = "checking", !.review = NoReview]

(* A registered one only follows its sources.                              *)
Followed(old, content, gone) ==
    [old EXCEPT !.content = content, !.sourceDeleted = gone, !.review = NoReview]

Changed(c, saved, thread) ==
    LET content == Rebuilt(c, saved, thread)
        gone == saved[c] <= 0 \/ saved[SourceOf(c)] <= 0
    IN  IF intakes[c].state = "registered" THEN Followed(intakes[c], content, gone)
        ELSE Reopened(intakes[c], content, gone)

(* receive(m) with version v, one transaction.                             *)
Receive(m, v, allowNew) ==
    LET saved == [messages EXCEPT ![m] = v]
        opens == /\ Concerned(m) = {} /\ allowNew
                 /\ m \in Commands /\ v # Deleted /\ Duplicates(m) = {}
    IN
    IF messages[m] = v THEN UNCHANGED <<messages, intakes, ops>>
    ELSE /\ messages' = saved
         /\ intakes' = [c \in Commands |->
                IF c \in Concerned(m) THEN Changed(c, saved, intakes[c].thread)
                ELSE IF c = m /\ opens THEN Changed(c, saved, FALSE)
                ELSE intakes[c]]
         /\ ops' = IF opens THEN [ops EXCEPT ![m] = "queued"] ELSE ops

-----------------------------------------------------------------------------
(* The tick.                                                               *)

(* A worker whose tick outlasts its lease goes on until it asks for it.    *)
StartTick(w) ==
    /\ workers[w].at = "idle"
    /\ IF holder = None THEN UNCHANGED faults ELSE Fault
    /\ holder' = w
    /\ Goto(w, [Asleep EXCEPT !.at = "rooms", !.rooms = {Backlog} \cup threads])
    /\ UNCHANGED <<text, threads, messages, intakes, ops, rejected, offset, seen>>

OwnsLease(w) == holder \in {None, w} /\ holder' = w

EndsTick(w) ==
    /\ holder' = IF holder = w THEN None ELSE holder
    /\ Goto(w, Asleep)

(* A call fails and ends the tick, the process restarts, or it finds its   *)
(* lease in other hands.                                                   *)
Abandon(w) ==
    /\ workers[w].at # "idle"
    /\ IF workers[w].at \in {"rooms", "reviewing", "delivering"} /\ holder \notin {None, w}
       THEN UNCHANGED faults
       ELSE Fault
    /\ EndsTick(w)
    /\ UNCHANGED <<text, threads, messages, intakes, ops, rejected, offset, seen>>

(* The page of a room: its messages as they are there now.                 *)
FetchRoom(w, room) ==
    /\ workers[w].at = "rooms" /\ room \in workers[w].rooms
    /\ OwnsLease(w)
    /\ Goto(w, [workers[w] EXCEPT !.at = "receiving", !.room = room, !.rooms = @ \ {room},
                    !.next = offset[room], !.page = {<<m, text[m]>> : m \in {x \in InRoom(room) : text[x] > 0}}])
    /\ UNCHANGED <<text, threads, messages, intakes, ops, rejected, offset, seen, faults>>

(* One message of the page.  A command that refers to a source has it      *)
(* fetched and received first, in one step here; if that fails, the        *)
(* command is rejected.                                                    *)
ReceiveNext(w, m, v) ==
    LET d == workers[w]
        done == [d EXCEPT !.page = @ \ {<<m, v>>}, !.source = None]
        source == IF m \in Commands THEN Target[m] ELSE None
    IN
    /\ d.at = "receiving" /\ <<m, v>> \in d.page
    /\ d.source \in {None, m}
    /\ \/ /\ source = None \/ d.source = m
          /\ Receive(m, v, TRUE)
          /\ Goto(w, done)
          /\ UNCHANGED <<rejected, faults>>
       \/ /\ source # None /\ d.source = None /\ text[source] > 0
          /\ Receive(source, text[source], FALSE)
          /\ Goto(w, [d EXCEPT !.source = m])
          /\ UNCHANGED <<rejected, faults>>
       \/ /\ source # None /\ d.source = None
          /\ IF text[source] = Deleted THEN UNCHANGED faults ELSE Fault
          /\ rejected' = rejected \cup {m}
          /\ Goto(w, done)
          /\ UNCHANGED <<messages, intakes, ops>>
    /\ UNCHANGED <<text, threads, offset, holder, seen>>

Saved(room) == {m \in InRoom(room) : messages[m] > 0}

(* Mutant: the check starts with the first messages every time.            *)
FirstWindow(S, start) == {m \in S : Cardinality({x \in S : x <= m}) <= Window}

(* The next Window messages in the order of their age.                     *)
NextWindow(S, start) ==
    {m \in S : Cardinality({x \in S : x <= m}) \in start + 1..start + Window}

CheckDeleted(w) ==
    LET d == workers[w]
        S == Saved(d.room)
        start == d.next % (IF S = {} THEN 1 ELSE Cardinality(S))
        checked == NextWindow(S, start)
    IN
    /\ d.at = "receiving" /\ d.page = {}
    /\ Goto(w, [d EXCEPT !.at = "deleting", !.next = start + Cardinality(checked),
                         !.page = {<<m, Deleted>> : m \in {x \in checked : text[x] = Deleted}}])
    /\ UNCHANGED <<text, threads, messages, intakes, ops, rejected, offset, holder, seen, faults>>

ReceiveDeleted(w, m) ==
    LET d == workers[w] IN
    /\ d.at = "deleting" /\ <<m, Deleted>> \in d.page
    /\ Receive(m, Deleted, TRUE)
    /\ Goto(w, [d EXCEPT !.page = @ \ {<<m, Deleted>>}])
    /\ UNCHANGED <<text, threads, rejected, offset, holder, seen, faults>>

EndRoom(w) ==
    /\ workers[w].at = "deleting" /\ workers[w].page = {}
    /\ offset' = [offset EXCEPT ![workers[w].room] = workers[w].next]
    /\ Goto(w, [workers[w] EXCEPT !.at = "rooms", !.next = 0, !.room = Backlog])
    /\ UNCHANGED <<text, threads, messages, intakes, ops, rejected, holder, seen, faults>>

ListReviews(w) ==
    /\ workers[w].at = "rooms" /\ workers[w].rooms = {}
    /\ Goto(w, [workers[w] EXCEPT !.at = "reviewing", !.reviews =
                  {[of |-> c, revision |-> intakes[c].revision, content |-> intakes[c].content] :
                      c \in {x \in Commands : intakes[x].state = "checking" /\ intakes[x].thread}}])
    /\ UNCHANGED <<text, threads, messages, intakes, ops, rejected, offset, holder, seen, faults>>

(* Mutant: the review of a superseded revision is taken.                   *)
NotRegistered(r) == intakes[r.of].state # "registered"

UpToDate(r) == intakes[r.of].revision = r.revision /\ intakes[r.of].state # "registered"

(* The model answers, or fails: then a person has to look.  The lease is   *)
(* checked before the call, which takes its time; here it is checked with  *)
(* the answer, which only its revision admits.                             *)
Review(w, r) ==
    /\ workers[w].at = "reviewing" /\ r \in workers[w].reviews
    /\ OwnsLease(w)
    /\ Goto(w, [workers[w] EXCEPT !.reviews = @ \ {r}])
    /\ \/ ~UpToDate(r) /\ UNCHANGED intakes
       \/ /\ UpToDate(r)
          /\ \E verdict \in {"questions", "complete", "failed"} :
                intakes' = [intakes EXCEPT
                    ![r.of].state = IF verdict = "questions" THEN "needs_information" ELSE "needs_review",
                    ![r.of].review = IF verdict = "failed" THEN NoReview
                                     ELSE [verdict |-> verdict, of |-> r.content]]
    /\ UNCHANGED <<text, threads, messages, ops, rejected, offset, seen, faults>>

ListOps(w) ==
    /\ workers[w].at = "reviewing" /\ workers[w].reviews = {}
    /\ Goto(w, [workers[w] EXCEPT !.at = "delivering",
                                  !.todo = {c \in Commands : ops[c] \in {"queued", "unknown"}}])
    /\ UNCHANGED <<text, threads, messages, intakes, ops, rejected, offset, holder, seen, faults>>

(* The thread of an intake: found, or opened by a first attempt.  The      *)
(* answer may be lost; a refusal ends the operation, which a list read     *)
(* before still has.                                                       *)
Deliver(w, c) ==
    /\ workers[w].at = "delivering" /\ c \in workers[w].todo
    /\ OwnsLease(w)
    /\ Goto(w, [workers[w] EXCEPT !.todo = @ \ {c}])
    /\ \/ /\ \/ ops[c] \in {"sent", "failed"}
             \/ ops[c] = "unknown" /\ c \notin threads
          /\ UNCHANGED <<ops, threads, intakes, faults>>
       \/ /\ ops[c] = "queued" \/ (ops[c] = "unknown" /\ c \in threads)
          /\ threads' = threads \cup {c}
          /\ ops' = [ops EXCEPT ![c] = "sent"]
          /\ intakes' = [intakes EXCEPT ![c].thread = TRUE]
          /\ UNCHANGED faults
       \/ /\ Fault
          /\ ops[c] \in {"queued", "unknown"}
          /\ \/ /\ ops' = [ops EXCEPT ![c] = "unknown"]
                /\ threads' \in {threads} \cup
                       (IF ops[c] = "queued" THEN {threads \cup {c}} ELSE {})
             \/ ops' = [ops EXCEPT ![c] = "failed"] /\ UNCHANGED threads
          /\ UNCHANGED intakes
    /\ UNCHANGED <<text, messages, rejected, offset, seen>>

EndTick(w) ==
    /\ workers[w].at = "delivering" /\ workers[w].todo = {}
    /\ EndsTick(w)
    /\ UNCHANGED <<text, threads, messages, intakes, ops, rejected, offset, seen, faults>>

-----------------------------------------------------------------------------
(* The leader, in Actio.                                                   *)

Look(c) ==
    /\ intakes[c].state \notin {"none", "registered"}
    /\ seen' = [seen EXCEPT ![c] = [revision |-> intakes[c].revision, content |-> intakes[c].content]]
    /\ UNCHANGED <<text, threads, messages, intakes, ops, rejected, offset, workers, holder, faults>>

(* Mutant: only the state of the intake is checked.                        *)
NotRegisteredYet(c) == intakes[c].state # "registered" /\ ~intakes[c].sourceDeleted

(* requireRevision, and the message is still there.                        *)
MayConfirm(c) ==
    /\ intakes[c].state # "registered" /\ ~intakes[c].sourceDeleted
    /\ intakes[c].revision = seen[c].revision

Confirm(c) ==
    /\ seen[c].revision > 0
    /\ MayConfirm(c)
    /\ intakes' = [intakes EXCEPT ![c].state = "registered"]
    /\ UNCHANGED <<text, threads, messages, ops, rejected, offset, workers, holder, seen, faults>>

(* The leader asks for another try of the thread.  No bound: each retry    *)
(* follows a fault.                                                        *)
Retry(c) ==
    /\ ops[c] \in {"unknown", "failed"}
    /\ ops' = [ops EXCEPT ![c] = "queued"]
    /\ UNCHANGED <<text, threads, messages, intakes, rejected, offset, workers, holder, seen, faults>>

Step(w) ==
    \/ StartTick(w) /\ holder = None
    \/ \E room \in Rooms : FetchRoom(w, room)
    \/ \E m \in Messages, v \in 1..MaxVersion : ReceiveNext(w, m, v)
    \/ CheckDeleted(w) \/ EndRoom(w)
    \/ \E m \in Messages : ReceiveDeleted(w, m)
    \/ ListReviews(w) \/ \E r \in workers[w].reviews : Review(w, r)
    \/ ListOps(w) \/ \E c \in Commands : Deliver(w, c)
    \/ EndTick(w)

IntakeNext ==
    \/ \E m \in Messages : Say(m) \/ Delete(m)
    \/ \E w \in Workers : Step(w) \/ StartTick(w) \/ Abandon(w)
    \/ \E c \in Watched : Look(c) \/ Confirm(c)
    \/ \E c \in Commands : Retry(c)

IntakeSpec == IntakeInit /\ [][IntakeNext]_intakeVars

-----------------------------------------------------------------------------
(* Properties.                                                             *)

(* "edits/deletions cannot leave stale private content in intake text":    *)
(* an intake quotes its messages as they are saved now, even once it is    *)
(* registered, and whatever the order in which two workers saved them.     *)
NoStaleContent ==
    \A c \in Commands : \A q \in intakes[c].content : messages[q[1]] = q[2]

(* The review shown with an intake is of the text shown with it, although  *)
(* the model answers long after it was asked.                              *)
ReviewIsOfContent ==
    \A c \in Commands : intakes[c].review # NoReview => intakes[c].review.of = intakes[c].content

(* What a leader registers is what the leader has read.                    *)
ConfirmedWhatWasSeen ==
    [][\A c \in DOMAIN seen :
        intakes[c].state # "registered" /\ intakes'[c].state = "registered"
            => seen[c].content = intakes[c].content]_intakeVars

(* "外部から削除された本文を通常閲覧に残し続けない": a deleted message leaves    *)
(* the log and the intake for good, though the page of a slow worker may   *)
(* bring it back for a while.                                              *)
DeletedGoesAway ==
    \A m \in Messages :
        text[m] = Deleted ~>
            [](messages[m] <= 0 /\ \A c \in DOMAIN intakes : \A q \in intakes[c].content : q[1] # m)
=============================================================================
