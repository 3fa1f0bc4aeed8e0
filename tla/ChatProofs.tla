------------------------------ MODULE ChatProofs ------------------------------
(***************************************************************************)
(* What holds of sprint chat for any workers, messages, rooms, operations  *)
(* and failures: the delivery of messages, the life of a channel, the      *)
(* intake of tasks, the remarks of Di.                                     *)
(*                                                                         *)
(* Delivery.  "A piece is posted at most once per decision" counts         *)
(* permissions: an operation that is queued is a permission to post each   *)
(* of its pieces once; the claim that finds it queued takes the permission *)
(* over, and several workers may hold one for the same operation, when a   *)
(* slow worker lost its lease and a leader queued the message again.  What *)
(* was posted, what may still be posted and what is queued never exceed    *)
(* what was decided.                                                       *)
(*                                                                         *)
(* Channel.  A cursor leaves no hole in the posts up to its mark, nor      *)
(* between where it goes on backwards and the mark to come; the cursor a   *)
(* worker is about to save leaves none once the page in its hand is saved. *)
(*                                                                         *)
(* Intake.  A text read from a row with its revision is the row's text for *)
(* as long as the revision stands.                                         *)
(*                                                                         *)
(* Remarks.  An operation is queued once; the delivery that takes it alone *)
(* may post, and what it checked can only have moved on since.             *)
(***************************************************************************)
EXTENDS SprintChat, FiniteSetTheorems, TLAPS

-----------------------------------------------------------------------------
(* The delivery of messages.                                               *)

(* The delivery d may still post the piece i of o. *)
MayStillPost(d, o, i) ==
    /\ d.op = o
    /\ d.prior = "queued"
    /\ d.at \in {"looking", "posting"}
    /\ d.piece <= i

Share(d, o, i) == IF MayStillPost(d, o, i) THEN 1 ELSE 0
Holders(o, i) == {w \in Workers : MayStillPost(workers[w], o, i)}
Undecided(state) == IF state \in {"none", "queued"} THEN 1 ELSE 0

(* Nothing is posted that was not decided. *)
WithinDecisions ==
    \A o \in Operations : \A i \in 1..Pieces :
        posted[o][i] + Cardinality(Holders(o, i)) + Undecided(ops[o]) <= 1 + retries[o]

(* What a delivery has passed is there. *)
Sound(d) ==
    /\ d.at \in {"looking", "posting", "finishing"} => d.op \in Operations
    /\ d.at \in {"looking", "posting"} =>
        \A j \in 1..Pieces : j < d.piece => posted[d.op][j] > 0
    /\ d.at = "posting" => d.prior = "queued" /\ d.piece <= Pieces
    /\ d.at = "finishing" =>
        /\ d.outcome \in {"sent", "unknown", "failed"}
        /\ d.outcome = "sent" => \A j \in 1..Pieces : posted[d.op][j] > 0

AllSound == \A w \in Workers : Sound(workers[w])

IInv ==
    /\ ChatTypeOK
    /\ WithinDecisions
    /\ AllSound
    /\ SentIsThere

-----------------------------------------------------------------------------
(* The holders of a permission can be counted. *)
LEMMA HoldersCountable ==
    ASSUME NEW o, NEW i PROVE IsFiniteSet(Holders(o, i)) /\ Cardinality(Holders(o, i)) \in Nat
<1>1. Holders(o, i) \subseteq Workers
  BY DEF Holders
<1>2. IsFiniteSet(Holders(o, i))
  BY <1>1, FS_Subset, ChatAssumption
<1> QED
  BY <1>2, FS_CardinalityType

(* When one worker moves, only its own share of the permissions changes.   *)
LEMMA HoldersStep ==
    ASSUME workers \in [Workers -> Delivery], NEW w \in Workers, NEW d, Goto(w, d),
           NEW o, NEW i
    PROVE  Cardinality(Holders(o, i)') =
             (Cardinality(Holders(o, i)) - Share(workers[w], o, i)) + Share(d, o, i)
<1> DEFINE H == Holders(o, i)
           G == Holders(o, i)'
<1>1. workers' = [workers EXCEPT ![w] = d]
  BY DEF Goto
<1>2. \A v \in Workers : v \in G <=> IF v = w THEN MayStillPost(d, o, i) ELSE v \in H
  BY <1>1 DEF Holders, MayStillPost
<1>3. w \in H <=> MayStillPost(workers[w], o, i)
  BY DEF Holders
<1>4. H \subseteq Workers /\ G \subseteq Workers
  BY DEF Holders
<1>5. IsFiniteSet(H) /\ Cardinality(H) \in Nat
  BY HoldersCountable
<1> HIDE DEF H, G
<1>6. CASE MayStillPost(d, o, i)
  <2>1. G = H \cup {w}
    BY <1>2, <1>4, <1>6
  <2>2. Cardinality(G) = IF w \in H THEN Cardinality(H) ELSE Cardinality(H) + 1
    BY <2>1, <1>5, FS_AddElement
  <2> QED
    BY <1>3, <1>5, <1>6, <2>2 DEF Share, H, G
<1>7. CASE ~MayStillPost(d, o, i)
  <2>1. G = H \ {w}
    BY <1>2, <1>4, <1>7
  <2>2. Cardinality(G) = IF w \in H THEN Cardinality(H) - 1 ELSE Cardinality(H)
    BY <2>1, <1>5, FS_RemoveElement
  <2> QED
    BY <1>3, <1>5, <1>7, <2>2 DEF Share, H, G
<1> QED
  BY <1>6, <1>7

(* A step of one worker that uses up what it adds keeps the count.         *)
LEMMA CountStep ==
    ASSUME IInv, ChatTypeOK', NEW w \in Workers, NEW d \in Delivery, Goto(w, d),
           UNCHANGED retries,
           \A o \in Operations : \A i \in 1..Pieces :
              posted'[o][i] + Share(d, o, i) + Undecided(ops'[o])
                <= posted[o][i] + Share(workers[w], o, i) + Undecided(ops[o])
    PROVE  WithinDecisions'
<1> SUFFICES ASSUME NEW o \in Operations, NEW i \in 1..Pieces
             PROVE  posted'[o][i] + Cardinality(Holders(o, i)') + Undecided(ops'[o])
                      <= 1 + retries'[o]
  BY DEF WithinDecisions, Holders
<1>1. Cardinality(Holders(o, i)') =
        (Cardinality(Holders(o, i)) - Share(workers[w], o, i)) + Share(d, o, i)
  BY HoldersStep DEF IInv, ChatTypeOK
<1>2. Cardinality(Holders(o, i)) \in Nat
  BY HoldersCountable
<1>3. /\ Share(workers[w], o, i) \in {0, 1} /\ Share(d, o, i) \in {0, 1}
      /\ Undecided(ops[o]) \in {0, 1} /\ Undecided(ops'[o]) \in {0, 1}
  BY DEF Share, Undecided
<1>4. posted[o][i] \in Nat /\ posted'[o][i] \in Nat /\ retries[o] \in Nat
  BY ChatAssumption DEF IInv, ChatTypeOK
<1>5. posted[o][i] + Cardinality(Holders(o, i)) + Undecided(ops[o]) <= 1 + retries[o]
  BY DEF IInv, WithinDecisions
<1>6. posted'[o][i] + Share(d, o, i) + Undecided(ops'[o])
        <= posted[o][i] + Share(workers[w], o, i) + Undecided(ops[o])
  OBVIOUS
<1> QED
  BY <1>1, <1>2, <1>3, <1>4, <1>5, <1>6

(* What was posted stays posted, so the deliveries of the others stay      *)
(* sound.                                                                  *)
LEMMA SoundStep ==
    ASSUME IInv, NEW w \in Workers, NEW d, Goto(w, d), Sound(d)',
           \A o \in Operations : \A i \in 1..Pieces : posted[o][i] > 0 => posted'[o][i] > 0
    PROVE  AllSound'
<1>1. workers \in [Workers -> Delivery] /\ workers' = [workers EXCEPT ![w] = d]
  BY DEF IInv, ChatTypeOK, Goto
<1> SUFFICES ASSUME NEW v \in Workers PROVE Sound(workers[v])'
  BY DEF AllSound
<1>2. CASE v = w
  BY <1>1, <1>2 DEF Sound
<1>3. CASE v # w
  <2>1. workers'[v] = workers[v] /\ Sound(workers[v])
    BY <1>1, <1>3 DEF IInv, AllSound
  <2> QED
    BY <2>1 DEF Sound
<1> QED
  BY <1>2, <1>3

(* A worker's step that leaves the table and what was posted alone, gains  *)
(* no permission and stays sound.                                          *)
LEMMA QuietStep ==
    ASSUME IInv, NEW w \in Workers, NEW d \in Delivery, Goto(w, d),
           UNCHANGED <<ops, posted, retries>>,
           lease' \in [owner: Workers \cup {Nobody, "dead"}, expired: BOOLEAN],
           \A o \in Operations : \A i \in 1..Pieces :
              MayStillPost(d, o, i) => MayStillPost(workers[w], o, i),
           Sound(d)
    PROVE  IInv'
<1>1. workers' = [workers EXCEPT ![w] = d] /\ workers \in [Workers -> Delivery]
  BY DEF Goto, IInv, ChatTypeOK
<1>2. ChatTypeOK'
  BY <1>1 DEF IInv, ChatTypeOK
<1>3. \A o \in Operations : \A i \in 1..Pieces :
        posted'[o][i] + Share(d, o, i) + Undecided(ops'[o])
          <= posted[o][i] + Share(workers[w], o, i) + Undecided(ops[o])
  <2> SUFFICES ASSUME NEW o \in Operations, NEW i \in 1..Pieces
               PROVE  posted[o][i] + Share(d, o, i) + Undecided(ops[o])
                        <= posted[o][i] + Share(workers[w], o, i) + Undecided(ops[o])
    OBVIOUS
  <2>1. posted[o][i] \in Nat /\ Undecided(ops[o]) \in {0, 1}
    BY DEF Undecided, IInv, ChatTypeOK
  <2>2. Share(d, o, i) <= Share(workers[w], o, i)
        /\ Share(d, o, i) \in {0, 1} /\ Share(workers[w], o, i) \in {0, 1}
    BY DEF Share
  <2> QED
    BY <2>1, <2>2
<1>4. WithinDecisions'
  BY <1>2, <1>3, CountStep
<1>5. AllSound'
  BY SoundStep DEF Sound
<1>6. SentIsThere'
  BY DEF IInv, SentIsThere
<1> QED
  BY <1>2, <1>4, <1>5, <1>6 DEF IInv

(* StartTick, EndTick, LoseLease, ListPending and Crash: outside of a      *)
(* delivery, or its end.                                                   *)
LEMMA TickSteps ==
    ASSUME IInv, NEW w \in Workers,
           StartTick(w) \/ EndTick(w) \/ LoseLease(w) \/ ListPending(w) \/ Crash(w)
    PROVE  IInv'
<1>1. /\ workers[w] \in Delivery
      /\ lease \in [owner: Workers \cup {Nobody, "dead"}, expired: BOOLEAN]
      /\ ops \in [Operations -> OpStates]
  BY DEF IInv, ChatTypeOK
<1>2. 1 \in 1..Pieces + 1
  BY ChatAssumption
<1>3. /\ Asleep \in Delivery /\ Sound(Asleep)
      /\ \A o, i : ~MayStillPost(Asleep, o, i)
  BY <1>2 DEF Asleep, Delivery, OpStates, Outcomes, Sound, MayStillPost
<1>4. CASE StartTick(w)
  <2> DEFINE d == [Asleep EXCEPT !.at = "listing"]
  <2>1. d \in Delivery /\ d.at = "listing"
    BY <1>2 DEF Asleep, Delivery, OpStates, Outcomes
  <2>2. Sound(d) /\ \A o, i : ~MayStillPost(d, o, i)
    BY <2>1 DEF Sound, MayStillPost
  <2>3. lease' \in [owner: Workers \cup {Nobody, "dead"}, expired: BOOLEAN]
    BY <1>4 DEF StartTick, Renewed
  <2>4. Goto(w, d) /\ UNCHANGED <<ops, posted, retries>>
    BY <1>4 DEF StartTick
  <2> HIDE DEF d
  <2> QED
    BY <2>1, <2>2, <2>3, <2>4, QuietStep
<1>5. CASE EndTick(w)
  <2>1. lease' \in [owner: Workers \cup {Nobody, "dead"}, expired: BOOLEAN]
    BY <1>1, <1>5 DEF EndTick, Released
  <2> QED
    BY <1>3, <1>5, <2>1, QuietStep DEF EndTick
<1>6. CASE LoseLease(w)
  BY <1>1, <1>3, <1>6, QuietStep DEF LoseLease
<1>7. CASE ListPending(w)
  <2> DEFINE d == [workers[w] EXCEPT !.at = "delivering", !.todo = Open]
  <2>1. Open \subseteq Operations
    BY DEF Open
  <2>2. d \in Delivery /\ d.at = "delivering"
    BY <1>1, <2>1 DEF Delivery
  <2>3. Sound(d) /\ \A o, i : ~MayStillPost(d, o, i)
    BY <2>2 DEF Sound, MayStillPost
  <2>4. Goto(w, d) /\ UNCHANGED <<ops, lease, posted, retries>>
    BY <1>7 DEF ListPending
  <2> HIDE DEF d
  <2> QED
    BY <1>1, <2>2, <2>3, <2>4, QuietStep
<1>8. CASE Crash(w)
  <2>1. lease' \in [owner: Workers \cup {Nobody, "dead"}, expired: BOOLEAN]
    BY <1>1, <1>8 DEF Crash
  <2> QED
    BY <1>3, <1>8, <2>1, QuietStep DEF Crash
<1> QED
  BY <1>4, <1>5, <1>6, <1>7, <1>8

(* A look ends the delivery, moves to the next piece or goes on to post    *)
(* the piece it missed, with the permission it holds.                      *)
LEMMA LookStep == ASSUME IInv, NEW w \in Workers, Look(w) PROVE IInv'
<1> DEFINE d == workers[w]
<1>1. /\ d \in Delivery /\ d.at = "looking" /\ Sound(d)
      /\ lease \in [owner: Workers \cup {Nobody, "dead"}, expired: BOOLEAN]
      /\ UNCHANGED <<ops, lease, posted, retries>>
  BY DEF Look, IInv, ChatTypeOK, AllSound
<1>2. d.op \in Operations /\ d.piece \in 1..Pieces + 1 /\ Pieces \in Nat
  BY <1>1, ChatAssumption DEF Sound, Delivery
<1>3. ASSUME NEW outcome \in {"sent", "unknown", "failed"}, Ends(w, outcome),
             outcome = "sent" => d.piece > Pieces
      PROVE  IInv'
  <2> DEFINE e == [d EXCEPT !.at = "finishing", !.outcome = outcome]
  <2>1. /\ e \in Delivery /\ e.at = "finishing" /\ e.op = d.op /\ e.outcome = outcome
    BY <1>1 DEF Delivery, Outcomes
  <2>2. outcome = "sent" => \A j \in 1..Pieces : posted[d.op][j] > 0
    BY <1>1, <1>2, <1>3 DEF Sound
  <2>3. Sound(e) /\ \A o, i : ~MayStillPost(e, o, i)
    BY <1>2, <2>1, <2>2 DEF Sound, MayStillPost
  <2>4. Goto(w, e)
    BY <1>3 DEF Ends
  <2> HIDE DEF e
  <2> QED
    BY <1>1, <2>1, <2>3, <2>4, QuietStep
<1>4. CASE ~AllThere(d) /\ posted[d.op][d.piece] > 0 /\ Goto(w, [d EXCEPT !.piece = @ + 1])
  <2> DEFINE e == [d EXCEPT !.piece = d.piece + 1]
  <2>1. d.piece <= Pieces /\ d.piece + 1 \in 1..Pieces + 1
    BY <1>2, <1>4 DEF AllThere
  <2>2. /\ e \in Delivery /\ e.at = "looking" /\ e.op = d.op /\ e.prior = d.prior
        /\ e.piece = d.piece + 1
    BY <1>1, <2>1 DEF Delivery
  <2>3. Sound(e)
    BY <1>1, <1>2, <1>4, <2>1, <2>2 DEF Sound
  <2>4. \A o \in Operations : \A i \in 1..Pieces : MayStillPost(e, o, i) => MayStillPost(d, o, i)
    BY <1>1, <1>2, <2>2 DEF MayStillPost
  <2>5. Goto(w, e)
    BY <1>4
  <2> HIDE DEF e
  <2> QED
    BY <1>1, <2>2, <2>3, <2>4, <2>5, QuietStep
<1>5. CASE ~AllThere(d) /\ MayPost(w) /\ Goto(w, [d EXCEPT !.at = "posting"])
  <2> DEFINE e == [d EXCEPT !.at = "posting"]
  <2>1. /\ e \in Delivery /\ e.at = "posting" /\ e.op = d.op /\ e.prior = d.prior
        /\ e.piece = d.piece
    BY <1>1 DEF Delivery
  <2>2. d.prior = "queued" /\ d.piece <= Pieces
    BY <1>2, <1>5 DEF MayPost, AllThere
  <2>3. Sound(e)
    BY <1>1, <2>1, <2>2 DEF Sound
  <2>4. \A o \in Operations : \A i \in 1..Pieces : MayStillPost(e, o, i) => MayStillPost(d, o, i)
    BY <1>1, <2>1 DEF MayStillPost
  <2>5. Goto(w, e)
    BY <1>5
  <2> HIDE DEF e
  <2> QED
    BY <1>1, <2>1, <2>3, <2>4, <2>5, QuietStep
<1>6. \/ \E outcome \in {"sent", "unknown", "failed"} :
            Ends(w, outcome) /\ (outcome = "sent" => AllThere(d))
      \/ ~AllThere(d) /\ posted[d.op][d.piece] > 0 /\ Goto(w, [d EXCEPT !.piece = @ + 1])
      \/ ~AllThere(d) /\ MayPost(w) /\ Goto(w, [d EXCEPT !.at = "posting"])
  BY Zenon DEF Look
<1> QED
  BY <1>3, <1>4, <1>5, <1>6 DEF AllThere

(* A claim of a queued operation turns its permission into the worker's;   *)
(* a claim of anything else carries none.                                  *)
LEMMA ClaimStep ==
    ASSUME IInv, NEW w \in Workers, NEW o \in Operations, Claim(w, o) PROVE IInv'
<1> DEFINE d == workers[w]
<1>1. /\ d \in Delivery /\ d.at = "delivering"
      /\ ops \in [Operations -> OpStates] /\ posted \in [Operations -> [1..Pieces -> Nat]]
      /\ workers \in [Workers -> Delivery]
      /\ UNCHANGED <<posted, retries>>
  BY DEF Claim, IInv, ChatTypeOK
<1>2. lease' \in [owner: Workers \cup {Nobody, "dead"}, expired: BOOLEAN]
  BY DEF Claim, Renewed
<1>3. CASE ops[o] \in {"sent", "failed"}
  <2> DEFINE e == [d EXCEPT !.todo = @ \ {o}]
  <2>1. e \in Delivery /\ e.at = "delivering"
    BY <1>1 DEF Delivery
  <2>2. Sound(e) /\ \A x, i : ~MayStillPost(e, x, i)
    BY <2>1 DEF Sound, MayStillPost
  <2>3. Goto(w, e) /\ UNCHANGED ops
    BY <1>3 DEF Claim
  <2> HIDE DEF e
  <2> QED
    BY <1>1, <1>2, <2>1, <2>2, <2>3, QuietStep
<1>4. CASE ops[o] \notin {"sent", "failed"}
  <2> DEFINE claimed == [d EXCEPT !.at = "looking", !.todo = @ \ {o}, !.op = o,
                                  !.prior = Prior(o), !.piece = 1]
  <2> PICK e : e = claimed
    OBVIOUS
  <2>1. Goto(w, e) /\ ops' = [ops EXCEPT ![o] = "sending"]
    BY <1>4 DEF Claim
  <2>2. ops[o] \in OpStates /\ 1 \in 1..Pieces + 1
    BY <1>1, ChatAssumption
  <2>3. /\ e \in Delivery /\ e.at = "looking" /\ e.op = o /\ e.piece = 1
        /\ e.prior = ops[o]
    BY <1>1, <2>2 DEF Delivery, Prior
  <2>4. Sound(e)'
    BY <2>3, ChatAssumption DEF Sound
  <2>5. ChatTypeOK'
    <3>1. workers' = [workers EXCEPT ![w] = e]
      BY <2>1 DEF Goto
    <3>2. ops' \in [Operations -> OpStates]
      BY <1>1, <2>1 DEF OpStates
    <3> QED
      BY <1>1, <1>2, <2>3, <3>1, <3>2 DEF IInv, ChatTypeOK
  <2>6. \A x \in Operations : \A i \in 1..Pieces :
          posted'[x][i] + Share(e, x, i) + Undecided(ops'[x])
            <= posted[x][i] + Share(d, x, i) + Undecided(ops[x])
    <3> SUFFICES ASSUME NEW x \in Operations, NEW i \in 1..Pieces
                 PROVE  posted[x][i] + Share(e, x, i) + Undecided(ops'[x])
                          <= posted[x][i] + Share(d, x, i) + Undecided(ops[x])
      BY <1>1
    <3>1. posted[x][i] \in Nat /\ Share(d, x, i) = 0
      BY <1>1 DEF Share, MayStillPost
    <3>2. CASE x = o
      <4>1. ops'[x] = "sending"
        BY <1>1, <2>1, <3>2
      <4>2. Undecided(ops'[x]) = 0
        BY <4>1 DEF Undecided
      <4>3. Share(e, x, i) = IF ops[o] = "queued" THEN 1 ELSE 0
        BY <2>3, <3>2 DEF Share, MayStillPost
      <4>4. Undecided(ops[x]) \in {0, 1} /\ (ops[x] = "queued" => Undecided(ops[x]) = 1)
        BY DEF Undecided
      <4> QED
        BY <3>1, <3>2, <4>2, <4>3, <4>4
    <3>3. CASE x # o
      <4>1. ops'[x] = ops[x]
        BY <1>1, <2>1, <3>3
      <4>2. Share(e, x, i) = 0
        BY <2>3, <3>3 DEF Share, MayStillPost
      <4>3. Undecided(ops[x]) \in {0, 1}
        BY DEF Undecided
      <4> QED
        BY <3>1, <4>1, <4>2, <4>3
    <3> QED
      BY <3>2, <3>3
  <2>7. WithinDecisions'
    BY <1>1, <2>1, <2>3, <2>5, <2>6, CountStep
  <2>8. AllSound'
    BY <1>1, <2>1, <2>4, SoundStep
  <2>9. SentIsThere'
    <3> SUFFICES ASSUME NEW x \in Operations, ops'[x] = "sent", NEW i \in 1..Pieces
                 PROVE  posted[x][i] > 0
      BY <1>1 DEF SentIsThere
    <3>1. ops[x] = "sent"
      BY <1>1, <2>1
    <3> QED
      BY <3>1 DEF IInv, SentIsThere
  <2> QED
    BY <2>5, <2>7, <2>8, <2>9 DEF IInv
<1> QED
  BY <1>3, <1>4

(* A post uses up the permission for its piece, whether its answer comes   *)
(* back or not.                                                            *)
LEMMA PostStep == ASSUME IInv, NEW w \in Workers, Post(w) PROVE IInv'
<1> DEFINE d == workers[w]
<1>1. /\ d \in Delivery /\ d.at = "posting" /\ Sound(d)
      /\ workers \in [Workers -> Delivery] /\ posted \in [Operations -> [1..Pieces -> Nat]]
      /\ lease \in [owner: Workers \cup {Nobody, "dead"}, expired: BOOLEAN]
      /\ UNCHANGED <<ops, lease, retries>>
  BY DEF Post, IInv, ChatTypeOK, AllSound
<1>2. d.op \in Operations /\ d.piece \in 1..Pieces /\ Pieces \in Nat /\ d.prior = "queued"
  BY <1>1, ChatAssumption DEF Sound, Delivery
<1> DEFINE over == [d EXCEPT !.at = "finishing", !.outcome = "unknown"]
           refused == [d EXCEPT !.at = "finishing", !.outcome = "failed"]
           on == [d EXCEPT !.at = "looking", !.piece = d.piece + 1]
<1>3. /\ over \in Delivery /\ over.at = "finishing" /\ over.op = d.op
      /\ over.outcome = "unknown"
      /\ refused \in Delivery /\ refused.at = "finishing" /\ refused.op = d.op
      /\ refused.outcome = "failed"
  BY <1>1 DEF Delivery, Outcomes
<1>4. /\ on \in Delivery /\ on.at = "looking" /\ on.op = d.op /\ on.prior = d.prior
      /\ on.piece = d.piece + 1
  <2>1. d.piece + 1 \in 1..Pieces + 1
    BY <1>2
  <2> QED
    BY <1>1, <2>1 DEF Delivery
<1>5. \/ (Goto(w, over) \/ Goto(w, refused)) /\ UNCHANGED posted
      \/ (Goto(w, over) \/ Goto(w, on)) /\ Arrives(d.op, d.piece)
  BY DEF Post, Ends
<1> HIDE DEF over, refused, on
<1>6. CASE (Goto(w, over) \/ Goto(w, refused)) /\ UNCHANGED posted
  <2> PICK e \in {over, refused} : Goto(w, e)
    BY <1>6
  <2>1. /\ e \in Delivery /\ e.at = "finishing" /\ e.op = d.op
        /\ Sound(e) /\ \A o, i : ~MayStillPost(e, o, i)
    BY <1>2, <1>3 DEF Sound, MayStillPost
  <2> QED
    BY <1>1, <1>6, <2>1, QuietStep
<1>7. CASE (Goto(w, over) \/ Goto(w, on)) /\ Arrives(d.op, d.piece)
  <2> PICK e \in {over, on} : Goto(w, e)
    BY <1>7
  <2>1. /\ posted' \in [Operations -> [1..Pieces -> Nat]]
        /\ \A o \in Operations : \A i \in 1..Pieces :
             posted'[o][i] = IF o = d.op /\ i = d.piece THEN posted[o][i] + 1 ELSE posted[o][i]
    BY <1>1, <1>2, <1>7 DEF Arrives
  <2>2. \A o \in Operations : \A i \in 1..Pieces : posted[o][i] > 0 => posted'[o][i] > 0
    <3> SUFFICES ASSUME NEW o \in Operations, NEW i \in 1..Pieces, posted[o][i] > 0
                 PROVE  posted'[o][i] > 0
      OBVIOUS
    <3>1. posted[o][i] \in Nat
      BY <1>1
    <3>2. posted'[o][i] \in {posted[o][i], posted[o][i] + 1}
      BY <2>1
    <3> QED
      BY <3>1, <3>2
  <2>3. e \in Delivery /\ e.op = d.op
    BY <1>3, <1>4
  <2>4. Sound(e)'
    <3>1. CASE e = over
      BY <1>2, <1>3, <3>1 DEF Sound
    <3>2. CASE e = on
      <4>1. \A j \in 1..Pieces : j < d.piece + 1 => posted'[d.op][j] > 0
        <5> SUFFICES ASSUME NEW j \in 1..Pieces, j < d.piece + 1
                     PROVE  posted'[d.op][j] > 0
          OBVIOUS
        <5>1. CASE j = d.piece
          <6>1. posted[d.op][j] \in Nat /\ posted'[d.op][j] = posted[d.op][j] + 1
            BY <1>1, <1>2, <2>1, <5>1
          <6> QED
            BY <6>1
        <5>2. CASE j < d.piece
          <6>1. posted[d.op][j] > 0
            BY <1>1, <5>2 DEF Sound
          <6> QED
            BY <1>2, <2>2, <6>1
        <5> QED
          BY <1>2, <5>1, <5>2
      <4> QED
        BY <1>2, <1>4, <3>2, <4>1 DEF Sound
    <3> QED
      BY <3>1, <3>2
  <2>5. ChatTypeOK'
    <3>1. workers' = [workers EXCEPT ![w] = e]
      BY DEF Goto
    <3> QED
      BY <1>1, <2>1, <2>3, <3>1 DEF IInv, ChatTypeOK
  <2>6. \A o \in Operations : \A i \in 1..Pieces :
          posted'[o][i] + Share(e, o, i) + Undecided(ops'[o])
            <= posted[o][i] + Share(d, o, i) + Undecided(ops[o])
    <3> SUFFICES ASSUME NEW o \in Operations, NEW i \in 1..Pieces
                 PROVE  posted'[o][i] + Share(e, o, i) + Undecided(ops[o])
                          <= posted[o][i] + Share(d, o, i) + Undecided(ops[o])
      BY <1>1
    <3>1. posted[o][i] \in Nat /\ Undecided(ops[o]) \in {0, 1}
          /\ Share(e, o, i) \in {0, 1} /\ Share(d, o, i) \in {0, 1}
      BY <1>1 DEF Undecided, Share
    <3>2. MayStillPost(e, o, i) => MayStillPost(d, o, i) /\ i # d.piece
      BY <1>1, <1>2, <1>3, <1>4 DEF MayStillPost
    <3>3. MayStillPost(d, d.op, d.piece)
      BY <1>1, <1>2 DEF MayStillPost
    <3>4. CASE o = d.op /\ i = d.piece
      <4>1. Share(d, o, i) = 1 /\ Share(e, o, i) = 0
        BY <3>2, <3>3, <3>4 DEF Share
      <4>2. posted'[o][i] = posted[o][i] + 1
        BY <2>1, <3>4
      <4> QED
        BY <3>1, <4>1, <4>2
    <3>5. CASE ~(o = d.op /\ i = d.piece)
      <4>1. Share(e, o, i) <= Share(d, o, i)
        BY <3>2 DEF Share
      <4>2. posted'[o][i] = posted[o][i]
        BY <2>1, <3>5
      <4> QED
        BY <3>1, <4>1, <4>2
    <3> QED
      BY <3>4, <3>5
  <2>7. WithinDecisions'
    BY <1>1, <2>3, <2>5, <2>6, CountStep
  <2>8. AllSound'
    BY <2>2, <2>4, SoundStep
  <2>9. SentIsThere'
    BY <1>1, <2>2 DEF IInv, SentIsThere
  <2> QED
    BY <2>5, <2>7, <2>8, <2>9 DEF IInv
<1> QED
  BY <1>5, <1>6, <1>7

(* finish can end a permission that was queued meanwhile, never make one.  *)
LEMMA FinishStep == ASSUME IInv, NEW w \in Workers, Finish(w) PROVE IInv'
<1> DEFINE d == workers[w]
           resting == [Asleep EXCEPT !.at = "delivering", !.todo = d.todo]
<1> PICK e : e = resting
  OBVIOUS
<1>1. /\ d \in Delivery /\ d.at = "finishing" /\ Sound(d)
      /\ workers \in [Workers -> Delivery] /\ ops \in [Operations -> OpStates]
      /\ posted \in [Operations -> [1..Pieces -> Nat]]
      /\ UNCHANGED <<lease, posted, retries>>
  BY DEF Finish, IInv, ChatTypeOK, AllSound
<1>2. d.op \in Operations /\ d.outcome \in {"sent", "unknown", "failed"}
  BY <1>1 DEF Sound
<1>3. Goto(w, e) /\ ops' = [ops EXCEPT ![d.op] = Finished(ops[d.op], d.outcome)]
  BY DEF Finish
<1>4. e \in Delivery /\ e.at = "delivering"
  <2>1. 1 \in 1..Pieces + 1
    BY ChatAssumption
  <2> QED
    BY <1>1, <2>1 DEF Asleep, Delivery, OpStates, Outcomes
<1>5. Sound(e)' /\ \A o, i : ~MayStillPost(e, o, i)
  BY <1>4 DEF Sound, MayStillPost
<1>6. /\ Finished(ops[d.op], d.outcome) \in {"sent", "unknown", "failed"}
      /\ Finished(ops[d.op], d.outcome) = "sent" => ops[d.op] = "sent" \/ d.outcome = "sent"
  BY <1>2 DEF Finished
<1>7. \A o \in Operations :
        ops'[o] = IF o = d.op THEN Finished(ops[d.op], d.outcome) ELSE ops[o]
  BY <1>1, <1>3
<1>8. ChatTypeOK'
  <2>1. workers' = [workers EXCEPT ![w] = e]
    BY <1>3 DEF Goto
  <2>2. ops' \in [Operations -> OpStates]
    BY <1>1, <1>3, <1>6 DEF OpStates
  <2> QED
    BY <1>1, <1>4, <2>1, <2>2 DEF IInv, ChatTypeOK
<1>9. \A o \in Operations : \A i \in 1..Pieces :
        posted'[o][i] + Share(e, o, i) + Undecided(ops'[o])
          <= posted[o][i] + Share(d, o, i) + Undecided(ops[o])
  <2> SUFFICES ASSUME NEW o \in Operations, NEW i \in 1..Pieces
               PROVE  posted[o][i] + Share(e, o, i) + Undecided(ops'[o])
                        <= posted[o][i] + Share(d, o, i) + Undecided(ops[o])
    BY <1>1
  <2>1. posted[o][i] \in Nat /\ Share(e, o, i) = 0 /\ Share(d, o, i) = 0
    BY <1>1, <1>5 DEF Share, MayStillPost
  <2>2. Undecided(ops'[o]) <= Undecided(ops[o])
        /\ Undecided(ops'[o]) \in {0, 1} /\ Undecided(ops[o]) \in {0, 1}
    BY <1>6, <1>7 DEF Undecided
  <2> QED
    BY <2>1, <2>2
<1>10. WithinDecisions'
  BY <1>1, <1>3, <1>4, <1>8, <1>9, CountStep
<1>11. AllSound'
  BY <1>1, <1>3, <1>5, SoundStep
<1>12. SentIsThere'
  <2> SUFFICES ASSUME NEW o \in Operations, ops'[o] = "sent", NEW i \in 1..Pieces
               PROVE  posted[o][i] > 0
    BY <1>1 DEF SentIsThere
  <2>1. CASE ops[o] = "sent"
    BY <2>1 DEF IInv, SentIsThere
  <2>2. CASE ops[o] # "sent"
    <3>1. o = d.op /\ d.outcome = "sent"
      BY <1>6, <1>7, <2>2
    <3> QED
      BY <1>1, <3>1 DEF Sound
  <2> QED
    BY <2>1, <2>2
<1> QED
  BY <1>8, <1>10, <1>11, <1>12 DEF IInv

(* What no worker does: a message is queued, a leader queues it again, the *)
(* lease runs out.                                                         *)
LEMMA OutsideStep ==
    ASSUME IInv, \/ \E o \in Operations : Enqueue(o) \/ Retry(o)
                 \/ LeaseRunsOut
    PROVE  IInv'
<1>1. /\ ops \in [Operations -> OpStates] /\ retries \in [Operations -> 0..MaxRetries]
      /\ lease \in [owner: Workers \cup {Nobody, "dead"}, expired: BOOLEAN]
      /\ posted \in [Operations -> [1..Pieces -> Nat]]
      /\ MaxRetries \in Nat
  BY ChatAssumption DEF IInv, ChatTypeOK
<1>2. UNCHANGED <<workers, posted>>
  BY DEF Enqueue, Retry, LeaseRunsOut
<1>3. /\ ops' \in [Operations -> OpStates]
      /\ retries' \in [Operations -> 0..MaxRetries]
      /\ lease' \in [owner: Workers \cup {Nobody, "dead"}, expired: BOOLEAN]
      /\ \A o \in Operations :
            /\ Undecided(ops'[o]) - retries'[o] <= Undecided(ops[o]) - retries[o]
            /\ ops'[o] = "sent" => ops[o] = "sent"
  <2>1. CASE LeaseRunsOut
    <3>1. UNCHANGED <<ops, retries>> /\ lease' = [lease EXCEPT !.expired = TRUE]
      BY <2>1 DEF LeaseRunsOut
    <3>2. lease' \in [owner: Workers \cup {Nobody, "dead"}, expired: BOOLEAN]
      BY <1>1, <3>1
    <3>3. ASSUME NEW o \in Operations
          PROVE  Undecided(ops'[o]) - retries'[o] <= Undecided(ops[o]) - retries[o]
      <4>1. Undecided(ops[o]) \in {0, 1} /\ retries[o] \in Nat
        BY <1>1 DEF Undecided
      <4>2. ops'[o] = ops[o] /\ retries'[o] = retries[o]
        BY <3>1
      <4> QED
        BY <4>1, <4>2
    <3> QED
      BY <1>1, <3>1, <3>2, <3>3
  <2>2. ASSUME NEW o \in Operations, Enqueue(o) \/ Retry(o)
        PROVE  /\ ops' \in [Operations -> OpStates]
               /\ retries' \in [Operations -> 0..MaxRetries]
               /\ UNCHANGED lease
               /\ \A x \in Operations :
                    /\ Undecided(ops'[x]) - retries'[x] <= Undecided(ops[x]) - retries[x]
                    /\ ops'[x] = "sent" => ops[x] = "sent"
    <3>1. ops' = [ops EXCEPT ![o] = "queued"] /\ UNCHANGED lease
      BY <2>2 DEF Enqueue, Retry
    <3>2. \/ ops[o] = "none" /\ UNCHANGED retries
          \/ /\ ops[o] \in {"unknown", "failed"} /\ retries[o] < MaxRetries
             /\ retries' = [retries EXCEPT ![o] = retries[o] + 1]
      BY <2>2 DEF Enqueue, Retry
    <3>3. ops' \in [Operations -> OpStates]
      BY <1>1, <3>1 DEF OpStates
    <3>4. retries' \in [Operations -> 0..MaxRetries]
      BY <1>1, <3>2
    <3>5. ASSUME NEW x \in Operations
          PROVE  /\ Undecided(ops'[x]) - retries'[x] <= Undecided(ops[x]) - retries[x]
                 /\ ops'[x] = "sent" => ops[x] = "sent"
      <4>1. retries[x] \in Nat /\ Undecided(ops[x]) \in {0, 1}
        BY <1>1 DEF Undecided
      <4>2. CASE x # o
        <5>1. ops'[x] = ops[x] /\ retries'[x] = retries[x]
          BY <1>1, <3>1, <3>2, <4>2
        <5> QED
          BY <4>1, <5>1
      <4>3. CASE x = o
        <5>1. ops'[x] = "queued" /\ Undecided(ops'[x]) = 1
          BY <1>1, <3>1, <4>3 DEF Undecided
        <5>2. CASE ops[o] = "none" /\ UNCHANGED retries
          BY <4>1, <4>3, <5>1, <5>2 DEF Undecided
        <5>3. CASE ops[o] \in {"unknown", "failed"} /\ retries' = [retries EXCEPT ![o] = retries[o] + 1]
          <6>1. Undecided(ops[x]) = 0 /\ retries'[x] = retries[x] + 1
            BY <1>1, <4>3, <5>3 DEF Undecided
          <6> QED
            BY <4>1, <5>1, <6>1
        <5> QED
          BY <3>2, <5>2, <5>3
      <4> QED
        BY <4>2, <4>3
    <3> QED
      BY <3>1, <3>3, <3>4, <3>5
  <2> QED
    BY <1>1, <2>1, <2>2
<1>4. ChatTypeOK'
  BY <1>2, <1>3 DEF IInv, ChatTypeOK
<1>5. WithinDecisions'
  <2> SUFFICES ASSUME NEW o \in Operations, NEW i \in 1..Pieces
               PROVE  posted[o][i] + Cardinality(Holders(o, i)) + Undecided(ops'[o])
                        <= 1 + retries'[o]
    BY <1>2 DEF WithinDecisions, Holders
  <2>1. posted[o][i] + Cardinality(Holders(o, i)) + Undecided(ops[o]) <= 1 + retries[o]
    BY DEF IInv, WithinDecisions
  <2>2. Cardinality(Holders(o, i)) \in Nat
    BY HoldersCountable
  <2>3. posted[o][i] \in Nat /\ retries[o] \in Nat /\ retries'[o] \in Nat
    <3>1. retries[o] \in 0..MaxRetries /\ retries'[o] \in 0..MaxRetries
      BY <1>1, <1>3
    <3>2. posted[o][i] \in Nat
      BY <1>1
    <3> QED
      BY <1>1, <3>1, <3>2
  <2>4. Undecided(ops[o]) \in {0, 1} /\ Undecided(ops'[o]) \in {0, 1}
    BY DEF Undecided
  <2>5. Undecided(ops'[o]) - retries'[o] <= Undecided(ops[o]) - retries[o]
    BY <1>3
  <2> QED
    BY <2>1, <2>2, <2>3, <2>4, <2>5
<1>6. AllSound'
  BY <1>2 DEF IInv, AllSound, Sound
<1>7. SentIsThere'
  BY <1>2, <1>3 DEF IInv, SentIsThere
<1> QED
  BY <1>4, <1>5, <1>6, <1>7 DEF IInv

-----------------------------------------------------------------------------
(* Nothing is posted, claimed or queued at the start. *)
LEMMA InitIInv == ChatInit => IInv
<1> SUFFICES ASSUME ChatInit PROVE IInv
  OBVIOUS
<1>1. 1 \in 1..Pieces + 1 /\ MaxRetries \in Nat
  BY ChatAssumption
<1>2. Asleep \in Delivery /\ Asleep.at = "idle"
  BY <1>1 DEF Asleep, Delivery, OpStates, Outcomes
<1>3. ChatTypeOK
  BY <1>1, <1>2 DEF ChatInit, ChatTypeOK, OpStates
<1>4. AllSound
  BY <1>2 DEF ChatInit, AllSound, Sound
<1>5. WithinDecisions
  <2> SUFFICES ASSUME NEW o \in Operations, NEW i \in 1..Pieces
               PROVE  posted[o][i] + Cardinality(Holders(o, i)) + Undecided(ops[o])
                        <= 1 + retries[o]
    BY DEF WithinDecisions
  <2>1. Holders(o, i) = {}
    BY <1>2 DEF ChatInit, Holders, MayStillPost
  <2>2. Cardinality(Holders(o, i)) = 0
    BY <2>1, FS_EmptySet
  <2>3. Undecided(ops[o]) = 1 /\ posted[o][i] = 0 /\ retries[o] = 0
    BY DEF ChatInit, Undecided
  <2> QED
    BY <2>2, <2>3
<1>6. SentIsThere
  BY DEF ChatInit, SentIsThere
<1> QED
  BY <1>3, <1>4, <1>5, <1>6 DEF IInv

(* Every step keeps the invariant. *)
LEMMA NextIInv == IInv /\ [ChatNext]_chatVars => IInv'
<1> SUFFICES ASSUME IInv, [ChatNext]_chatVars PROVE IInv'
  OBVIOUS
<1>1. CASE \E w \in Workers : Step(w) \/ Crash(w)
  <2> PICK w \in Workers : Step(w) \/ Crash(w)
    BY <1>1
  <2>1. CASE StartTick(w) \/ EndTick(w) \/ LoseLease(w) \/ ListPending(w) \/ Crash(w)
    BY <2>1, TickSteps
  <2>2. CASE \E o \in Operations : Claim(w, o)
    BY <2>2, ClaimStep
  <2>3. CASE Look(w)
    BY <2>3, LookStep
  <2>4. CASE Post(w)
    BY <2>4, PostStep
  <2>5. CASE Finish(w)
    BY <2>5, FinishStep
  <2> QED
    BY <2>1, <2>2, <2>3, <2>4, <2>5 DEF Step
<1>2. CASE (\E o \in Operations : Enqueue(o) \/ Retry(o)) \/ LeaseRunsOut
  BY <1>2, OutsideStep
<1>3. CASE UNCHANGED chatVars
  BY <1>3 DEF chatVars, IInv, ChatTypeOK, WithinDecisions, Holders, AllSound, Sound, SentIsThere
<1> QED
  BY <1>1, <1>2, <1>3 DEF ChatNext

(* The inductive invariant of the delivery. *)
THEOREM DeliveryInvariance == ChatSpec => []IInv
BY InitIInv, NextIInv, PTL DEF ChatSpec

(* The outbox, the lease and the deliveries keep their types (outbox.ts,   *)
(* records.ts).                                                            *)
THEOREM ChatTypeCorrect == ChatSpec => []ChatTypeOK
<1>1. IInv => ChatTypeOK
  BY DEF IInv
<1> QED
  BY <1>1, DeliveryInvariance, PTL

(* No piece of a message is posted more often than a person decided, for   *)
(* any number of workers that crash, lose their lease in the middle of a   *)
(* call and deliver the same operation together (outbox.ts, delivery.ts,   *)
(* discord-transport.ts).                                                  *)
THEOREM PostedAsDecided == ChatSpec => []PostedOncePerDecision
<1>1. IInv => PostedOncePerDecision
  <2> SUFFICES ASSUME IInv, NEW o \in Operations, NEW i \in 1..Pieces
               PROVE  posted[o][i] <= 1 + retries[o]
    BY DEF PostedOncePerDecision
  <2>1. posted[o][i] + Cardinality(Holders(o, i)) + Undecided(ops[o]) <= 1 + retries[o]
    BY DEF IInv, WithinDecisions
  <2>2. /\ Cardinality(Holders(o, i)) \in Nat /\ Undecided(ops[o]) \in {0, 1}
        /\ posted[o][i] \in Nat /\ retries[o] \in Nat
    BY HoldersCountable, ChatAssumption DEF Undecided, IInv, ChatTypeOK
  <2> QED
    BY <2>1, <2>2
<1> QED
  BY <1>1, DeliveryInvariance, PTL

(* A message recorded as sent is there with all its pieces (outbox.ts,     *)
(* finish).                                                                *)
THEOREM SentMessagesAreThere == ChatSpec => []SentIsThere
<1>1. IInv => SentIsThere
  BY DEF IInv
<1> QED
  BY <1>1, DeliveryInvariance, PTL
-----------------------------------------------------------------------------
(* The life of a channel.                                                  *)

CursorRow == [last: Nat, before: Nat, high: Nat, complete: BOOLEAN, after: BOOLEAN]
RoomsOnDiscord == [made: BOOLEAN, posts: [ChannelRooms -> Nat], final: Nat, archived: BOOLEAN]
ChannelOpStates == {"none", "queued", "unknown", "failed", "sent"}

(* The fields of a tick: those of its reading matter here.                 *)
IsChannelTick(d) ==
    d \in [at: {d.at}, view: {d.view}, surface: {d.surface}, rooms: {d.rooms},
           room: ChannelRooms, cursor: CursorRow, page: {d.page}, complete: BOOLEAN,
           todo: {d.todo}]

ChannelTyped ==
    /\ cursor \in [ChannelRooms -> CursorRow]
    /\ DOMAIN logged = ChannelRooms
    /\ discord \in RoomsOnDiscord
    /\ channelOps \in [Channel!Kinds -> ChannelOpStates]
    /\ DOMAIN channelWorkers = ChannelWorkers
    /\ \A w \in ChannelWorkers : IsChannelTick(channelWorkers[w])

(* What the cursor says was read is among these posts: up to its mark, and *)
(* from where it goes on backwards up to the mark to come.                 *)
NoHoles(c, posts) ==
    /\ 1..c.last \subseteq posts
    /\ c.before # 0 => c.before..c.high \subseteq posts
    /\ c.before = 0 <=> c.high = 0

(* A worker's cursor may claim the page it is about to save.               *)
Whole(d, log) ==
    /\ d.at = "fetching" => NoHoles(d.cursor, log[d.room])
    /\ d.at = "receiving" => NoHoles(d.cursor, log[d.room] \cup d.page)

AllWhole ==
    /\ \A r \in ChannelRooms : NoHoles(cursor[r], logged[r])
    /\ \A w \in ChannelWorkers : Whole(channelWorkers[w], logged)

(* No archive is decided before the final summary is posted and read.      *)
SummaryFirst(states, rooms, log) ==
    /\ states["final"] = "sent" => rooms.final # 0
    /\ states["archive"] # "none" => rooms.final # 0 /\ rooms.final \in log[Root]
    /\ rooms.archived => states["archive"] # "none"

ChannelInv == ChannelTyped /\ AllWhole /\ SummaryFirst(channelOps, discord, logged)

(* The module counts as everybody does.                                    *)
LEMMA ChannelCounts == \A S : Channel!Cardinality(S) = Cardinality(S)
BY Zenon DEF Channel!Cardinality, Cardinality

(* A page is the interval that ends before the cursor's mark.              *)
LEMMA PageIsInterval ==
    ASSUME NEW c \in CursorRow, NEW n \in Nat
    PROVE  LET end == IF c.before = 0 THEN n ELSE c.before - 1
               first == IF end > PageSize THEN end - PageSize + 1 ELSE 1
           IN  /\ end \in Nat /\ first \in Nat \ {0}
               /\ Channel!PageOf(c, n) = first..end
               /\ Cardinality(first..end) < PageSize => first = 1
               /\ end = 0 => Cardinality(first..end) < PageSize
<1> DEFINE end == IF c.before = 0 THEN n ELSE c.before - 1
           first == IF end > PageSize THEN end - PageSize + 1 ELSE 1
<1>1. c.before \in Nat /\ PageSize \in Nat \ {0}
  BY ChannelAssumption DEF CursorRow
<1>2. end \in Nat /\ first \in Nat \ {0} /\ first <= end + 1
  BY <1>1
<1>3. Channel!PageOf(c, n) = {i \in 1..end : i > end - PageSize}
  BY DEF Channel!PageOf
<1>4. Channel!PageOf(c, n) = first..end
  BY <1>1, <1>2, <1>3
<1> HIDE DEF end, first
<1>5. Cardinality(first..end) = IF first > end THEN 0 ELSE end - first + 1
  BY <1>2, FS_Interval
<1>6. Cardinality(first..end) < PageSize => first = 1
  <2>1. CASE end > PageSize
    BY <1>1, <1>2, <1>5, <2>1 DEF first
  <2>2. CASE ~(end > PageSize)
    BY <2>2 DEF first
  <2> QED
    BY <2>1, <2>2
<1>7. end = 0 => Cardinality(first..end) < PageSize
  BY <1>1, <1>2, <1>5
<1> QED
  BY <1>2, <1>4, <1>6, <1>7 DEF end, first

(* The first and the last of an interval.                                  *)
LEMMA EndsOfInterval ==
    ASSUME NEW a \in Nat \ {0}, NEW b \in Nat, a <= b
    PROVE  Channel!Highest(a..b) = b /\ Channel!Lowest(a..b) = a
<1>1. /\ b \in (a..b) \cup {0} /\ \A j \in a..b : j <= b
      /\ \A i \in (a..b) \cup {0} : (\A j \in a..b : j <= i) => i = b
  OBVIOUS
<1>2. Channel!Highest(a..b) = b
  BY <1>1 DEF Channel!Highest
<1>3. a \in a..b /\ \A i \in a..b : (\A j \in a..b : i <= j) <=> i = a
  OBVIOUS
<1>4. Channel!Lowest(a..b) = a
  BY <1>3 DEF Channel!Lowest
<1> QED
  BY <1>2, <1>4

(* What is read of it: the first and the last of the interval, if any.     *)
LEMMA PageEnds ==
    ASSUME NEW c \in CursorRow, NEW n \in Nat
    PROVE  LET page == Channel!PageOf(c, n)
               end == IF c.before = 0 THEN n ELSE c.before - 1
               first == IF end > PageSize THEN end - PageSize + 1 ELSE 1
           IN  /\ page # {} => /\ first <= end
                               /\ Channel!Highest(page) = end /\ Channel!Lowest(page) = first
               /\ page = {} => end = 0
<1> DEFINE page == Channel!PageOf(c, n)
           end == IF c.before = 0 THEN n ELSE c.before - 1
           first == IF end > PageSize THEN end - PageSize + 1 ELSE 1
<1>1. end \in Nat /\ first \in Nat \ {0} /\ page = first..end
  BY PageIsInterval, Zenon
<1>2. page # {} => first <= end /\ Channel!Highest(page) = end /\ Channel!Lowest(page) = first
  <2>1. page # {} => first <= end
    BY <1>1
  <2> QED
    BY <1>1, <2>1, EndsOfInterval
<1>3. page = {} => end = 0
  <2>1. page = {} => ~(first <= end)
    <3>1. first <= end => first \in first..end
      BY <1>1
    <3> QED
      BY <1>1, <3>1
  <2>2. PageSize \in Nat /\ PageSize > 0
    BY ChannelAssumption
  <2>3. end \in Nat
    BY <1>1
  <2>4. CASE end > PageSize
    <3>1. first = end - PageSize + 1
      BY <2>4
    <3>2. first <= end
      BY <2>2, <2>3, <3>1
    <3> QED
      BY <2>1, <3>2
  <2>5. CASE ~(end > PageSize)
    <3>1. first = 1
      BY <2>5
    <3> HIDE DEF page, end, first
    <3> QED
      BY <2>1, <2>3, <3>1
  <2> QED
    BY <2>4, <2>5
<1> QED
  BY <1>2, <1>3

(* The next page leaves no hole (discord-history.ts).                      *)
LEMMA NextPageLeavesNoHole ==
    ASSUME NEW c \in CursorRow, NEW n \in Nat, NEW posts, NoHoles(c, posts)
    PROVE  LET page == Channel!PageOf(c, n)
               next == Channel!NextCursor(c, page)
           IN  next \in CursorRow /\ NoHoles(next, posts \cup page)
<1> DEFINE page == Channel!PageOf(c, n)
           next == Channel!NextCursor(c, page)
           end == IF c.before = 0 THEN n ELSE c.before - 1
           first == IF end > PageSize THEN end - PageSize + 1 ELSE 1
           high == IF c.high # 0 THEN c.high
                   ELSE IF page # {} THEN Channel!Highest(page) ELSE c.last
           complete == \/ Cardinality(page) < PageSize
                       \/ \E i \in page : i <= c.last /\ c.last # 0
<1>1. /\ end \in Nat /\ first \in Nat \ {0} /\ page = first..end
      /\ Cardinality(page) < PageSize => first = 1
      /\ end = 0 => Cardinality(page) < PageSize
  BY PageIsInterval, Zenon
<1> SUFFICES next \in CursorRow /\ NoHoles(next, posts \cup page)
  OBVIOUS
<1>2. next = [c EXCEPT !.last = IF complete THEN high ELSE c.last, !.complete = complete,
                       !.before = IF complete THEN 0 ELSE Channel!Lowest(page),
                       !.high = IF complete THEN 0 ELSE high]
  BY ChannelCounts DEF Channel!NextCursor
<1>3. /\ c.last \in Nat /\ c.before \in Nat /\ c.high \in Nat /\ c.after \in BOOLEAN
      /\ c.before # 0 => end = c.before - 1
      /\ c.before = 0 => c.high = 0
      /\ c.before # 0 => c.high # 0
  BY DEF CursorRow, NoHoles
<1>4. complete \in BOOLEAN
  OBVIOUS
<1>5. /\ page # {} => first <= end /\ Channel!Highest(page) = end
                      /\ Channel!Lowest(page) = first
      /\ page = {} => end = 0
  BY PageEnds, Zenon
<1> HIDE DEF page, next, end, first
<1>6. high \in Nat
  BY <1>1, <1>3, <1>5
<1>7. ~complete => page # {} /\ high # 0
  BY <1>1, <1>3, <1>5
<1> HIDE DEF high, complete
<1>8. /\ next \in CursorRow
      /\ complete => next.last = high /\ next.before = 0 /\ next.high = 0
      /\ ~complete => next.last = c.last /\ next.before = first /\ next.high = high
  BY <1>1, <1>2, <1>3, <1>4, <1>5, <1>6, <1>7 DEF CursorRow
<1>9. 1..c.last \subseteq posts /\ (c.before # 0 => c.before..c.high \subseteq posts)
  BY DEF NoHoles
<1>10. CASE complete
  <2>1. 1..end \subseteq posts \cup page
    <3>1. CASE Cardinality(page) < PageSize
      BY <1>1, <3>1
    <3>2. CASE \E i \in page : i <= c.last
      BY <1>1, <1>3, <1>9, <3>2
    <3> QED
      BY <1>10, <3>1, <3>2 DEF complete
  <2>2. CASE c.high # 0
    BY <1>3, <1>6, <1>8, <1>9, <1>10, <2>1, <2>2 DEF NoHoles, high
  <2>3. CASE c.high = 0 /\ page # {}
    BY <1>5, <1>8, <1>10, <2>1, <2>3 DEF NoHoles, high
  <2>4. CASE c.high = 0 /\ page = {}
    BY <1>8, <1>9, <1>10, <2>4 DEF NoHoles, high
  <2> QED
    BY <2>2, <2>3, <2>4
<1>11. CASE ~complete
  <2>1. CASE c.high # 0
    BY <1>1, <1>3, <1>7, <1>8, <1>9, <1>11, <2>1 DEF NoHoles, high
  <2>2. CASE c.high = 0
    BY <1>1, <1>5, <1>7, <1>8, <1>9, <1>11, <2>2 DEF NoHoles, high
  <2> QED
    BY <2>1, <2>2
<1> QED
  BY <1>8, <1>10, <1>11

(* A log that has more has no more holes.                                  *)
LEMMA MoreIsNoHole ==
    ASSUME NEW c, NEW posts, NEW more, posts \subseteq more, NoHoles(c, posts)
    PROVE  NoHoles(c, more)
BY DEF NoHoles

(* A step of w that leaves the log and the saved cursors alone.            *)
LEMMA ChannelTickStands ==
    ASSUME ChannelInv, NEW w \in ChannelWorkers, NEW d, IsChannelTick(d), Whole(d, logged),
           channelWorkers' = [channelWorkers EXCEPT ![w] = d], UNCHANGED <<cursor, logged>>,
           discord' \in RoomsOnDiscord, channelOps' \in [Channel!Kinds -> ChannelOpStates],
           SummaryFirst(channelOps', discord', logged)
    PROVE  ChannelInv'
<1>1. /\ DOMAIN channelWorkers' = ChannelWorkers /\ channelWorkers'[w] = d
      /\ \A v \in ChannelWorkers \ {w} : channelWorkers'[v] = channelWorkers[v]
  BY DEF ChannelInv, ChannelTyped
<1>2. ChannelTyped'
  BY <1>1 DEF ChannelInv, ChannelTyped
<1>3. AllWhole'
  BY <1>1 DEF ChannelInv, AllWhole
<1> QED
  BY <1>2, <1>3 DEF ChannelInv

(* The people and the lease leave the log alone; what is tried again has   *)
(* been decided.                                                           *)
LEMMA OutsideStands ==
    ASSUME ChannelInv,
           \/ Channel!Advance \/ Channel!LeaseRunsOut
           \/ \E r \in ChannelRooms : Channel!Write(r)
           \/ \E k \in Channel!Kinds : Channel!Retry(k)
    PROVE  ChannelInv'
<1>1. CASE \E k \in Channel!Kinds : Channel!Retry(k)
  <2> PICK k \in Channel!Kinds : Channel!Retry(k)
    BY <1>1
  <2>1. /\ UNCHANGED <<cursor, logged, discord, channelWorkers>>
        /\ channelOps[k] \in {"unknown", "failed"}
        /\ channelOps' = [channelOps EXCEPT ![k] = "queued"]
    BY DEF Channel!Retry
  <2>2. /\ channelOps \in [Channel!Kinds -> ChannelOpStates]
        /\ Channel!Kinds = {"channel", "final", "archive"}
    BY DEF ChannelInv, ChannelTyped, Channel!Kinds
  <2>3. channelOps' \in [Channel!Kinds -> ChannelOpStates]
    BY <2>1, <2>2 DEF ChannelOpStates
  <2>4. /\ channelOps'["final"] = "sent" => channelOps["final"] = "sent"
        /\ channelOps'["archive"] # "none" <=> channelOps["archive"] # "none"
    BY <2>1, <2>2
  <2> QED
    BY <2>1, <2>3, <2>4 DEF ChannelInv, ChannelTyped, AllWhole, SummaryFirst
<1>2. CASE ~ \E k \in Channel!Kinds : Channel!Retry(k)
  <2>1. /\ UNCHANGED <<cursor, logged, channelOps, channelWorkers>>
        /\ discord' \in RoomsOnDiscord
        /\ discord'.final = discord.final /\ discord'.archived = discord.archived
    BY <1>2 DEF Channel!Advance, Channel!LeaseRunsOut, Channel!Write, ChannelInv,
       ChannelTyped, RoomsOnDiscord
  <2> QED
    BY <2>1 DEF ChannelInv, ChannelTyped, AllWhole, SummaryFirst
<1> QED
  BY <1>1, <1>2

(* The steps of a tick that neither read posts nor deliver.                *)
LEMMA ChannelWaitingStands ==
    ASSUME ChannelInv, NEW w \in ChannelWorkers,
           \/ Channel!StartTick(w) \/ Channel!GiveUp(w) \/ Channel!Crash(w)
           \/ Channel!ReadSurface(w) \/ Channel!WriteBack(w) \/ Channel!EndTick(w)
    PROVE  ChannelInv'
<1> DEFINE e == channelWorkers[w]
<1>1. IsChannelTick(e)
  BY DEF ChannelInv, ChannelTyped
<1>2. UNCHANGED <<cursor, logged, channelOps, discord>>
  BY DEF Channel!StartTick, Channel!GiveUp, Channel!Crash, Channel!ReadSurface,
     Channel!WriteBack, Channel!EndTick
<1>3. ASSUME NEW d, IsChannelTick(d), d.at \notin {"fetching", "receiving"},
             channelWorkers' = [channelWorkers EXCEPT ![w] = d]
      PROVE  ChannelInv'
  <2>1. Whole(d, logged)
    BY <1>3 DEF Whole
  <2>2. /\ discord' \in RoomsOnDiscord /\ channelOps' \in [Channel!Kinds -> ChannelOpStates]
        /\ SummaryFirst(channelOps', discord', logged)
    BY <1>2 DEF ChannelInv, ChannelTyped
  <2> QED
    BY <1>2, <1>3, <2>1, <2>2, ChannelTickStands
<1>4. IsChannelTick(Channel!Asleep) /\ Channel!Asleep.at = "idle"
  BY ChannelAssumption DEF IsChannelTick, Channel!Asleep, Channel!NoCursor, CursorRow
<1>5. CASE Channel!StartTick(w)
  <2> DEFINE d == [Channel!Asleep EXCEPT !.at = "publishing", !.view = sprint]
  <2>1. IsChannelTick(d) /\ d.at = "publishing"
    BY <1>4 DEF IsChannelTick
  <2>2. channelWorkers' = [channelWorkers EXCEPT ![w] = d]
    BY <1>5 DEF Channel!StartTick, Channel!Goto
  <2> HIDE DEF d
  <2> QED
    BY <1>3, <2>1, <2>2
<1>6. CASE Channel!GiveUp(w) \/ Channel!Crash(w) \/ Channel!EndTick(w)
  BY <1>3, <1>4, <1>6 DEF Channel!GiveUp, Channel!Crash, Channel!EndTick, Channel!Goto
<1>7. CASE Channel!ReadSurface(w)
  <2> DEFINE rooms == IF surface.made THEN ChannelRooms ELSE {}
             d == [e EXCEPT !.at = "ingesting", !.surface = surface, !.rooms = rooms]
  <2>1. IsChannelTick(d) /\ d.at = "ingesting"
    BY <1>1 DEF IsChannelTick
  <2>2. channelWorkers' = [channelWorkers EXCEPT ![w] = d]
    BY <1>7 DEF Channel!ReadSurface, Channel!Goto
  <2> HIDE DEF d
  <2> QED
    BY <1>3, <2>1, <2>2
<1>8. CASE Channel!WriteBack(w)
  <2> DEFINE d == [e EXCEPT !.at = "delivering", !.todo = Channel!Open]
  <2>1. IsChannelTick(d) /\ d.at = "delivering"
    BY <1>1 DEF IsChannelTick
  <2>2. channelWorkers' = [channelWorkers EXCEPT ![w] = d]
    BY <1>8 DEF Channel!WriteBack, Channel!Goto
  <2> HIDE DEF d
  <2> QED
    BY <1>3, <2>1, <2>2
<1> QED
  BY <1>5, <1>6, <1>7, <1>8

(* A room is read, page by page.                                           *)
LEMMA IngestionStands ==
    ASSUME ChannelInv, NEW w \in ChannelWorkers,
           \/ \E r \in ChannelRooms : Channel!BeginRoom(w, r)
           \/ Channel!Fetch(w) \/ Channel!Receive(w) \/ Channel!SaveCursor(w)
    PROVE  ChannelInv'
<1> DEFINE e == channelWorkers[w]
<1>1. IsChannelTick(e) /\ e.room \in ChannelRooms /\ e.cursor \in CursorRow
  BY DEF ChannelInv, ChannelTyped, IsChannelTick
<1>2. UNCHANGED <<channelOps, discord>>
  BY DEF Channel!BeginRoom, Channel!Fetch, Channel!Receive, Channel!SaveCursor
<1>3. /\ discord' \in RoomsOnDiscord /\ channelOps' \in [Channel!Kinds -> ChannelOpStates]
      /\ SummaryFirst(channelOps', discord', logged)
  BY <1>2 DEF ChannelInv, ChannelTyped
<1>4. Whole(e, logged)
  BY DEF ChannelInv, AllWhole
<1>5. ASSUME NEW r \in ChannelRooms, Channel!BeginRoom(w, r)
      PROVE  ChannelInv'
  <2> DEFINE after == channelOps["archive"] # "none"
             c == [cursor[r] EXCEPT !.after = after]
             d == [e EXCEPT !.at = "fetching", !.room = r, !.rooms = @ \ {r}, !.cursor = c]
  <2>1. /\ channelWorkers' = [channelWorkers EXCEPT ![w] = d]
        /\ UNCHANGED <<cursor, logged>>
    BY <1>5 DEF Channel!BeginRoom, Channel!Goto
  <2>2. cursor[r] \in CursorRow /\ NoHoles(cursor[r], logged[r]) /\ after \in BOOLEAN
    BY DEF ChannelInv, ChannelTyped, AllWhole
  <2> HIDE DEF after
  <2>3. c \in CursorRow /\ NoHoles(c, logged[r])
    BY <2>2 DEF CursorRow, NoHoles
  <2> HIDE DEF c
  <2>4. IsChannelTick(d) /\ d.at = "fetching" /\ d.room = r /\ d.cursor = c
    BY <1>1, <2>3 DEF IsChannelTick
  <2> HIDE DEF d
  <2>5. Whole(d, logged)
    BY <2>3, <2>4 DEF Whole
  <2> QED
    BY <1>3, <2>1, <2>4, <2>5, ChannelTickStands
<1>6. CASE Channel!Fetch(w)
  <2> DEFINE n == discord.posts[e.room]
             page == Channel!PageOf(e.cursor, n)
             c == Channel!NextCursor(e.cursor, page)
             d == [e EXCEPT !.at = "receiving", !.page = page, !.cursor = c]
  <2>1. /\ channelWorkers' = [channelWorkers EXCEPT ![w] = d]
        /\ UNCHANGED <<cursor, logged>> /\ e.at = "fetching"
    BY <1>6 DEF Channel!Fetch, Channel!Goto
  <2>2. n \in Nat
    BY <1>1 DEF ChannelInv, ChannelTyped, RoomsOnDiscord
  <2>3. NoHoles(e.cursor, logged[e.room])
    BY <1>4, <2>1 DEF Whole
  <2> HIDE DEF n
  <2>4. c \in CursorRow /\ NoHoles(c, logged[e.room] \cup page)
    BY <1>1, <2>2, <2>3, NextPageLeavesNoHole
  <2> HIDE DEF c, page
  <2>5. /\ IsChannelTick(d) /\ d.at = "receiving" /\ d.room = e.room /\ d.cursor = c
        /\ d.page = page
    BY <1>1, <2>4 DEF IsChannelTick
  <2> HIDE DEF d
  <2>6. Whole(d, logged)
    BY <2>4, <2>5 DEF Whole
  <2> QED
    BY <1>3, <2>1, <2>5, <2>6, ChannelTickStands
<1>7. CASE Channel!Receive(w)
  <2> DEFINE i == Channel!Highest(e.page)
             d == [e EXCEPT !.page = @ \ {i}]
  <2>1. /\ channelWorkers' = [channelWorkers EXCEPT ![w] = d]
        /\ logged' = [logged EXCEPT ![e.room] = @ \cup {i}]
        /\ cursor' = cursor
    BY <1>7 DEF Channel!Receive, Channel!Goto
  <2> HIDE DEF i
  <2>2. /\ IsChannelTick(d) /\ d.at = e.at /\ d.room = e.room /\ d.cursor = e.cursor
        /\ d.page = e.page \ {i}
    BY <1>1 DEF IsChannelTick
  <2> HIDE DEF d
  <2>3. /\ DOMAIN logged' = ChannelRooms
        /\ logged'[e.room] = logged[e.room] \cup {i}
        /\ \A r \in ChannelRooms : logged[r] \subseteq logged'[r]
    BY <1>1, <2>1 DEF ChannelInv, ChannelTyped
  <2>4. /\ DOMAIN channelWorkers' = ChannelWorkers /\ channelWorkers'[w] = d
        /\ \A v \in ChannelWorkers \ {w} : channelWorkers'[v] = channelWorkers[v]
    BY <2>1 DEF ChannelInv, ChannelTyped
  <2>5. ChannelTyped'
    BY <1>3, <2>1, <2>2, <2>3, <2>4 DEF ChannelInv, ChannelTyped
  <2>6. SummaryFirst(channelOps', discord', logged')
    BY <1>3, <2>3, ChannelAssumption DEF SummaryFirst
  <2>7. \A r \in ChannelRooms : NoHoles(cursor'[r], logged'[r])
    BY <2>1, <2>3, MoreIsNoHole DEF ChannelInv, AllWhole
  <2>8. ASSUME NEW v \in ChannelWorkers
        PROVE  Whole(channelWorkers'[v], logged')
    <3>1. CASE v = w
      <4>1. logged[e.room] \cup e.page \subseteq logged'[d.room] \cup d.page
        BY <2>2, <2>3
      <4>2. logged[e.room] \subseteq logged'[d.room]
        BY <2>2, <2>3
      <4> QED
        BY <1>4, <2>2, <2>4, <3>1, <4>1, <4>2, MoreIsNoHole DEF Whole
    <3>2. CASE v # w
      <4> DEFINE f == channelWorkers[v]
      <4>1. f.room \in ChannelRooms /\ Whole(f, logged) /\ channelWorkers'[v] = f
        BY <2>4, <3>2 DEF ChannelInv, ChannelTyped, IsChannelTick, AllWhole
      <4> HIDE DEF f
      <4>2. /\ logged[f.room] \subseteq logged'[f.room]
            /\ logged[f.room] \cup f.page \subseteq logged'[f.room] \cup f.page
        BY <2>3, <4>1
      <4> QED
        BY <4>1, <4>2, MoreIsNoHole DEF Whole
    <3> QED
      BY <3>1, <3>2
  <2> QED
    BY <2>5, <2>6, <2>7, <2>8 DEF ChannelInv, AllWhole
<1>8. CASE Channel!SaveCursor(w)
  <2> DEFINE complete == e.complete /\ e.cursor.complete
             d == [e EXCEPT !.at = "ingesting", !.complete = complete,
                            !.cursor = Channel!NoCursor, !.room = Root]
  <2>1. /\ channelWorkers' = [channelWorkers EXCEPT ![w] = d]
        /\ logged' = logged
        /\ cursor' = [cursor EXCEPT ![e.room] = e.cursor]
        /\ e.at = "receiving" /\ e.page = {}
    BY <1>8 DEF Channel!SaveCursor, Channel!Goto
  <2>2. IsChannelTick(d) /\ d.at = "ingesting"
    BY <1>1, ChannelAssumption DEF IsChannelTick, Channel!NoCursor, CursorRow
  <2> HIDE DEF d
  <2>3. NoHoles(e.cursor, logged[e.room])
    <3>1. logged[e.room] \cup e.page = logged[e.room]
      BY <2>1
    <3> QED
      BY <1>4, <2>1, <3>1 DEF Whole
  <2>4. /\ DOMAIN channelWorkers' = ChannelWorkers /\ channelWorkers'[w] = d
        /\ \A v \in ChannelWorkers \ {w} : channelWorkers'[v] = channelWorkers[v]
    BY <2>1 DEF ChannelInv, ChannelTyped
  <2>5. ChannelTyped'
    BY <1>1, <1>3, <2>1, <2>2, <2>4 DEF ChannelInv, ChannelTyped
  <2>6. AllWhole'
    BY <1>1, <2>1, <2>2, <2>3, <2>4 DEF ChannelInv, ChannelTyped, AllWhole, Whole
  <2> QED
    BY <1>3, <2>1, <2>5, <2>6 DEF ChannelInv
<1> QED
  BY <1>5, <1>6, <1>7, <1>8

(* The sprint is published: the final summary is enqueued, then the        *)
(* archive.                                                                *)
LEMMA PublishStands ==
    ASSUME ChannelInv, NEW w \in ChannelWorkers, Channel!Publish(w)
    PROVE  ChannelInv'
<1> DEFINE e == channelWorkers[w]
           d == [e EXCEPT !.at = "reading"]
<1>1. /\ channelWorkers' = [channelWorkers EXCEPT ![w] = d]
      /\ UNCHANGED <<cursor, logged, discord>>
  BY DEF Channel!Publish, Channel!Goto
<1>2. IsChannelTick(d) /\ d.at = "reading"
  BY DEF ChannelInv, ChannelTyped, IsChannelTick
<1>3. /\ channelOps \in [Channel!Kinds -> ChannelOpStates]
      /\ Channel!Kinds = {"channel", "final", "archive"}
  BY DEF ChannelInv, ChannelTyped, Channel!Kinds
<1>4. \/ channelOps' = channelOps
      \/ channelOps' = [channelOps EXCEPT !["channel"] = "queued"]
      \/ \E read : \E decide \in BOOLEAN :
            /\ decide => Channel!MayArchive(read)
            /\ channelOps' = [channelOps EXCEPT
                    !["final"] = IF @ = "none" THEN "queued" ELSE @,
                    !["archive"] = IF decide THEN "queued" ELSE @]
  <2> DEFINE view == e.view
             next == [surface EXCEPT !.lastRevision = view.revision]
             decide == Channel!MayArchive(next) /\ channelOps["archive"] = "none"
  <2>1. \/ channelOps' = channelOps
        \/ channelOps' = [channelOps EXCEPT !["channel"] = "queued"]
        \/ channelOps' = [channelOps EXCEPT
                    !["final"] = IF @ = "none" THEN "queued" ELSE @,
                    !["archive"] = IF decide THEN "queued" ELSE @]
    BY DEF Channel!Publish
  <2>2. decide \in BOOLEAN /\ (decide => Channel!MayArchive(next))
    OBVIOUS
  <2> HIDE DEF decide, next
  <2> QED
    BY <2>1, <2>2
<1>5. channelOps' \in [Channel!Kinds -> ChannelOpStates]
  BY <1>3, <1>4 DEF ChannelOpStates
<1>6. SummaryFirst(channelOps', discord', logged)
  <2>1. SummaryFirst(channelOps, discord, logged)
    BY DEF ChannelInv
  <2>2. CASE \/ channelOps' = channelOps
             \/ channelOps' = [channelOps EXCEPT !["channel"] = "queued"]
    BY <1>1, <1>3, <2>1, <2>2 DEF SummaryFirst
  <2>3. ASSUME NEW read, NEW decide \in BOOLEAN, decide => Channel!MayArchive(read),
               channelOps' = [channelOps EXCEPT
                    !["final"] = IF @ = "none" THEN "queued" ELSE @,
                    !["archive"] = IF decide THEN "queued" ELSE @]
        PROVE  SummaryFirst(channelOps', discord', logged)
    <3>1. /\ channelOps'["final"] = IF channelOps["final"] = "none" THEN "queued"
                                    ELSE channelOps["final"]
          /\ channelOps'["archive"] = IF decide THEN "queued" ELSE channelOps["archive"]
      BY <1>3, <2>3
    <3>2. decide => channelOps["final"] = "sent" /\ discord.final \in logged[Root]
      BY <2>3 DEF Channel!MayArchive
    <3> QED
      BY <1>1, <2>1, <3>1, <3>2 DEF SummaryFirst
  <2> QED
    BY <1>4, <2>2, <2>3
<1> HIDE DEF d
<1>7. Whole(d, logged) /\ discord' \in RoomsOnDiscord
  BY <1>1, <1>2 DEF Whole, ChannelInv, ChannelTyped
<1> QED
  BY <1>1, <1>2, <1>5, <1>6, <1>7, ChannelTickStands

(* An operation is delivered, or left as it is.                            *)
LEMMA ChannelDeliveryStands ==
    ASSUME ChannelInv, NEW w \in ChannelWorkers, NEW k \in Channel!Kinds, Channel!Deliver(w, k)
    PROVE  ChannelInv'
<1> DEFINE e == channelWorkers[w]
           d == [e EXCEPT !.todo = @ \ {k}]
<1>1. /\ channelWorkers' = [channelWorkers EXCEPT ![w] = d] /\ e.at = "delivering"
      /\ UNCHANGED <<cursor, logged>>
  BY DEF Channel!Deliver, Channel!Goto
<1>2. IsChannelTick(d) /\ d.at = e.at
  BY DEF ChannelInv, ChannelTyped, IsChannelTick
<1> HIDE DEF d
<1>3. /\ channelOps \in [Channel!Kinds -> ChannelOpStates] /\ discord \in RoomsOnDiscord
      /\ SummaryFirst(channelOps, discord, logged)
      /\ Channel!Kinds = {"channel", "final", "archive"}
  BY DEF ChannelInv, ChannelTyped, Channel!Kinds
<1>4. /\ Channel!Effect(k) \in RoomsOnDiscord
      /\ k # "final" => Channel!Effect(k).final = discord.final
      /\ k # "archive" => Channel!Effect(k).archived = discord.archived
      /\ k = "final" => \/ Channel!Effect(k).final = discord.final
                        \/ discord.final = 0 /\ Channel!Effect(k).final # 0
      /\ k = "final" /\ Channel!MayAct(k) => Channel!Effect(k).final # 0
  <2>1. CASE ~Channel!MayAct(k)
    BY <1>3, <2>1 DEF Channel!Effect
  <2>2. CASE Channel!MayAct(k) /\ k = "channel"
    BY <1>3, <2>2 DEF Channel!Effect, RoomsOnDiscord
  <2>3. CASE Channel!MayAct(k) /\ k = "final"
    <3> DEFINE n == discord.posts[Root]
    <3>1. n \in Nat /\ n + 1 \in Nat /\ n + 1 # 0
      BY <1>3, ChannelAssumption DEF RoomsOnDiscord
    <3>2. Channel!Effect(k) = [discord EXCEPT !.posts[Root] = n + 1, !.final = n + 1]
      BY <1>3, <2>3 DEF Channel!Effect, RoomsOnDiscord
    <3> HIDE DEF n
    <3>3. /\ Channel!Effect(k) \in RoomsOnDiscord /\ Channel!Effect(k).final = n + 1
          /\ Channel!Effect(k).archived = discord.archived
      BY <1>3, <3>1, <3>2 DEF RoomsOnDiscord
    <3>4. discord.final = 0
      BY <2>3 DEF Channel!MayAct, Channel!Reconciled
    <3> QED
      BY <2>3, <3>1, <3>3, <3>4
  <2>4. CASE Channel!MayAct(k) /\ k = "archive"
    BY <1>3, <2>4 DEF Channel!Effect, RoomsOnDiscord
  <2> QED
    BY <1>3, <2>1, <2>2, <2>3, <2>4
<1>5. \/ UNCHANGED <<channelOps, discord>>
      \/ /\ channelOps[k] \in {"queued", "unknown"}
         /\ \/ /\ Channel!Reconciled(k) \/ Channel!MayAct(k)
               /\ channelOps' = [channelOps EXCEPT ![k] = "sent"]
               /\ discord' = Channel!Effect(k)
            \/ /\ \E state \in {"unknown", "failed"} :
                        channelOps' = [channelOps EXCEPT ![k] = state]
               /\ discord' \in {discord, Channel!Effect(k)}
  BY DEF Channel!Deliver, Channel!Refused
<1>6. discord' \in RoomsOnDiscord /\ channelOps' \in [Channel!Kinds -> ChannelOpStates]
  BY <1>3, <1>4, <1>5 DEF ChannelOpStates
<1>7. SummaryFirst(channelOps', discord', logged)
  <2>1. CASE UNCHANGED <<channelOps, discord>>
    BY <1>3, <2>1
  <2>2. ASSUME NEW state \in {"sent", "unknown", "failed"}, channelOps[k] # "none",
               channelOps' = [channelOps EXCEPT ![k] = state],
               discord' \in {discord, Channel!Effect(k)},
               state = "sent" /\ k = "final" => discord'.final # 0
        PROVE  SummaryFirst(channelOps', discord', logged)
    <3>1. /\ channelOps'["archive"] # "none" <=> channelOps["archive"] # "none"
          /\ k = "archive" => channelOps["archive"] # "none"
          /\ channelOps'["final"] = "sent" =>
                channelOps["final"] = "sent" \/ (k = "final" /\ state = "sent")
      BY <1>3, <2>2
    <3>2. discord.final # 0 => discord'.final = discord.final
      BY <1>4, <2>2
    <3>3. discord'.archived => discord.archived \/ k = "archive"
      BY <1>4, <2>2
    <3> QED
      BY <1>3, <2>2, <3>1, <3>2, <3>3 DEF SummaryFirst
  <2>3. k = "final" /\ Channel!Reconciled(k) =>
            discord.final # 0 /\ Channel!Effect(k).final # 0
    BY <1>4 DEF Channel!Reconciled
  <2> QED
    BY <1>4, <1>5, <2>1, <2>2, <2>3
<1>8. Whole(d, logged)
  BY <1>1, <1>2 DEF Whole
<1> QED
  BY <1>1, <1>2, <1>6, <1>7, <1>8, ChannelTickStands

(* Every step keeps the log whole and the summary first.                   *)
LEMMA ChannelNextStands ==
    ASSUME ChannelInv, [Channel!ChannelNext]_(Channel!channelVars)
    PROVE  ChannelInv'
<1>1. CASE UNCHANGED Channel!channelVars
  BY <1>1 DEF Channel!channelVars, ChannelInv, ChannelTyped, AllWhole, SummaryFirst
<1> QED
  BY <1>1, OutsideStands, ChannelWaitingStands, IngestionStands, PublishStands,
     ChannelDeliveryStands DEF Channel!ChannelNext, Channel!Step

(* The log and the summary at the start, and at every step after it.       *)
LEMMA ChannelInvariance == Channel!ChannelSpec => []ChannelInv
<1>1. Channel!ChannelInit => ChannelInv
  <2> SUFFICES ASSUME Channel!ChannelInit PROVE ChannelInv
    OBVIOUS
  <2>1. /\ Channel!NoCursor \in CursorRow /\ NoHoles(Channel!NoCursor, {})
        /\ IsChannelTick(Channel!Asleep)
    BY ChannelAssumption DEF Channel!NoCursor, CursorRow, NoHoles, IsChannelTick, Channel!Asleep
  <2>2. ChannelTyped
    BY <2>1 DEF Channel!ChannelInit, ChannelTyped, RoomsOnDiscord, ChannelOpStates
  <2>3. AllWhole
    BY <2>1 DEF Channel!ChannelInit, AllWhole, Whole, Channel!Asleep
  <2>4. SummaryFirst(channelOps, discord, logged)
    BY DEF Channel!ChannelInit, SummaryFirst, Channel!Kinds
  <2> QED
    BY <2>2, <2>3, <2>4 DEF ChannelInv
<1> QED
  BY <1>1, ChannelNextStands, PTL DEF Channel!ChannelSpec

(* What the cursor of a room says was read is in the log, without a hole,  *)
(* for any size of page, any rooms, workers, crashes and leases run out    *)
(* (discord-history.ts, ingestion.ts).                                     *)
THEOREM LogIsWhole == Channel!ChannelSpec => []LogHasNoHoles
<1>1. ChannelInv => LogHasNoHoles
  BY DEF ChannelInv, ChannelTyped, AllWhole, NoHoles, LogHasNoHoles, Channel!LogHasNoHoles
<1> QED
  BY <1>1, ChannelInvariance, PTL

(* The channel is archived only with its final summary in the log, however *)
(* often deliveries of it were repeated or their outcomes lost             *)
(* (sprint-publication.ts, delivery.ts).                                   *)
THEOREM SummaryBeforeArchive == Channel!ChannelSpec => []FinalBeforeArchive
<1>1. ChannelInv => FinalBeforeArchive
  BY DEF ChannelInv, SummaryFirst, FinalBeforeArchive, Channel!FinalBeforeArchive
<1> QED
  BY <1>1, ChannelInvariance, PTL

-----------------------------------------------------------------------------
(* The archive, as long as no reading of the log is cut short.             *)

InLoop(d) == d.at \in {"ingesting", "fetching", "receiving"}
AtRoom(d) == d.at \in {"fetching", "receiving"}

(* What a tick has not read to the end of its page yet.                    *)
Unread(d) == d.rooms \cup (IF AtRoom(d) THEN {d.room} ELSE {})

(* A reading ends before it is saved, or a worker's lease runs out.        *)
CutShort ==
    \/ \E w \in ChannelWorkers :
        InLoop(channelWorkers[w]) /\ channelWorkers'[w].at = "idle"
    \/ channelLease.owner \subseteq ChannelWorkers /\ channelLease' # channelLease
       /\ channelLease'.expired

Leased(w) == [owner |-> {w}, expired |-> FALSE]
Decided(states) == states["archive"] # "none"

(* Once the archive is decided, a reading to the end passes the posts that *)
(* were there (n), or it has begun since then and is on its way to them.   *)
Covers(c, n) == IF c.complete THEN c.after => c.last >= n ELSE c.after /\ c.high >= n

(* What a tick holds, by the surface, the cursors and the archive.         *)
TickFits(d, row, cursors, decided, dues) ==
    /\ InLoop(d) =>
        /\ d.surface = row
        /\ d.complete /\ row.made => \A r \in ChannelRooms \ Unread(d) : cursors[r].complete
    /\ AtRoom(d) =>
        /\ d.cursor.complete => d.cursor.before = 0
        /\ d.cursor.after = decided
    /\ d.at = "fetching" /\ decided /\ d.cursor.before # 0 => d.cursor.high >= dues[d.room]
    /\ d.at = "receiving" /\ decided => Covers(d.cursor, dues[d.room])

(* The rows the ticks share; a surface caught up tells of the last reading.*)
RowsFit(row, cursors, decided, dues, posts) ==
    /\ row \in [state: {row.state}, made: BOOLEAN, lastRevision: {row.lastRevision},
                  caughtUp: BOOLEAN]
    /\ dues \in [ChannelRooms -> Nat]
    /\ row.caughtUp => row.made
    /\ \A r \in ChannelRooms :
        /\ dues[r] <= posts[r]
        /\ cursors[r].complete => cursors[r].before = 0
        /\ IF decided THEN Covers(cursors[r], dues[r]) ELSE ~cursors[r].after

CaughtUp(row, cursors) == row.caughtUp => \A r \in ChannelRooms : cursors[r].complete

ReadInv ==
    /\ RowsFit(surface, cursor, Decided(channelOps), due, discord.posts)
    /\ (\A w \in ChannelWorkers : ~InLoop(channelWorkers[w])) => CaughtUp(surface, cursor)
    /\ \A w \in ChannelWorkers :
        /\ channelWorkers[w].at # "idle" => channelLease = Leased(w)
        /\ TickFits(channelWorkers[w], surface, cursor, Decided(channelOps), due)
    /\ Channel!ArchivedWithLogs

(* A worker at work is alone.                                              *)
LEMMA OneAtWork ==
    ASSUME ReadInv, NEW w \in ChannelWorkers, NEW v \in ChannelWorkers \ {w},
           channelWorkers[w].at # "idle"
    PROVE  channelWorkers[v].at = "idle"
BY DEF ReadInv, Leased

(* What a step of the only worker at work has to keep.                     *)
LEMMA TickKeepsReading ==
    ASSUME ChannelInv, NEW w \in ChannelWorkers, NEW d,
           \A v \in ChannelWorkers \ {w} : channelWorkers[v].at = "idle",
           channelWorkers' = [channelWorkers EXCEPT ![w] = d],
           d.at # "idle" => channelLease' = Leased(w),
           RowsFit(surface', cursor', Decided(channelOps'), due', discord'.posts),
           ~InLoop(d) => CaughtUp(surface', cursor'),
           TickFits(d, surface', cursor', Decided(channelOps'), due'),
           Channel!ArchivedWithLogs'
    PROVE  ReadInv'
PROOF
<1>1. /\ channelWorkers'[w] = d
      /\ \A v \in ChannelWorkers \ {w} : channelWorkers'[v] = channelWorkers[v]
  BY DEF ChannelInv, ChannelTyped
<1>2. ASSUME NEW v \in ChannelWorkers
      PROVE  /\ channelWorkers'[v].at # "idle" => channelLease' = Leased(v)
             /\ TickFits(channelWorkers'[v], surface', cursor', Decided(channelOps'), due')
  <2>1. CASE v = w
    BY <1>1, <2>1
  <2>2. CASE v # w
    <3>1. channelWorkers'[v].at = "idle"
      BY <1>1, <2>2
    <3> QED
      BY <3>1 DEF TickFits, InLoop, AtRoom
  <2> QED
    BY <2>1, <2>2
<1> QED
  BY <1>1, <1>2 DEF ReadInv

(* The people, a leader's retry, and leases of workers that died.          *)
LEMMA OutsideKeepsReading ==
    ASSUME ChannelInv, ReadInv, ~CutShort,
           \/ Channel!Advance \/ Channel!LeaseRunsOut
           \/ \E r \in ChannelRooms : Channel!Write(r)
           \/ \E k \in Channel!Kinds : Channel!Retry(k)
    PROVE  ReadInv'
PROOF
<1>1. /\ UNCHANGED <<surface, cursor, logged, channelWorkers, due>>
      /\ Decided(channelOps') = Decided(channelOps)
  BY DEF Channel!Advance, Channel!LeaseRunsOut, Channel!Write, Channel!Retry, Channel!Kinds,
     ChannelInv, ChannelTyped, Decided
<1>2. /\ discord'.archived = discord.archived
      /\ \A r \in ChannelRooms : discord'.posts[r] >= discord.posts[r]
                                 /\ discord'.posts[r] \in Nat /\ discord.posts[r] \in Nat
  BY DEF Channel!Advance, Channel!LeaseRunsOut, Channel!Write, Channel!Retry, ChannelInv,
     ChannelTyped, RoomsOnDiscord
<1>3. RowsFit(surface, cursor, Decided(channelOps), due, discord'.posts)
  BY <1>2 DEF ReadInv, RowsFit
<1>4. ASSUME NEW w \in ChannelWorkers, channelWorkers[w].at # "idle"
      PROVE  channelLease' = Leased(w)
  <2>1. channelLease = Leased(w)
    BY <1>4 DEF ReadInv
  <2>2. ~Channel!LeaseRunsOut
    BY <2>1 DEF Channel!LeaseRunsOut, CutShort, Leased
  <2> QED
    BY <2>1, <2>2 DEF Channel!Advance, Channel!Write, Channel!Retry
<1> QED
  BY <1>1, <1>2, <1>3, <1>4 DEF ReadInv, Channel!ArchivedWithLogs

(* A tick that begins, ends, or fails outside the reading.                 *)
LEMMA TickEndsKeepReading ==
    ASSUME ChannelInv, ReadInv, ~CutShort, NEW w \in ChannelWorkers,
           Channel!StartTick(w) \/ Channel!GiveUp(w) \/ Channel!Crash(w) \/ Channel!EndTick(w)
    PROVE  ReadInv'
PROOF
<1> DEFINE e == channelWorkers[w]
<1>1. UNCHANGED <<surface, channelOps, cursor, logged, discord, due>>
  BY DEF Channel!StartTick, Channel!GiveUp, Channel!Crash, Channel!EndTick
<1>2. ASSUME NEW d, channelWorkers' = [channelWorkers EXCEPT ![w] = d],
             ~InLoop(e), ~InLoop(d), d.at # "idle" => channelLease' = Leased(w),
             \A v \in ChannelWorkers \ {w} : channelWorkers[v].at = "idle"
      PROVE  ReadInv'
  <2>1. \A v \in ChannelWorkers : ~InLoop(channelWorkers[v])
    BY <1>2 DEF InLoop
  <2>2. TickFits(d, surface', cursor', Decided(channelOps'), due')
    BY <1>2 DEF TickFits, InLoop, AtRoom
  <2> QED
    BY <1>1, <1>2, <2>1, <2>2, TickKeepsReading DEF ReadInv, Channel!ArchivedWithLogs
<1>3. CASE Channel!StartTick(w)
  <2> DEFINE d == [Channel!Asleep EXCEPT !.at = "publishing", !.view = sprint]
  <2>1. /\ channelWorkers' = [channelWorkers EXCEPT ![w] = d] /\ e.at = "idle"
        /\ channelLease' = Leased(w)
        /\ channelLease.owner \subseteq {w} \/ channelLease.expired
    BY <1>3 DEF Channel!StartTick, Channel!Goto, Channel!Available, Channel!Renewed, Leased
  <2>2. d.at = "publishing"
    BY DEF Channel!Asleep
  <2>3. \A v \in ChannelWorkers \ {w} : channelWorkers[v].at = "idle"
    BY <2>1 DEF ReadInv, Leased
  <2> HIDE DEF d
  <2> QED
    BY <1>2, <2>1, <2>2, <2>3 DEF InLoop
<1>4. CASE Channel!GiveUp(w) \/ Channel!Crash(w) \/ Channel!EndTick(w)
  <2>1. /\ channelWorkers' = [channelWorkers EXCEPT ![w] = Channel!Asleep] /\ e.at # "idle"
        /\ Channel!Asleep.at = "idle"
    BY <1>4 DEF Channel!GiveUp, Channel!Crash, Channel!EndTick, Channel!Goto, Channel!Asleep
  <2>2. ~InLoop(e)
    BY <2>1 DEF ChannelInv, ChannelTyped, CutShort
  <2>3. \A v \in ChannelWorkers \ {w} : channelWorkers[v].at = "idle"
    BY <2>1, OneAtWork
  <2> QED
    BY <1>2, <2>1, <2>2, <2>3 DEF InLoop
<1> QED
  BY <1>3, <1>4

(* The archive is decided when the last reading came to the end everywhere.*)
LEMMA PublishKeepsReading ==
    ASSUME ChannelInv, ReadInv, NEW w \in ChannelWorkers, Channel!Publish(w)
    PROVE  ReadInv'
PROOF
<1> DEFINE e == channelWorkers[w]
           d == [e EXCEPT !.at = "reading"]
           row == [surface EXCEPT !.lastRevision = e.view.revision]
           decide == Channel!MayArchive(row) /\ channelOps["archive"] = "none"
<1>1. /\ channelWorkers' = [channelWorkers EXCEPT ![w] = d] /\ e.at = "publishing"
      /\ UNCHANGED <<cursor, logged, discord, channelLease>>
  BY DEF Channel!Publish, Channel!Goto
<1>2. d.at = "reading"
  BY DEF ChannelInv, ChannelTyped, IsChannelTick
<1>3. /\ \A v \in ChannelWorkers \ {w} : channelWorkers[v].at = "idle"
      /\ channelLease = Leased(w)
  BY <1>1, OneAtWork DEF ReadInv
<1>4. CaughtUp(surface, cursor)
  BY <1>1, <1>3 DEF ReadInv, InLoop
<1>5. surface \in [state: {surface.state}, made: BOOLEAN,
                   lastRevision: {surface.lastRevision}, caughtUp: BOOLEAN]
  BY DEF ReadInv, RowsFit
<1>6. /\ channelOps \in [Channel!Kinds -> ChannelOpStates]
      /\ Channel!Kinds = {"channel", "final", "archive"}
  BY DEF ChannelInv, ChannelTyped, Channel!Kinds
<1>7. /\ \/ surface' = surface
         \/ surface'.made = surface.made /\ surface'.caughtUp = surface.caughtUp
         \/ surface'.caughtUp = FALSE
      /\ surface' \in [state: {surface'.state}, made: BOOLEAN,
                       lastRevision: {surface'.lastRevision}, caughtUp: BOOLEAN]
  <2>1. \/ surface' = [Channel!NoSurface EXCEPT !.state = "pending"]
        \/ surface' = surface
        \/ surface' = row
        \/ surface' = [row EXCEPT !.state = "archive_pending"]
    BY DEF Channel!Publish
  <2>2. CASE surface' = [Channel!NoSurface EXCEPT !.state = "pending"]
    BY <2>2 DEF Channel!NoSurface
  <2>3. CASE surface' = row \/ surface' = [row EXCEPT !.state = "archive_pending"]
    BY <1>5, <2>3
  <2> QED
    BY <1>5, <2>1, <2>2, <2>3
<1>8. \/ Decided(channelOps') = Decided(channelOps) /\ due' = due
      \/ /\ surface.caughtUp /\ ~Decided(channelOps) /\ Decided(channelOps')
         /\ due' = discord.posts
  <2>1. \/ channelOps'["archive"] = channelOps["archive"] /\ due' = due
        \/ decide /\ channelOps'["archive"] = "queued" /\ due' = discord.posts
    BY <1>6 DEF Channel!Publish
  <2>2. decide => row.caughtUp /\ ~Decided(channelOps)
    BY DEF Channel!MayArchive, Decided
  <2>3. row.caughtUp = surface.caughtUp
    BY <1>5
  <2> QED
    BY <2>1, <2>2, <2>3 DEF Decided
<1> HIDE DEF d, row, decide
<1>9. CaughtUp(surface', cursor') /\ (surface'.caughtUp => surface'.made)
  BY <1>1, <1>4, <1>7 DEF CaughtUp, ReadInv, RowsFit
<1>10. RowsFit(surface', cursor', Decided(channelOps'), due', discord'.posts)
  <2>1. discord.posts \in [ChannelRooms -> Nat] /\ cursor \in [ChannelRooms -> CursorRow]
    BY DEF ChannelInv, ChannelTyped, RoomsOnDiscord
  <2>2. CASE Decided(channelOps') = Decided(channelOps) /\ due' = due
    BY <1>1, <1>7, <1>9, <2>2 DEF ReadInv, RowsFit
  <2>3. CASE /\ surface.caughtUp /\ ~Decided(channelOps) /\ Decided(channelOps')
             /\ due' = discord.posts
    <3>1. \A r \in ChannelRooms : cursor[r].complete /\ ~cursor[r].after
      BY <1>4, <2>3 DEF CaughtUp, ReadInv, RowsFit
    <3>2. \A r \in ChannelRooms : Covers(cursor[r], due'[r])
      BY <3>1 DEF Covers
    <3> QED
      BY <1>1, <1>7, <1>9, <2>1, <2>3, <3>2 DEF ReadInv, RowsFit
  <2> QED
    BY <1>8, <2>2, <2>3
<1>11. Channel!ArchivedWithLogs'
  <2>1. discord.archived => Decided(channelOps)
    BY DEF ChannelInv, SummaryFirst, Decided
  <2> QED
    BY <1>1, <1>8, <2>1 DEF ReadInv, Channel!ArchivedWithLogs
<1>12. TickFits(d, surface', cursor', Decided(channelOps'), due') /\ ~InLoop(d)
  BY <1>2 DEF TickFits, InLoop, AtRoom
<1> QED
  BY <1>1, <1>2, <1>3, <1>9, <1>10, <1>11, <1>12, TickKeepsReading

(* The next page covers the posts that were there (discord-history.ts).    *)
LEMMA NextPageCovers ==
    ASSUME NEW c \in CursorRow, NEW n \in Nat, NEW m \in Nat, NEW posts, NoHoles(c, posts),
           m <= n, c.after /\ c.before # 0 => c.high >= m
    PROVE  LET next == Channel!NextCursor(c, Channel!PageOf(c, n))
           IN  /\ next.after = c.after
               /\ next.complete => next.before = 0
               /\ c.after => Covers(next, m)
PROOF
<1> DEFINE page == Channel!PageOf(c, n)
           next == Channel!NextCursor(c, page)
           end == IF c.before = 0 THEN n ELSE c.before - 1
           high == IF c.high # 0 THEN c.high
                   ELSE IF page # {} THEN Channel!Highest(page) ELSE c.last
           complete == \/ Cardinality(page) < PageSize
                       \/ \E i \in page : i <= c.last /\ c.last # 0
<1>1. next = [c EXCEPT !.last = IF complete THEN high ELSE c.last, !.complete = complete,
                       !.before = IF complete THEN 0 ELSE Channel!Lowest(page),
                       !.high = IF complete THEN 0 ELSE high]
  BY ChannelCounts DEF Channel!NextCursor
<1>2. /\ c.last \in Nat /\ c.before \in Nat /\ c.high \in Nat /\ c.after \in BOOLEAN
      /\ c.before = 0 <=> c.high = 0
  BY DEF CursorRow, NoHoles
<1>3. /\ page # {} => Channel!Highest(page) = end
      /\ page = {} => end = 0
  BY PageEnds, Zenon
<1>4. c.after => high >= m
  BY <1>2, <1>3
<1>5. complete \in BOOLEAN
  OBVIOUS
<1> HIDE DEF page, high, complete
<1>6. /\ next.after = c.after /\ next.complete = complete
      /\ complete => next.before = 0 /\ next.last = high
      /\ ~complete => next.high = high
  BY <1>1, <1>5 DEF CursorRow
<1> HIDE DEF next
<1>7. c.after => Covers(next, m)
  BY <1>4, <1>6 DEF Covers
<1> QED
  BY <1>6, <1>7 DEF next, page

(* The surface is read for the loop over the rooms, and written back.      *)
LEMMA LoopKeepsReading ==
    ASSUME ChannelInv, ReadInv, NEW w \in ChannelWorkers,
           Channel!ReadSurface(w) \/ Channel!WriteBack(w)
    PROVE  ReadInv'
PROOF
<1> DEFINE e == channelWorkers[w]
<1>1. /\ UNCHANGED <<channelOps, cursor, logged, discord, channelLease, due>>
      /\ e.at # "idle" /\ IsChannelTick(e)
  BY DEF Channel!ReadSurface, Channel!WriteBack, ChannelInv, ChannelTyped
<1>2. /\ \A v \in ChannelWorkers \ {w} : channelWorkers[v].at = "idle"
      /\ channelLease' = Leased(w)
      /\ TickFits(e, surface, cursor, Decided(channelOps), due)
      /\ RowsFit(surface, cursor, Decided(channelOps), due, discord.posts)
      /\ Channel!ArchivedWithLogs'
  BY <1>1, OneAtWork DEF ReadInv, Channel!ArchivedWithLogs
<1>3. CASE Channel!ReadSurface(w)
  <2> DEFINE rooms == IF surface.made THEN ChannelRooms ELSE {}
             d == [e EXCEPT !.at = "ingesting", !.surface = surface, !.rooms = rooms]
  <2>1. channelWorkers' = [channelWorkers EXCEPT ![w] = d] /\ surface' = surface
    BY <1>3 DEF Channel!ReadSurface, Channel!Goto
  <2>2. d.at = "ingesting" /\ d.surface = surface /\ d.rooms = rooms /\ d.complete \in BOOLEAN
    BY <1>1 DEF IsChannelTick
  <2> HIDE DEF d
  <2>3. TickFits(d, surface, cursor, Decided(channelOps), due) /\ InLoop(d)
    BY <2>2 DEF TickFits, InLoop, AtRoom, Unread
  <2> QED
    BY <1>1, <1>2, <2>1, <2>3, TickKeepsReading
<1>4. CASE Channel!WriteBack(w)
  <2> DEFINE d == [e EXCEPT !.at = "delivering", !.todo = Channel!Open]
             all == e.complete
  <2>1. /\ channelWorkers' = [channelWorkers EXCEPT ![w] = d]
        /\ e.at = "ingesting" /\ e.rooms = {}
        /\ surface' = IF e.surface.made THEN Channel!WrittenBack(e) ELSE surface
    BY <1>4 DEF Channel!WriteBack, Channel!Goto
  <2>2. d.at = "delivering" /\ all \in BOOLEAN
    BY <1>1 DEF IsChannelTick
  <2> HIDE DEF d
  <2>3. /\ e.surface = surface
        /\ all /\ surface.made => \A r \in ChannelRooms : cursor[r].complete
    BY <1>2, <2>1 DEF TickFits, InLoop, AtRoom, Unread
  <2>4. surface' = IF surface.made THEN [surface EXCEPT !.caughtUp = all] ELSE surface
    BY <2>1, <2>3 DEF Channel!WrittenBack
  <2> HIDE DEF all
  <2>5. /\ RowsFit(surface', cursor, Decided(channelOps), due, discord.posts)
        /\ surface'.caughtUp => surface.made /\ all
    BY <1>2, <2>2, <2>4 DEF RowsFit
  <2>6. CaughtUp(surface', cursor)
    BY <2>3, <2>5 DEF CaughtUp
  <2>7. TickFits(d, surface', cursor, Decided(channelOps), due)
    BY <2>2 DEF TickFits, InLoop, AtRoom
  <2> QED
    BY <1>1, <1>2, <2>1, <2>5, <2>6, <2>7, TickKeepsReading
<1> QED
  BY <1>3, <1>4

(* A room is begun, its page fetched and received, and its cursor saved.   *)
LEMMA RoomKeepsReading ==
    ASSUME ChannelInv, ReadInv, NEW w \in ChannelWorkers,
           \/ \E r \in ChannelRooms : Channel!BeginRoom(w, r)
           \/ Channel!Fetch(w) \/ Channel!Receive(w) \/ Channel!SaveCursor(w)
    PROVE  ReadInv'
PROOF
<1> DEFINE e == channelWorkers[w]
           decided == Decided(channelOps)
<1>1. /\ UNCHANGED <<surface, channelOps, discord, due>> /\ InLoop(e) /\ e.at # "idle"
      /\ IsChannelTick(e) /\ e.room \in ChannelRooms /\ e.cursor \in CursorRow
      /\ decided \in BOOLEAN /\ cursor \in [ChannelRooms -> CursorRow]
      /\ DOMAIN logged = ChannelRooms
  BY DEF Channel!BeginRoom, Channel!Fetch, Channel!Receive, Channel!SaveCursor, InLoop,
     ChannelInv, ChannelTyped, IsChannelTick, Decided
<1>2. /\ \A v \in ChannelWorkers \ {w} : channelWorkers[v].at = "idle"
      /\ channelLease = Leased(w)
      /\ TickFits(e, surface, cursor, decided, due)
      /\ RowsFit(surface, cursor, decided, due, discord.posts)
      /\ Channel!ArchivedWithLogs
  BY <1>1, OneAtWork DEF ReadInv
<1>3. Decided(channelOps') = decided
  BY <1>1
<1> HIDE DEF decided
<1>4. ASSUME NEW d, channelWorkers' = [channelWorkers EXCEPT ![w] = d], InLoop(d),
             channelLease' = Leased(w), UNCHANGED <<cursor, logged>>,
             TickFits(d, surface, cursor, decided, due)
      PROVE  ReadInv'
  BY <1>1, <1>2, <1>3, <1>4, TickKeepsReading DEF Channel!ArchivedWithLogs
<1>5. ASSUME NEW r \in ChannelRooms, Channel!BeginRoom(w, r)
      PROVE  ReadInv'
  <2> DEFINE c == [cursor[r] EXCEPT !.after = decided]
             d == [e EXCEPT !.at = "fetching", !.room = r, !.rooms = @ \ {r}, !.cursor = c]
  <2>1. /\ channelWorkers' = [channelWorkers EXCEPT ![w] = d] /\ e.at = "ingesting"
        /\ r \in e.rooms /\ channelLease' = Leased(w) /\ UNCHANGED <<cursor, logged>>
    BY <1>5 DEF Channel!BeginRoom, Channel!Goto, Channel!Renewed, Leased, decided, Decided
  <2>2. /\ c.after = decided /\ c.complete = cursor[r].complete
        /\ c.before = cursor[r].before /\ c.high = cursor[r].high
    BY <1>1 DEF CursorRow
  <2> HIDE DEF c
  <2>3. /\ d.at = "fetching" /\ d.room = r /\ d.rooms = e.rooms \ {r} /\ d.cursor = c
        /\ d.surface = e.surface /\ d.complete = e.complete
    BY <1>1 DEF IsChannelTick
  <2> HIDE DEF d
  <2>4. Unread(d) = Unread(e)
    BY <2>1, <2>3 DEF Unread, AtRoom
  <2>5. /\ c.complete => c.before = 0
        /\ decided /\ c.before # 0 => c.high >= due[r]
    BY <1>2, <2>2 DEF RowsFit, Covers
  <2>6. TickFits(d, surface, cursor, decided, due)
    BY <1>1, <1>2, <2>2, <2>3, <2>4, <2>5 DEF TickFits, InLoop, AtRoom
  <2> QED
    BY <1>4, <2>1, <2>3, <2>6 DEF InLoop
<1>6. CASE Channel!Fetch(w)
  <2> DEFINE n == discord.posts[e.room]
             page == Channel!PageOf(e.cursor, n)
             c == Channel!NextCursor(e.cursor, page)
             d == [e EXCEPT !.at = "receiving", !.page = page, !.cursor = c]
  <2>1. /\ channelWorkers' = [channelWorkers EXCEPT ![w] = d] /\ e.at = "fetching"
        /\ channelLease' = Leased(w) /\ UNCHANGED <<cursor, logged>>
    BY <1>2, <1>6 DEF Channel!Fetch, Channel!Goto
  <2>2. NoHoles(e.cursor, logged[e.room]) /\ n \in Nat
    BY <1>1, <2>1 DEF ChannelInv, ChannelTyped, RoomsOnDiscord, AllWhole, Whole
  <2>3. /\ due[e.room] \in Nat /\ due[e.room] <= n /\ e.cursor.after = decided
        /\ decided /\ e.cursor.before # 0 => e.cursor.high >= due[e.room]
    BY <1>1, <1>2, <2>1 DEF RowsFit, TickFits, AtRoom
  <2> HIDE DEF n
  <2>4. /\ c.after = decided
        /\ c.complete => c.before = 0
        /\ decided => Covers(c, due[e.room])
    BY <1>1, <2>2, <2>3, NextPageCovers
  <2> HIDE DEF page, c
  <2>5. /\ d.at = "receiving" /\ d.room = e.room /\ d.rooms = e.rooms /\ d.cursor = c
        /\ d.surface = e.surface /\ d.complete = e.complete
    BY <1>1 DEF IsChannelTick
  <2> HIDE DEF d
  <2>6. Unread(d) = Unread(e)
    BY <2>1, <2>5 DEF Unread, AtRoom
  <2>7. TickFits(d, surface, cursor, decided, due)
    <3>1. /\ d.surface = surface
          /\ d.complete /\ surface.made =>
                \A r \in ChannelRooms \ Unread(d) : cursor[r].complete
      BY <1>1, <1>2, <2>5, <2>6 DEF TickFits
    <3>2. /\ d.cursor.complete => d.cursor.before = 0
          /\ d.cursor.after = decided
          /\ decided => Covers(d.cursor, due[d.room])
      BY <2>4, <2>5
    <3> QED
      BY <2>5, <3>1, <3>2 DEF TickFits
  <2> QED
    BY <1>4, <2>1, <2>5, <2>7 DEF InLoop
<1>7. CASE Channel!Receive(w)
  <2> DEFINE i == Channel!Highest(e.page)
             d == [e EXCEPT !.page = @ \ {i}]
  <2>1. /\ channelWorkers' = [channelWorkers EXCEPT ![w] = d]
        /\ logged' = [logged EXCEPT ![e.room] = @ \cup {i}]
        /\ UNCHANGED <<cursor, channelLease>>
    BY <1>7 DEF Channel!Receive, Channel!Goto
  <2> HIDE DEF i
  <2>2. /\ d.at = e.at /\ d.room = e.room /\ d.rooms = e.rooms /\ d.cursor = e.cursor
        /\ d.surface = e.surface /\ d.complete = e.complete
    BY <1>1 DEF IsChannelTick
  <2> HIDE DEF d
  <2>3. TickFits(d, surface, cursor, decided, due) /\ InLoop(d)
    BY <1>1, <1>2, <2>2 DEF TickFits, InLoop, AtRoom, Unread
  <2>4. Channel!ArchivedWithLogs'
    BY <1>1, <1>2, <2>1 DEF Channel!ArchivedWithLogs
  <2> QED
    BY <1>1, <1>2, <1>3, <2>1, <2>3, <2>4, TickKeepsReading
<1>8. CASE Channel!SaveCursor(w)
  <2> DEFINE complete == e.complete /\ e.cursor.complete
             d == [e EXCEPT !.at = "ingesting", !.complete = complete,
                            !.cursor = Channel!NoCursor, !.room = Root]
  <2>1. /\ channelWorkers' = [channelWorkers EXCEPT ![w] = d] /\ e.at = "receiving"
        /\ cursor' = [cursor EXCEPT ![e.room] = e.cursor]
        /\ UNCHANGED <<logged, channelLease>>
    BY <1>8 DEF Channel!SaveCursor, Channel!Goto
  <2>2. complete \in BOOLEAN /\ (complete => e.complete /\ e.cursor.complete)
    BY <1>1 DEF IsChannelTick
  <2> HIDE DEF complete
  <2>3. /\ d.at = "ingesting" /\ d.rooms = e.rooms /\ d.surface = e.surface
        /\ d.complete = complete
    BY <1>1 DEF IsChannelTick
  <2> HIDE DEF d
  <2>4. /\ cursor'[e.room] = e.cursor
        /\ \A r \in ChannelRooms \ {e.room} : cursor'[r] = cursor[r]
    BY <1>1, <2>1
  <2>5. /\ e.surface = surface
        /\ e.complete /\ surface.made =>
                \A r \in ChannelRooms \ (e.rooms \cup {e.room}) : cursor[r].complete
        /\ e.cursor.complete => e.cursor.before = 0
        /\ IF decided THEN Covers(e.cursor, due[e.room]) ELSE ~e.cursor.after
    BY <1>1, <1>2, <2>1 DEF TickFits, InLoop, AtRoom, Unread
  <2>6. RowsFit(surface, cursor', decided, due, discord.posts)
    BY <1>2, <2>4, <2>5 DEF RowsFit
  <2>7. complete /\ surface.made => \A r \in ChannelRooms \ e.rooms : cursor'[r].complete
    BY <2>2, <2>4, <2>5
  <2>8. TickFits(d, surface, cursor', decided, due) /\ InLoop(d)
    BY <2>3, <2>5, <2>7 DEF TickFits, InLoop, AtRoom, Unread
  <2>9. Channel!ArchivedWithLogs'
    BY <1>1, <1>2, <2>1 DEF Channel!ArchivedWithLogs
  <2> QED
    BY <1>1, <1>2, <1>3, <2>1, <2>6, <2>8, <2>9, TickKeepsReading
<1> QED
  BY <1>5, <1>6, <1>7, <1>8

(* Where every room was read to its end after the archive was decided, the *)
(* log has the posts of that time.                                         *)
LEMMA ReadIsLogged ==
    ASSUME ChannelInv, ReadInv, Channel!LogsRead, Decided(channelOps)
    PROVE  \A r \in ChannelRooms : 1..due[r] \subseteq logged[r]
PROOF
<1> SUFFICES ASSUME NEW r \in ChannelRooms
             PROVE  1..due[r] \subseteq logged[r]
  OBVIOUS
<1>1. cursor[r].last \in Nat /\ 1..cursor[r].last \subseteq logged[r]
  BY DEF ChannelInv, ChannelTyped, AllWhole, NoHoles, CursorRow
<1>2. due[r] \in Nat /\ cursor[r].last >= due[r]
  BY DEF ReadInv, RowsFit, Covers, Channel!LogsRead
<1> QED
  BY <1>1, <1>2

(* An operation is delivered: the archive after the logs.                  *)
LEMMA DeliveryKeepsReading ==
    ASSUME ChannelInv, ReadInv, NEW w \in ChannelWorkers, NEW k \in Channel!Kinds,
           Channel!Deliver(w, k)
    PROVE  ReadInv'
PROOF
<1> DEFINE e == channelWorkers[w]
           d == [e EXCEPT !.todo = @ \ {k}]
<1>1. /\ channelWorkers' = [channelWorkers EXCEPT ![w] = d] /\ e.at = "delivering"
      /\ channelLease' = Leased(w) /\ UNCHANGED <<cursor, logged, due>>
  BY DEF Channel!Deliver, Channel!Goto, Channel!Renewed, Leased
<1>2. d.at = "delivering"
  BY <1>1 DEF ChannelInv, ChannelTyped, IsChannelTick
<1> HIDE DEF d
<1>3. /\ \A v \in ChannelWorkers \ {w} : channelWorkers[v].at = "idle"
      /\ CaughtUp(surface, cursor)
      /\ RowsFit(surface, cursor, Decided(channelOps), due, discord.posts)
  <2>1. \A v \in ChannelWorkers \ {w} : channelWorkers[v].at = "idle"
    BY <1>1, OneAtWork
  <2> QED
    BY <1>1, <2>1 DEF ReadInv, InLoop
<1>4. /\ channelOps \in [Channel!Kinds -> ChannelOpStates] /\ discord \in RoomsOnDiscord
      /\ Channel!Kinds = {"channel", "final", "archive"} /\ Root \in ChannelRooms
  BY ChannelAssumption DEF ChannelInv, ChannelTyped, Channel!Kinds
<1>5. \/ UNCHANGED <<channelOps, surface, discord>>
      \/ /\ channelOps[k] \in {"queued", "unknown"} /\ (k = "archive" => Channel!LogsRead)
         /\ surface' \in {surface, Channel!Settled(k)}
         /\ discord' \in {discord, Channel!Effect(k)}
         /\ \E state \in {"sent", "unknown", "failed"} :
                channelOps' = [channelOps EXCEPT ![k] = state]
  BY DEF Channel!Deliver, Channel!Refused
<1>6. Decided(channelOps') = Decided(channelOps)
  BY <1>4, <1>5 DEF Decided
<1>7. /\ surface'.caughtUp = surface.caughtUp /\ (surface.made => surface'.made)
      /\ surface' \in [state: {surface'.state}, made: BOOLEAN,
                       lastRevision: {surface'.lastRevision}, caughtUp: BOOLEAN]
  BY <1>3, <1>4, <1>5 DEF RowsFit, Channel!Settled
<1>8. /\ \A r \in ChannelRooms : discord'.posts[r] >= discord.posts[r]
                                 /\ discord'.posts[r] \in Nat /\ discord.posts[r] \in Nat
      /\ discord'.archived => discord.archived \/ (k = "archive" /\ Channel!LogsRead
                                                   /\ channelOps[k] # "none")
  <2>1. /\ \A r \in ChannelRooms : Channel!Effect(k).posts[r] >= discord.posts[r]
                                   /\ Channel!Effect(k).posts[r] \in Nat
        /\ k # "archive" => Channel!Effect(k).archived = discord.archived
    <3>1. CASE ~Channel!MayAct(k)
      BY <1>4, <3>1 DEF Channel!Effect, RoomsOnDiscord
    <3>2. CASE Channel!MayAct(k) /\ k = "channel"
      BY <1>4, <3>2 DEF Channel!Effect, RoomsOnDiscord
    <3>3. CASE Channel!MayAct(k) /\ k = "final"
      <4> DEFINE n == discord.posts[Root]
                 posts == [discord.posts EXCEPT ![Root] = n + 1]
      <4>1. Channel!Effect(k) = [discord EXCEPT !.posts = posts, !.final = n + 1]
        BY <1>4, <3>3 DEF Channel!Effect
      <4>2. \A r \in ChannelRooms : posts[r] >= discord.posts[r] /\ posts[r] \in Nat
        BY <1>4 DEF RoomsOnDiscord
      <4> HIDE DEF n, posts
      <4>3. Channel!Effect(k).posts = posts /\ Channel!Effect(k).archived = discord.archived
        BY <1>4, <4>1 DEF RoomsOnDiscord
      <4> QED
        BY <4>2, <4>3
    <3>4. CASE Channel!MayAct(k) /\ k = "archive"
      BY <1>4, <3>4 DEF Channel!Effect, RoomsOnDiscord
    <3> QED
      BY <1>4, <3>1, <3>2, <3>3, <3>4
  <2>2. \A r \in ChannelRooms : discord.posts[r] \in Nat
    BY <1>4 DEF RoomsOnDiscord
  <2> QED
    BY <1>5, <2>1, <2>2
<1>9. CaughtUp(surface', cursor')
  BY <1>1, <1>3, <1>7 DEF CaughtUp
<1>10. RowsFit(surface', cursor', Decided(channelOps'), due', discord'.posts)
  BY <1>1, <1>3, <1>6, <1>7, <1>8 DEF RowsFit
<1>11. TickFits(d, surface', cursor', Decided(channelOps'), due')
  BY <1>2 DEF TickFits, InLoop, AtRoom
<1>12. Channel!ArchivedWithLogs'
  <2>1. CASE discord.archived
    BY <1>1, <2>1 DEF ReadInv, Channel!ArchivedWithLogs
  <2>2. CASE k = "archive" /\ Channel!LogsRead /\ channelOps[k] # "none"
    BY <1>1, <2>2, ReadIsLogged DEF Decided, Channel!ArchivedWithLogs
  <2> QED
    BY <1>8, <2>1, <2>2 DEF Channel!ArchivedWithLogs
<1> QED
  BY <1>1, <1>3, <1>9, <1>10, <1>11, <1>12, TickKeepsReading

(* Every step keeps what the readings promise, unless it cuts one short.   *)
LEMMA ChannelNextKeepsReading ==
    ASSUME ChannelInv, ReadInv, [Channel!ChannelNext]_(Channel!channelVars), ~CutShort
    PROVE  ReadInv'
PROOF
<1>1. CASE UNCHANGED Channel!channelVars
  BY <1>1 DEF Channel!channelVars, ReadInv, Channel!ArchivedWithLogs
<1> QED
  BY <1>1, OutsideKeepsReading, TickEndsKeepReading, PublishKeepsReading, LoopKeepsReading,
     RoomKeepsReading, DeliveryKeepsReading DEF Channel!ChannelNext, Channel!Step

(* "ログの取込完了 → … → チャンネル保管": an archived channel has in its log      *)
(* every post of every room that was there when the archive was decided,   *)
(* as long as no tick ends between reading the surface and writing it      *)
(* back, and no worker that lives lets its lease run out (cycle.ts,        *)
(* sprint-publication.ts, ingestion.ts).  Without that it is not true of   *)
(* the code.                                                               *)
THEOREM ArchivedUnlessCutShort ==
    Channel!ChannelSpec /\ [][~CutShort]_(Channel!channelVars) => []Channel!ArchivedWithLogs
PROOF
<1>1. Channel!ChannelInit => ReadInv
  BY DEF Channel!ChannelInit, Channel!NoSurface, Channel!NoCursor, Channel!Asleep,
     Channel!Kinds, ReadInv, RowsFit, TickFits, CaughtUp, InLoop, AtRoom, Decided,
     Channel!ArchivedWithLogs
<1>2. ChannelInv /\ ReadInv /\ [Channel!ChannelNext]_(Channel!channelVars)
        /\ [~CutShort]_(Channel!channelVars) => ReadInv'
  <2>1. CASE UNCHANGED Channel!channelVars
    BY <2>1 DEF Channel!channelVars, ReadInv, Channel!ArchivedWithLogs
  <2> QED
    BY <2>1, ChannelNextKeepsReading
<1>3. ReadInv => Channel!ArchivedWithLogs
  BY DEF ReadInv
<1> QED
  BY <1>1, <1>2, <1>3, ChannelInvariance, PTL DEF Channel!ChannelSpec

-----------------------------------------------------------------------------
(* The intake of tasks.                                                    *)

Texts == SUBSET (Intake!Messages \X Int)

IntakeRow ==
    [state: {"none", "checking", "needs_information", "needs_review", "registered"},
     revision: Nat, content: Texts, thread: BOOLEAN, sourceDeleted: BOOLEAN,
     review: [verdict: {"none", "questions", "complete"}, of: Texts]]

(* The fields of a tick: only its reviews matter here.                     *)
IsTick(d) ==
    d \in [at: {d.at}, rooms: {d.rooms}, room: {d.room}, page: {d.page}, next: {d.next},
           source: {d.source}, reviews: {d.reviews}, todo: {d.todo}]

IntakeTyped ==
    /\ text \in [Intake!Messages -> Int]
    /\ messages \in [Intake!Messages -> Int]
    /\ intakes \in [Commands -> IntakeRow]
    /\ seen \in [Watched -> [revision: Nat, content: Texts]]
    /\ DOMAIN intakeWorkers = IntakeWorkers
    /\ \A w \in IntakeWorkers : IsTick(intakeWorkers[w])

(* The messages that an intake may quote.                                  *)
BelongTo(c, withThread) ==
    {Intake!SourceOf(c), c} \cup (IF withThread THEN Intake!InRoom(c) ELSE {})

(* The row of c quotes its own messages, as they are saved.                *)
Quotes(c, row, log) ==
    /\ \A q \in row.content : log[q[1]] = q[2] /\ q[1] \in BelongTo(c, row.thread)
    /\ row.state = "none" => row.content = {}

AllQuote == \A c \in Commands : Quotes(c, intakes[c], messages)

(* The text read from a row with its revision is still its text while the  *)
(* revision stands, until it is registered.                                *)
ReadFrom(row, revision, content) ==
    /\ revision <= row.revision
    /\ revision = row.revision /\ row.state # "registered" => content = row.content

ReadFromRows ==
    /\ \A w \in IntakeWorkers : \A r \in intakeWorkers[w].reviews :
        /\ r.of \in Commands /\ r.revision \in Nat /\ r.content \in Texts
        /\ ReadFrom(intakes[r.of], r.revision, r.content)
    /\ \A c \in Watched : ReadFrom(intakes[c], seen[c].revision, seen[c].content)

IntakeInv == IntakeTyped /\ AllQuote /\ ReadFromRows /\ Intake!ReviewIsOfContent

(* What a step does to the row of an intake: its text stands, and so does  *)
(* its review unless it is one of that text; or all of it is new.          *)
TextStands(old, new) ==
    /\ new.content = old.content /\ new.revision = old.revision
    /\ old.state = "registered" => new.state = "registered"
    /\ new.review # old.review => new.review = Intake!NoReview \/ new.review.of = old.content

Rewritten(old, new) ==
    /\ new.review = Intake!NoReview
    /\ IF old.state = "registered"
       THEN new.state = "registered" /\ new.revision = old.revision
       ELSE new.state # "registered" /\ new.revision = old.revision + 1

RowsMove == \A c \in Commands :
    TextStands(intakes[c], intakes'[c]) \/ Rewritten(intakes[c], intakes'[c])

(* Whatever was read from the rows before was.                             *)
LEMMA ReadingsStand ==
    ASSUME IntakeInv, intakes' \in [Commands -> IntakeRow], RowsMove,
           NEW c \in Commands, NEW n \in Nat, NEW content,
           ReadFrom(intakes[c], n, content)
    PROVE  ReadFrom(intakes'[c], n, content)
<1>1. /\ intakes[c].revision \in Nat /\ intakes'[c].revision \in Nat
  BY DEF IntakeInv, IntakeTyped, IntakeRow
<1>2. CASE TextStands(intakes[c], intakes'[c])
  BY <1>1, <1>2 DEF TextStands, ReadFrom
<1>3. CASE Rewritten(intakes[c], intakes'[c])
  BY <1>1, <1>3 DEF Rewritten, ReadFrom
<1> QED
  BY <1>2, <1>3 DEF RowsMove

(* A review that is there after the step is of the text that is there.     *)
LEMMA ReviewsStand ==
    ASSUME IntakeInv, RowsMove
    PROVE  Intake!ReviewIsOfContent'
<1> SUFFICES ASSUME NEW c \in Commands, intakes'[c].review # Intake!NoReview
             PROVE  intakes'[c].review.of = intakes'[c].content
  BY DEF Intake!ReviewIsOfContent
<1>1. TextStands(intakes[c], intakes'[c])
  BY DEF RowsMove, Rewritten
<1> QED
  BY <1>1 DEF TextStands, IntakeInv, Intake!ReviewIsOfContent

(* A tick that reads nothing new from the rows.                            *)
LEMMA TickStands ==
    ASSUME IntakeInv, NEW w \in IntakeWorkers, NEW d, IsTick(d),
           intakeWorkers' = [intakeWorkers EXCEPT ![w] = d],
           d.reviews \subseteq intakeWorkers[w].reviews,
           text' = text, seen' = seen, messages' \in [Intake!Messages -> Int],
           intakes' \in [Commands -> IntakeRow], RowsMove, AllQuote'
    PROVE  IntakeInv'
<1>1. /\ DOMAIN intakeWorkers' = IntakeWorkers /\ intakeWorkers'[w] = d
      /\ \A v \in IntakeWorkers \ {w} : intakeWorkers'[v] = intakeWorkers[v]
  BY DEF IntakeInv, IntakeTyped
<1>2. IntakeTyped'
  BY <1>1 DEF IntakeInv, IntakeTyped
<1>3. ASSUME NEW v \in IntakeWorkers, NEW r \in intakeWorkers'[v].reviews
      PROVE  /\ r.of \in Commands /\ r.revision \in Nat /\ r.content \in Texts
             /\ ReadFrom(intakes'[r.of], r.revision, r.content)
  <2>1. r \in intakeWorkers[v].reviews
    BY <1>1, <1>3
  <2>2. /\ r.of \in Commands /\ r.revision \in Nat /\ r.content \in Texts
        /\ ReadFrom(intakes[r.of], r.revision, r.content)
    BY <2>1 DEF IntakeInv, ReadFromRows
  <2> QED
    BY <2>2, ReadingsStand
<1>4. ASSUME NEW c \in Watched
      PROVE  ReadFrom(intakes'[c], seen'[c].revision, seen'[c].content)
  <2>1. c \in Commands /\ seen[c].revision \in Nat
    BY IntakeAssumption DEF IntakeInv, IntakeTyped
  <2> QED
    BY <2>1, ReadingsStand DEF IntakeInv, ReadFromRows
<1> QED
  BY <1>2, <1>3, <1>4, ReviewsStand DEF IntakeInv, ReadFromRows

(* The rows and messages are left alone.                                   *)
LEMMA RowsUntouched ==
    ASSUME IntakeInv, UNCHANGED <<messages, intakes>>
    PROVE  /\ messages' \in [Intake!Messages -> Int] /\ intakes' \in [Commands -> IntakeRow]
           /\ RowsMove /\ AllQuote'
BY DEF IntakeInv, IntakeTyped, RowsMove, TextStands, AllQuote

(* A message is received.                                                  *)
LEMMA ReceiveStands ==
    ASSUME IntakeInv, NEW m \in Intake!Messages, NEW v \in Int, NEW allowNew \in BOOLEAN,
           Intake!Receive(m, v, allowNew)
    PROVE  /\ messages' \in [Intake!Messages -> Int] /\ intakes' \in [Commands -> IntakeRow]
           /\ RowsMove /\ AllQuote'
<1>1. CASE messages[m] = v
  BY <1>1, RowsUntouched DEF Intake!Receive
<1>2. CASE messages[m] # v
  <2> DEFINE log == [messages EXCEPT ![m] = v]
             Opens == /\ Intake!Concerned(m) = {} /\ allowNew
                      /\ m \in Commands /\ v # Intake!Deleted /\ Intake!Duplicates(m) = {}
  <2>1. /\ messages' = log
        /\ intakes' = [c \in Commands |->
                IF c \in Intake!Concerned(m) THEN Intake!Changed(c, log, intakes[c].thread)
                ELSE IF c = m /\ Opens THEN Intake!Changed(c, log, FALSE)
                ELSE intakes[c]]
    BY <1>2 DEF Intake!Receive
  <2>2. /\ log \in [Intake!Messages -> Int]
        /\ \A x \in Intake!Messages \ {m} : log[x] = messages[x]
    BY DEF IntakeInv, IntakeTyped
  <2> HIDE DEF log
  <2>3. ASSUME NEW c \in Commands, NEW withThread \in BOOLEAN
        PROVE  /\ BelongTo(c, withThread) \subseteq Intake!Messages
               /\ Intake!Rebuilt(c, log, withThread) \in Texts
               /\ \A q \in Intake!Rebuilt(c, log, withThread) :
                    log[q[1]] = q[2] /\ q[1] \in BelongTo(c, withThread)
    <3>1. BelongTo(c, withThread) \subseteq Intake!Messages
      BY IntakeAssumption DEF BelongTo, Intake!SourceOf, Intake!InRoom, Intake!Messages
    <3>2. Intake!Rebuilt(c, log, withThread) =
            {<<x, log[x]>> : x \in {y \in BelongTo(c, withThread) : log[y] > 0}}
      BY DEF Intake!Rebuilt, BelongTo
    <3> QED
      BY <2>2, <3>1, <3>2 DEF Texts
  <2>4. ASSUME NEW c \in Commands, NEW withThread \in BOOLEAN,
               withThread => intakes[c].thread
        PROVE  LET new == Intake!Changed(c, log, withThread) IN
               new \in IntakeRow /\ Rewritten(intakes[c], new) /\ Quotes(c, new, log)
    <3> DEFINE new == Intake!Changed(c, log, withThread)
               content == Intake!Rebuilt(c, log, withThread)
               gone == log[c] <= 0 \/ log[Intake!SourceOf(c)] <= 0
               old == intakes[c]
    <3>1. old \in IntakeRow
      BY DEF IntakeInv, IntakeTyped
    <3>2. new = IF old.state = "registered" THEN Intake!Followed(old, content, gone)
                ELSE Intake!Reopened(old, content, gone)
      BY DEF Intake!Changed
    <3>3. content \in Texts /\ gone \in BOOLEAN
      BY <2>3
    <3>4. \A q \in content : log[q[1]] = q[2] /\ q[1] \in BelongTo(c, withThread)
      BY <2>3
    <3> HIDE DEF new, content, gone, old
    <3>5. /\ new \in IntakeRow /\ new.content = content /\ new.thread = old.thread
          /\ new.state # "none" /\ Rewritten(old, new)
      <4>1. Intake!NoReview \in [verdict: {"none", "questions", "complete"}, of: Texts]
        BY DEF Intake!NoReview, Texts
      <4>2. CASE old.state = "registered"
        BY <3>1, <3>2, <3>3, <4>1, <4>2 DEF Intake!Followed, IntakeRow, Rewritten
      <4>3. CASE old.state # "registered"
        <5>1. new = [old EXCEPT !.content = content, !.sourceDeleted = gone,
                                !.revision = old.revision + 1, !.state = "checking",
                                !.review = Intake!NoReview]
          BY <3>2, <4>3 DEF Intake!Reopened
        <5>2. old.revision + 1 \in Nat
          BY <3>1 DEF IntakeRow
        <5>3. /\ new \in IntakeRow /\ new.content = content /\ new.thread = old.thread
              /\ new.revision = old.revision + 1 /\ new.state = "checking"
              /\ new.review = Intake!NoReview
          BY <3>1, <3>3, <4>1, <5>1, <5>2 DEF IntakeRow
        <5> QED
          BY <4>3, <5>3 DEF Rewritten
      <4> QED
        BY <4>2, <4>3
    <3>6. BelongTo(c, withThread) \subseteq BelongTo(c, old.thread)
      BY <2>4 DEF BelongTo, old
    <3>7. Quotes(c, new, log)
      BY <3>4, <3>5, <3>6 DEF Quotes
    <3> QED
      BY <3>5, <3>7 DEF new, old
  <2>5. ASSUME NEW c \in Commands
        PROVE  /\ intakes'[c] \in IntakeRow
               /\ TextStands(intakes[c], intakes'[c]) \/ Rewritten(intakes[c], intakes'[c])
               /\ Quotes(c, intakes'[c], log)
    <3>1. intakes[c] \in IntakeRow /\ intakes[c].thread \in BOOLEAN
      BY DEF IntakeInv, IntakeTyped, IntakeRow
    <3>2. CASE c \in Intake!Concerned(m)
      BY <2>1, <2>4, <3>1, <3>2
    <3>3. CASE c \notin Intake!Concerned(m) /\ c = m /\ Opens
      BY <2>1, <2>4, <3>3
    <3>4. CASE c \notin Intake!Concerned(m) /\ ~(c = m /\ Opens)
      <4>1. intakes'[c] = intakes[c]
        BY <2>1, <3>4
      <4>2. intakes[c].state = "none" \/ m \notin BelongTo(c, intakes[c].thread)
        BY <3>4 DEF Intake!Concerned, BelongTo
      <4>3. Quotes(c, intakes[c], messages)
        BY DEF IntakeInv, AllQuote
      <4>4. BelongTo(c, intakes[c].thread) \subseteq Intake!Messages
        BY <2>3, <3>1
      <4>5. Quotes(c, intakes[c], log)
        BY <2>2, <4>2, <4>3, <4>4 DEF Quotes
      <4> QED
        BY <3>1, <4>1, <4>5 DEF TextStands
    <3> QED
      BY <3>2, <3>3, <3>4
  <2>6. intakes' \in [Commands -> IntakeRow]
    BY <2>1, <2>5
  <2> QED
    BY <2>1, <2>2, <2>5, <2>6 DEF RowsMove, AllQuote
<1> QED
  BY <1>1, <1>2

(* The steps of a tick that receive messages.                              *)
LEMMA ReceivingStands ==
    ASSUME IntakeInv, NEW w \in IntakeWorkers,
           \/ \E m \in Intake!Messages, v \in 1..MaxVersion : Intake!ReceiveNext(w, m, v)
           \/ \E m \in Intake!Messages : Intake!ReceiveDeleted(w, m)
    PROVE  IntakeInv'
<1> DEFINE e == intakeWorkers[w]
<1>1. IsTick(e)
  BY DEF IntakeInv, IntakeTyped
<1>2. \A x \in Intake!Messages : text[x] \in Int
  BY DEF IntakeInv, IntakeTyped
<1>3. ASSUME NEW m \in Intake!Messages, NEW v \in 1..MaxVersion, Intake!ReceiveNext(w, m, v)
      PROVE  IntakeInv'
  <2> DEFINE source == IF m \in Commands THEN Target[m] ELSE Nobody
             done == [e EXCEPT !.page = @ \ {<<m, v>>}, !.source = Nobody]
             begun == [e EXCEPT !.source = m]
  <2>1. /\ text' = text /\ seen' = seen
        /\ \/ Intake!Receive(m, v, TRUE) /\ intakeWorkers' = [intakeWorkers EXCEPT ![w] = done]
           \/ /\ source # Nobody /\ Intake!Receive(source, text[source], FALSE)
              /\ intakeWorkers' = [intakeWorkers EXCEPT ![w] = begun]
           \/ /\ intakeWorkers' = [intakeWorkers EXCEPT ![w] = done]
              /\ UNCHANGED <<messages, intakes>>
    BY <1>3 DEF Intake!ReceiveNext, Intake!Goto
  <2>2. /\ IsTick(done) /\ done.reviews = e.reviews
        /\ IsTick(begun) /\ begun.reviews = e.reviews
    BY <1>1 DEF IsTick
  <2>3. source # Nobody => source \in Intake!Messages
    BY IntakeAssumption DEF Intake!Messages
  <2>4. v \in Int /\ TRUE \in BOOLEAN /\ FALSE \in BOOLEAN
    OBVIOUS
  <2>5. /\ messages' \in [Intake!Messages -> Int] /\ intakes' \in [Commands -> IntakeRow]
        /\ RowsMove /\ AllQuote'
    BY <1>2, <2>1, <2>3, <2>4, ReceiveStands, RowsUntouched
  <2> HIDE DEF done, begun
  <2> QED
    BY <2>1, <2>2, <2>5, TickStands
<1>4. ASSUME NEW m \in Intake!Messages, Intake!ReceiveDeleted(w, m)
      PROVE  IntakeInv'
  <2> DEFINE d == [e EXCEPT !.page = @ \ {<<m, Intake!Deleted>>}]
  <2>1. /\ text' = text /\ seen' = seen /\ Intake!Receive(m, Intake!Deleted, TRUE)
        /\ intakeWorkers' = [intakeWorkers EXCEPT ![w] = d]
    BY <1>4 DEF Intake!ReceiveDeleted, Intake!Goto
  <2>2. IsTick(d) /\ d.reviews = e.reviews
    BY <1>1 DEF IsTick
  <2>3. Intake!Deleted \in Int /\ TRUE \in BOOLEAN
    BY DEF Intake!Deleted
  <2>4. /\ messages' \in [Intake!Messages -> Int] /\ intakes' \in [Commands -> IntakeRow]
        /\ RowsMove /\ AllQuote'
    BY <2>1, <2>3, ReceiveStands
  <2> HIDE DEF d
  <2> QED
    BY <2>1, <2>2, <2>4, TickStands
<1> QED
  BY <1>3, <1>4

(* The steps of a tick that leave rows and messages alone.                 *)
LEMMA WaitingStands ==
    ASSUME IntakeInv, NEW w \in IntakeWorkers,
           \/ Intake!StartTick(w) \/ Intake!Abandon(w) \/ Intake!CheckDeleted(w)
           \/ Intake!EndRoom(w) \/ Intake!ListOps(w) \/ Intake!EndTick(w)
           \/ \E room \in Intake!Rooms : Intake!FetchRoom(w, room)
    PROVE  IntakeInv'
<1> DEFINE e == intakeWorkers[w]
<1>1. IsTick(e)
  BY DEF IntakeInv, IntakeTyped
<1>2. UNCHANGED <<text, seen, messages, intakes>>
  BY DEF Intake!StartTick, Intake!Abandon, Intake!CheckDeleted, Intake!EndRoom, Intake!ListOps,
     Intake!EndTick, Intake!FetchRoom
<1>3. ASSUME NEW d, IsTick(d), d.reviews \subseteq e.reviews,
             intakeWorkers' = [intakeWorkers EXCEPT ![w] = d]
      PROVE  IntakeInv'
  BY <1>2, <1>3, RowsUntouched, TickStands
<1>4. IsTick(Intake!Asleep) /\ Intake!Asleep.reviews = {}
  BY DEF IsTick, Intake!Asleep
<1>5. CASE Intake!StartTick(w)
  <2>1. IsTick([Intake!Asleep EXCEPT !.at = "rooms", !.rooms = {Intake!Backlog} \cup threads])
        /\ [Intake!Asleep EXCEPT !.at = "rooms",
                                 !.rooms = {Intake!Backlog} \cup threads].reviews = {}
    BY <1>4 DEF IsTick
  <2> QED
    BY <1>3, <1>5, <2>1 DEF Intake!StartTick, Intake!Goto
<1>6. CASE Intake!Abandon(w) \/ Intake!EndTick(w)
  BY <1>3, <1>4, <1>6 DEF Intake!Abandon, Intake!EndTick, Intake!EndsTick, Intake!Goto
<1>7. CASE Intake!CheckDeleted(w)
  <2>1. PICK next, page :
            intakeWorkers' = [intakeWorkers EXCEPT ![w] =
                                 [e EXCEPT !.at = "deleting", !.next = next, !.page = page]]
    BY <1>7, Zenon DEF Intake!CheckDeleted, Intake!Goto
  <2>2. IsTick([e EXCEPT !.at = "deleting", !.next = next, !.page = page])
        /\ [e EXCEPT !.at = "deleting", !.next = next, !.page = page].reviews = e.reviews
    BY <1>1 DEF IsTick
  <2> QED
    BY <1>3, <2>1, <2>2
<1>8. CASE Intake!EndRoom(w)
  <2>1. IsTick([e EXCEPT !.at = "rooms", !.next = 0, !.room = Intake!Backlog])
        /\ [e EXCEPT !.at = "rooms", !.next = 0, !.room = Intake!Backlog].reviews = e.reviews
    BY <1>1 DEF IsTick
  <2> QED
    BY <1>3, <1>8, <2>1 DEF Intake!EndRoom, Intake!Goto
<1>9. CASE Intake!ListOps(w)
  <2> DEFINE todo == {c \in Commands : intakeOps[c] \in {"queued", "unknown"}}
  <2>1. IsTick([e EXCEPT !.at = "delivering", !.todo = todo])
        /\ [e EXCEPT !.at = "delivering", !.todo = todo].reviews = e.reviews
    BY <1>1 DEF IsTick
  <2> QED
    BY <1>3, <1>9, <2>1 DEF Intake!ListOps, Intake!Goto
<1>10. ASSUME NEW room \in Intake!Rooms, Intake!FetchRoom(w, room)
       PROVE  IntakeInv'
  <2>1. PICK next, page :
            intakeWorkers' = [intakeWorkers EXCEPT ![w] =
                                 [e EXCEPT !.at = "receiving", !.room = room,
                                           !.rooms = @ \ {room}, !.next = next, !.page = page]]
    BY <1>10, Zenon DEF Intake!FetchRoom, Intake!Goto
  <2> DEFINE d == [e EXCEPT !.at = "receiving", !.room = room,
                            !.rooms = @ \ {room}, !.next = next, !.page = page]
  <2>2. IsTick(d) /\ d.reviews = e.reviews
    BY <1>1 DEF IsTick
  <2> HIDE DEF d
  <2> QED
    BY <1>3, <2>1, <2>2 DEF d
<1> QED
  BY <1>5, <1>6, <1>7, <1>8, <1>9, <1>10

(* What is to be reviewed is read from the rows.                           *)
LEMMA ListReviewsStands ==
    ASSUME IntakeInv, NEW w \in IntakeWorkers, Intake!ListReviews(w)
    PROVE  IntakeInv'
<1> DEFINE e == intakeWorkers[w]
           reviews == {[of |-> c, revision |-> intakes[c].revision,
                        content |-> intakes[c].content] :
                  c \in {x \in Commands : intakes[x].state = "checking" /\ intakes[x].thread}}
           d == [e EXCEPT !.at = "reviewing", !.reviews = reviews]
<1>1. /\ intakeWorkers' = [intakeWorkers EXCEPT ![w] = d]
      /\ UNCHANGED <<text, seen, messages, intakes>>
  BY DEF Intake!ListReviews, Intake!Goto
<1>2. IsTick(d) /\ d.reviews = reviews
  BY DEF IsTick, IntakeInv, IntakeTyped
<1> HIDE DEF d
<1>3. IntakeTyped'
  BY <1>1, <1>2 DEF IntakeInv, IntakeTyped
<1>4. ASSUME NEW r \in reviews
      PROVE  /\ r.of \in Commands /\ r.revision \in Nat /\ r.content \in Texts
             /\ ReadFrom(intakes[r.of], r.revision, r.content)
  BY DEF ReadFrom, IntakeInv, IntakeTyped, IntakeRow
<1> HIDE DEF reviews
<1>5. ReadFromRows'
  <2>1. /\ intakeWorkers'[w] = d
        /\ \A v \in IntakeWorkers \ {w} : intakeWorkers'[v] = intakeWorkers[v]
    BY <1>1 DEF IntakeInv, IntakeTyped
  <2> QED
    BY <1>1, <1>2, <1>4, <2>1 DEF IntakeInv, ReadFromRows
<1> QED
  BY <1>1, <1>3, <1>5 DEF IntakeInv, AllQuote, Intake!ReviewIsOfContent

(* The model answers, or a thread is opened.                               *)
LEMMA AnswerStands ==
    ASSUME IntakeInv, NEW w \in IntakeWorkers,
           \/ \E r \in intakeWorkers[w].reviews : Intake!Review(w, r)
           \/ \E c \in Commands : Intake!Deliver(w, c)
    PROVE  IntakeInv'
<1> DEFINE e == intakeWorkers[w]
<1>1. IsTick(e)
  BY DEF IntakeInv, IntakeTyped
<1>2. ASSUME NEW c \in Commands, NEW row \in IntakeRow, intakes' = [intakes EXCEPT ![c] = row],
             UNCHANGED messages, TextStands(intakes[c], row),
             intakes[c].thread => row.thread, row.state = "none" => intakes[c].state = "none"
      PROVE  /\ messages' \in [Intake!Messages -> Int] /\ intakes' \in [Commands -> IntakeRow]
             /\ RowsMove /\ AllQuote'
  <2>1. /\ intakes'[c] = row
        /\ \A b \in Commands \ {c} : intakes'[b] = intakes[b]
        /\ messages' \in [Intake!Messages -> Int] /\ intakes' \in [Commands -> IntakeRow]
    BY <1>2 DEF IntakeInv, IntakeTyped
  <2>2. RowsMove
    BY <1>2, <2>1 DEF RowsMove, TextStands
  <2>3. Quotes(c, row, messages')
    BY <1>2 DEF IntakeInv, AllQuote, Quotes, TextStands, BelongTo
  <2>4. AllQuote'
    BY <1>2, <2>1, <2>3 DEF IntakeInv, AllQuote
  <2> QED
    BY <2>1, <2>2, <2>4
<1>3. ASSUME NEW r \in e.reviews, Intake!Review(w, r)
      PROVE  IntakeInv'
  <2> DEFINE d == [e EXCEPT !.reviews = @ \ {r}]
  <2>1. /\ intakeWorkers' = [intakeWorkers EXCEPT ![w] = d]
        /\ UNCHANGED <<text, seen, messages>>
    BY <1>3 DEF Intake!Review, Intake!Goto
  <2>2. IsTick(d) /\ d.reviews \subseteq e.reviews
    BY <1>1 DEF IsTick
  <2>3. /\ r.of \in Commands /\ r.content \in Texts
        /\ ReadFrom(intakes[r.of], r.revision, r.content)
    BY DEF IntakeInv, ReadFromRows
  <2>4. CASE UNCHANGED intakes
    BY <2>1, <2>2, <2>4, RowsUntouched, TickStands
  <2>5. CASE ~UNCHANGED intakes
    <3> DEFINE old == intakes[r.of]
    <3>1. PICK verdict \in {"questions", "complete", "failed"} :
             intakes' = [intakes EXCEPT
                    ![r.of].state = IF verdict = "questions" THEN "needs_information"
                                    ELSE "needs_review",
                    ![r.of].review = IF verdict = "failed" THEN Intake!NoReview
                                     ELSE [verdict |-> verdict, of |-> r.content]]
      BY <1>3, <2>5 DEF Intake!Review
    <3> DEFINE state == IF verdict = "questions" THEN "needs_information" ELSE "needs_review"
               review == IF verdict = "failed" THEN Intake!NoReview
                         ELSE [verdict |-> verdict, of |-> r.content]
               row == [old EXCEPT !.state = state, !.review = review]
    <3>2. intakes' = [intakes EXCEPT ![r.of] = row]
      BY <2>3, <3>1 DEF IntakeInv, IntakeTyped
    <3>3. old.state # "registered" /\ r.content = old.content
      BY <1>3, <2>3, <2>5 DEF Intake!Review, Intake!UpToDate, ReadFrom
    <3>4. old \in IntakeRow
      BY <2>3 DEF IntakeInv, IntakeTyped
    <3>5. /\ review \in [verdict: {"none", "questions", "complete"}, of: Texts]
          /\ review = Intake!NoReview \/ review.of = old.content
          /\ state \in {"needs_information", "needs_review"}
      BY <2>3, <3>3 DEF Intake!NoReview, Texts
    <3> HIDE DEF state, review
    <3>6. /\ row \in IntakeRow /\ TextStands(old, row)
          /\ row.thread = old.thread /\ row.state # "none"
      BY <3>3, <3>4, <3>5 DEF IntakeRow, TextStands
    <3> HIDE DEF row
    <3>7. /\ messages' \in [Intake!Messages -> Int] /\ intakes' \in [Commands -> IntakeRow]
          /\ RowsMove /\ AllQuote'
      BY <1>2, <2>1, <2>3, <3>2, <3>6
    <3> HIDE DEF d
    <3> QED
      BY <2>1, <2>2, <3>7, TickStands
  <2> QED
    BY <2>4, <2>5
<1>4. ASSUME NEW c \in Commands, Intake!Deliver(w, c)
      PROVE  IntakeInv'
  <2> DEFINE d == [e EXCEPT !.todo = @ \ {c}]
             row == [intakes[c] EXCEPT !.thread = TRUE]
  <2>1. /\ intakeWorkers' = [intakeWorkers EXCEPT ![w] = d]
        /\ UNCHANGED <<text, seen, messages>>
        /\ UNCHANGED intakes \/ intakes' = [intakes EXCEPT ![c].thread = TRUE]
    BY <1>4 DEF Intake!Deliver, Intake!Goto
  <2>2. IsTick(d) /\ d.reviews \subseteq e.reviews
    BY <1>1 DEF IsTick
  <2>3. /\ row \in IntakeRow /\ TextStands(intakes[c], row) /\ row.thread
        /\ row.state = intakes[c].state
    BY DEF IntakeInv, IntakeTyped, IntakeRow, TextStands
  <2>4. UNCHANGED intakes \/ intakes' = [intakes EXCEPT ![c] = row]
    BY <2>1
  <2> HIDE DEF row, d
  <2>5. /\ messages' \in [Intake!Messages -> Int] /\ intakes' \in [Commands -> IntakeRow]
        /\ RowsMove /\ AllQuote'
    BY <1>2, <2>1, <2>3, <2>4, RowsUntouched
  <2> QED
    BY <2>1, <2>2, <2>5, TickStands
<1> QED
  BY <1>3, <1>4

(* People write, edit and delete; the leader looks, confirms and asks for  *)
(* another try.                                                            *)
LEMMA PeopleStand ==
    ASSUME IntakeInv,
           \/ \E m \in Intake!Messages : Intake!Say(m) \/ Intake!Delete(m)
           \/ \E c \in Watched : Intake!Look(c) \/ Intake!Confirm(c)
           \/ \E c \in Commands : Intake!Retry(c)
    PROVE  IntakeInv'
<1>1. ASSUME NEW m \in Intake!Messages, Intake!Say(m) \/ Intake!Delete(m)
      PROVE  IntakeInv'
  <2>1. /\ UNCHANGED <<seen, messages, intakes, intakeWorkers>>
        /\ text' \in [Intake!Messages -> Int]
    BY <1>1 DEF Intake!Say, Intake!Delete, Intake!Deleted, IntakeInv, IntakeTyped
  <2> QED
    BY <2>1 DEF IntakeInv, IntakeTyped, AllQuote, ReadFromRows, Intake!ReviewIsOfContent
<1>2. ASSUME NEW c \in Watched, Intake!Look(c)
      PROVE  IntakeInv'
  <2> DEFINE shown == [revision |-> intakes[c].revision, content |-> intakes[c].content]
  <2>1. /\ UNCHANGED <<text, messages, intakes, intakeWorkers>>
        /\ seen' = [seen EXCEPT ![c] = shown]
    BY <1>2 DEF Intake!Look
  <2>2. intakes[c] \in IntakeRow
    BY IntakeAssumption DEF IntakeInv, IntakeTyped
  <2>3. shown \in [revision: Nat, content: Texts] /\ ReadFrom(intakes[c], shown.revision, shown.content)
    BY <2>2 DEF IntakeRow, ReadFrom
  <2> HIDE DEF shown
  <2>4. /\ seen'[c] = shown /\ \A b \in Watched \ {c} : seen'[b] = seen[b]
        /\ IntakeTyped'
    BY <2>1, <2>3 DEF IntakeInv, IntakeTyped
  <2>5. ReadFromRows'
    BY <2>1, <2>3, <2>4 DEF IntakeInv, ReadFromRows
  <2> QED
    BY <2>1, <2>4, <2>5 DEF IntakeInv, AllQuote, Intake!ReviewIsOfContent
<1>3. ASSUME NEW c \in Watched, Intake!Confirm(c)
      PROVE  IntakeInv'
  <2> DEFINE row == [intakes[c] EXCEPT !.state = "registered"]
  <2>1. /\ UNCHANGED <<text, messages, seen, intakeWorkers>>
        /\ intakes' = [intakes EXCEPT ![c] = row]
    BY <1>3 DEF Intake!Confirm
  <2>2. c \in Commands
    BY IntakeAssumption
  <2>3. /\ row \in IntakeRow /\ TextStands(intakes[c], row) /\ row.thread = intakes[c].thread
        /\ row.state = "registered"
    BY <2>2 DEF IntakeInv, IntakeTyped, IntakeRow, TextStands
  <2> HIDE DEF row
  <2>4. /\ intakes'[c] = row
        /\ \A b \in Commands \ {c} : intakes'[b] = intakes[b]
        /\ intakes' \in [Commands -> IntakeRow]
    BY <2>1, <2>2, <2>3 DEF IntakeInv, IntakeTyped
  <2>5. RowsMove
    BY <2>3, <2>4 DEF RowsMove, TextStands
  <2>6. AllQuote'
    BY <2>1, <2>3, <2>4 DEF IntakeInv, AllQuote, Quotes, TextStands
  <2>7. IntakeTyped'
    BY <2>1, <2>4 DEF IntakeInv, IntakeTyped
  <2>8. \A w \in IntakeWorkers : \A r \in intakeWorkers[w].reviews :
            /\ r.of \in Commands /\ r.revision \in Nat /\ r.content \in Texts
            /\ ReadFrom(intakes'[r.of], r.revision, r.content)
    BY <2>4, <2>5, ReadingsStand DEF IntakeInv, ReadFromRows
  <2>9. \A b \in Watched : b \in Commands /\ seen[b].revision \in Nat
    BY IntakeAssumption DEF IntakeInv, IntakeTyped
  <2>10. ReadFromRows'
    BY <2>1, <2>4, <2>5, <2>8, <2>9, ReadingsStand DEF IntakeInv, ReadFromRows
  <2> QED
    BY <2>5, <2>6, <2>7, <2>10, ReviewsStand DEF IntakeInv
<1>4. ASSUME NEW c \in Commands, Intake!Retry(c)
      PROVE  IntakeInv'
  <2>1. UNCHANGED <<text, seen, messages, intakes, intakeWorkers>>
    BY <1>4 DEF Intake!Retry
  <2> QED
    BY <2>1 DEF IntakeInv, IntakeTyped, AllQuote, ReadFromRows, Intake!ReviewIsOfContent
<1> QED
  BY <1>1, <1>2, <1>3, <1>4

(* Every step keeps the intakes current.                                   *)
LEMMA IntakeNextStands ==
    ASSUME IntakeInv, [Intake!IntakeNext]_(Intake!intakeVars)
    PROVE  IntakeInv'
<1>1. CASE UNCHANGED Intake!intakeVars
  BY <1>1 DEF Intake!intakeVars, IntakeInv, IntakeTyped, AllQuote, ReadFromRows,
     Intake!ReviewIsOfContent
<1> QED
  BY <1>1, ReceivingStands, WaitingStands, ListReviewsStands, AnswerStands, PeopleStand
     DEF Intake!IntakeNext, Intake!Step

(* The intakes hold at the start, and at every step after it.              *)
LEMMA IntakeInvariance == Intake!IntakeSpec => []IntakeInv
<1>1. Intake!IntakeInit => IntakeInv
  <2> SUFFICES ASSUME Intake!IntakeInit PROVE IntakeInv
    OBVIOUS
  <2>1. /\ \A c \in Commands : intakes[c] = Intake!NoIntake
        /\ \A w \in IntakeWorkers : intakeWorkers[w] = Intake!Asleep
        /\ \A c \in Watched : seen[c] = Intake!NotSeen
    BY DEF Intake!IntakeInit
  <2>2. /\ Intake!NoIntake \in IntakeRow /\ IsTick(Intake!Asleep)
        /\ Intake!NotSeen \in [revision: Nat, content: Texts]
    BY DEF Intake!NoIntake, Intake!NoReview, IntakeRow, Texts, IsTick, Intake!Asleep,
       Intake!NotSeen
  <2>3. IntakeTyped
    BY <2>2 DEF Intake!IntakeInit, IntakeTyped, Intake!Absent
  <2>4. AllQuote /\ Intake!ReviewIsOfContent
    BY <2>1 DEF AllQuote, Quotes, Intake!NoIntake, Intake!ReviewIsOfContent
  <2>5. ReadFromRows
    BY <2>1, IntakeAssumption DEF ReadFromRows, Intake!Asleep, ReadFrom, Intake!NotSeen,
       Intake!NoIntake
  <2> QED
    BY <2>3, <2>4, <2>5 DEF IntakeInv
<1> QED
  BY <1>1, IntakeNextStands, PTL DEF Intake!IntakeSpec

(* "edits/deletions cannot leave stale private content in intake text",    *)
(* and a review is of the text shown with it, for any workers, messages,   *)
(* edits, deletions and failures (intake-store.ts).                        *)
THEOREM IntakesAreCurrent == Intake!IntakeSpec => []IntakeIsCurrent
<1>1. IntakeInv => IntakeIsCurrent
  BY DEF IntakeInv, AllQuote, Quotes, IntakeIsCurrent, Intake!NoStaleContent
<1> QED
  BY <1>1, IntakeInvariance, PTL

(* Nothing but a confirmation registers an intake.                         *)
LEMMA OnlyConfirmRegisters ==
    ASSUME IntakeInv, Intake!IntakeNext, NEW c \in Commands,
           intakes[c].state # "registered", intakes'[c].state = "registered"
    PROVE  c \in Watched /\ Intake!Confirm(c)
<1>1. intakes[c] \in IntakeRow /\ intakes \in [Commands -> IntakeRow] /\ ~UNCHANGED intakes
  BY DEF IntakeInv, IntakeTyped
<1>2. ASSUME NEW m, NEW v, NEW allowNew, Intake!Receive(m, v, allowNew)
      PROVE  FALSE
  <2>1. PICK log, withThread : intakes'[c] = Intake!Changed(c, log, withThread)
    <3> DEFINE log == [messages EXCEPT ![m] = v]
    <3>1. \/ intakes'[c] = Intake!Changed(c, log, intakes[c].thread)
          \/ intakes'[c] = Intake!Changed(c, log, FALSE)
          \/ intakes'[c] = intakes[c]
      BY <1>2 DEF Intake!Receive
    <3> QED
      BY <3>1
  <2>2. PICK content, gone : intakes'[c] = Intake!Reopened(intakes[c], content, gone)
    BY <2>1 DEF Intake!Changed
  <2> QED
    BY <1>1, <2>2 DEF Intake!Reopened, IntakeRow
<1>3. ASSUME NEW w, NEW r \in intakeWorkers[w].reviews, Intake!Review(w, r)
      PROVE  FALSE
  <2>1. PICK verdict \in {"questions", "complete", "failed"} :
           intakes' = [intakes EXCEPT
                ![r.of].state = IF verdict = "questions" THEN "needs_information"
                                ELSE "needs_review",
                ![r.of].review = IF verdict = "failed" THEN Intake!NoReview
                                 ELSE [verdict |-> verdict, of |-> r.content]]
    BY <1>1, <1>3 DEF Intake!Review
  <2> DEFINE state == IF verdict = "questions" THEN "needs_information" ELSE "needs_review"
             review == IF verdict = "failed" THEN Intake!NoReview
                       ELSE [verdict |-> verdict, of |-> r.content]
  <2>2. intakes' = [intakes EXCEPT ![r.of].state = state, ![r.of].review = review]
    BY <2>1
  <2>3. state # "registered"
    OBVIOUS
  <2> HIDE DEF state, review
  <2> QED
    BY <1>1, <2>2, <2>3 DEF IntakeRow
<1>4. ASSUME NEW w, NEW b \in Commands, Intake!Deliver(w, b)
      PROVE  FALSE
  <2>1. intakes' = [intakes EXCEPT ![b].thread = TRUE]
    BY <1>1, <1>4 DEF Intake!Deliver
  <2> QED
    BY <1>1, <2>1 DEF IntakeRow
<1>5. ASSUME NEW b \in Watched, Intake!Confirm(b)
      PROVE  c \in Watched /\ Intake!Confirm(c)
  BY <1>1, <1>5 DEF Intake!Confirm
<1>6. ASSUME NEW w, NEW m, NEW v, Intake!ReceiveNext(w, m, v)
      PROVE  FALSE
  BY <1>1, <1>2, <1>6 DEF Intake!ReceiveNext
<1>7. ASSUME NEW w, NEW m, Intake!ReceiveDeleted(w, m)
      PROVE  FALSE
  BY <1>2, <1>7 DEF Intake!ReceiveDeleted
<1>8. ASSUME NEW w,
             \/ Intake!StartTick(w) \/ Intake!Abandon(w) \/ Intake!CheckDeleted(w)
             \/ Intake!EndRoom(w) \/ Intake!ListOps(w) \/ Intake!EndTick(w)
             \/ Intake!ListReviews(w)
             \/ \E room \in Intake!Rooms : Intake!FetchRoom(w, room)
      PROVE  FALSE
  BY <1>1, <1>8 DEF Intake!StartTick, Intake!Abandon, Intake!CheckDeleted, Intake!EndRoom,
     Intake!ListOps, Intake!EndTick, Intake!FetchRoom, Intake!ListReviews
<1>9. ASSUME NEW m, Intake!Say(m) \/ Intake!Delete(m) \/ Intake!Look(m) \/ Intake!Retry(m)
      PROVE  FALSE
  BY <1>1, <1>9 DEF Intake!Say, Intake!Delete, Intake!Look, Intake!Retry
<1> QED
  BY <1>3, <1>4, <1>5, <1>6, <1>7, <1>8, <1>9 DEF Intake!IntakeNext, Intake!Step

(* What a leader registers is what the leader has read, whatever was       *)
(* edited, deleted or reviewed in between (intake-store.ts).               *)
THEOREM RegisteredWasRead == Intake!IntakeSpec => ConfirmedWhatWasSeen
<1>1. ASSUME IntakeInv, Intake!IntakeNext, NEW c \in Watched,
             intakes[c].state # "registered", intakes'[c].state = "registered"
      PROVE  seen[c].content = intakes[c].content
  <2>1. c \in Commands
    BY IntakeAssumption
  <2>2. Intake!Confirm(c)
    BY <1>1, <2>1, OnlyConfirmRegisters
  <2> QED
    BY <1>1, <2>2 DEF Intake!Confirm, Intake!MayConfirm, IntakeInv, ReadFromRows, ReadFrom
<1>2. IntakeInv /\ [Intake!IntakeNext]_(Intake!intakeVars) =>
        [\A c \in DOMAIN seen :
            intakes[c].state # "registered" /\ intakes'[c].state = "registered"
                => seen[c].content = intakes[c].content]_(Intake!intakeVars)
  BY <1>1 DEF IntakeInv, IntakeTyped
<1> QED
  BY <1>2, IntakeInvariance, PTL DEF Intake!IntakeSpec, ConfirmedWhatWasSeen,
     Intake!ConfirmedWhatWasSeen

-----------------------------------------------------------------------------
(* The remarks of Di.                                                      *)

RemarkStates == {"none", "queued", "sending", "unknown", "sent", "failed"}

RemarkTicks ==
    [at: {"idle", "reading", "asking", "listing", "delivering", "checking", "deciding", "posting"},
     setting: Nat, human: Nat, todo: SUBSET Discussion!Remarks, fresh: SUBSET Discussion!Remarks,
     op: Nat, since: Nat, news: Nat, ok: BOOLEAN]

DiscussionTyped ==
    /\ said \in 0..MaxMessages
    /\ saved \in 0..said
    /\ setting \in [enabled: BOOLEAN, revision: Nat, from: Nat]
    /\ remarkOps \in [Discussion!Remarks -> RemarkStates]
    /\ consent \in [Discussion!Remarks -> Nat]
    /\ remarks \in [Discussion!Remarks -> Nat]
    /\ remarkWorkers \in [RemarkWorkers -> RemarkTicks]

(* The operation about a message was handed to a delivery: no other one    *)
(* will find it queued.                                                    *)
Taken(state) == state \notin {"none", "queued"}

(* A remark on the last message read, under the consent it was asked with. *)
Current(d) == d.op = d.news /\ d.since <= d.setting

(* What a delivery holds, given the operations, the last message read, the *)
(* revision of the setting and the remarks posted.                         *)
Holds(d, states, last, revision, posts) ==
    /\ d.at = "asking" => d.human \in Discussion!Remarks
    /\ d.at \in {"checking", "deciding", "posting"} =>
        d.op \in Discussion!Remarks /\ states[d.op] # "none"
    /\ \A m \in d.fresh : states[m] # "none"
    /\ \A m \in d.todo \ d.fresh : Taken(states[m])
    /\ d.at = "checking" =>
        d.op <= d.news /\ d.news <= last /\ d.since <= revision
    /\ d.at = "deciding" /\ d.ok => Taken(states[d.op]) \/ Current(d)
    /\ d.at = "posting" => Current(d) /\ Taken(states[d.op]) /\ posts[d.op] = 0

DeliveriesHold ==
    \A w \in RemarkWorkers :
        Holds(remarkWorkers[w], remarkOps, saved, setting.revision, remarks)

(* Nothing was posted that no delivery took, nothing was asked about a     *)
(* message that was not read.                                              *)
RemarksCounted ==
    \A m \in Discussion!Remarks :
        /\ Taken(remarkOps[m]) \/ remarks[m] = 0
        /\ remarkOps[m] # "none" => m <= saved

OnePoster ==
    \A v, w \in RemarkWorkers :
        /\ remarkWorkers[v].at = "posting" /\ remarkWorkers[w].at = "posting"
        /\ remarkWorkers[v].op = remarkWorkers[w].op
        => v = w

DiscussionInv == DiscussionTyped /\ DeliveriesHold /\ RemarksCounted /\ OnePoster

(* What the others do takes nothing from a delivery.                       *)
LEMMA HoldsOn ==
    ASSUME DiscussionInv, DiscussionTyped', NEW w \in RemarkWorkers,
           remarkWorkers'[w] = remarkWorkers[w],
           saved' >= saved, setting'.revision >= setting.revision,
           \A m \in Discussion!Remarks :
                /\ remarkOps[m] # "none" => remarkOps'[m] # "none"
                /\ Taken(remarkOps[m]) => Taken(remarkOps'[m]),
           remarkWorkers[w].at = "posting" =>
                remarks'[remarkWorkers[w].op] = remarks[remarkWorkers[w].op]
    PROVE  Holds(remarkWorkers'[w], remarkOps', saved', setting'.revision, remarks')
<1> DEFINE d == remarkWorkers[w]
<1>1. /\ d.todo \subseteq Discussion!Remarks /\ d.fresh \subseteq Discussion!Remarks
      /\ d.news \in Nat /\ d.since \in Nat /\ d.setting \in Nat /\ d.op \in Nat
      /\ saved \in Nat /\ saved' \in Nat
      /\ setting.revision \in Nat /\ setting'.revision \in Nat
  BY DEF DiscussionInv, DiscussionTyped, RemarkTicks
<1>2. Holds(d, remarkOps, saved, setting.revision, remarks)
  BY DEF DiscussionInv, DeliveriesHold
<1>3. remarkWorkers'[w] = d
  OBVIOUS
<1> HIDE DEF d
<1>4. d.at = "checking" => d.news <= saved' /\ d.since <= setting'.revision
  BY <1>1, <1>2 DEF Holds
<1>5. d.at = "posting" => remarks'[d.op] = 0
  BY <1>2 DEF Holds, d
<1> QED
  BY <1>1, <1>2, <1>3, <1>4, <1>5 DEF Holds

(* Messages and settings come and go beside the deliveries.                *)
LEMMA PeopleLeaveRemarks ==
    ASSUME DiscussionInv, Discussion!Say \/ Discussion!Toggle
    PROVE  DiscussionInv'
<1>1. /\ UNCHANGED <<saved, remarkOps, consent, remarks, remarkWorkers>>
      /\ setting'.revision >= setting.revision
      /\ DiscussionTyped'
  <2>1. CASE Discussion!Say
    BY <2>1, DiscussionAssumption DEF Discussion!Say, DiscussionInv, DiscussionTyped
  <2>2. CASE Discussion!Toggle
    BY <2>2 DEF Discussion!Toggle, DiscussionInv, DiscussionTyped
  <2> QED
    BY <2>1, <2>2
<1>2. saved' >= saved
  BY <1>1 DEF DiscussionInv, DiscussionTyped
<1>3. DeliveriesHold'
  BY <1>1, <1>2, HoldsOn DEF DeliveriesHold
<1> QED
  BY <1>1, <1>3 DEF DiscussionInv, RemarksCounted, OnePoster

(* A step of w that changes no operation and no remark.                    *)
LEMMA ListeningStep ==
    ASSUME DiscussionInv, NEW w \in RemarkWorkers, NEW d \in RemarkTicks,
           remarkWorkers' = [remarkWorkers EXCEPT ![w] = d],
           UNCHANGED <<said, setting, remarkOps, consent, remarks>>, saved' \in {saved, said},
           d.at # "posting",
           Holds(d, remarkOps, saved', setting.revision, remarks)
    PROVE  DiscussionInv'
<1>1. /\ saved \in Nat /\ said \in Nat /\ saved' >= saved /\ saved' \in 0..said
  BY DiscussionAssumption DEF DiscussionInv, DiscussionTyped
<1>2. DiscussionTyped'
  BY <1>1 DEF DiscussionInv, DiscussionTyped
<1>3. /\ remarkWorkers'[w] = d
      /\ \A v \in RemarkWorkers \ {w} : remarkWorkers'[v] = remarkWorkers[v]
  BY DEF DiscussionInv, DiscussionTyped
<1>4. setting.revision \in Nat /\ setting'.revision = setting.revision
  BY DEF DiscussionInv, DiscussionTyped
<1>5. DeliveriesHold'
  <2> SUFFICES ASSUME NEW v \in RemarkWorkers
               PROVE  Holds(remarkWorkers'[v], remarkOps', saved', setting'.revision, remarks')
    BY DEF DeliveriesHold
  <2>1. CASE v = w
    BY <1>3, <1>4, <2>1
  <2>2. CASE v # w
    BY <1>1, <1>2, <1>3, <1>4, <2>2, HoldsOn
  <2> QED
    BY <2>1, <2>2
<1>6. RemarksCounted'
  <2>1. saved \in Nat /\ saved' \in Nat /\ Discussion!Remarks \subseteq Nat
    BY DEF DiscussionInv, DiscussionTyped, Discussion!Remarks
  <2> QED
    BY <1>1, <2>1 DEF RemarksCounted, DiscussionInv
<1>7. OnePoster'
  BY <1>3 DEF OnePoster, DiscussionInv
<1> QED
  BY <1>2, <1>5, <1>6, <1>7 DEF DiscussionInv

(* The steps of a tick before it holds an operation in hand.               *)
LEMMA ListeningStands ==
    ASSUME DiscussionInv, NEW w \in RemarkWorkers,
           \/ Discussion!StartTick(w) \/ Discussion!Consider(w) \/ Discussion!ListOps(w)
           \/ Discussion!EndTick(w)
    PROVE  DiscussionInv'
<1>1. saved \in Nat /\ said \in Nat /\ said \in 0..MaxMessages /\ saved <= said
  BY DiscussionAssumption DEF DiscussionInv, DiscussionTyped
<1>2. CASE Discussion!StartTick(w)
  <2> DEFINE d == [Discussion!Asleep EXCEPT !.at = "reading", !.since = setting.revision]
  <2>1. /\ remarkWorkers' = [remarkWorkers EXCEPT ![w] = d]
        /\ UNCHANGED <<said, setting, remarkOps, consent, remarks>>
        /\ saved' = said
    BY <1>2 DEF Discussion!StartTick, Discussion!Goto
  <2>2. d \in RemarkTicks
    BY <1>1 DEF DiscussionInv, DiscussionTyped, RemarkTicks, Discussion!Asleep
  <2>3. d.at = "reading" /\ d.fresh = {} /\ d.todo = {}
    BY DEF Discussion!Asleep
  <2> HIDE DEF d
  <2>4. Holds(d, remarkOps, saved', setting.revision, remarks)
    BY <2>3 DEF Holds
  <2> QED
    BY <1>1, <2>1, <2>2, <2>3, <2>4, ListeningStep
<1>3. CASE Discussion!Consider(w)
  <2> DEFINE b == setting.enabled /\ saved > setting.from
             d == [remarkWorkers[w] EXCEPT !.at = IF b THEN "asking" ELSE "listing",
                                           !.setting = setting.revision, !.human = saved]
  <2>1. /\ remarkWorkers' = [remarkWorkers EXCEPT ![w] = d]
        /\ UNCHANGED <<said, saved, setting, remarkOps, consent, remarks>>
    BY <1>3 DEF Discussion!Consider, Discussion!Goto
  <2>2. d \in RemarkTicks
    BY <1>1, <2>1 DEF DiscussionInv, DiscussionTyped, RemarkTicks
  <2>3. Holds(remarkWorkers[w], remarkOps, saved, setting.revision, remarks)
    BY DEF DiscussionInv, DeliveriesHold
  <2>4. setting.from \in Nat
    BY DEF DiscussionInv, DiscussionTyped
  <2>5. b => saved \in Discussion!Remarks
    BY <1>1, <2>4, DiscussionAssumption DEF Discussion!Remarks
  <2>6. /\ d.at = (IF b THEN "asking" ELSE "listing") /\ d.human = saved
        /\ d.fresh = remarkWorkers[w].fresh /\ d.todo = remarkWorkers[w].todo
    BY DEF DiscussionInv, DiscussionTyped, RemarkTicks
  <2> HIDE DEF d, b
  <2>7. Holds(d, remarkOps, saved', setting.revision, remarks)
    BY <2>3, <2>5, <2>6 DEF Holds
  <2>8. d.at # "posting" /\ saved' \in {saved, said}
    BY <1>1, <2>1, <2>6
  <2> QED
    BY <2>1, <2>2, <2>7, <2>8, ListeningStep
<1>4. CASE Discussion!ListOps(w)
  <2> DEFINE todo == {m \in Discussion!Remarks : remarkOps[m] \in {"queued", "sending", "unknown"}}
             fresh == {m \in Discussion!Remarks : remarkOps[m] = "queued"}
             d == [remarkWorkers[w] EXCEPT !.at = "delivering", !.todo = todo, !.fresh = fresh]
  <2>1. /\ remarkWorkers' = [remarkWorkers EXCEPT ![w] = d]
        /\ UNCHANGED <<said, saved, setting, remarkOps, consent, remarks>>
    BY <1>4 DEF Discussion!ListOps, Discussion!Goto
  <2>2. d \in RemarkTicks
    BY <2>1 DEF DiscussionInv, DiscussionTyped, RemarkTicks
  <2>3. d.at = "delivering" /\ d.fresh = fresh /\ d.todo = todo
    BY DEF DiscussionInv, DiscussionTyped, RemarkTicks
  <2> HIDE DEF d
  <2>4. Holds(d, remarkOps, saved', setting.revision, remarks)
    BY <2>3 DEF Holds, Taken
  <2>5. saved' \in {saved, said}
    BY <1>1, <2>1
  <2> QED
    BY <2>1, <2>2, <2>3, <2>4, <2>5, ListeningStep
<1>5. CASE Discussion!EndTick(w)
  <2> DEFINE d == Discussion!Asleep
  <2>1. /\ remarkWorkers' = [remarkWorkers EXCEPT ![w] = d]
        /\ UNCHANGED <<said, saved, setting, remarkOps, consent, remarks>>
    BY <1>5 DEF Discussion!EndTick, Discussion!Goto
  <2>2. d \in RemarkTicks
    BY <1>1 DEF DiscussionInv, DiscussionTyped, RemarkTicks, Discussion!Asleep
  <2>3. d.at = "idle" /\ d.fresh = {} /\ d.todo = {}
    BY DEF Discussion!Asleep
  <2> HIDE DEF d
  <2>4. Holds(d, remarkOps, saved', setting.revision, remarks)
    BY <2>3 DEF Holds
  <2>5. saved' \in {saved, said}
    BY <1>1, <2>1
  <2> QED
    BY <2>1, <2>2, <2>3, <2>4, <2>5, ListeningStep
<1> QED
  BY <1>2, <1>3, <1>4, <1>5

(* An operation is taken in hand, and checked again if it is new.          *)
LEMMA InHandStands ==
    ASSUME DiscussionInv, NEW w \in RemarkWorkers,
           \/ \E m \in Discussion!Remarks : Discussion!Resume(w, m) \/ Discussion!Refresh(w, m)
           \/ Discussion!Check(w)
    PROVE  DiscussionInv'
<1> DEFINE e == remarkWorkers[w]
<1>1. saved \in Nat /\ said \in Nat /\ said \in 0..MaxMessages /\ saved <= said
  BY DiscussionAssumption DEF DiscussionInv, DiscussionTyped
<1>2. Holds(e, remarkOps, saved, setting.revision, remarks)
  BY DEF DiscussionInv, DeliveriesHold
<1>3. ASSUME NEW m \in Discussion!Remarks, Discussion!Resume(w, m)
      PROVE  DiscussionInv'
  <2> DEFINE d == [e EXCEPT !.at = "deciding", !.todo = @ \ {m}, !.op = m, !.ok = TRUE]
  <2>1. /\ remarkWorkers' = [remarkWorkers EXCEPT ![w] = d]
        /\ UNCHANGED <<said, saved, setting, remarkOps, consent, remarks>>
        /\ m \in e.todo \ e.fresh
    BY <1>3 DEF Discussion!Resume, Discussion!Goto
  <2>2. m \in Nat
    BY DEF Discussion!Remarks
  <2>3. d \in RemarkTicks
    BY <2>1, <2>2 DEF DiscussionInv, DiscussionTyped, RemarkTicks
  <2>4. /\ d.at = "deciding" /\ d.fresh = e.fresh /\ d.todo = e.todo \ {m} /\ d.op = m
    BY DEF DiscussionInv, DiscussionTyped, RemarkTicks
  <2> HIDE DEF d
  <2>5. Holds(d, remarkOps, saved', setting.revision, remarks)
    BY <1>2, <2>1, <2>4 DEF Holds, Taken
  <2>6. saved' \in {saved, said} /\ d.at # "posting"
    BY <1>1, <2>1, <2>4
  <2> QED
    BY <2>1, <2>3, <2>5, <2>6, ListeningStep
<1>4. ASSUME NEW m \in Discussion!Remarks, Discussion!Refresh(w, m)
      PROVE  DiscussionInv'
  <2> DEFINE d == [e EXCEPT !.at = "checking", !.todo = @ \ {m}, !.op = m,
                            !.setting = consent[m], !.since = setting.revision, !.news = said]
  <2>1. /\ remarkWorkers' = [remarkWorkers EXCEPT ![w] = d]
        /\ UNCHANGED <<said, setting, remarkOps, consent, remarks>> /\ saved' = said
        /\ m \in e.todo \cap e.fresh
    BY <1>4 DEF Discussion!Refresh, Discussion!Goto
  <2>2. m \in Nat /\ consent[m] \in Nat /\ setting.revision \in Nat
    BY DEF Discussion!Remarks, DiscussionInv, DiscussionTyped
  <2>3. d \in RemarkTicks
    BY <1>1, <2>1, <2>2 DEF DiscussionInv, DiscussionTyped, RemarkTicks
  <2>4. /\ d.at = "checking" /\ d.fresh = e.fresh /\ d.todo = e.todo \ {m} /\ d.op = m
        /\ d.since = setting.revision /\ d.news = said
    BY DEF DiscussionInv, DiscussionTyped, RemarkTicks
  <2>5. remarkOps[m] # "none"
    BY <1>2, <2>1 DEF Holds
  <2>6. m <= said
    BY <1>1, <2>2, <2>5 DEF DiscussionInv, RemarksCounted
  <2> HIDE DEF d
  <2>7. Holds(d, remarkOps, saved', setting.revision, remarks)
    BY <1>1, <1>2, <2>1, <2>2, <2>4, <2>6 DEF Holds
  <2>8. saved' \in {saved, said} /\ d.at # "posting"
    BY <1>1, <2>1, <2>4
  <2> QED
    BY <2>1, <2>3, <2>7, <2>8, ListeningStep
<1>5. CASE Discussion!Check(w)
  <2> DEFINE ok == Discussion!UpToDate(e)
             d == [e EXCEPT !.at = "deciding", !.ok = ok]
  <2>1. /\ remarkWorkers' = [remarkWorkers EXCEPT ![w] = d]
        /\ UNCHANGED <<said, saved, setting, remarkOps, consent, remarks>>
        /\ e.at = "checking"
    BY <1>5 DEF Discussion!Check, Discussion!Goto
  <2>2. ok \in BOOLEAN
    BY DEF Discussion!UpToDate, DiscussionInv, DiscussionTyped
  <2>3. d \in RemarkTicks
    BY <2>1, <2>2 DEF DiscussionInv, DiscussionTyped, RemarkTicks
  <2>4. /\ d.at = "deciding" /\ d.fresh = e.fresh /\ d.todo = e.todo /\ d.op = e.op
        /\ d.since = e.since /\ d.news = e.news /\ d.setting = e.setting /\ d.ok = ok
    BY DEF DiscussionInv, DiscussionTyped, RemarkTicks
  <2>5. /\ e.op \in Nat /\ e.news \in Nat /\ e.since \in Nat /\ setting.revision \in Nat
    BY DEF DiscussionInv, DiscussionTyped, RemarkTicks
  <2>6. ok => Current(d)
    BY <1>1, <1>2, <2>1, <2>4, <2>5 DEF Holds, Current, Discussion!UpToDate
  <2> HIDE DEF d, ok
  <2>7. Holds(d, remarkOps, saved', setting.revision, remarks)
    BY <1>2, <2>1, <2>4, <2>6 DEF Holds
  <2>8. saved' \in {saved, said} /\ d.at # "posting"
    BY <1>1, <2>1, <2>4
  <2> QED
    BY <2>1, <2>3, <2>7, <2>8, ListeningStep
<1> QED
  BY <1>3, <1>4, <1>5

(* A step of w that changes the state of the operation m.                  *)
LEMMA DecidingStep ==
    ASSUME DiscussionInv, NEW w \in RemarkWorkers, NEW d \in RemarkTicks,
           NEW m \in Discussion!Remarks, NEW state \in RemarkStates \ {"none"},
           remarkWorkers' = [remarkWorkers EXCEPT ![w] = d],
           remarkOps' = [remarkOps EXCEPT ![m] = state],
           Taken(remarkOps[m]) => Taken(state), m <= saved,
           UNCHANGED <<said, saved, setting>>,
           consent' \in [Discussion!Remarks -> Nat], remarks' \in [Discussion!Remarks -> Nat],
           \A k \in Discussion!Remarks : remarks'[k] # remarks[k] => k = m /\ Taken(state),
           \A v \in RemarkWorkers \ {w} :
                remarkWorkers[v].at = "posting" /\ remarkWorkers[v].op = m =>
                    remarks' = remarks /\ d.at # "posting",
           d.at = "posting" => d.op = m,
           Holds(d, remarkOps', saved, setting.revision, remarks')
    PROVE  DiscussionInv'
<1>1. DiscussionTyped'
  BY DEF DiscussionInv, DiscussionTyped
<1>2. /\ remarkWorkers'[w] = d
      /\ \A v \in RemarkWorkers \ {w} : remarkWorkers'[v] = remarkWorkers[v]
      /\ remarkOps'[m] = state
      /\ \A k \in Discussion!Remarks \ {m} : remarkOps'[k] = remarkOps[k]
  BY DEF DiscussionInv, DiscussionTyped
<1>3. saved \in Nat /\ setting.revision \in Nat
  BY DEF DiscussionInv, DiscussionTyped
<1>4. DeliveriesHold'
  <2> SUFFICES ASSUME NEW v \in RemarkWorkers
               PROVE  Holds(remarkWorkers'[v], remarkOps', saved', setting'.revision, remarks')
    BY DEF DeliveriesHold
  <2>1. CASE v = w
    BY <1>2, <2>1
  <2>2. CASE v # w
    <3>1. ASSUME remarkWorkers[v].at = "posting"
          PROVE  remarks'[remarkWorkers[v].op] = remarks[remarkWorkers[v].op]
      <4>1. remarkWorkers[v].op \in Discussion!Remarks
        BY <3>1 DEF DiscussionInv, DeliveriesHold, Holds
      <4> QED
        BY <2>2, <3>1, <4>1
    <3>2. saved' >= saved /\ setting'.revision >= setting.revision
      BY <1>3
    <3>3. \A k \in Discussion!Remarks :
            /\ remarkOps[k] # "none" => remarkOps'[k] # "none"
            /\ Taken(remarkOps[k]) => Taken(remarkOps'[k])
      BY <1>2
    <3> QED
      BY <1>1, <1>2, <2>2, <3>1, <3>2, <3>3, HoldsOn
  <2> QED
    BY <2>1, <2>2
<1>5. RemarksCounted'
  BY <1>2 DEF RemarksCounted, DiscussionInv
<1>6. OnePoster'
  BY <1>2 DEF OnePoster, DiscussionInv
<1> QED
  BY <1>1, <1>4, <1>5, <1>6 DEF DiscussionInv

(* Di proposes a remark.                                                   *)
LEMMA ProposeStands ==
    ASSUME DiscussionInv, NEW w \in RemarkWorkers, Discussion!Propose(w)
    PROVE  DiscussionInv'
<1> DEFINE e == remarkWorkers[w]
           d == [e EXCEPT !.at = "listing"]
<1>1. e \in RemarkTicks /\ Holds(e, remarkOps, saved, setting.revision, remarks)
  BY DEF DiscussionInv, DiscussionTyped, DeliveriesHold
<1>2. /\ remarkWorkers' = [remarkWorkers EXCEPT ![w] = d]
      /\ UNCHANGED <<said, saved, setting, remarks>>
      /\ e.at = "asking"
  BY DEF Discussion!Propose, Discussion!Goto
<1>3. /\ d \in RemarkTicks /\ d.at = "listing" /\ d.todo = e.todo /\ d.fresh = e.fresh
  BY <1>1 DEF RemarkTicks
<1> HIDE DEF d
<1>4. CASE UNCHANGED <<remarkOps, consent>>
  <2>1. Holds(d, remarkOps, saved', setting.revision, remarks)
    BY <1>1, <1>2, <1>3 DEF Holds
  <2> QED
    BY <1>2, <1>3, <1>4, <2>1, ListeningStep
<1>5. CASE ~UNCHANGED <<remarkOps, consent>>
  <2> DEFINE m == e.human
             state == Discussion!Enqueued(m)
  <2>1. /\ remarkOps' = [remarkOps EXCEPT ![m] = state]
        /\ consent' = [consent EXCEPT ![m] = e.setting]
        /\ saved = m
    BY <1>5 DEF Discussion!Propose, Discussion!StillCurrent
  <2>2. m \in Discussion!Remarks /\ saved \in Nat
    BY <1>1, <1>2 DEF Holds, DiscussionInv, DiscussionTyped
  <2>3. state \in RemarkStates \ {"none"} /\ (Taken(remarkOps[m]) => Taken(state))
    BY <2>2 DEF Discussion!Enqueued, RemarkStates, Taken, DiscussionInv, DiscussionTyped
  <2>4. consent' \in [Discussion!Remarks -> Nat]
    BY <1>1, <2>1 DEF DiscussionInv, DiscussionTyped, RemarkTicks
  <2>5. \A k \in Discussion!Remarks :
          /\ remarkOps[k] # "none" => remarkOps'[k] # "none"
          /\ Taken(remarkOps[k]) => Taken(remarkOps'[k])
    BY <2>1, <2>2, <2>3 DEF DiscussionInv, DiscussionTyped
  <2>6. Holds(d, remarkOps', saved, setting.revision, remarks')
    BY <1>1, <1>3, <2>5 DEF Holds, RemarkTicks
  <2>7. m <= saved /\ remarks' \in [Discussion!Remarks -> Nat]
    BY <1>2, <2>1, <2>2 DEF DiscussionInv, DiscussionTyped
  <2> HIDE DEF state
  <2> QED
    BY <1>2, <1>3, <2>1, <2>2, <2>3, <2>4, <2>6, <2>7, DecidingStep
<1> QED
  BY <1>4, <1>5

(* An operation in hand is cancelled, claimed, or posted.                  *)
LEMMA DecisionStands ==
    ASSUME DiscussionInv, NEW w \in RemarkWorkers,
           Discussion!Cancel(w) \/ Discussion!Claim(w) \/ Discussion!Post(w)
    PROVE  DiscussionInv'
<1> DEFINE e == remarkWorkers[w]
           m == e.op
<1>1. e \in RemarkTicks /\ Holds(e, remarkOps, saved, setting.revision, remarks)
  BY DEF DiscussionInv, DiscussionTyped, DeliveriesHold
<1>2. /\ m \in Discussion!Remarks /\ remarkOps[m] # "none"
      /\ UNCHANGED <<said, saved, setting, consent>>
      /\ e.at \in {"deciding", "posting"}
  BY <1>1 DEF Discussion!Cancel, Discussion!Claim, Discussion!Post, Holds
<1>3. /\ m <= saved /\ remarkOps[m] \in RemarkStates
      /\ consent' \in [Discussion!Remarks -> Nat] /\ remarks \in [Discussion!Remarks -> Nat]
      /\ m \in Nat /\ saved \in Nat
  BY <1>2 DEF DiscussionInv, RemarksCounted, DiscussionTyped, Discussion!Remarks
<1>4. ASSUME NEW at \in {"delivering", "posting"}
      PROVE  LET d == [e EXCEPT !.at = at] IN
             /\ d \in RemarkTicks /\ d.at = at /\ d.todo = e.todo /\ d.fresh = e.fresh
             /\ d.op = m /\ d.news = e.news /\ d.since = e.since /\ d.setting = e.setting
  BY <1>1 DEF RemarkTicks
<1>5. ASSUME NEW state \in RemarkStates \ {"none"}, Taken(remarkOps[m]) => Taken(state),
             remarkOps' = [remarkOps EXCEPT ![m] = state]
      PROVE  \A k \in Discussion!Remarks :
                /\ remarkOps[k] # "none" => remarkOps'[k] # "none"
                /\ Taken(remarkOps[k]) => Taken(remarkOps'[k])
  BY <1>2, <1>5 DEF DiscussionInv, DiscussionTyped
<1>6. ASSUME NEW state \in RemarkStates \ {"none", "queued"},
             remarkOps' = [remarkOps EXCEPT ![m] = state],
             remarkWorkers' = [remarkWorkers EXCEPT ![w] = [e EXCEPT !.at = "delivering"]],
             remarks' = remarks
      PROVE  DiscussionInv'
  <2> DEFINE d == [e EXCEPT !.at = "delivering"]
  <2>1. /\ d \in RemarkTicks /\ d.at = "delivering" /\ d.todo = e.todo /\ d.fresh = e.fresh
    BY <1>4
  <2> HIDE DEF d
  <2>2. Taken(state)
    BY DEF Taken
  <2>3. Holds(d, remarkOps', saved, setting.revision, remarks')
    BY <1>1, <1>5, <1>6, <2>1, <2>2 DEF Holds, RemarkTicks
  <2> QED
    BY <1>2, <1>3, <1>6, <2>1, <2>2, <2>3, DecidingStep DEF d
<1>7. CASE Discussion!Cancel(w)
  BY <1>6, <1>7 DEF Discussion!Cancel, Discussion!Goto, RemarkStates
<1>8. CASE Discussion!Claim(w) /\ ~Discussion!New(m)
  <2> DEFINE state == IF remarkOps[m] \in {"sent", "failed"} THEN remarkOps[m]
                      ELSE IF remarks[m] > 0 THEN "sent" ELSE "unknown"
  <2>1. /\ remarkWorkers' = [remarkWorkers EXCEPT ![w] = [e EXCEPT !.at = "delivering"]]
        /\ remarks' = remarks
        /\ remarkOps' = IF remarkOps[m] \in {"sent", "failed"} THEN remarkOps
                        ELSE [remarkOps EXCEPT ![m] = IF remarks[m] > 0 THEN "sent" ELSE "unknown"]
    BY <1>8 DEF Discussion!Claim, Discussion!Goto
  <2>2. remarkOps' = [remarkOps EXCEPT ![m] = state]
    BY <1>2, <2>1 DEF DiscussionInv, DiscussionTyped
  <2>3. state \in RemarkStates \ {"none", "queued"}
    BY <1>3 DEF RemarkStates
  <2> HIDE DEF state
  <2> QED
    BY <1>6, <2>1, <2>2, <2>3
<1>9. CASE Discussion!Claim(w) /\ Discussion!New(m)
  <2> DEFINE d == [e EXCEPT !.at = "posting"]
  <2>1. /\ remarkWorkers' = [remarkWorkers EXCEPT ![w] = d]
        /\ remarkOps' = [remarkOps EXCEPT ![m] = "sending"]
        /\ remarks' = remarks
        /\ remarkOps[m] = "queued" /\ e.at = "deciding" /\ e.ok
    BY <1>9 DEF Discussion!Claim, Discussion!New, Discussion!Goto
  <2>2. /\ d \in RemarkTicks /\ d.at = "posting" /\ d.todo = e.todo /\ d.fresh = e.fresh
        /\ d.op = m /\ d.news = e.news /\ d.since = e.since /\ d.setting = e.setting
    BY <1>4
  <2> HIDE DEF d
  <2>3. Taken("sending") /\ "sending" \in RemarkStates \ {"none"} /\ ~Taken(remarkOps[m])
    BY <2>1 DEF Taken, RemarkStates
  <2>4. remarks[m] = 0 /\ remarkOps'[m] = "sending"
    BY <1>2, <2>1, <2>3 DEF DiscussionInv, RemarksCounted, DiscussionTyped
  <2>5. Current(d)
    BY <1>1, <2>1, <2>2, <2>3 DEF Holds, Current
  <2>6. \A k \in Discussion!Remarks :
            /\ remarkOps[k] # "none" => remarkOps'[k] # "none"
            /\ Taken(remarkOps[k]) => Taken(remarkOps'[k])
    BY <1>5, <2>1, <2>3
  <2>7. Holds(d, remarkOps', saved, setting.revision, remarks')
    BY <1>1, <1>2, <2>1, <2>2, <2>3, <2>4, <2>5, <2>6 DEF Holds, RemarkTicks
  <2>8. \A v \in RemarkWorkers : ~(remarkWorkers[v].at = "posting" /\ remarkWorkers[v].op = m)
    BY <2>3 DEF DiscussionInv, DeliveriesHold, Holds
  <2> QED
    BY <1>2, <1>3, <2>1, <2>2, <2>3, <2>7, <2>8, DecidingStep
<1>10. CASE Discussion!Post(w)
  <2> DEFINE d == [e EXCEPT !.at = "delivering"]
  <2>1. /\ remarkWorkers' = [remarkWorkers EXCEPT ![w] = d]
        /\ remarkOps' = [remarkOps EXCEPT ![m] = "sent"]
        /\ remarks' = [remarks EXCEPT ![m] = @ + 1]
        /\ e.at = "posting"
    BY <1>10 DEF Discussion!Post, Discussion!Goto
  <2>2. /\ d \in RemarkTicks /\ d.at = "delivering" /\ d.todo = e.todo /\ d.fresh = e.fresh
    BY <1>4
  <2> HIDE DEF d
  <2>3. Taken("sent") /\ "sent" \in RemarkStates \ {"none"}
    BY DEF Taken, RemarkStates
  <2>4. \A k \in Discussion!Remarks :
            /\ remarkOps[k] # "none" => remarkOps'[k] # "none"
            /\ Taken(remarkOps[k]) => Taken(remarkOps'[k])
    BY <1>5, <2>1, <2>3
  <2>5. Holds(d, remarkOps', saved, setting.revision, remarks')
    BY <1>1, <2>2, <2>4 DEF Holds, RemarkTicks
  <2>6. /\ remarks' \in [Discussion!Remarks -> Nat]
        /\ \A k \in Discussion!Remarks : remarks'[k] # remarks[k] => k = m /\ Taken("sent")
    BY <1>2, <1>3, <2>1, <2>3
  <2>7. \A v \in RemarkWorkers \ {w} :
            remarkWorkers[v].at = "posting" /\ remarkWorkers[v].op = m =>
                remarks' = remarks /\ d.at # "posting"
    BY <2>1, <2>2 DEF DiscussionInv, OnePoster
  <2>8. Taken(remarkOps[m]) => Taken("sent")
    BY <2>3
  <2> QED
    BY <1>2, <1>3, <2>1, <2>2, <2>3, <2>5, <2>6, <2>7, <2>8, DecidingStep
<1> QED
  BY <1>7, <1>8, <1>9, <1>10

(* Every step keeps what the deliveries hold.                              *)
LEMMA DiscussionNextStands ==
    ASSUME DiscussionInv, [Discussion!DiscussionNext]_(Discussion!discussionVars)
    PROVE  DiscussionInv'
<1>1. CASE UNCHANGED Discussion!discussionVars
  BY <1>1 DEF Discussion!discussionVars, DiscussionInv, DiscussionTyped, DeliveriesHold,
     RemarksCounted, OnePoster
<1> QED
  BY <1>1, PeopleLeaveRemarks, ListeningStands, InHandStands, ProposeStands, DecisionStands
     DEF Discussion!DiscussionNext

(* Di remarks once on a message, on the last one read, under the consent   *)
(* it was asked with, for any number of workers whose leases run out, of   *)
(* messages and of changes of the setting (discussion.ts, delivery.ts).    *)
THEOREM RemarksAreCurrent == Discussion!DiscussionSpec => RemarkIsCurrent
<1>1. Discussion!DiscussionInit => DiscussionInv
  <2> SUFFICES ASSUME Discussion!DiscussionInit PROVE DiscussionInv
    OBVIOUS
  <2>1. \A w \in RemarkWorkers : remarkWorkers[w] = Discussion!Asleep
    BY DEF Discussion!DiscussionInit
  <2>2. DiscussionTyped
    BY DiscussionAssumption DEF Discussion!DiscussionInit, DiscussionTyped, RemarkTicks,
       Discussion!Asleep, RemarkStates
  <2>3. DeliveriesHold /\ OnePoster
    BY <2>1 DEF DeliveriesHold, OnePoster, Holds, Discussion!Asleep
  <2>4. RemarksCounted
    BY DEF RemarksCounted, Discussion!DiscussionInit
  <2> QED
    BY <2>2, <2>3, <2>4 DEF DiscussionInv
<1>2. DiscussionInv /\ [Discussion!DiscussionNext]_(Discussion!discussionVars) => DiscussionInv'
  BY DiscussionNextStands
<1>3. DiscussionInv /\ [Discussion!DiscussionNext]_(Discussion!discussionVars) =>
        [\A w \in RemarkWorkers : Discussion!Posts(w) =>
            /\ remarks[remarkWorkers[w].op] = 0
            /\ remarkWorkers[w].op = remarkWorkers[w].news
            /\ remarkWorkers[w].since <= remarkWorkers[w].setting]_(Discussion!discussionVars)
  BY DEF DiscussionInv, DeliveriesHold, Holds, Current, Discussion!Posts
<1> QED
  BY <1>1, <1>2, <1>3, PTL DEF Discussion!DiscussionSpec, RemarkIsCurrent,
     Discussion!RemarkIsCurrent
=============================================================================
