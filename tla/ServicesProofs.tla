---------------------------- MODULE ServicesProofs ----------------------------
(***************************************************************************)
(* Theorems about services that share no state: the review of implemented  *)
(* specifications, the cache of task lists, the runs delegated to          *)
(* Terpsichore, the reconciliation of teams with Concordia, the sync with  *)
(* GitHub and Notion and the recomputation of critical paths.  Each stands *)
(* on its own, for any values of the constants of Services.                *)
(***************************************************************************)
EXTENDS Services, Integers, TLAPS

-----------------------------------------------------------------------------
(* The review of implemented specifications.                               *)

Statuses == {"none", "open", "done", "missing"}
Link == [revision: Nat, isBacklog: BOOLEAN]
ReviewRow == [id: LinkedTasks, status: Statuses, link: Link, version: Nat]
Seen == [revision: Nat, tasks: SUBSET ReviewRow]

ReviewTyped ==
    /\ specification \in Nat /\ epoch \in Nat
    /\ linked \in [LinkedTasks -> Statuses]
    /\ versions \in [LinkedTasks -> Nat]
    /\ links \in [LinkedTasks -> Link \cup {None}]
    /\ reviews \subseteq Seen
    /\ screens \in [People -> [fingerprint: Seen, epoch: Nat] \cup {None}]
    /\ visits \in [People -> [purpose: {"list", "change"}, revision: Nat] \cup {None}]

(* A linked task was created, and no link names a specification to come.   *)
LinksStand ==
    \A t \in Review!Linked : linked[t] # "none" /\ links[t].revision <= specification

(* Nothing a fingerprint digests goes back: what was seen of a task is at  *)
(* most what is true of it now.                                            *)
Behind(seen) ==
    /\ seen.revision <= specification
    /\ \A row \in seen.tasks :
        /\ row.id \in Review!Linked
        /\ row.version <= versions[row.id]
        /\ row.link.revision <= links[row.id].revision

IsNow(seen) == seen = Review!Fingerprint(specification)

(* What is on a screen, and still true, was seen in this epoch.            *)
ScreensStand ==
    \A p \in People : screens[p] # None =>
        /\ Behind(screens[p].fingerprint)
        /\ IsNow(screens[p].fingerprint) => screens[p].epoch = epoch

(* What was confirmed, and is still true, was accepted in this epoch.      *)
ReviewsStand ==
    \A seen \in reviews : Behind(seen) /\ (IsNow(seen) => epoch \in accepted)

(* A change under way has the specification of its screen, or a later one. *)
VisitsStand ==
    \A p \in People : visits[p] # None =>
        /\ visits[p].revision <= specification
        /\ visits[p].purpose = "change" =>
            /\ screens[p] # None
            /\ \A row \in screens[p].fingerprint.tasks :
                row.link.revision <= visits[p].revision

(* The inductive invariant of the review.                                  *)
ReviewInv == ReviewTyped /\ LinksStand /\ ScreensStand /\ ReviewsStand /\ VisitsStand

(* What no step takes back.                                                *)
Climbs ==
    /\ specification <= specification'
    /\ \A t \in Review!Linked :
        /\ t \in Review!Linked'
        /\ versions[t] <= versions'[t]
        /\ links[t].revision <= links'[t].revision

(* A step that changes nothing people accept; and one that does, and with  *)
(* the epoch moves something on that fingerprints digest.                  *)
Same ==
    /\ specification' = specification /\ epoch' = epoch
    /\ Review!Fingerprint(specification)' = Review!Fingerprint(specification)

Newer ==
    \/ specification < specification'
    \/ \E t \in Review!Linked' :
        \/ t \notin Review!Linked
        \/ versions[t] < versions'[t]
        \/ links[t].revision < links'[t].revision

(* The rows of a fingerprint are those of the linked tasks.                *)
LEMMA RowsOfNow ==
    ASSUME ReviewTyped
    PROVE  /\ \A t \in Review!Linked :
                /\ t \in LinkedTasks /\ links[t] \in Link /\ versions[t] \in Nat
                /\ Review!Row(t) = [id |-> t, status |-> linked[t], link |-> links[t],
                                    version |-> versions[t]]
                /\ Review!Row(t) \in ReviewRow
           /\ \A r \in Nat :
                /\ Review!Fingerprint(r) \in Seen
                /\ Review!Fingerprint(r).revision = r
                /\ Review!Fingerprint(r).tasks = {Review!Row(t) : t \in Review!Linked}
PROOF
<1>1. \A t \in Review!Linked :
        /\ t \in LinkedTasks /\ links[t] \in Link /\ versions[t] \in Nat
        /\ Review!Row(t) = [id |-> t, status |-> linked[t], link |-> links[t],
                            version |-> versions[t]]
        /\ Review!Row(t) \in ReviewRow
  BY DEF ReviewTyped, Review!Linked, Review!Row, ReviewRow
<1>2. \A r : Review!Fingerprint(r) =
                [revision |-> r, tasks |-> {Review!Row(t) : t \in Review!Linked}]
  BY DEF Review!Fingerprint
<1> QED
  BY <1>1, <1>2 DEF Seen

(* What was seen stays behind, and is still true only if nothing moved.    *)
LEMMA SeenStays ==
    ASSUME ReviewTyped, ReviewTyped', Climbs, Same \/ Newer,
           NEW seen \in Seen, Behind(seen)
    PROVE  /\ Behind(seen)'
           /\ IsNow(seen)' => IsNow(seen) /\ Same
PROOF
<1>1. Behind(seen)'
  <2>1. /\ seen.revision \in Nat /\ specification \in Nat /\ specification' \in Nat
    BY DEF Seen, ReviewTyped
  <2>2. seen.revision <= specification'
    BY <2>1 DEF Climbs, Behind
  <2>3. ASSUME NEW row \in seen.tasks
        PROVE  /\ row.id \in Review!Linked'
               /\ row.version <= versions'[row.id]
               /\ row.link.revision <= links'[row.id].revision
    <3>1. row \in ReviewRow
      BY DEF Seen
    <3>2. /\ row.id \in Review!Linked /\ row.version <= versions[row.id]
          /\ row.link.revision <= links[row.id].revision
      BY DEF Behind
    <3>3. /\ row.id \in Review!Linked' /\ versions[row.id] <= versions'[row.id]
          /\ links[row.id].revision <= links'[row.id].revision
      BY <3>2 DEF Climbs
    <3>4. /\ row.version \in Nat /\ row.link.revision \in Nat
          /\ versions[row.id] \in Nat /\ versions'[row.id] \in Nat
          /\ links[row.id].revision \in Nat /\ links'[row.id].revision \in Nat
      BY <3>1, <3>2, <3>3
         DEF ReviewRow, Link, ReviewTyped, Review!Linked
    <3> QED
      BY <3>2, <3>3, <3>4
  <2> QED
    BY <2>2, <2>3 DEF Behind
<1>2. CASE Same
  BY <1>1, <1>2 DEF IsNow, Same
<1>3. CASE Newer
  <2> SUFFICES ASSUME IsNow(seen)'
               PROVE  FALSE
    BY <1>1
  <2>1. seen = Review!Fingerprint(specification)'
    BY DEF IsNow
  <2>2. specification' \in Nat /\ specification \in Nat
    BY DEF ReviewTyped
  <2>3. seen = [revision |-> specification',
                tasks |-> {Review!Row(t)' : t \in Review!Linked'}]
    BY <2>1 DEF Review!Fingerprint
  <2>4. ~(specification < specification')
    BY <2>2, <2>3 DEF Behind
  <2>5. PICK t \in Review!Linked' :
            \/ t \notin Review!Linked
            \/ versions[t] < versions'[t]
            \/ links[t].revision < links'[t].revision
    BY <1>3, <2>4 DEF Newer
  <2> DEFINE row == [id |-> t, status |-> linked'[t], link |-> links'[t],
                     version |-> versions'[t]]
  <2>6. row \in seen.tasks
    BY <2>3, <2>5 DEF Review!Row
  <2>7. /\ t \in Review!Linked /\ versions'[t] <= versions[t]
        /\ links'[t].revision <= links[t].revision
    BY <2>6 DEF Behind
  <2>8. /\ versions[t] \in Nat /\ versions'[t] \in Nat
        /\ links[t].revision \in Nat /\ links'[t].revision \in Nat
    BY <2>5, <2>7 DEF ReviewTyped, Review!Linked, Link
  <2> QED
    BY <2>5, <2>7, <2>8
<1> QED
  BY <1>2, <1>3

(* A step that shows and confirms nothing.                                 *)
LEMMA NothingShown ==
    ASSUME ReviewInv, ReviewTyped', LinksStand', VisitsStand', Climbs, Same \/ Newer,
           UNCHANGED <<screens, reviews>>, accepted \subseteq accepted'
    PROVE  ReviewInv'
PROOF
<1>1. ReviewTyped
  BY DEF ReviewInv
<1>2. ScreensStand'
  <2> SUFFICES ASSUME NEW p \in People, screens'[p] # None
               PROVE  /\ Behind(screens[p].fingerprint)'
                      /\ IsNow(screens[p].fingerprint)' => screens'[p].epoch = epoch'
    BY DEF ScreensStand
  <2>1. PICK seen \in Seen : seen = screens[p].fingerprint
    BY <1>1 DEF ReviewTyped
  <2>2. Behind(seen) /\ (IsNow(seen) => screens[p].epoch = epoch)
    BY <2>1 DEF ReviewInv, ScreensStand
  <2>3. Behind(seen)' /\ (IsNow(seen)' => IsNow(seen) /\ Same)
    BY <1>1, <2>2, SeenStays
  <2>4. screens'[p].fingerprint = seen
    BY <2>1
  <2> QED
    BY <2>2, <2>3, <2>4 DEF Same, Behind, IsNow
<1>3. ReviewsStand'
  <2> SUFFICES ASSUME NEW seen \in reviews
               PROVE  Behind(seen)' /\ (IsNow(seen)' => epoch' \in accepted')
    BY DEF ReviewsStand
  <2>1. seen \in Seen /\ Behind(seen) /\ (IsNow(seen) => epoch \in accepted)
    BY <1>1 DEF ReviewTyped, ReviewInv, ReviewsStand
  <2>2. Behind(seen)' /\ (IsNow(seen)' => IsNow(seen) /\ Same)
    BY <1>1, <2>1, SeenStays
  <2> QED
    BY <2>1, <2>2 DEF Same
<1> QED
  BY <1>2, <1>3 DEF ReviewInv

(* The tables a fingerprint is made from stand still.                      *)
LEMMA NothingMoves ==
    ASSUME ReviewTyped, UNCHANGED <<specification, linked, versions, links, epoch>>
    PROVE  Climbs /\ Same /\ Review!Linked' = Review!Linked
PROOF
<1>1. Review!Linked' = Review!Linked
  BY DEF Review!Linked
<1>2. Review!Fingerprint(specification)' = Review!Fingerprint(specification)
  BY <1>1 DEF Review!Fingerprint, Review!Row
<1>3. Climbs
  BY <1>1 DEF Climbs, ReviewTyped, Review!Linked, Link
<1> QED
  BY <1>1, <1>2, <1>3 DEF Same

(* Praeforma revises the specification.                                    *)
LEMMA ReviseStands ==
    ASSUME ReviewInv, Review!Revise
    PROVE  ReviewInv'
PROOF
<1>1. /\ ReviewTyped /\ specification' = specification + 1 /\ epoch' = epoch + 1
      /\ UNCHANGED <<linked, versions, links, reviews, screens, visits, accepted>>
  BY DEF ReviewInv, Review!Revise
<1>2. ReviewTyped'
  BY <1>1 DEF ReviewTyped
<1>3. Review!Linked' = Review!Linked /\ specification \in Nat
  BY <1>1 DEF Review!Linked, ReviewTyped
<1>4. Climbs /\ Newer
  BY <1>1, <1>3 DEF Climbs, Newer, ReviewTyped, Review!Linked, Link
<1>5. LinksStand'
  BY <1>1, <1>3 DEF ReviewInv, LinksStand, ReviewTyped, Review!Linked, Link
<1>6. VisitsStand'
  BY <1>1, <1>3 DEF ReviewInv, VisitsStand, ReviewTyped
<1> QED
  BY <1>1, <1>2, <1>4, <1>5, <1>6, NothingShown

(* A task changes: a linked one is numbered by the triggers.               *)
LEMMA EditTaskStands ==
    ASSUME ReviewInv, NEW t \in LinkedTasks, NEW status \in {"open", "done", "missing"},
           Review!EditTask(t, status)
    PROVE  ReviewInv'
PROOF
<1>1. /\ ReviewTyped
      /\ linked' = [linked EXCEPT ![t] = status]
      /\ versions' = [versions EXCEPT ![t] = IF t \in Review!Linked THEN @ + 1 ELSE @]
      /\ epoch' = IF t \in Review!Linked THEN epoch + 1 ELSE epoch
      /\ UNCHANGED <<specification, links, reviews, screens, visits, accepted>>
  BY DEF ReviewInv, Review!EditTask, Review!Numbered
<1>2. ReviewTyped'
  BY <1>1 DEF ReviewTyped, Statuses
<1>3. Review!Linked' = Review!Linked
  BY <1>1 DEF Review!Linked
<1>4. \A v \in Review!Linked : /\ v \in LinkedTasks /\ versions[v] \in Nat
                               /\ links[v].revision \in Nat
  BY <1>1 DEF ReviewTyped, Review!Linked, Link
<1>5. Climbs
  BY <1>1, <1>3, <1>4 DEF Climbs, ReviewTyped
<1>6. ASSUME t \in Review!Linked
      PROVE  Newer
  <2>1. versions'[t] = versions[t] + 1
    BY <1>1, <1>6 DEF ReviewTyped
  <2> QED
    BY <1>3, <1>4, <1>6, <2>1 DEF Newer
<1>7. ASSUME t \notin Review!Linked
      PROVE  Same
  <2>1. \A v \in Review!Linked : Review!Row(v)' = Review!Row(v)
    BY <1>1, <1>4, <1>7 DEF Review!Row, ReviewTyped
  <2>2. Review!Fingerprint(specification)' = Review!Fingerprint(specification)
    BY <1>1, <1>3, <2>1 DEF Review!Fingerprint
  <2> QED
    BY <1>1, <1>7, <2>2 DEF Same
<1>8. LinksStand'
  BY <1>1, <1>3, <1>4 DEF ReviewInv, LinksStand, ReviewTyped
<1>9. VisitsStand'
  BY <1>1 DEF ReviewInv, VisitsStand
<1> QED
  BY <1>1, <1>2, <1>5, <1>6, <1>7, <1>8, <1>9, NothingShown

(* A request begins, with the specification of this moment.                *)
LEMMA FetchManifestStands ==
    ASSUME ReviewInv, NEW p \in People, NEW purpose \in {"list", "change"},
           Review!FetchManifest(p, purpose)
    PROVE  ReviewInv'
PROOF
<1>1. /\ ReviewTyped
      /\ purpose = "change" => screens[p] # None
      /\ visits' = [visits EXCEPT ![p] = [purpose |-> purpose, revision |-> specification]]
      /\ UNCHANGED <<specification, linked, versions, links, reviews, screens, epoch,
                     accepted>>
  BY DEF ReviewInv, Review!FetchManifest
<1>2. ReviewTyped'
  BY <1>1 DEF ReviewTyped
<1>3. Climbs /\ Same /\ Review!Linked' = Review!Linked
  BY <1>1, NothingMoves
<1>4. LinksStand'
  BY <1>1, <1>3 DEF ReviewInv, LinksStand
<1>5. VisitsStand'
  <2>1. ASSUME screens[p] # None, NEW row \in screens[p].fingerprint.tasks
        PROVE  row.link.revision <= specification
    <3>1. row \in ReviewRow
      BY <1>1, <2>1 DEF ReviewTyped, Seen
    <3>2. /\ row.id \in Review!Linked
          /\ row.link.revision <= links[row.id].revision
      BY <2>1 DEF ReviewInv, ScreensStand, Behind
    <3>3. links[row.id].revision <= specification
      BY <3>2 DEF ReviewInv, LinksStand
    <3>4. /\ row.link.revision \in Nat /\ links[row.id].revision \in Nat
          /\ specification \in Nat
      BY <1>1, <3>1, <3>2 DEF ReviewRow, Link, ReviewTyped, Review!Linked
    <3> QED
      BY <3>2, <3>3, <3>4
  <2>2. /\ visits'[p] = [purpose |-> purpose, revision |-> specification]
        /\ \A q \in People \ {p} : visits'[q] = visits[q]
        /\ specification \in Nat
    BY <1>1 DEF ReviewTyped
  <2> QED
    BY <1>1, <2>1, <2>2 DEF ReviewInv, VisitsStand
<1> QED
  BY <1>1, <1>2, <1>3, <1>4, <1>5, NothingShown

(* A request ends, refused.                                                *)
LEMMA RefusedStands ==
    ASSUME ReviewInv, NEW p \in People, Review!Refused(p)
    PROVE  ReviewInv'
PROOF
<1>1. /\ ReviewTyped
      /\ visits' = [visits EXCEPT ![p] = None]
      /\ UNCHANGED <<specification, linked, versions, links, reviews, screens, epoch,
                     accepted>>
  BY DEF ReviewInv, Review!Refused, Review!Answered
<1>2. ReviewTyped'
  BY <1>1 DEF ReviewTyped
<1>3. Climbs /\ Same /\ Review!Linked' = Review!Linked
  BY <1>1, NothingMoves
<1>4. LinksStand' /\ VisitsStand'
  BY <1>1, <1>3 DEF ReviewInv, LinksStand, VisitsStand, ReviewTyped
<1> QED
  BY <1>1, <1>2, <1>3, <1>4, NothingShown

(* A list is shown: the tables of this moment, under the specification of  *)
(* the moment the request began.                                           *)
LEMMA ListStands ==
    ASSUME ReviewInv, NEW p \in People, Review!List(p)
    PROVE  ReviewInv'
PROOF
<1> DEFINE r == visits[p].revision
           shown == Review!Fingerprint(r)
<1>1. /\ ReviewTyped /\ visits[p] # None /\ visits[p].purpose = "list"
      /\ screens' = [screens EXCEPT ![p] = [fingerprint |-> shown, epoch |-> epoch]]
      /\ visits' = [visits EXCEPT ![p] = None]
      /\ UNCHANGED <<specification, linked, versions, links, reviews, epoch, accepted>>
  BY DEF ReviewInv, Review!List, Review!Serves, Review!Answered
<1>2. /\ r \in Nat /\ r <= specification /\ shown \in Seen /\ shown.revision = r
      /\ shown.tasks = {Review!Row(t) : t \in Review!Linked}
  <2>1. r \in Nat /\ r <= specification
    BY <1>1 DEF ReviewTyped, ReviewInv, VisitsStand
  <2> QED
    BY <1>1, <2>1, RowsOfNow
<1> HIDE DEF r, shown
<1>3. ReviewTyped'
  BY <1>1, <1>2 DEF ReviewTyped
<1>4. Climbs /\ Same /\ Review!Linked' = Review!Linked
  BY <1>1, NothingMoves
<1>5. LinksStand'
  BY <1>1, <1>4 DEF ReviewInv, LinksStand
<1>6. /\ screens'[p] = [fingerprint |-> shown, epoch |-> epoch]
      /\ visits'[p] = None
      /\ \A q \in People \ {p} : screens'[q] = screens[q] /\ visits'[q] = visits[q]
  BY <1>1 DEF ReviewTyped
<1>7. VisitsStand'
  BY <1>1, <1>6 DEF ReviewInv, VisitsStand
<1>8. Behind(shown)
  <2>1. \A row \in shown.tasks :
            /\ row.id \in Review!Linked /\ row.version = versions[row.id]
            /\ row.link = links[row.id]
            /\ versions[row.id] \in Nat /\ links[row.id].revision \in Nat
    BY <1>1, <1>2, RowsOfNow DEF Link
  <2> QED
    BY <1>2, <2>1 DEF Behind
<1>9. ScreensStand'
  <2> SUFFICES ASSUME NEW q \in People, screens'[q] # None
               PROVE  /\ Behind(screens'[q].fingerprint)
                      /\ IsNow(screens'[q].fingerprint) => screens'[q].epoch = epoch
    BY <1>1, <1>4 DEF ScreensStand, Behind, IsNow, Same
  <2>1. CASE q = p
    BY <1>6, <1>8, <2>1
  <2>2. CASE q # p
    BY <1>6, <2>2 DEF ReviewInv, ScreensStand
  <2> QED
    BY <2>1, <2>2
<1>10. ReviewsStand'
  BY <1>1, <1>4 DEF ReviewInv, ReviewsStand, Behind, IsNow, Same
<1> QED
  BY <1>3, <1>5, <1>7, <1>9, <1>10 DEF ReviewInv

(* A person confirms what the transaction finds to be what they saw.       *)
LEMMA ConfirmStands ==
    ASSUME ReviewInv, NEW p \in People, Review!Confirm(p)
    PROVE  ReviewInv'
PROOF
<1> DEFINE seen == screens[p].fingerprint
<1>1. /\ ReviewTyped /\ visits[p] # None /\ visits[p].purpose = "change"
      /\ reviews' = reviews \cup {seen}
      /\ accepted' = accepted \cup {screens[p].epoch}
      /\ visits' = [visits EXCEPT ![p] = None]
      /\ UNCHANGED <<specification, linked, versions, links, screens, epoch>>
  BY DEF ReviewInv, Review!Confirm, Review!Current, Review!Serves, Review!Answered
<1>2. screens[p] # None
  BY <1>1 DEF ReviewInv, VisitsStand
<1>3. /\ seen \in Seen /\ Behind(seen)
      /\ IsNow(seen) => screens[p].epoch = epoch
  BY <1>1, <1>2 DEF ReviewInv, ReviewTyped, ScreensStand
<1> HIDE DEF seen
<1>4. ReviewTyped'
  BY <1>1, <1>3 DEF ReviewTyped
<1>5. Climbs /\ Same /\ Review!Linked' = Review!Linked
  BY <1>1, NothingMoves
<1>6. LinksStand' /\ VisitsStand'
  BY <1>1, <1>5 DEF ReviewInv, LinksStand, VisitsStand, ReviewTyped
<1>7. ScreensStand'
  BY <1>1, <1>5 DEF ReviewInv, ScreensStand, Behind, IsNow, Same
<1>8. ReviewsStand'
  <2> SUFFICES ASSUME NEW s \in reviews'
               PROVE  Behind(s) /\ (IsNow(s) => epoch \in accepted')
    BY <1>1, <1>5 DEF ReviewsStand, Behind, IsNow, Same
  <2>1. CASE s \in reviews
    BY <1>1, <2>1 DEF ReviewInv, ReviewsStand
  <2>2. CASE s = seen
    BY <1>1, <1>3, <2>2
  <2> QED
    BY <1>1, <2>1, <2>2
<1> QED
  BY <1>4, <1>6, <1>7, <1>8 DEF ReviewInv

(* A link is made, or made again, to the specification of the request: not *)
(* an older one than the link has, for the screen shows the link.          *)
LEMMA LinkToStands ==
    ASSUME ReviewInv, NEW p \in People, NEW t \in LinkedTasks, NEW isBacklog \in BOOLEAN,
           Review!Current(p), Review!LinkTo(p, t, isBacklog), None \notin Link,
           \/ linked[t] # "none" /\ linked' = linked
           \/ linked[t] = "none" /\ linked' = [linked EXCEPT ![t] = "open"]
    PROVE  ReviewInv'
PROOF
<1> DEFINE r == visits[p].revision
           link == [revision |-> r,
                    isBacklog |-> IF t \in Review!Linked THEN links[t].isBacklog
                                  ELSE isBacklog]
<1>1. /\ ReviewTyped /\ visits[p] # None /\ visits[p].purpose = "change"
      /\ Review!Fingerprint(r) = screens[p].fingerprint
      /\ links' = [links EXCEPT ![t] = link]
      /\ epoch' = IF links' = links THEN epoch ELSE epoch + 1
      /\ visits' = [visits EXCEPT ![p] = None]
      /\ UNCHANGED <<specification, versions, reviews, screens, accepted>>
  BY DEF ReviewInv, Review!LinkTo, Review!Current, Review!Serves, Review!Answered
<1>2. r \in Nat /\ r <= specification
  BY <1>1 DEF ReviewTyped, ReviewInv, VisitsStand
<1>3. link \in Link /\ link.revision = r
  BY <1>1, <1>2 DEF ReviewTyped, Link, Review!Linked
<1>4. \A v \in Review!Linked : links[v].revision <= r
  <2> SUFFICES ASSUME NEW v \in Review!Linked
               PROVE  links[v].revision <= r
    OBVIOUS
  <2>1. /\ Review!Row(v) \in Review!Fingerprint(r).tasks
        /\ Review!Row(v).link = links[v]
    BY <1>1, <1>2, RowsOfNow
  <2>2. Review!Row(v) \in screens[p].fingerprint.tasks
    BY <1>1, <2>1
  <2> QED
    BY <1>1, <2>1, <2>2 DEF ReviewInv, VisitsStand
<1>5. t \in Review!Linked => links[t].isBacklog = link.isBacklog
  OBVIOUS
<1> HIDE DEF r, link
<1>6. /\ links' \in [LinkedTasks -> Link \cup {None}]
      /\ links'[t] = link
      /\ \A v \in LinkedTasks \ {t} : links'[v] = links[v]
  BY <1>1, <1>3 DEF ReviewTyped
<1>7. ReviewTyped'
  BY <1>1, <1>6 DEF ReviewTyped, Statuses
<1>8. Review!Linked' = Review!Linked \cup {t}
  <2>1. links' = [v \in LinkedTasks |-> links'[v]] /\ links = [v \in LinkedTasks |-> links[v]]
    BY <1>1, <1>6 DEF ReviewTyped
  <2> QED
    BY <1>3, <1>6, <2>1 DEF Review!Linked
<1>9. \A v \in Review!Linked : /\ v \in LinkedTasks /\ versions[v] \in Nat
                               /\ links[v] \in Link /\ links[v].revision \in Nat
  BY <1>1 DEF ReviewTyped, Review!Linked, Link
<1>10. Climbs
  <2>1. \A v \in Review!Linked : links[v].revision <= links'[v].revision
    BY <1>3, <1>4, <1>6, <1>9
  <2> QED
    BY <1>1, <1>8, <1>9, <2>1 DEF Climbs, ReviewTyped
<1>11. LinksStand'
  <2>1. \A v \in LinkedTasks : linked[v] # "none" \/ v = t => linked'[v] # "none"
    BY <1>1 DEF ReviewTyped
  <2> QED
    BY <1>1, <1>2, <1>3, <1>6, <1>8, <1>9, <2>1 DEF ReviewInv, LinksStand
<1>12. VisitsStand'
  BY <1>1 DEF ReviewInv, VisitsStand, ReviewTyped
<1>13. Same \/ Newer
  <2>1. CASE links' = links
    <3>1. links[t] # None /\ t \in Review!Linked
      BY <1>3, <1>6, <2>1 DEF Review!Linked
    <3>2. linked' = linked
      BY <3>1 DEF ReviewInv, LinksStand
    <3> QED
      BY <1>1, <2>1, <3>2, NothingMoves
  <2>2. CASE links' # links
    <3>1. CASE t \notin Review!Linked
      BY <1>8, <3>1 DEF Newer
    <3>2. CASE t \in Review!Linked
      <4>1. links[t] # link
        BY <1>1, <1>6, <2>2 DEF ReviewTyped
      <4>2. links[t].revision # r
        BY <1>3, <1>5, <1>9, <3>2, <4>1 DEF Link
      <4>3. links[t].revision < links'[t].revision
        BY <1>2, <1>3, <1>4, <1>6, <1>9, <3>2, <4>2
      <4> QED
        BY <1>8, <4>3 DEF Newer
    <3> QED
      BY <3>1, <3>2
  <2> QED
    BY <2>1, <2>2
<1> QED
  BY <1>1, <1>7, <1>10, <1>11, <1>12, <1>13, NothingShown

(* The steps of the review, together.                                      *)
LEMMA ReviewNextStands ==
    ASSUME ReviewInv, [Review!ReviewNext]_Review!reviewVars, None \notin Link
    PROVE  ReviewInv'
PROOF
<1>1. ASSUME NEW p \in People, NEW t \in LinkedTasks, Review!LinkTask(p, t)
      PROVE  ReviewInv'
  <2>1. /\ Review!Current(p) /\ Review!LinkTo(p, t, FALSE)
        /\ linked[t] # "none" /\ linked' = linked
    BY <1>1 DEF Review!LinkTask
  <2> QED
    BY <2>1, LinkToStands
<1>2. ASSUME NEW p \in People, NEW t \in LinkedTasks, Review!AddBacklog(p, t)
      PROVE  ReviewInv'
  <2>1. PICK isBacklog \in BOOLEAN :
            /\ Review!Current(p) /\ Review!LinkTo(p, t, isBacklog)
            /\ linked[t] = "none" /\ linked' = [linked EXCEPT ![t] = "open"]
    BY <1>2 DEF Review!AddBacklog
  <2> QED
    BY <2>1, LinkToStands
<1>3. CASE UNCHANGED Review!reviewVars
  <2>1. /\ ReviewTyped
        /\ UNCHANGED <<specification, linked, versions, links, reviews, screens, visits,
                       epoch, accepted>>
    BY <1>3 DEF Review!reviewVars, ReviewInv
  <2>2. Climbs /\ Same /\ Review!Linked' = Review!Linked
    BY <2>1, NothingMoves
  <2>3. ReviewTyped' /\ LinksStand' /\ VisitsStand'
    BY <2>1, <2>2 DEF ReviewInv, ReviewTyped, LinksStand, VisitsStand
  <2> QED
    BY <2>1, <2>2, <2>3, NothingShown
<1> QED
  BY <1>1, <1>2, <1>3, ReviseStands, EditTaskStands, FetchManifestStands, ListStands,
     ConfirmStands, RefusedStands DEF Review!ReviewNext

(* No subject has been looked at.                                          *)
LEMMA ReviewStarts ==
    ASSUME Review!ReviewInit
    PROVE  ReviewInv
PROOF
<1>1. Review!Linked = {}
  BY DEF Review!ReviewInit, Review!Linked
<1>2. ReviewTyped
  BY DEF Review!ReviewInit, ReviewTyped, Statuses
<1>3. LinksStand /\ ScreensStand /\ ReviewsStand /\ VisitsStand
  BY <1>1 DEF Review!ReviewInit, LinksStand, ScreensStand, ReviewsStand, VisitsStand
<1> QED
  BY <1>2, <1>3 DEF ReviewInv

(* "Monotonic versions invalidate acceptance": a subject is shown as       *)
(* completed only if all its tasks are done and somebody confirmed exactly *)
(* what is true of it now.  Neither a task reopened and done again, nor a  *)
(* link made again under an older request, nor a revised specification     *)
(* brings an old confirmation back.                                        *)
THEOREM CompletedWasConfirmed ==
    ASSUME None \notin Link
    PROVE  Review!ReviewSpec => []CompletedWasAccepted
PROOF
<1>1. Review!ReviewInit => ReviewInv
  BY ReviewStarts
<1>2. ReviewInv /\ [Review!ReviewNext]_Review!reviewVars => ReviewInv'
  BY ReviewNextStands
<1>3. ReviewInv => CompletedWasAccepted
  <2> SUFFICES ASSUME ReviewInv, Review!ReviewState(specification) = "completed"
               PROVE  Review!AllDone /\ epoch \in accepted
    BY DEF CompletedWasAccepted, Review!CompletedWasAccepted
  <2>1. Review!AllDone /\ Review!Fingerprint(specification) \in reviews
    BY DEF Review!ReviewState
  <2> QED
    BY <2>1 DEF ReviewInv, ReviewsStand, IsNow
<1> QED
  BY <1>1, <1>2, <1>3, PTL DEF Review!ReviewSpec

-----------------------------------------------------------------------------
(* The cache of task lists.                                                *)

Producing == {"getting", "loading", "loaded"}   \* at work on a list
Keyed == Producing \cup {"waiting"}             \* has looked its key up
Informed == Keyed \cup {"looking"}              \* has read a generation
Stages == Informed \cup {"idle", "asking", "done"}

Key == [generation: Nat \cup {None}, localGeneration: Nat]
Entry == [key: Key, version: Nat, expiresAt: Int]
Request == [at: Stages, process: Servers \cup {None},
            generation: Nat \cup {None}, key: Key \cup {None},
            leader: Readers, version: Int, floor: Nat, since: Nat, readAt: Nat]

CacheTyped ==
    /\ Cache!Newest \in Nat /\ committed \in [0..Cache!Newest -> Nat]
    /\ generation \in Nat /\ localGeneration \in [Servers -> Nat]
    /\ entries \subseteq Entry
    /\ inflight \in [Servers -> SUBSET Readers]
    /\ writes \in [Servers -> {"none", "committed", "announcing"}]
    /\ lists \in [Readers -> Request]
    /\ clock \in Nat /\ cacheFaults \in Nat /\ slowest \in Nat
    /\ announced \in [Servers -> Nat]

(* Nothing is committed or announced before its time.                      *)
InTime ==
    /\ \A v \in 0..Cache!Newest : committed[v] <= clock
    /\ \A p \in Servers : announced[p] <= Cache!Newest

(* Where a request is, and what it began with.                             *)
Placed(r) ==
    /\ lists[r].at \in Informed \cup {"asking"} => lists[r].process \in Servers
    /\ lists[r].floor <= Cache!Newest /\ lists[r].since <= clock
    /\ lists[r].at = "asking" => lists[r].floor <= announced[lists[r].process]
    /\ lists[r].at \in Keyed =>
        lists[r].key \in Key /\ lists[r].key.generation = lists[r].generation

(* Who waits, waits for a job under way for the same key.                  *)
Joined(r) ==
    lists[r].at = "waiting" =>
        /\ lists[lists[r].leader].at \in Producing
        /\ lists[lists[r].leader].key = lists[r].key

JobsUnderWay ==
    \A p \in Servers : \A q \in inflight[p] :
        lists[q].at \in Producing /\ lists[q].process = p

(* A list that has been read lacks only what was committed since.          *)
InHand(r) ==
    lists[r].at = "loaded" =>
        /\ lists[r].version \in 0..Cache!Newest /\ lists[r].readAt <= clock
        /\ \A v \in 0..Cache!Newest :
            committed[v] < lists[r].readAt => lists[r].version >= v

(* A list is as old as its entry is, and no older but for the time it      *)
(* waited to be stored.                                                    *)
NotOlder ==
    \A e \in entries :
        /\ e.expiresAt - TtlSec <= clock
        /\ \A v \in 0..Cache!Newest :
            committed[v] < e.expiresAt - TtlSec - slowest => e.version >= v

(* While the store works, a list of the current generation, stored or in   *)
(* hand, shows what was announced, but for announcements that have not     *)
(* arrived;                                                                *)
ShowsAnnounced(version) ==
    \A p \in Servers : writes[p] # "announcing" => version >= announced[p]

Told ==
    cacheFaults = 0 =>
        /\ \A e \in entries :
            /\ e.key.generation \in Nat /\ e.key.generation <= generation
            /\ e.key.generation = generation => ShowsAnnounced(e.version)
        /\ \A r \in Readers : lists[r].at = "loaded" /\ lists[r].generation = generation =>
            ShowsAnnounced(lists[r].version)

(* and a list of the generation a request has read is new enough for it.   *)
Promised(r) ==
    cacheFaults = 0 /\ lists[r].at \in Informed =>
        /\ lists[r].generation \in Nat /\ lists[r].generation <= generation
        /\ \A e \in entries :
            e.key.generation = lists[r].generation => e.version >= lists[r].floor
        /\ \A q \in Readers :
            lists[q].at = "loaded" /\ lists[q].generation = lists[r].generation =>
                lists[q].version >= lists[r].floor

(* A version that is fresh enough for a request, if lists waited at most   *)
(* so long to be stored.                                                   *)
Enough(r, version, wait) ==
    /\ cacheFaults = 0 => version >= lists[r].floor
    /\ \A v \in 0..Cache!Newest :
        committed[v] <= lists[r].since - TtlSec - wait => version >= v

Served(r) == lists[r].at = "done" => Enough(r, lists[r].version, slowest)

(* The inductive invariant of the cache.                                   *)
CacheInv ==
    /\ CacheTyped /\ InTime /\ JobsUnderWay /\ NotOlder /\ Told
    /\ \A r \in Readers :
        Placed(r) /\ Joined(r) /\ InHand(r) /\ Promised(r) /\ Served(r)

(* The newest of the versions from 0 on is the last.                       *)
LEMMA NewestOf ==
    ASSUME NEW n \in Nat, NEW f, DOMAIN f = 0..n
    PROVE  (CHOOSE v \in DOMAIN f : \A u \in DOMAIN f : u <= v) = n
PROOF
<1> DEFINE Last(v) == v \in DOMAIN f /\ \A u \in DOMAIN f : u <= v
<1>1. Last(n)
  OBVIOUS
<1>2. ASSUME NEW v, Last(v)
      PROVE  v = n
  <2>1. v \in 0..n /\ n <= v
    BY <1>1, <1>2
  <2> QED
    BY <2>1
<1>3. (CHOOSE v : Last(v)) = n
  <2> HIDE DEF Last
  <2>1. Last(CHOOSE v : Last(v))
    BY <1>1
  <2> QED
    BY <1>2, <2>1
<1> QED
  BY <1>3

(* A write to the tasks commits.                                           *)
LEMMA CommitFresh ==
    ASSUME CacheInv, TtlSec \in Nat \ {0}, NEW p \in Servers, Cache!Commit(p)
    PROVE  CacheInv'
PROOF
<1> DEFINE n == Cache!Newest
<1>1. /\ CacheTyped /\ InTime
      /\ committed' = [v \in 0..n + 1 |-> IF v = n + 1 THEN clock ELSE committed[v]]
      /\ writes[p] = "none" /\ writes' = [writes EXCEPT ![p] = "committed"]
      /\ UNCHANGED <<generation, localGeneration, entries, inflight, lists, clock,
                     cacheFaults, announced, slowest>>
  BY DEF CacheInv, Cache!Commit
<1>2. n \in Nat /\ committed \in [0..n -> Nat] /\ clock \in Nat
  BY <1>1 DEF CacheTyped
<1>3. Cache!Newest' = n + 1
  <2>1. DOMAIN committed' = 0..(n + 1)
    BY <1>1
  <2>2. n + 1 \in Nat
    BY <1>2
  <2> HIDE DEF n
  <2> QED
    BY <2>1, <2>2, NewestOf DEF Cache!Newest
<1> HIDE DEF n
<1>4. committed' \in [0..(n + 1) -> Nat]
  BY <1>1, <1>2
<1>5. \A v \in 0..(n + 1) : \/ v \in 0..n /\ committed'[v] = committed[v]
                            \/ v = n + 1 /\ committed'[v] = clock
  BY <1>1, <1>2
<1>6. CacheTyped'
  BY <1>1, <1>2, <1>3, <1>4 DEF CacheTyped
<1>7. InTime'
  BY <1>1, <1>2, <1>3, <1>5 DEF InTime, CacheTyped, n
<1>8. JobsUnderWay'
  BY <1>1 DEF CacheInv, JobsUnderWay
<1>9. NotOlder'
  <2> SUFFICES ASSUME NEW e \in entries
               PROVE  /\ e.expiresAt - TtlSec <= clock
                      /\ \A v \in 0..(n + 1) :
                            committed'[v] < e.expiresAt - TtlSec - slowest => e.version >= v
    BY <1>1, <1>3 DEF NotOlder
  <2>1. /\ e.expiresAt - TtlSec <= clock
        /\ \A v \in 0..n : committed[v] < e.expiresAt - TtlSec - slowest => e.version >= v
        /\ e.expiresAt \in Int /\ slowest \in Nat
    BY <1>1 DEF CacheInv, NotOlder, n, CacheTyped, Entry
  <2> QED
    BY <1>2, <1>5, <2>1
<1>10. Told'
  <2>1. \A q \in Servers : writes'[q] # "announcing" => writes[q] # "announcing"
    BY <1>1 DEF CacheTyped
  <2> QED
    BY <1>1, <2>1 DEF CacheInv, Told, ShowsAnnounced
<1>11. ASSUME NEW r \in Readers
       PROVE  Placed(r)' /\ Joined(r)' /\ InHand(r)' /\ Promised(r)' /\ Served(r)'
  <2>1. Placed(r) /\ Joined(r) /\ InHand(r) /\ Promised(r) /\ Served(r)
    BY DEF CacheInv
  <2>2. lists[r].floor \in Nat /\ lists[r].since \in Nat
    BY <1>1 DEF CacheTyped, Request
  <2>3. Placed(r)'
    BY <1>1, <1>2, <1>3, <2>1, <2>2 DEF Placed, n
  <2>4. Joined(r)' /\ Promised(r)'
    BY <1>1, <2>1 DEF Joined, Promised
  <2>5. lists[r].readAt \in Nat /\ lists[r].version \in Int /\ slowest \in Nat
    BY <1>1 DEF CacheTyped, Request
  <2>6. InHand(r)'
    <3> SUFFICES ASSUME lists[r].at = "loaded"
                 PROVE  /\ lists[r].version \in 0..(n + 1) /\ lists[r].readAt <= clock
                        /\ \A v \in 0..(n + 1) :
                            committed'[v] < lists[r].readAt => lists[r].version >= v
      BY <1>1, <1>3 DEF InHand
    <3>1. /\ lists[r].version \in 0..n /\ lists[r].readAt <= clock
          /\ \A v \in 0..n : committed[v] < lists[r].readAt => lists[r].version >= v
      BY <2>1 DEF InHand, n
    <3> QED
      BY <1>2, <1>5, <2>5, <3>1
  <2>7. Served(r)'
    <3> SUFFICES ASSUME lists[r].at = "done"
                 PROVE  /\ cacheFaults = 0 => lists[r].version >= lists[r].floor
                        /\ \A v \in 0..(n + 1) :
                            committed'[v] <= lists[r].since - TtlSec - slowest =>
                                lists[r].version >= v
      BY <1>1, <1>3 DEF Served, Enough
    <3>1. Enough(r, lists[r].version, slowest) /\ lists[r].since <= clock
      BY <2>1 DEF Served, Placed
    <3> QED
      BY <1>2, <1>5, <2>2, <2>5, <3>1 DEF Enough, n
  <2> QED
    BY <2>3, <2>4, <2>6, <2>7
<1> QED
  BY <1>6, <1>7, <1>8, <1>9, <1>10, <1>11 DEF CacheInv

(* A commit is known in its process, then announced: its entries may lag.  *)
LEMMA InvalidateFresh ==
    ASSUME CacheInv, NEW p \in Servers, Cache!Invalidate(p)
    PROVE  CacheInv'
PROOF
<1>1. /\ CacheTyped /\ InTime /\ Told
      /\ localGeneration' = [localGeneration EXCEPT ![p] = @ + 1]
      /\ inflight' = [inflight EXCEPT ![p] = {}]
      /\ announced' = [announced EXCEPT ![p] = Cache!Newest]
      /\ writes' = [writes EXCEPT ![p] = "announcing"]
      /\ UNCHANGED <<committed, generation, entries, lists, clock, cacheFaults, slowest>>
  BY DEF CacheInv, Cache!Invalidate, Cache!AdvanceLocal
<1>2. Cache!Newest' = Cache!Newest
  BY <1>1 DEF Cache!Newest
<1>3. CacheTyped'
  BY <1>1, <1>2 DEF CacheTyped
<1>4. \A q \in Servers : /\ announced[q] <= announced'[q]
                         /\ announced'[q] <= Cache!Newest
                         /\ announced[q] \in Nat /\ announced'[q] \in Nat
  BY <1>1 DEF InTime, CacheTyped
<1>5. InTime'
  BY <1>1, <1>2, <1>4 DEF InTime
<1>6. JobsUnderWay'
  BY <1>1 DEF CacheInv, JobsUnderWay, CacheTyped
<1>7. NotOlder'
  BY <1>1, <1>2 DEF CacheInv, NotOlder
<1>8. Told'
  <2>1. \A q \in Servers : writes'[q] # "announcing" =>
            q # p /\ writes[q] # "announcing" /\ announced'[q] = announced[q]
    BY <1>1 DEF CacheTyped
  <2> QED
    BY <1>1, <2>1 DEF Told, ShowsAnnounced
<1>9. ASSUME NEW r \in Readers
      PROVE  Placed(r)' /\ Joined(r)' /\ InHand(r)' /\ Promised(r)' /\ Served(r)'
  <2>1. Placed(r) /\ Joined(r) /\ InHand(r) /\ Promised(r) /\ Served(r) /\ lists[r].floor \in Nat
    BY <1>1 DEF CacheInv, CacheTyped, Request
  <2>2. lists[r].at = "asking" => lists[r].floor <= announced'[lists[r].process]
    BY <1>4, <2>1 DEF Placed
  <2>3. Placed(r)'
    BY <1>1, <1>2, <2>1, <2>2 DEF Placed
  <2> QED
    BY <1>1, <1>2, <2>1, <2>3 DEF Joined, InHand, Promised, Served, Enough
<1> QED
  BY <1>3, <1>5, <1>6, <1>7, <1>8, <1>9 DEF CacheInv

(* The announcement arrives, and no entry is of the new generation yet; or *)
(* it is lost.                                                             *)
LEMMA AdvanceGenerationFresh ==
    ASSUME CacheInv, NEW p \in Servers, Cache!AdvanceGeneration(p)
    PROVE  CacheInv'
PROOF
<1>1. /\ CacheTyped /\ InTime /\ Told
      /\ writes' = [writes EXCEPT ![p] = "none"]
      /\ UNCHANGED <<committed, localGeneration, entries, inflight, lists, clock, slowest>>
      /\ \/ /\ cacheFaults' = cacheFaults /\ generation' = generation + 1
            /\ announced' = [q \in Servers |->
                  IF announced[q] < announced[p] THEN announced[p] ELSE announced[q]]
         \/ /\ cacheFaults' = cacheFaults + 1
            /\ UNCHANGED <<generation, announced>>
  BY DEF CacheInv, Cache!AdvanceGeneration, Cache!NoFault, Cache!Fault
<1>2. Cache!Newest' = Cache!Newest
  BY <1>1 DEF Cache!Newest
<1>3. \A q \in Servers : /\ announced[q] <= announced'[q]
                         /\ announced'[q] <= Cache!Newest
                         /\ announced[q] \in Nat /\ announced'[q] \in Nat
  BY <1>1 DEF InTime, CacheTyped
<1>4. /\ generation' \in Nat /\ generation <= generation' /\ cacheFaults' \in Nat
      /\ cacheFaults' = 0 => cacheFaults = 0 /\ generation' = generation + 1
  BY <1>1 DEF CacheTyped
<1>5. announced' \in [Servers -> Nat]
  BY <1>1, <1>3 DEF CacheTyped
<1>6. CacheTyped'
  BY <1>1, <1>2, <1>4, <1>5 DEF CacheTyped
<1>7. InTime' /\ JobsUnderWay' /\ NotOlder'
  BY <1>1, <1>2, <1>3 DEF CacheInv, InTime, JobsUnderWay, NotOlder
<1>8. Told'
  <2> SUFFICES ASSUME cacheFaults' = 0
               PROVE  /\ \A e \in entries :
                            /\ e.key.generation \in Nat
                            /\ e.key.generation <= generation'
                            /\ e.key.generation # generation'
                      /\ \A r \in Readers : lists[r].at = "loaded" =>
                            lists[r].generation # generation'
    BY <1>1 DEF Told
  <2>1. cacheFaults = 0 /\ generation' = generation + 1 /\ generation \in Nat
    BY <1>1, <1>4 DEF CacheTyped
  <2>2. \A e \in entries : e.key.generation \in Nat /\ e.key.generation <= generation
    BY <1>1, <2>1 DEF Told
  <2>3. ASSUME NEW r \in Readers, lists[r].at = "loaded"
        PROVE  lists[r].generation \in Nat /\ lists[r].generation <= generation
    BY <2>1, <2>3 DEF CacheInv, Promised, Informed, Keyed, Producing
  <2> QED
    BY <2>1, <2>2, <2>3
<1>9. ASSUME NEW r \in Readers
      PROVE  Placed(r)' /\ Joined(r)' /\ InHand(r)' /\ Promised(r)' /\ Served(r)'
  <2>1. Placed(r) /\ Joined(r) /\ InHand(r) /\ Promised(r) /\ Served(r) /\ lists[r].floor \in Nat
    BY <1>1 DEF CacheInv, CacheTyped, Request
  <2>2. lists[r].at = "asking" => lists[r].floor <= announced'[lists[r].process]
    BY <1>3, <2>1 DEF Placed
  <2>3. Placed(r)'
    BY <1>1, <1>2, <2>1, <2>2 DEF Placed
  <2>4. Promised(r)'
    <3>1. generation \in Nat
      BY <1>1 DEF CacheTyped
    <3> QED
      BY <1>1, <1>4, <2>1, <3>1 DEF Promised
  <2> QED
    BY <1>1, <1>2, <1>4, <2>1, <2>3, <2>4 DEF Joined, InHand, Served, Enough
<1> QED
  BY <1>6, <1>7, <1>8, <1>9 DEF CacheInv

(* One request moves on; where it was at work it stays at work.  The       *)
(* others, and the entries, are as they were.                              *)
LEMMA OthersStand ==
    ASSUME CacheInv, NEW r \in Readers, NEW request \in Request,
           Cache!Becomes(r, request),
           lists[r].at \in Producing =>
                /\ request.at \in Producing /\ request.key = lists[r].key
                /\ request.process = lists[r].process,
           request.at = "loaded" => request.version = Cache!Newest,
           UNCHANGED <<committed, generation, entries, writes, clock, announced, slowest>>,
           cacheFaults' \in {cacheFaults, cacheFaults + 1}
    PROVE  /\ lists' \in [Readers -> Request] /\ lists'[r] = request
           /\ Cache!Newest' = Cache!Newest
           /\ cacheFaults' \in Nat /\ (cacheFaults' = 0 => cacheFaults = 0)
           /\ InTime' /\ NotOlder' /\ Told'
           /\ inflight' = inflight => JobsUnderWay'
           /\ \A q \in Readers \ {r} :
                /\ lists'[q] = lists[q]
                /\ Placed(q)' /\ Joined(q)' /\ InHand(q)'
                /\ Promised(q)' /\ Served(q)'
PROOF
<1>1. /\ CacheTyped /\ InTime /\ Told /\ NotOlder /\ JobsUnderWay
      /\ lists' = [lists EXCEPT ![r] = request]
  BY DEF CacheInv, Cache!Becomes
<1>2. Cache!Newest' = Cache!Newest
  BY DEF Cache!Newest
<1>3. cacheFaults' \in Nat /\ (cacheFaults' = 0 => cacheFaults = 0)
  BY <1>1 DEF CacheTyped
<1>4. /\ lists' \in [Readers -> Request] /\ lists'[r] = request
      /\ \A q \in Readers \ {r} : lists'[q] = lists[q]
  BY <1>1 DEF CacheTyped
<1>5. InTime' /\ NotOlder'
  BY <1>1, <1>2 DEF InTime, NotOlder
<1>6. Told'
  <2>1. request.at = "loaded" => \A p \in Servers : request.version >= announced[p]
    <3> SUFFICES ASSUME NEW p \in Servers
                 PROVE  Cache!Newest >= announced[p]
      OBVIOUS
    <3>1. announced[p] \in Nat /\ Cache!Newest \in Nat /\ announced[p] <= Cache!Newest
      BY <1>1 DEF CacheTyped, InTime
    <3> QED
      BY <3>1
  <2>2. \A q \in Readers : q = r \/ lists'[q] = lists[q]
    BY <1>4
  <2> QED
    BY <1>1, <1>3, <1>4, <2>1, <2>2 DEF Told, ShowsAnnounced
<1>7. ASSUME inflight' = inflight
      PROVE  JobsUnderWay'
  <2> SUFFICES ASSUME NEW p \in Servers, NEW q \in inflight[p]
               PROVE  lists'[q].at \in Producing /\ lists'[q].process = p
    BY <1>7 DEF JobsUnderWay
  <2>1. q \in Readers /\ lists[q].at \in Producing /\ lists[q].process = p
    BY <1>1 DEF JobsUnderWay, CacheTyped
  <2> QED
    BY <1>4, <2>1
<1>8. ASSUME NEW q \in Readers \ {r}
      PROVE  Placed(q)' /\ Joined(q)' /\ InHand(q)' /\ Promised(q)' /\ Served(q)'
  <2>1. Placed(q) /\ Joined(q) /\ InHand(q) /\ Promised(q) /\ Served(q) /\ lists'[q] = lists[q]
    BY <1>4 DEF CacheInv
  <2>2. Placed(q)'
    BY <1>2, <2>1 DEF Placed
  <2>3. Joined(q)'
    <3> SUFFICES ASSUME lists[q].at = "waiting"
                 PROVE  /\ lists'[lists[q].leader].at \in Producing
                        /\ lists'[lists[q].leader].key = lists[q].key
      BY <2>1 DEF Joined
    <3>1. lists[q].leader \in Readers
      BY <1>1 DEF CacheTyped, Request
    <3>2. /\ lists[lists[q].leader].at \in Producing
          /\ lists[lists[q].leader].key = lists[q].key
      BY <2>1 DEF Joined
    <3> QED
      BY <1>4, <3>1, <3>2
  <2>4. InHand(q)' /\ Served(q)'
    BY <1>2, <1>3, <2>1 DEF InHand, Served, Enough
  <2>5. Promised(q)'
    <3>1. request.version = Cache!Newest => request.version >= lists[q].floor
      <4>1. lists[q].floor \in Nat /\ Cache!Newest \in Nat /\ lists[q].floor <= Cache!Newest
        BY <1>1, <2>1 DEF CacheTyped, Request, Placed
      <4> QED
        BY <4>1
    <3>2. \A o \in Readers : o = r \/ lists'[o] = lists[o]
      BY <1>4
    <3> QED
      BY <1>3, <1>4, <2>1, <3>1, <3>2 DEF Promised
  <2> QED
    BY <2>2, <2>3, <2>4, <2>5
<1> QED
  BY <1>2, <1>3, <1>4, <1>5, <1>6, <1>7, <1>8

(* A request begins with what is announced in its process.                 *)
LEMMA BeginFresh ==
    ASSUME CacheInv, NEW r \in Readers, NEW p \in Servers, Cache!Begin(r, p)
    PROVE  CacheInv'
PROOF
<1> DEFINE request == [Cache!Idle(r) EXCEPT !.at = "asking", !.process = p,
                                            !.floor = announced[p], !.since = clock]
<1>1. /\ CacheTyped /\ InTime /\ lists[r].at = "idle"
      /\ Cache!Becomes(r, request)
      /\ UNCHANGED <<committed, generation, localGeneration, entries, inflight, writes,
                     clock, cacheFaults, announced, slowest>>
  BY DEF CacheInv, Cache!Begin
<1>2. /\ request \in Request
      /\ request.at = "asking" /\ request.process = p
      /\ request.floor = announced[p] /\ request.since = clock
  <2>1. announced[p] \in Nat /\ clock \in Nat
    BY <1>1 DEF CacheTyped
  <2>2. Cache!Idle(r) \in Request
    BY DEF Request, Stages, Cache!Idle
  <2>3. "asking" \in Stages
    BY DEF Stages
  <2> HIDE DEF Cache!Idle
  <2> QED
    BY <2>1, <2>2, <2>3 DEF Request
<1> HIDE DEF request
<1>3. lists[r].at \notin Producing
  BY <1>1 DEF Producing
<1>4. /\ lists' \in [Readers -> Request] /\ lists'[r] = request
      /\ Cache!Newest' = Cache!Newest /\ InTime' /\ NotOlder' /\ Told' /\ JobsUnderWay'
      /\ \A q \in Readers \ {r} : /\ Placed(q)' /\ Joined(q)' /\ InHand(q)'
                                  /\ Promised(q)' /\ Served(q)'
  BY <1>1, <1>2, <1>3, OthersStand
<1>5. CacheTyped'
  BY <1>1, <1>4 DEF CacheTyped
<1>6. Placed(r)' /\ Joined(r)' /\ InHand(r)' /\ Promised(r)' /\ Served(r)'
  <2>1. announced[p] <= Cache!Newest /\ announced[p] \in Nat /\ clock \in Nat
    BY <1>1 DEF InTime, CacheTyped
  <2> QED
    BY <1>1, <1>2, <1>4, <2>1
    DEF Placed, Joined, InHand, Promised, Served, Informed, Keyed, Producing
<1> QED
  BY <1>4, <1>5, <1>6 DEF CacheInv

(* The generation read after an announcement makes keys of later lists     *)
(* only.                                                                   *)
LEMMA ReadGenerationFresh ==
    ASSUME CacheInv, NEW r \in Readers, Cache!ReadGeneration(r)
    PROVE  CacheInv'
PROOF
<1>1. /\ CacheTyped /\ InTime /\ Told /\ lists[r].at = "asking"
      /\ UNCHANGED <<committed, generation, localGeneration, entries, inflight, writes,
                     clock, announced, slowest>>
  BY DEF CacheInv, Cache!ReadGeneration
<1>2. PICK g \in {generation, None} :
        /\ Cache!Becomes(r, [lists[r] EXCEPT !.at = "looking", !.generation = g])
        /\ \/ /\ g = generation /\ writes[lists[r].process] # "announcing"
              /\ cacheFaults' = cacheFaults
           \/ cacheFaults' = cacheFaults + 1
  BY DEF Cache!ReadGeneration, Cache!CurrentGeneration, Cache!Fault, Cache!NoFault
<1> DEFINE request == [lists[r] EXCEPT !.at = "looking", !.generation = g]
<1>3. /\ request \in Request /\ request.at = "looking" /\ request.generation = g
      /\ request.process = lists[r].process
      /\ request.floor = lists[r].floor /\ request.since = lists[r].since
  BY <1>1, <1>2 DEF CacheTyped, Request, Stages, Informed, Keyed
<1> HIDE DEF request
<1>4. lists[r].at \notin Producing /\ cacheFaults' \in {cacheFaults, cacheFaults + 1}
  BY <1>1, <1>2 DEF Producing
<1>5. /\ lists' \in [Readers -> Request] /\ lists'[r] = request
      /\ Cache!Newest' = Cache!Newest /\ cacheFaults' \in Nat
      /\ InTime' /\ NotOlder' /\ Told' /\ JobsUnderWay'
      /\ \A q \in Readers \ {r} : /\ lists'[q] = lists[q]
                                  /\ Placed(q)' /\ Joined(q)' /\ InHand(q)'
                                  /\ Promised(q)' /\ Served(q)'
  <2>1. Cache!Becomes(r, request)
    BY <1>2 DEF request
  <2> QED
    BY <1>1, <1>3, <1>4, <2>1, OthersStand
<1>6. CacheTyped'
  BY <1>1, <1>5 DEF CacheTyped
<1>7. /\ lists[r].process \in Servers /\ lists[r].floor \in Nat
      /\ lists[r].floor <= announced[lists[r].process]
      /\ lists[r].floor <= Cache!Newest /\ lists[r].since <= clock
  BY <1>1 DEF CacheInv, Placed, CacheTyped, Request
<1>8. Placed(r)' /\ Joined(r)' /\ InHand(r)' /\ Served(r)'
  BY <1>1, <1>3, <1>5, <1>7 DEF Placed, Joined, InHand, Served, Informed, Keyed, Producing
<1>9. Promised(r)'
  <2> SUFFICES ASSUME cacheFaults' = 0
               PROVE  /\ g \in Nat /\ g <= generation
                      /\ \A e \in entries :
                            e.key.generation = g => e.version >= lists[r].floor
                      /\ \A q \in Readers :
                            lists'[q].at = "loaded" /\ lists'[q].generation = g =>
                                lists'[q].version >= lists[r].floor
    BY <1>1, <1>3, <1>5 DEF Promised
  <2>1. /\ cacheFaults = 0 /\ g = generation /\ generation \in Nat
        /\ writes[lists[r].process] # "announcing"
    BY <1>1, <1>2 DEF CacheTyped
  <2>2. ASSUME NEW version \in Int, version >= announced[lists[r].process]
        PROVE  version >= lists[r].floor
    <3>1. announced[lists[r].process] \in Nat
      BY <1>1, <1>7 DEF CacheTyped
    <3> QED
      BY <1>7, <2>2, <3>1
  <2>3. ASSUME NEW e \in entries, e.key.generation = generation
        PROVE  e.version >= lists[r].floor
    <3>1. e.version >= announced[lists[r].process]
      BY <1>1, <1>7, <2>1, <2>3 DEF Told, ShowsAnnounced
    <3>2. e.version \in Int
      BY <1>1 DEF CacheTyped, Entry
    <3> QED
      BY <2>2, <3>1, <3>2
  <2>4. ASSUME NEW q \in Readers, lists'[q].at = "loaded", lists'[q].generation = generation
        PROVE  lists'[q].version >= lists[r].floor
    <3>1. q # r /\ lists'[q] = lists[q]
      BY <1>3, <1>5, <2>4
    <3>2. lists[q].version >= announced[lists[r].process]
      BY <1>1, <1>7, <2>1, <2>4, <3>1 DEF Told, ShowsAnnounced
    <3>3. lists[q].version \in Int
      BY <1>1 DEF CacheTyped, Request
    <3> QED
      BY <2>2, <3>1, <3>2, <3>3
  <2> QED
    BY <2>1, <2>3, <2>4
<1> QED
  BY <1>5, <1>6, <1>8, <1>9 DEF CacheInv

(* A request joins the job for its key, or has one of its own.             *)
LEMMA LookUpFresh ==
    ASSUME CacheInv, NEW r \in Readers, Cache!LookUp(r)
    PROVE  CacheInv'
PROOF
<1> DEFINE p == lists[r].process
           key == [generation |-> lists[r].generation, localGeneration |-> localGeneration[p]]
<1>1. /\ CacheTyped /\ JobsUnderWay /\ lists[r].at = "looking"
      /\ UNCHANGED <<committed, generation, localGeneration, entries, writes, clock,
                     cacheFaults, announced, slowest>>
      /\ \/ \E q \in inflight[p] :
                /\ lists[q].key = key
                /\ Cache!Becomes(r, [lists[r] EXCEPT !.at = "waiting", !.key = key,
                                                     !.leader = q])
                /\ inflight' = inflight
         \/ /\ Cache!Becomes(r, [lists[r] EXCEPT !.at = "getting", !.key = key])
            /\ inflight' = [inflight EXCEPT ![p] = @ \cup {r}]
  BY DEF CacheInv, Cache!LookUp, Cache!Producing
<1>2. /\ lists[r] \in Request /\ p \in Servers /\ lists[r].floor <= Cache!Newest
      /\ lists[r].since <= clock /\ Promised(r)
  BY <1>1 DEF CacheInv, Placed, CacheTyped, Informed
<1>3. key \in Key /\ key.generation = lists[r].generation
  BY <1>1, <1>2 DEF CacheTyped, Request, Key
<1>4. lists[r].at \notin Producing
  BY <1>1 DEF Producing
<1> HIDE DEF p, key
<1>5. ASSUME NEW q \in inflight[p], lists[q].key = key,
             Cache!Becomes(r, [lists[r] EXCEPT !.at = "waiting", !.key = key, !.leader = q]),
             inflight' = inflight
      PROVE  CacheInv'
  <2> DEFINE request == [lists[r] EXCEPT !.at = "waiting", !.key = key, !.leader = q]
  <2>1. q \in Readers /\ lists[q].at \in Producing /\ q # r
    BY <1>1, <1>2, <1>4 DEF JobsUnderWay, CacheTyped
  <2>2. /\ request \in Request /\ request.at = "waiting" /\ request.key = key
        /\ request.leader = q /\ request.process = p
        /\ request.generation = lists[r].generation
        /\ request.floor = lists[r].floor /\ request.since = lists[r].since
    BY <1>2, <1>3, <2>1 DEF Request, Stages, Informed, Keyed, p
  <2>3. Cache!Becomes(r, request)
    BY <1>5
  <2> HIDE DEF request
  <2>4. /\ lists' \in [Readers -> Request] /\ lists'[r] = request
        /\ Cache!Newest' = Cache!Newest
        /\ InTime' /\ NotOlder' /\ Told' /\ JobsUnderWay'
        /\ \A s \in Readers \ {r} : /\ lists'[s] = lists[s]
                                    /\ Placed(s)' /\ Joined(s)' /\ InHand(s)'
                                    /\ Promised(s)' /\ Served(s)'
    BY <1>1, <1>4, <1>5, <2>2, <2>3, OthersStand
  <2>5. CacheTyped'
    BY <1>1, <1>5, <2>4 DEF CacheTyped
  <2>6. Placed(r)' /\ Joined(r)' /\ InHand(r)' /\ Served(r)'
    BY <1>1, <1>2, <1>3, <1>5, <2>1, <2>2, <2>4 DEF Placed, Joined, InHand, Served
  <2>7. Promised(r)'
    BY <1>1, <1>2, <2>2, <2>4 DEF Promised, Informed
  <2> QED
    BY <2>4, <2>5, <2>6, <2>7 DEF CacheInv
<1>6. ASSUME Cache!Becomes(r, [lists[r] EXCEPT !.at = "getting", !.key = key]),
             inflight' = [inflight EXCEPT ![p] = @ \cup {r}]
      PROVE  CacheInv'
  <2> DEFINE request == [lists[r] EXCEPT !.at = "getting", !.key = key]
  <2>1. /\ request \in Request /\ request.at = "getting" /\ request.key = key
        /\ request.process = p /\ request.generation = lists[r].generation
        /\ request.floor = lists[r].floor /\ request.since = lists[r].since
    BY <1>2, <1>3 DEF Request, Stages, Informed, Keyed, Producing, p
  <2>2. Cache!Becomes(r, request)
    BY <1>6
  <2> HIDE DEF request
  <2>3. /\ lists' \in [Readers -> Request] /\ lists'[r] = request
        /\ Cache!Newest' = Cache!Newest /\ InTime' /\ NotOlder' /\ Told'
        /\ \A s \in Readers \ {r} : /\ lists'[s] = lists[s]
                                    /\ Placed(s)' /\ Joined(s)' /\ InHand(s)'
                                    /\ Promised(s)' /\ Served(s)'
    BY <1>1, <1>4, <2>1, <2>2, OthersStand
  <2>4. CacheTyped'
    BY <1>1, <1>2, <1>6, <2>3 DEF CacheTyped
  <2>5. JobsUnderWay'
    <3> SUFFICES ASSUME NEW s \in Servers, NEW q \in inflight'[s]
                 PROVE  lists'[q].at \in Producing /\ lists'[q].process = s
      BY DEF JobsUnderWay
    <3>1. (q \in inflight[s] /\ q \in Readers) \/ (q = r /\ s = p)
      BY <1>1, <1>6 DEF CacheTyped
    <3>2. q \in inflight[s] => lists[q].at \in Producing /\ lists[q].process = s
      BY <1>1 DEF JobsUnderWay
    <3> QED
      BY <1>4, <2>1, <2>3, <3>1, <3>2 DEF Producing
  <2>6. Placed(r)' /\ Joined(r)' /\ InHand(r)' /\ Served(r)'
    BY <1>1, <1>2, <1>3, <2>1, <2>3 DEF Placed, Joined, InHand, Served
  <2>7. Promised(r)'
    BY <1>1, <1>2, <2>1, <2>3 DEF Promised, Informed
  <2> QED
    BY <2>3, <2>4, <2>5, <2>6, <2>7 DEF CacheInv
<1> QED
  BY <1>1, <1>5, <1>6

(* A request that has its list is forgotten.                               *)
LEMMA ForgetFresh ==
    ASSUME CacheInv, NEW r \in Readers, Cache!Forget(r)
    PROVE  CacheInv'
PROOF
<1>1. /\ CacheTyped /\ lists[r].at = "done" /\ Cache!Becomes(r, Cache!Idle(r))
      /\ UNCHANGED <<committed, generation, localGeneration, entries, inflight, writes,
                     clock, cacheFaults, announced, slowest>>
  BY DEF CacheInv, Cache!Forget
<1>2. /\ Cache!Idle(r) \in Request /\ Cache!Idle(r).at = "idle"
      /\ Cache!Idle(r).floor = 0 /\ Cache!Idle(r).since = 0
  BY DEF Cache!Idle, Request, Stages
<1>3. lists[r].at \notin Producing
  BY <1>1 DEF Producing
<1>4. /\ lists' \in [Readers -> Request] /\ lists'[r] = Cache!Idle(r)
      /\ Cache!Newest' = Cache!Newest /\ InTime' /\ NotOlder' /\ Told' /\ JobsUnderWay'
      /\ \A q \in Readers \ {r} : /\ Placed(q)' /\ Joined(q)' /\ InHand(q)'
                                  /\ Promised(q)' /\ Served(q)'
  BY <1>1, <1>2, <1>3, OthersStand
<1>5. CacheTyped'
  BY <1>1, <1>4 DEF CacheTyped
<1>6. Placed(r)' /\ Joined(r)' /\ InHand(r)' /\ Promised(r)' /\ Served(r)'
  BY <1>1, <1>2, <1>4, <1>5
  DEF Placed, Joined, InHand, Promised, Served, Informed, Keyed, Producing, CacheTyped
<1> QED
  BY <1>4, <1>5, <1>6 DEF CacheInv

(* A job is done with a list that is fresh enough for whoever waits for    *)
(* it; nothing else moves, but perhaps the entries.                        *)
LEMMA AnswerServes ==
    ASSUME CacheInv, NEW r \in Readers, NEW version \in Int, NEW wait \in Nat,
           lists[r].at \in Producing,
           Cache!Answer(r, version), Enough(r, version, wait),
           \A q \in Readers :
                lists[q].at = "waiting" /\ lists[q].leader = r => Enough(q, version, wait),
           TtlSec \in Nat \ {0},
           slowest' = wait, slowest <= wait,
           UNCHANGED <<committed, generation, localGeneration, writes, clock, cacheFaults,
                       announced>>
    PROVE  /\ lists' \in [Readers -> Request] /\ inflight' \in [Servers -> SUBSET Readers]
           /\ Cache!Newest' = Cache!Newest
           /\ InTime' /\ JobsUnderWay'
           /\ \A q \in Readers : /\ Placed(q)' /\ Joined(q)' /\ InHand(q)' /\ Served(q)'
                                 /\ lists'[q] = lists[q] \/ lists'[q].at = "done"
PROOF
<1> DEFINE Released(q) == q = r \/ (lists[q].at = "waiting" /\ lists[q].leader = r)
           released(q) == [lists[q] EXCEPT !.at = "done", !.version = version, !.key = None,
                                           !.generation = None, !.leader = q,
                                           !.process = None, !.readAt = 0]
<1>1. /\ CacheTyped /\ InTime /\ JobsUnderWay
      /\ lists' = [q \in Readers |-> IF Released(q) THEN released(q) ELSE lists[q]]
      /\ inflight' = [inflight EXCEPT ![lists[r].process] = @ \ {r}]
  BY DEF CacheInv, Cache!Answer
<1>2. \A q \in Readers : /\ released(q) \in Request
                         /\ released(q).at = "done" /\ released(q).version = version
                         /\ released(q).floor = lists[q].floor
                         /\ released(q).since = lists[q].since
  <2> SUFFICES ASSUME NEW q \in Readers
               PROVE  /\ released(q) \in Request
                      /\ released(q).at = "done" /\ released(q).version = version
                      /\ released(q).floor = lists[q].floor
                      /\ released(q).since = lists[q].since
    OBVIOUS
  <2>1. "done" \in Stages /\ version \in Int
    BY DEF Stages
  <2>2. lists[q] \in Request
    BY <1>1 DEF CacheTyped
  <2> QED
    BY ONLY <2>1, <2>2, q \in Readers DEF Request
<1>3. \A q \in Readers : Released(q) => Enough(q, version, wait)
  OBVIOUS
<1> HIDE DEF released
<1>4. lists' \in [Readers -> Request]
  BY <1>1, <1>2 DEF CacheTyped
<1>5. Cache!Newest' = Cache!Newest
  BY DEF Cache!Newest
<1>6. lists[r].process \in Servers
  BY DEF CacheInv, Placed, Keyed, Informed
<1>7. inflight' \in [Servers -> SUBSET Readers]
  BY <1>1, <1>6 DEF CacheTyped
<1>8. \A q \in Readers : ~Released(q) => lists'[q] = lists[q]
  BY <1>1
<1>9. \A q \in Readers : Released(q) => lists'[q] = released(q)
  BY <1>1
<1>10. InTime'
  BY <1>1, <1>5 DEF InTime
<1>11. \A q \in Readers : lists[q].at \in Producing /\ q # r => ~Released(q)
  BY DEF Producing
<1>12. JobsUnderWay'
  <2> SUFFICES ASSUME NEW p \in Servers, NEW q \in inflight'[p]
               PROVE  lists'[q].at \in Producing /\ lists'[q].process = p
    BY DEF JobsUnderWay
  <2>1. q \in inflight[p] /\ (p = lists[r].process => q # r)
    BY <1>1, <1>6 DEF CacheTyped
  <2>2. q \in Readers /\ lists[q].at \in Producing /\ lists[q].process = p
    BY <1>1, <2>1 DEF JobsUnderWay, CacheTyped
  <2>3. q # r
    BY <2>1, <2>2
  <2> QED
    BY <1>8, <1>11, <2>2, <2>3
<1>13. ASSUME NEW q \in Readers
       PROVE  /\ Placed(q)' /\ Joined(q)' /\ InHand(q)' /\ Served(q)'
              /\ lists'[q] = lists[q] \/ lists'[q].at = "done"
  <2>1. Placed(q) /\ Joined(q) /\ InHand(q) /\ Served(q)
    BY DEF CacheInv
  <2>2. CASE Released(q)
    <3>1. /\ lists'[q].at = "done" /\ lists'[q].version = version
          /\ lists'[q].floor = lists[q].floor /\ lists'[q].since = lists[q].since
      BY <1>2, <1>9, <2>2
    <3>2. Enough(q, version, wait)
      BY <1>3, <2>2
    <3> HIDE DEF Released
    <3> QED
      BY <1>5, <2>1, <3>1, <3>2
      DEF Placed, Joined, InHand, Served, Enough, Informed, Keyed, Producing
  <2>3. CASE ~Released(q)
    <3>1. lists'[q] = lists[q]
      BY <1>8, <2>3
    <3>2. Placed(q)' /\ InHand(q)'
      BY <1>5, <2>1, <3>1 DEF Placed, InHand
    <3>3. Joined(q)'
      <4> SUFFICES ASSUME lists[q].at = "waiting"
                   PROVE  /\ lists'[lists[q].leader].at \in Producing
                          /\ lists'[lists[q].leader].key = lists[q].key
        BY <3>1 DEF Joined
      <4>1. lists[q].leader \in Readers /\ lists[q].leader # r
        BY <1>1, <2>3 DEF CacheTyped, Request
      <4>2. /\ lists[lists[q].leader].at \in Producing
            /\ lists[lists[q].leader].key = lists[q].key
        BY <2>1 DEF Joined
      <4>3. lists'[lists[q].leader] = lists[lists[q].leader]
        BY <1>8, <1>11, <4>1, <4>2
      <4> QED
        BY <4>2, <4>3
    <3>4. Served(q)'
      <4> SUFFICES ASSUME lists[q].at = "done", NEW v \in 0..Cache!Newest,
                          committed[v] <= lists[q].since - TtlSec - wait
                   PROVE  lists[q].version >= v
        BY <1>5, <2>1, <3>1 DEF Served, Enough
      <4>1. committed[v] \in Nat /\ lists[q].since \in Nat /\ slowest \in Nat
        BY <1>1 DEF CacheTyped, Request
      <4>2. committed[v] <= lists[q].since - TtlSec - slowest
        BY <4>1
      <4> QED
        BY <2>1, <4>2 DEF Served, Enough
    <3> QED
      BY <3>1, <3>2, <3>3, <3>4
  <2> QED
    BY <2>2, <2>3
<1> QED
  BY <1>4, <1>5, <1>7, <1>10, <1>12, <1>13

(* Who waits for a job waits for its key, of the generation both have      *)
(* read.                                                                   *)
LEMMA SameGeneration ==
    ASSUME CacheInv, NEW r \in Readers, NEW q \in Readers,
           lists[r].at \in Producing, lists[q].at = "waiting", lists[q].leader = r
    PROVE  lists[q].generation = lists[r].key.generation
PROOF
<1>1. Joined(q) /\ Placed(q)
  BY DEF CacheInv
<1> QED
  BY <1>1 DEF Joined, Placed, Keyed

(* A live entry of its key is fresh enough for a request.                  *)
LEMMA EntryServes ==
    ASSUME CacheInv, TtlSec \in Nat \ {0}, NEW r \in Readers, NEW e \in entries,
           lists[r].at \in Keyed, lists[r].generation = e.key.generation,
           Cache!LiveAt(e, clock)
    PROVE  Enough(r, e.version, slowest)
PROOF
<1>1. /\ CacheTyped /\ Promised(r) /\ lists[r].since <= clock /\ e.expiresAt > clock
      /\ \A v \in 0..Cache!Newest :
            committed[v] < e.expiresAt - TtlSec - slowest => e.version >= v
  BY DEF CacheInv, Placed, NotOlder, Cache!LiveAt
<1>2. cacheFaults = 0 => e.version >= lists[r].floor
  BY <1>1 DEF Promised, Informed
<1>3. ASSUME NEW v \in 0..Cache!Newest, committed[v] <= lists[r].since - TtlSec - slowest
      PROVE  e.version >= v
  <2>1. /\ committed[v] \in Nat /\ lists[r].since \in Nat /\ clock \in Nat
        /\ e.expiresAt \in Int /\ slowest \in Nat
    BY <1>1 DEF CacheTyped, Request, Entry
  <2>2. committed[v] < e.expiresAt - TtlSec - slowest
    BY <1>1, <1>3, <2>1
  <2> QED
    BY <1>1, <2>2
<1> QED
  BY <1>2, <1>3 DEF Enough

(* The store has the list, or the job goes on to load it.                  *)
LEMMA GetFresh ==
    ASSUME CacheInv, TtlSec \in Nat \ {0}, NEW r \in Readers, Cache!Get(r)
    PROVE  CacheInv'
PROOF
<1>1. /\ CacheTyped /\ NotOlder /\ Told /\ Placed(r) /\ lists[r].at = "getting"
      /\ UNCHANGED <<committed, generation, localGeneration, entries, writes, clock,
                     cacheFaults, announced, slowest>>
      /\ \/ \E e \in entries : /\ e.key = lists[r].key /\ Cache!LiveAt(e, clock)
                               /\ Cache!Answer(r, e.version)
         \/ /\ Cache!Becomes(r, [lists[r] EXCEPT !.at = "loading"])
            /\ inflight' = inflight
  BY DEF CacheInv, Cache!Get
<1>2. lists[r].at \in Producing /\ lists[r].at \in Keyed
  BY <1>1 DEF Keyed, Producing
<1>3. /\ lists[r].key \in Key /\ lists[r].key.generation = lists[r].generation
      /\ lists[r].process \in Servers
  BY <1>1, <1>2 DEF Placed, Informed
<1>4. ASSUME NEW e \in entries, e.key = lists[r].key, Cache!LiveAt(e, clock),
             Cache!Answer(r, e.version)
      PROVE  CacheInv'
  <2>1. PICK version \in Int, wait \in Nat : version = e.version /\ wait = slowest
    BY <1>1 DEF CacheTyped, Entry
  <2>2. Enough(r, version, wait)
    BY <1>2, <1>3, <1>4, <2>1, EntryServes
  <2>3. ASSUME NEW q \in Readers, lists[q].at = "waiting", lists[q].leader = r
        PROVE  Enough(q, version, wait)
    <3>1. lists[q].generation = e.key.generation /\ lists[q].at \in Keyed
      BY <1>2, <1>4, <2>3, SameGeneration DEF Keyed
    <3> QED
      BY <1>4, <2>1, <3>1, EntryServes
  <2>4. Cache!Answer(r, version) /\ slowest' = wait /\ slowest <= wait
    BY <1>1, <1>4, <2>1
  <2>5. /\ lists' \in [Readers -> Request] /\ inflight' \in [Servers -> SUBSET Readers]
        /\ Cache!Newest' = Cache!Newest
        /\ InTime' /\ JobsUnderWay'
        /\ \A q \in Readers : /\ Placed(q)' /\ Joined(q)' /\ InHand(q)' /\ Served(q)'
                              /\ lists'[q] = lists[q] \/ lists'[q].at = "done"
    BY <1>1, <1>2, <2>2, <2>3, <2>4, AnswerServes
  <2>6. CacheTyped'
    BY <1>1, <2>5 DEF CacheTyped
  <2>7. NotOlder' /\ Told'
    BY <1>1, <2>5 DEF NotOlder, Told, ShowsAnnounced
  <2>8. ASSUME NEW q \in Readers
        PROVE  Promised(q)'
    <3>1. Promised(q)
      BY DEF CacheInv
    <3> QED
      BY <1>1, <2>5, <3>1 DEF Promised, Informed, Keyed, Producing
  <2> QED
    BY <2>5, <2>6, <2>7, <2>8 DEF CacheInv
<1>5. ASSUME Cache!Becomes(r, [lists[r] EXCEPT !.at = "loading"]), inflight' = inflight
      PROVE  CacheInv'
  <2> DEFINE request == [lists[r] EXCEPT !.at = "loading"]
  <2>1. /\ request \in Request /\ request.at = "loading" /\ request.at \in Producing
        /\ request.key = lists[r].key /\ request.process = lists[r].process
        /\ request.generation = lists[r].generation
        /\ request.floor = lists[r].floor /\ request.since = lists[r].since
    BY <1>1 DEF CacheTyped, Request, Stages, Informed, Keyed, Producing
  <2>2. Cache!Becomes(r, request)
    BY <1>5
  <2> HIDE DEF request
  <2>3. /\ lists' \in [Readers -> Request] /\ lists'[r] = request
        /\ Cache!Newest' = Cache!Newest
        /\ InTime' /\ NotOlder' /\ Told' /\ JobsUnderWay'
        /\ \A q \in Readers \ {r} : /\ lists'[q] = lists[q] /\ Placed(q)' /\ Joined(q)'
                                    /\ InHand(q)' /\ Promised(q)' /\ Served(q)'
    BY <1>1, <1>5, <2>1, <2>2, OthersStand
  <2>4. CacheTyped'
    BY <1>1, <1>5, <2>3 DEF CacheTyped
  <2>5. Placed(r)' /\ Joined(r)' /\ InHand(r)' /\ Served(r)'
    BY <1>1, <1>3, <2>1, <2>3 DEF Placed, Joined, InHand, Served
  <2>6. Promised(r)'
    <3>1. Promised(r)
      BY DEF CacheInv
    <3> QED
      BY <1>1, <1>2, <2>1, <2>3, <3>1 DEF Promised, Informed
  <2> QED
    BY <2>3, <2>4, <2>5, <2>6 DEF CacheInv
<1> QED
  BY <1>1, <1>4, <1>5

(* What is read is the newest.                                             *)
LEMMA LoadFresh ==
    ASSUME CacheInv, NEW r \in Readers, Cache!Load(r)
    PROVE  CacheInv'
PROOF
<1> DEFINE request == [lists[r] EXCEPT !.at = "loaded", !.version = Cache!Newest,
                                       !.readAt = clock]
<1>1. /\ CacheTyped /\ InTime /\ Placed(r) /\ Promised(r) /\ lists[r].at = "loading"
      /\ Cache!Becomes(r, request)
      /\ UNCHANGED <<committed, generation, localGeneration, entries, inflight, writes,
                     clock, cacheFaults, announced, slowest>>
  BY DEF CacheInv, Cache!Load
<1>2. /\ request \in Request /\ request.at = "loaded" /\ request.at \in Producing
      /\ request.key = lists[r].key /\ request.process = lists[r].process
      /\ request.generation = lists[r].generation
      /\ request.floor = lists[r].floor /\ request.since = lists[r].since
      /\ request.version = Cache!Newest /\ request.readAt = clock
  <2>1. lists[r] \in Request /\ "loaded" \in Stages /\ Cache!Newest \in Int /\ clock \in Nat
    BY <1>1 DEF CacheTyped, Stages, Informed, Keyed, Producing
  <2> QED
    BY <2>1 DEF Request, Producing
<1> HIDE DEF request
<1>3. /\ lists[r].at \in Producing /\ lists[r].at \in Informed
      /\ lists[r].at \in Keyed
  BY <1>1 DEF Producing, Keyed, Informed
<1>4. /\ lists' \in [Readers -> Request] /\ lists'[r] = request
      /\ Cache!Newest' = Cache!Newest
      /\ InTime' /\ NotOlder' /\ Told' /\ JobsUnderWay'
      /\ \A q \in Readers \ {r} : /\ lists'[q] = lists[q] /\ Placed(q)' /\ Joined(q)'
                                  /\ InHand(q)' /\ Promised(q)' /\ Served(q)'
  BY <1>1, <1>2, OthersStand
<1>5. CacheTyped'
  BY <1>1, <1>4 DEF CacheTyped
<1>6. Placed(r)' /\ Joined(r)' /\ Served(r)'
  BY <1>1, <1>2, <1>3, <1>4 DEF Placed, Joined, Served
<1>7. InHand(r)'
  <2>1. Cache!Newest \in Nat /\ clock \in Nat
    BY <1>1 DEF CacheTyped
  <2> QED
    BY <1>1, <1>2, <1>4, <2>1 DEF InHand
<1>8. Promised(r)'
  <2>1. Cache!Newest >= lists[r].floor
    BY <1>1 DEF Placed, CacheTyped, Request
  <2>2. \A q \in Readers : q = r \/ lists'[q] = lists[q]
    BY <1>4
  <2> QED
    BY <1>1, <1>2, <1>3, <1>4, <2>1, <2>2 DEF Promised
<1> QED
  BY <1>4, <1>5, <1>6, <1>7, <1>8 DEF CacheInv

(* A list that has been read is fresh enough for whoever has looked up its *)
(* generation, if it waited no longer than others did.                     *)
LEMMA ListServes ==
    ASSUME CacheInv, TtlSec \in Nat \ {0}, NEW r \in Readers, NEW q \in Readers,
           lists[q].at = "loaded", lists[r].at \in Keyed,
           lists[r].generation = lists[q].generation,
           NEW wait \in Nat, clock - lists[q].readAt <= wait
    PROVE  Enough(r, lists[q].version, wait)
PROOF
<1>1. CacheTyped /\ InHand(q) /\ Promised(r) /\ lists[r].since <= clock
  BY DEF CacheInv, Placed
<1>2. cacheFaults = 0 => lists[q].version >= lists[r].floor
  BY <1>1 DEF Promised, Informed
<1>3. ASSUME NEW v \in 0..Cache!Newest, committed[v] <= lists[r].since - TtlSec - wait
      PROVE  lists[q].version >= v
  <2>1. /\ committed[v] \in Nat /\ lists[r].since \in Nat /\ clock \in Nat
        /\ lists[q].readAt \in Nat
    BY <1>1 DEF CacheTyped, Request
  <2>2. committed[v] < lists[q].readAt
    BY <1>1, <1>3, <2>1
  <2> QED
    BY <1>1, <2>2 DEF InHand
<1> QED
  BY <1>2, <1>3 DEF Enough

(* What was read is stored, perhaps over something newer.                  *)
LEMMA StoreFresh ==
    ASSUME CacheInv, TtlSec \in Nat \ {0}, NEW r \in Readers, Cache!Store(r)
    PROVE  CacheInv'
PROOF
<1> DEFINE entry == [key |-> lists[r].key, version |-> lists[r].version,
                     expiresAt |-> clock + TtlSec]
           longest == IF clock - lists[r].readAt > slowest
                      THEN clock - lists[r].readAt ELSE slowest
<1>1. /\ CacheTyped /\ InTime /\ NotOlder /\ Told /\ Placed(r) /\ Promised(r) /\ InHand(r)
      /\ lists[r].at = "loaded" /\ Cache!Answer(r, lists[r].version)
      /\ entries' \subseteq entries \cup {entry}
      /\ slowest' = longest
      /\ UNCHANGED <<committed, generation, localGeneration, writes, clock, cacheFaults,
                     announced>>
  BY DEF CacheInv, Cache!Store
<1>2. lists[r].at \in Producing /\ lists[r].at \in Keyed
  BY <1>1 DEF Keyed, Producing
<1>3. lists[r].key \in Key /\ lists[r].key.generation = lists[r].generation
  BY <1>1, <1>2 DEF Placed
<1>4. /\ lists[r].version \in Nat /\ lists[r].readAt \in Nat /\ lists[r].readAt <= clock
      /\ slowest \in Nat /\ clock \in Nat /\ Cache!Newest \in Nat
  BY <1>1 DEF CacheTyped, Request, InHand
<1>5. longest \in Nat /\ slowest <= longest /\ clock - lists[r].readAt <= longest
  BY <1>4
<1>6. PICK version \in Int, wait \in Nat :
        version = lists[r].version /\ wait = longest
  BY <1>4, <1>5
<1> HIDE DEF longest
<1>7. Enough(r, version, wait)
  BY <1>1, <1>2, <1>5, <1>6, ListServes
<1>8. ASSUME NEW q \in Readers, lists[q].at = "waiting", lists[q].leader = r
      PROVE  Enough(q, version, wait)
  <2>1. lists[q].generation = lists[r].generation /\ lists[q].at \in Keyed
    BY <1>2, <1>3, <1>8, SameGeneration DEF Keyed
  <2> QED
    BY <1>1, <1>5, <1>6, <2>1, ListServes
<1>9. Cache!Answer(r, version)
  BY <1>1, <1>6
<1>10. /\ lists' \in [Readers -> Request] /\ inflight' \in [Servers -> SUBSET Readers]
       /\ Cache!Newest' = Cache!Newest
       /\ InTime' /\ JobsUnderWay'
       /\ \A q \in Readers : /\ Placed(q)' /\ Joined(q)' /\ InHand(q)' /\ Served(q)'
                             /\ lists'[q] = lists[q] \/ lists'[q].at = "done"
  BY <1>1, <1>2, <1>5, <1>6, <1>7, <1>8, <1>9, AnswerServes
<1>11. /\ entry \in Entry /\ entry.key.generation = lists[r].generation
       /\ entry.version = lists[r].version /\ entry.expiresAt - TtlSec = clock
  BY <1>3, <1>4 DEF Entry
<1> HIDE DEF entry
<1>12. CacheTyped'
  BY <1>1, <1>5, <1>10, <1>11 DEF CacheTyped
<1>13. NotOlder'
  <2> SUFFICES ASSUME NEW e \in entries \cup {entry}
               PROVE  /\ e.expiresAt - TtlSec <= clock
                      /\ \A v \in 0..Cache!Newest :
                            committed[v] < e.expiresAt - TtlSec - longest => e.version >= v
    BY <1>1, <1>10 DEF NotOlder
  <2>1. \A v \in 0..Cache!Newest : committed[v] \in Nat
    BY <1>1 DEF CacheTyped
  <2>2. CASE e \in entries
    <3>1. /\ e.expiresAt \in Int /\ e.expiresAt - TtlSec <= clock
          /\ \A v \in 0..Cache!Newest :
                committed[v] < e.expiresAt - TtlSec - slowest => e.version >= v
      BY <1>1, <2>2 DEF NotOlder, CacheTyped, Entry
    <3> QED
      BY <1>4, <1>5, <2>1, <3>1
  <2>3. CASE e = entry
    <3>1. \A v \in 0..Cache!Newest :
            committed[v] < lists[r].readAt => lists[r].version >= v
      BY <1>1 DEF InHand
    <3>2. clock - longest <= lists[r].readAt /\ clock - longest \in Int
      BY <1>4, <1>5
    <3> QED
      BY <1>4, <1>11, <2>1, <2>3, <3>1, <3>2
  <2> QED
    BY <2>2, <2>3
<1>14. Told'
  <2>1. cacheFaults = 0 =>
            /\ entry.key.generation \in Nat /\ entry.key.generation <= generation
            /\ entry.key.generation = generation => ShowsAnnounced(entry.version)
    BY <1>1, <1>2, <1>11 DEF Promised, Informed, Told
  <2> QED
    BY <1>1, <1>10, <2>1 DEF Told, ShowsAnnounced
<1>15. ASSUME NEW q \in Readers
       PROVE  Promised(q)'
  <2> SUFFICES ASSUME cacheFaults = 0, lists[q].at \in Informed, lists'[q] = lists[q]
               PROVE  Promised(q)'
    BY <1>1, <1>10 DEF Promised, Informed, Keyed, Producing
  <2>1. Promised(q)
    BY DEF CacheInv
  <2>2. entry.key.generation = lists[q].generation => entry.version >= lists[q].floor
    BY <1>1, <1>11, <2>1 DEF Promised
  <2> QED
    BY <1>1, <1>10, <2>1, <2>2 DEF Promised
<1> QED
  BY <1>10, <1>12, <1>13, <1>14, <1>15 DEF CacheInv

(* Time passes.                                                            *)
LEMMA AdvanceFresh ==
    ASSUME CacheInv, TtlSec \in Nat \ {0}, Cache!Advance
    PROVE  CacheInv'
PROOF
<1>1. /\ CacheTyped /\ InTime /\ NotOlder /\ Told
      /\ clock' = clock + 1 /\ entries' \subseteq entries
      /\ UNCHANGED <<committed, generation, localGeneration, inflight, writes, lists,
                     cacheFaults, announced, slowest>>
  BY DEF CacheInv, Cache!Advance
<1>2. Cache!Newest' = Cache!Newest
  BY <1>1 DEF Cache!Newest
<1>3. CacheTyped'
  BY <1>1, <1>2 DEF CacheTyped
<1>4. InTime'
  BY <1>1, <1>2 DEF InTime, CacheTyped
<1>5. NotOlder'
  <2>1. \A e \in entries : e.expiresAt \in Int
    BY <1>1 DEF CacheTyped, Entry
  <2>2. clock \in Nat /\ slowest \in Nat
    BY <1>1 DEF CacheTyped
  <2> QED
    BY <1>1, <1>2, <2>1, <2>2 DEF NotOlder
<1>6. Told' /\ JobsUnderWay'
  BY <1>1 DEF CacheInv, Told, ShowsAnnounced, JobsUnderWay
<1>7. ASSUME NEW r \in Readers
      PROVE  Placed(r)' /\ Joined(r)' /\ InHand(r)' /\ Promised(r)' /\ Served(r)'
  <2>1. Placed(r) /\ Joined(r) /\ InHand(r) /\ Promised(r) /\ Served(r)
    BY DEF CacheInv
  <2>2. lists[r].since \in Nat /\ lists[r].readAt \in Nat /\ clock \in Nat
    BY <1>1 DEF CacheTyped, Request
  <2>3. Placed(r)' /\ InHand(r)'
    BY <1>1, <1>2, <2>1, <2>2 DEF Placed, InHand
  <2> QED
    BY <1>1, <1>2, <2>1, <2>3 DEF Joined, Promised, Served, Enough
<1> QED
  BY <1>3, <1>4, <1>5, <1>6, <1>7 DEF CacheInv

(* The steps of the cache, together.                                       *)
LEMMA CacheNextFresh ==
    ASSUME CacheInv, [Cache!CacheNext]_Cache!cacheVars, TtlSec \in Nat \ {0}
    PROVE  CacheInv'
PROOF
<1>1. CASE UNCHANGED Cache!cacheVars
  <2>1. UNCHANGED <<committed, generation, localGeneration, entries, inflight, writes,
                    lists, clock, cacheFaults, announced, slowest>>
    BY <1>1 DEF Cache!cacheVars
  <2>2. Cache!Newest' = Cache!Newest
    BY <2>1 DEF Cache!Newest
  <2>3. CacheTyped' /\ InTime' /\ JobsUnderWay' /\ NotOlder' /\ Told'
    BY <2>1, <2>2 DEF CacheInv, CacheTyped, InTime, JobsUnderWay, NotOlder, Told,
                      ShowsAnnounced
  <2>4. \A r \in Readers : Placed(r)' /\ Joined(r)' /\ InHand(r)' /\ Promised(r)' /\ Served(r)'
    BY <2>1, <2>2 DEF CacheInv, Placed, Joined, InHand, Promised, Served, Enough
  <2> QED
    BY <2>3, <2>4 DEF CacheInv
<1> QED
  BY <1>1, CommitFresh, InvalidateFresh, AdvanceGenerationFresh, BeginFresh,
     ReadGenerationFresh, LookUpFresh, GetFresh, LoadFresh, StoreFresh, ForgetFresh,
     AdvanceFresh
  DEF Cache!CacheNext

(* Nothing is cached, and nobody has asked.                                *)
LEMMA CacheStarts ==
    ASSUME Cache!CacheInit
    PROVE  CacheInv
PROOF
<1>1. Cache!Newest = 0
  <2>1. DOMAIN committed = 0..0
    BY DEF Cache!CacheInit
  <2> QED
    BY <2>1, NewestOf DEF Cache!Newest
<1>2. \A r \in Readers : Cache!Idle(r) \in Request
  BY DEF Cache!Idle, Request, Stages
<1>3. /\ committed = [v \in {0} |-> 0] /\ {0} = 0..0 /\ entries = {} /\ clock = 0
      /\ generation = 0 /\ cacheFaults = 0 /\ slowest = 0
      /\ localGeneration = [p \in Servers |-> 0]
      /\ inflight = [p \in Servers |-> {}] /\ writes = [p \in Servers |-> "none"]
      /\ announced = [p \in Servers |-> 0]
      /\ lists = [r \in Readers |-> Cache!Idle(r)]
  BY DEF Cache!CacheInit
<1>4. CacheTyped
  BY <1>1, <1>2, <1>3 DEF CacheTyped
<1>5. \A r \in Readers : lists[r].at = "idle" /\ lists[r].floor = 0 /\ lists[r].since = 0
  BY <1>3 DEF Cache!Idle
<1>6. InTime /\ JobsUnderWay /\ NotOlder
  BY <1>1, <1>3 DEF InTime, JobsUnderWay, NotOlder
<1>7. Told
  BY <1>3, <1>5 DEF Told
<1>8. \A r \in Readers : Placed(r) /\ Joined(r) /\ InHand(r) /\ Promised(r) /\ Served(r)
  BY <1>1, <1>3, <1>5
  DEF Placed, Joined, InHand, Promised, Served, Informed, Keyed, Producing
<1> QED
  BY <1>4, <1>6, <1>7, <1>8 DEF CacheInv

(* "以後のキーを切り替えることで古い一覧を返さない", "Redis の世代が進まなくても    *)
(* TTL で追いつく": for any number of processes and requests, as long as the   *)
(* store works a request that begins after a write was announced to its    *)
(* process shows that write, whatever was loading, stored or joined then;  *)
(* and whatever was lost, a list lacks no write that was committed a TTL,  *)
(* and the longest time a list waited to be stored, before its request.    *)
THEOREM ListsStayFresh ==
    ASSUME TtlSec \in Nat \ {0}
    PROVE  Cache!CacheSpec => []ListsFreshEnough
PROOF
<1>1. Cache!CacheInit => CacheInv
  BY CacheStarts
<1>2. CacheInv /\ [Cache!CacheNext]_Cache!cacheVars => CacheInv'
  BY CacheNextFresh
<1>3. CacheInv => ListsFreshEnough
  <2> SUFFICES ASSUME CacheInv, NEW r \in Cache!Done
               PROVE  /\ cacheFaults = 0 => lists[r].version >= lists[r].floor
                      /\ \A v \in DOMAIN committed :
                            committed[v] <= lists[r].since - TtlSec - slowest =>
                                lists[r].version >= v
    BY DEF ListsFreshEnough, Cache!ListsFreshEnough
  <2>1. r \in Readers /\ lists[r].at = "done"
    BY DEF Cache!Done, CacheInv, CacheTyped
  <2>2. DOMAIN committed = 0..Cache!Newest /\ Enough(r, lists[r].version, slowest)
    BY <2>1 DEF CacheInv, CacheTyped, Served
  <2> QED
    BY <2>2 DEF Enough
<1> QED
  BY <1>1, <1>2, <1>3, PTL DEF Cache!CacheSpec

-----------------------------------------------------------------------------
(* Delegations to Concordia.  That only one is worked on is not inductive: *)
(* work may go on, or begin late, when the request that asked for it is    *)
(* long gone.  The invariant says that its row still holds the place in    *)
(* the index then, since an end is written only after Concordia told it,   *)
(* and work that has not begun has no end to tell.                         *)

(* What has not begun yet will not begin twice, and holds the place.       *)
LateIsToCome ==
    \A d \in late : remote[d] = "none" /\ runs[d].state \in Active

SendingIsToCome ==
    \A c \in Callers : calls[c].at = "sending" =>
        /\ remote[calls[c].id] = "none"
        /\ calls[c].id \notin late
        /\ runs[calls[c].id].state \in Active

SentOnce ==
    \A c, e \in Callers :
        calls[c].at = "sending" /\ calls[e].at = "sending" /\ calls[c].id = calls[e].id => c = e

(* An end that a request is about to record did happen.                    *)
TellsTheTruth ==
    \A c \in Callers : calls[c].at = "telling" /\ calls[c].state \in Ended =>
        remote[calls[c].id] = calls[c].state

FreeIsUnknownToCc == \A d \in Delegations : runs[d].state = "free" => remote[d] = "none"

(* The unique index.                                                       *)
OneHoldsThePlace ==
    \A d, e \in Delegations : runs[d].state \in Active /\ runs[e].state \in Active => d = e

ExecutionInv ==
    /\ ExecutionTypeOK
    /\ EndedAsTold
    /\ LateIsToCome
    /\ SendingIsToCome
    /\ SentOnce
    /\ TellsTheTruth
    /\ FreeIsUnknownToCc
    /\ OneHoldsThePlace

-----------------------------------------------------------------------------
(* A request that is under way knows its delegation. *)
LEMMA UnderWayIsTyped ==
    ASSUME ExecutionTypeOK, NEW c \in Callers, calls[c].at # "idle"
    PROVE  /\ calls[c] \in [at: {"sending", "asking", "telling"}, id: Delegations,
                            runId: BOOLEAN, state: Active \cup Ended, fallback: BOOLEAN]
           /\ calls[c].id \in Delegations
<1>1. calls[c] \in Call
  BY DEF ExecutionTypeOK
<1>2. calls[c] # Idle
  BY DEF Idle
<1> QED
  BY <1>1, <1>2 DEF Call

(* Beginnings are legal. *)
LEMMA ExecutionStarts == ExecutionInit => ExecutionInv
<1> SUFFICES ASSUME ExecutionInit PROVE ExecutionInv
  OBVIOUS
<1>1. \A d \in Delegations : runs[d] = [state |-> "free", runId |-> FALSE] /\ remote[d] = "none"
  BY DEF ExecutionInit
<1>2. \A c \in Callers : calls[c] = Idle /\ calls[c].at = "idle"
  BY DEF ExecutionInit, Idle
<1>3. ExecutionTypeOK
  BY DEF ExecutionInit, ExecutionTypeOK, Run, Call
<1>4. EndedAsTold /\ FreeIsUnknownToCc /\ OneHoldsThePlace
  BY <1>1 DEF EndedAsTold, FreeIsUnknownToCc, OneHoldsThePlace, Ended, Active
<1>5. LateIsToCome
  BY DEF ExecutionInit, LateIsToCome
<1>6. SendingIsToCome /\ SentOnce /\ TellsTheTruth
  BY <1>2 DEF SendingIsToCome, SentOnce, TellsTheTruth
<1> QED
  BY <1>3, <1>4, <1>5, <1>6 DEF ExecutionInv

(* A request that goes on without touching the rows or Concordia leaves    *)
(* the invariant alone if it sends nothing and tells only what happened.   *)
LEMMA RequestMoves ==
    ASSUME ExecutionInv, NEW c \in Callers, NEW call \in Call,
           calls' = [calls EXCEPT ![c] = call], callFaults' \in Nat,
           UNCHANGED <<runs, remote, late>>,
           call.at # "sending",
           call.at = "telling" /\ call.state \in Ended => remote[call.id] = call.state
    PROVE  ExecutionInv'
<1>1. \A e \in Callers : calls'[e] = IF e = c THEN call ELSE calls[e]
  BY DEF ExecutionInv, ExecutionTypeOK
<1>2. ExecutionTypeOK'
  BY DEF ExecutionInv, ExecutionTypeOK
<1>3. (EndedAsTold /\ FreeIsUnknownToCc /\ OneHoldsThePlace /\ LateIsToCome)'
  BY DEF ExecutionInv, EndedAsTold, FreeIsUnknownToCc, OneHoldsThePlace, LateIsToCome
<1>4. SendingIsToCome'
  BY <1>1 DEF ExecutionInv, SendingIsToCome
<1>5. SentOnce'
  BY <1>1 DEF ExecutionInv, SentOnce
<1>6. TellsTheTruth'
  BY <1>1 DEF ExecutionInv, TellsTheTruth
<1> QED
  BY <1>2, <1>3, <1>4, <1>5, <1>6 DEF ExecutionInv

(* Work that had not begun begins, and nobody is about to begin it again.  *)
LEMMA WorkBegins ==
    ASSUME ExecutionInv, NEW d \in Delegations, NEW s \in {"running", "failed"},
           remote[d] = "none", runs[d].state \in Active, d \notin late',
           remote' = [remote EXCEPT ![d] = s], late' \subseteq late, runs' = runs,
           \A e \in Callers : calls'[e].at = "sending" => calls'[e] = calls[e] /\ calls[e].id # d,
           \A e \in Callers : calls'[e].at = "telling" /\ calls'[e].state \in Ended =>
                \/ calls'[e] = calls[e]
                \/ calls'[e].id = d /\ calls'[e].state = s,
           calls' \in [Callers -> Call], callFaults' \in Nat
    PROVE  ExecutionInv'
<1>1. \A e \in Delegations : remote'[e] = IF e = d THEN s ELSE remote[e]
  BY DEF ExecutionInv, ExecutionTypeOK
<1>2. ExecutionTypeOK'
  BY DEF ExecutionInv, ExecutionTypeOK, Ended
<1>3. EndedAsTold'
  <2>1. runs[d].state \notin Ended
    BY DEF Active, Ended
  <2> QED
    BY <1>1, <2>1 DEF ExecutionInv, EndedAsTold
<1>4. FreeIsUnknownToCc' /\ OneHoldsThePlace'
  <2>1. runs[d].state # "free"
    BY DEF Active
  <2> QED
    BY <1>1, <2>1 DEF ExecutionInv, FreeIsUnknownToCc, OneHoldsThePlace
<1>5. LateIsToCome'
  <2>1. late' \subseteq Delegations
    BY DEF ExecutionInv, ExecutionTypeOK
  <2> QED
    BY <1>1, <2>1 DEF ExecutionInv, LateIsToCome
<1>6. SendingIsToCome'
  <2> SUFFICES ASSUME NEW e \in Callers, calls'[e].at = "sending"
               PROVE  /\ remote'[calls[e].id] = "none"
                      /\ calls[e].id \notin late'
                      /\ runs[calls[e].id].state \in Active
    BY DEF SendingIsToCome
  <2>1. calls[e].at = "sending" /\ calls[e].id # d
    OBVIOUS
  <2>2. calls[e].id \in Delegations
    BY <2>1, UnderWayIsTyped DEF ExecutionInv
  <2> QED
    BY <1>1, <2>1, <2>2 DEF ExecutionInv, SendingIsToCome
<1>7. SentOnce'
  BY DEF ExecutionInv, SentOnce
<1>8. TellsTheTruth'
  <2> SUFFICES ASSUME NEW e \in Callers, calls'[e].at = "telling", calls'[e].state \in Ended
               PROVE  remote'[calls'[e].id] = calls'[e].state
    BY DEF TellsTheTruth
  <2>1. CASE calls'[e].id = d /\ calls'[e].state = s
    BY <1>1, <2>1
  <2>2. CASE calls'[e] = calls[e]
    <3>1. calls[e].id \in Delegations
      BY <2>2, UnderWayIsTyped DEF ExecutionInv
    <3>2. remote[calls[e].id] = calls[e].state
      BY <2>2 DEF ExecutionInv, TellsTheTruth
    <3>3. calls[e].id # d
      BY <2>2, <3>2 DEF Ended
    <3> QED
      BY <1>1, <2>2, <3>1, <3>2, <3>3
  <2> QED
    BY <2>1, <2>2
<1> QED
  BY <1>2, <1>3, <1>4, <1>5, <1>6, <1>7, <1>8 DEF ExecutionInv

-----------------------------------------------------------------------------
(* The steps. *)

(* A delegation is reserved.                                               *)
LEMMA ReserveStep == ASSUME ExecutionInv, NEW c \in Callers, Reserve(c) PROVE ExecutionInv'
<1>1. PICK d \in Delegations :
        /\ runs[d].state = "free"
        /\ runs' = [runs EXCEPT ![d] = [state |-> "submitting", runId |-> FALSE]]
        /\ Becomes(c, [Idle EXCEPT !.at = "sending", !.id = d])
  BY DEF Reserve
<1> DEFINE call == [Idle EXCEPT !.at = "sending", !.id = d]
<1>2. call.at = "sending" /\ call.id = d
  BY DEF Idle
<1>3. call \in Call
  BY DEF Idle, Call, Active
<1> HIDE DEF call
<1>4. \A e \in Callers : calls'[e] = IF e = c THEN call ELSE calls[e]
  BY <1>1 DEF ExecutionInv, ExecutionTypeOK, Becomes, call
<1>5. \A e \in Delegations :
        runs'[e] = IF e = d THEN [state |-> "submitting", runId |-> FALSE] ELSE runs[e]
  BY <1>1 DEF ExecutionInv, ExecutionTypeOK
<1>6. \A e \in Delegations : runs[e].state \notin Active
  BY DEF Reserve, Indexed
<1>7. UNCHANGED <<remote, late, callFaults>>
  BY DEF Reserve, NoCallFault
<1>8. late = {} /\ remote[d] = "none"
  <2>1. late \subseteq Delegations
    BY DEF ExecutionInv, ExecutionTypeOK
  <2> QED
    BY <1>1, <1>6, <2>1 DEF ExecutionInv, LateIsToCome, FreeIsUnknownToCc
<1>9. \A e \in Callers : calls[e].at # "sending"
  <2> SUFFICES ASSUME NEW e \in Callers, calls[e].at = "sending" PROVE FALSE
    OBVIOUS
  <2>1. calls[e].id \in Delegations
    BY UnderWayIsTyped DEF ExecutionInv
  <2> QED
    BY <1>6, <2>1 DEF ExecutionInv, SendingIsToCome
<1>10. ExecutionTypeOK'
  <2>1. [state |-> "submitting", runId |-> FALSE] \in Run
    BY DEF Run, Active
  <2>2. runs' \in [Delegations -> Run]
    BY <1>1, <2>1 DEF ExecutionInv, ExecutionTypeOK
  <2>3. calls' \in [Callers -> Call]
    BY <1>1, <1>3 DEF ExecutionInv, ExecutionTypeOK, Becomes, call
  <2> QED
    BY <1>7, <2>2, <2>3 DEF ExecutionInv, ExecutionTypeOK
<1>11. EndedAsTold' /\ FreeIsUnknownToCc' /\ OneHoldsThePlace'
  BY <1>5, <1>6, <1>7 DEF ExecutionInv, EndedAsTold, FreeIsUnknownToCc, OneHoldsThePlace, Ended
<1>12. LateIsToCome'
  BY <1>7, <1>8 DEF LateIsToCome
<1>13. SendingIsToCome' /\ SentOnce'
  <2>1. \A e \in Callers : calls'[e].at = "sending" => e = c /\ calls'[e].id = d
    BY <1>2, <1>4, <1>9
  <2>2. runs'[d].state \in Active
    BY <1>5 DEF Active
  <2> QED
    BY <1>7, <1>8, <2>1, <2>2 DEF SendingIsToCome, SentOnce
<1>14. TellsTheTruth'
  BY <1>2, <1>4, <1>7 DEF ExecutionInv, TellsTheTruth
<1> QED
  BY <1>10, <1>11, <1>12, <1>13, <1>14 DEF ExecutionInv

(* What was observed is written.                                           *)
LEMMA TellStep == ASSUME ExecutionInv, NEW c \in Callers, Tell(c) PROVE ExecutionInv'
<1> DEFINE d == calls[c].id
<1>1. calls[c].at = "telling" /\ d \in Delegations /\ calls[c].state \in Active \cup Ended
      /\ calls[c].runId \in BOOLEAN
  BY UnderWayIsTyped DEF Tell, ExecutionInv
<1>2. \A e \in Delegations : runs'[e] =
        IF e = d /\ runs[e].state \in Active
        THEN [state |-> calls[c].state, runId |-> calls[c].runId] ELSE runs[e]
  BY DEF Tell, Observable
<1>3. UNCHANGED <<remote, late, callFaults>>
  BY DEF Tell, NoCallFault
<1>4. \A e \in Callers : calls'[e] = IF e = c THEN Idle ELSE calls[e]
  BY DEF Tell, Becomes, ExecutionInv, ExecutionTypeOK
<1>5. calls[c].state \in Ended => remote[d] = calls[c].state
  BY <1>1 DEF ExecutionInv, TellsTheTruth
<1>6. ExecutionTypeOK'
  <2>1. runs' \in [Delegations -> Run]
    <3>1. [state |-> calls[c].state, runId |-> calls[c].runId] \in Run
      BY <1>1 DEF Run
    <3> QED
      BY <3>1 DEF Tell, ExecutionInv, ExecutionTypeOK
  <2>2. calls' \in [Callers -> Call]
    BY DEF Tell, Becomes, ExecutionInv, ExecutionTypeOK, Call
  <2> QED
    BY <1>3, <2>1, <2>2 DEF ExecutionInv, ExecutionTypeOK
<1>7. \A e \in Delegations : remote[e] = "none" /\ runs[e].state \in Active =>
        runs'[e].state \in Active
  BY <1>1, <1>2, <1>5 DEF Ended, Active
<1>8. EndedAsTold'
  BY <1>2, <1>3, <1>5 DEF ExecutionInv, EndedAsTold
<1>9. FreeIsUnknownToCc'
  <2>1. calls[c].state # "free"
    BY <1>1 DEF Active, Ended
  <2> QED
    BY <1>2, <1>3, <2>1 DEF ExecutionInv, FreeIsUnknownToCc
<1>10. OneHoldsThePlace'
  <2>1. \A e \in Delegations : runs'[e].state \in Active => runs[e].state \in Active
    BY <1>2
  <2> QED
    BY <2>1 DEF ExecutionInv, OneHoldsThePlace
<1>11. LateIsToCome'
  <2>1. late \subseteq Delegations
    BY DEF ExecutionInv, ExecutionTypeOK
  <2> QED
    BY <1>3, <1>7, <2>1 DEF ExecutionInv, LateIsToCome
<1>12. \A e \in Callers : calls'[e].at # "idle" => calls'[e] = calls[e]
  BY <1>4 DEF Idle
<1>13. SendingIsToCome'
  <2> SUFFICES ASSUME NEW e \in Callers, calls'[e].at = "sending"
               PROVE  /\ remote[calls[e].id] = "none"
                      /\ calls[e].id \notin late
                      /\ runs'[calls[e].id].state \in Active
    BY <1>3, <1>12 DEF SendingIsToCome
  <2>1. calls[e].at = "sending" /\ calls[e].id \in Delegations
    BY <1>12, UnderWayIsTyped DEF ExecutionInv
  <2> QED
    BY <1>7, <2>1 DEF ExecutionInv, SendingIsToCome
<1>14. SentOnce' /\ TellsTheTruth'
  BY <1>3, <1>12 DEF ExecutionInv, SentOnce, TellsTheTruth
<1> QED
  BY <1>6, <1>8, <1>9, <1>10, <1>11, <1>13, <1>14 DEF ExecutionInv

(* The request that is left when the outcome is not known. *)
LEMMA UnansweredIsCall ==
    ASSUME ExecutionTypeOK, NEW c \in Callers, calls[c].at # "idle"
    PROVE  LET call == [calls[c] EXCEPT !.at = "telling", !.runId = FALSE, !.state = "unknown",
                                        !.fallback = FALSE]
           IN  call \in Call /\ call.at = "telling" /\ call.state = "unknown"
BY UnderWayIsTyped DEF Call, Active

(* The call to Concordia, once.                                            *)
LEMMA SendStep == ASSUME ExecutionInv, NEW c \in Callers, Send(c) PROVE ExecutionInv'
<1> DEFINE d == calls[c].id
           given == [calls[c] EXCEPT !.at = "telling", !.runId = FALSE, !.state = "unknown",
                                     !.fallback = FALSE]
<1>1. calls[c].at = "sending" /\ d \in Delegations /\ runs' = runs
  BY UnderWayIsTyped DEF Send, ExecutionInv
<1>2. remote[d] = "none" /\ d \notin late /\ runs[d].state \in Active
  BY <1>1 DEF ExecutionInv, SendingIsToCome
<1>3. given \in Call /\ given.at = "telling" /\ given.state = "unknown"
  BY <1>1, UnansweredIsCall DEF ExecutionInv
<1>4. \A e \in Callers : calls[e].at = "sending" /\ e # c => calls[e].id # d
  BY <1>1 DEF ExecutionInv, SentOnce
<1>5. callFaults \in Nat /\ calls \in [Callers -> Call]
  BY DEF ExecutionInv, ExecutionTypeOK
<1>6. CASE /\ Starts(d) /\ NoCallFault /\ UNCHANGED late
           /\ Becomes(c, [calls[c] EXCEPT !.at = "telling", !.runId = TRUE, !.state = remote'[d],
                                       !.fallback = TRUE])
  <2>1. PICK s \in {"running", "failed"} : remote' = [remote EXCEPT ![d] = s]
    BY <1>6 DEF Starts
  <2>2. remote'[d] = s
    BY <1>1, <2>1 DEF ExecutionInv, ExecutionTypeOK
  <2> DEFINE call == [calls[c] EXCEPT !.at = "telling", !.runId = TRUE, !.state = s,
                                      !.fallback = TRUE]
  <2>3. call \in Call /\ call.at = "telling" /\ call.id = d /\ call.state = s
    BY <1>1, UnderWayIsTyped DEF Call, Active, Ended, ExecutionInv
  <2>4. calls' = [calls EXCEPT ![c] = call]
    BY <1>6, <2>2 DEF Becomes
  <2> HIDE DEF call
  <2>5. calls' \in [Callers -> Call]
    BY <1>5, <2>3, <2>4
  <2>6. \A e \in Callers : calls'[e] = IF e = c THEN call ELSE calls[e]
    BY <1>5, <2>4
  <2> QED
    <3>1. d \notin late' /\ late' \subseteq late /\ callFaults' \in Nat
      BY <1>2, <1>5, <1>6 DEF NoCallFault
    <3>2. \A e \in Callers :
            calls'[e].at = "sending" => calls'[e] = calls[e] /\ calls[e].id # d
      BY <1>4, <2>3, <2>6
    <3>3. \A e \in Callers : calls'[e].at = "telling" /\ calls'[e].state \in Ended =>
            \/ calls'[e] = calls[e]
            \/ calls'[e].id = d /\ calls'[e].state = s
      BY <2>3, <2>6
    <3> HIDE DEF d
    <3> QED
      BY <1>1, <1>2, <2>1, <2>5, <3>1, <3>2, <3>3, WorkBegins
<1>7. CASE Starts(d) /\ Unanswered(c) /\ CallFault /\ UNCHANGED late
  <2>1. PICK s \in {"running", "failed"} : remote' = [remote EXCEPT ![d] = s]
    BY <1>7 DEF Starts
  <2>2. calls' = [calls EXCEPT ![c] = given]
    BY <1>7 DEF Unanswered, Becomes
  <2> HIDE DEF given
  <2>3. calls' \in [Callers -> Call]
    BY <1>3, <1>5, <2>2
  <2>4. \A e \in Callers : calls'[e] = IF e = c THEN given ELSE calls[e]
    BY <1>5, <2>2
  <2>5. given.state \notin Ended
    BY <1>3 DEF Ended
  <2>6. callFaults' \in Nat
    BY <1>5, <1>7 DEF CallFault
  <2>7. d \notin late' /\ late' \subseteq late
    BY <1>2, <1>7
  <2>8. \A e \in Callers :
          calls'[e].at = "sending" => calls'[e] = calls[e] /\ calls[e].id # d
    BY <1>3, <1>4, <2>4
  <2>9. \A e \in Callers :
          calls'[e].at = "telling" /\ calls'[e].state \in Ended => calls'[e] = calls[e]
    BY <2>4, <2>5
  <2> HIDE DEF d
  <2> QED
    BY <1>1, <1>2, <2>1, <2>3, <2>6, <2>7, <2>8, <2>9, WorkBegins
<1>8. CASE late' = late \cup {d} /\ Unanswered(c) /\ CallFault /\ UNCHANGED remote
  <2>1. calls' = [calls EXCEPT ![c] = given]
    BY <1>8 DEF Unanswered, Becomes
  <2> HIDE DEF given
  <2>2. \A e \in Callers : calls'[e] = IF e = c THEN given ELSE calls[e]
    BY <1>5, <2>1
  <2>3. given.state \notin Ended
    BY <1>3 DEF Ended
  <2>4. callFaults' \in Nat
    BY <1>5, <1>8 DEF CallFault
  <2>5. ExecutionTypeOK'
    BY <1>1, <1>3, <1>8, <2>1, <2>4 DEF ExecutionInv, ExecutionTypeOK
  <2>6. (EndedAsTold /\ FreeIsUnknownToCc /\ OneHoldsThePlace)'
    BY <1>1, <1>8 DEF ExecutionInv, EndedAsTold, FreeIsUnknownToCc, OneHoldsThePlace
  <2>7. LateIsToCome'
    BY <1>1, <1>2, <1>8 DEF ExecutionInv, LateIsToCome
  <2>8. SendingIsToCome'
    BY <1>1, <1>3, <1>4, <1>8, <2>2 DEF ExecutionInv, SendingIsToCome
  <2>9. SentOnce' /\ TellsTheTruth'
    BY <1>3, <1>8, <2>2, <2>3 DEF ExecutionInv, SentOnce, TellsTheTruth
  <2> QED
    BY <2>5, <2>6, <2>7, <2>8, <2>9 DEF ExecutionInv
<1>9. CASE Unanswered(c) /\ CallFault /\ UNCHANGED <<remote, late>>
  <2>1. calls' = [calls EXCEPT ![c] = given]
    BY <1>9 DEF Unanswered, Becomes
  <2> HIDE DEF given
  <2>2. given.state \notin Ended
    BY <1>3 DEF Ended
  <2>3. callFaults' \in Nat
    BY <1>5, <1>9 DEF CallFault
  <2> QED
    BY <1>1, <1>3, <1>9, <2>1, <2>2, <2>3, RequestMoves
<1> QED
  BY <1>6, <1>7, <1>8, <1>9 DEF Send

(* Requests that end. *)
LEMMA IdleIsCall == Idle \in Call /\ Idle.at = "idle"
BY DEF Idle, Call

(* What was observed cannot be written.                                    *)
LEMMA TellFailsStep == ASSUME ExecutionInv, NEW c \in Callers, TellFails(c) PROVE ExecutionInv'
<1>1. callFaults' \in Nat
  BY DEF TellFails, CallFault, ExecutionInv, ExecutionTypeOK
<1>2. UNCHANGED <<runs, remote, late>>
  BY DEF TellFails
<1>3. CASE Unanswered(c)
  <2> DEFINE given == [calls[c] EXCEPT !.at = "telling", !.runId = FALSE, !.state = "unknown",
                                       !.fallback = FALSE]
  <2>1. given \in Call /\ given.at = "telling" /\ given.state = "unknown"
    BY UnansweredIsCall DEF ExecutionInv, TellFails
  <2>2. calls' = [calls EXCEPT ![c] = given]
    BY <1>3 DEF Unanswered, Becomes
  <2> HIDE DEF given
  <2>3. given.state \notin Ended
    BY <2>1 DEF Ended
  <2> QED
    BY <1>1, <1>2, <2>1, <2>2, <2>3, RequestMoves
<1>4. CASE Becomes(c, Idle)
  BY <1>1, <1>2, <1>4, IdleIsCall, RequestMoves DEF Becomes
<1> QED
  BY <1>3, <1>4 DEF TellFails

(* A request looks at an active delegation.                                *)
LEMMA LookStep == ASSUME ExecutionInv, NEW c \in Callers, Look(c) PROVE ExecutionInv'
<1>1. PICK d \in Delegations :
        Becomes(c, [Idle EXCEPT !.at = "asking", !.id = d, !.runId = runs[d].runId])
  BY DEF Look
<1> DEFINE call == [Idle EXCEPT !.at = "asking", !.id = d, !.runId = runs[d].runId]
<1>2. runs[d].runId \in BOOLEAN
  BY DEF ExecutionInv, ExecutionTypeOK, Run
<1>3. call \in Call /\ call.at = "asking"
  BY <1>2 DEF Idle, Call, Active
<1> HIDE DEF call
<1>4. calls' = [calls EXCEPT ![c] = call]
  BY <1>1 DEF Becomes, call
<1>5. callFaults' \in Nat
  BY DEF Look, NoCallFault, ExecutionInv, ExecutionTypeOK
<1> QED
  BY <1>3, <1>4, <1>5, RequestMoves DEF Look

(* A request compares it with Concordia.                                   *)
LEMMA AskStep == ASSUME ExecutionInv, NEW c \in Callers, Ask(c) PROVE ExecutionInv'
<1> DEFINE d == calls[c].id
           answer(known, state) ==
               [calls[c] EXCEPT !.at = "telling", !.runId = known, !.state = state]
<1>1. calls[c].at = "asking" /\ d \in Delegations /\ UNCHANGED <<runs, remote, late>>
  BY UnderWayIsTyped DEF Ask, ExecutionInv
<1>2. \A known \in BOOLEAN, state \in Active \cup Ended :
        /\ answer(known, state) \in Call
        /\ answer(known, state).at = "telling"
        /\ answer(known, state).id = d
        /\ answer(known, state).state = state
  BY <1>1, UnderWayIsTyped DEF ExecutionInv, Call
<1>3. callFaults \in Nat
  BY DEF ExecutionInv, ExecutionTypeOK
<1>4. CASE remote[d] # "none" /\ Becomes(c, answer(TRUE, remote[d])) /\ NoCallFault
  <2>1. remote[d] \in Active \cup Ended
    BY <1>1, <1>4 DEF ExecutionInv, ExecutionTypeOK, Active
  <2> DEFINE call == answer(TRUE, remote[d])
  <2>2. calls' = [calls EXCEPT ![c] = call]
    BY <1>4 DEF Becomes
  <2>3. call \in Call /\ call.at = "telling" /\ call.id = d /\ call.state = remote[d]
    BY <1>2, <2>1
  <2>4. callFaults' \in Nat
    BY <1>3, <1>4 DEF NoCallFault
  <2> HIDE DEF call
  <2> QED
    BY <1>1, <2>2, <2>3, <2>4, RequestMoves
<1>5. CASE Becomes(c, answer(FALSE, "unknown")) /\ NoCallFault
  <2>1. "unknown" \in Active /\ "unknown" \notin Ended
    BY DEF Active, Ended
  <2> DEFINE call == answer(FALSE, "unknown")
  <2>2. calls' = [calls EXCEPT ![c] = call]
    BY <1>5 DEF Becomes
  <2>3. call \in Call /\ call.at = "telling" /\ call.state \notin Ended
    BY <1>2, <2>1
  <2>4. callFaults' \in Nat
    BY <1>3, <1>5 DEF NoCallFault
  <2> HIDE DEF call
  <2> QED
    BY <1>1, <2>2, <2>3, <2>4, RequestMoves
<1>6. CASE Becomes(c, Idle) /\ CallFault
  <2>1. callFaults' \in Nat
    BY <1>3, <1>6 DEF CallFault
  <2> QED
    BY <1>1, <1>6, <2>1, IdleIsCall, RequestMoves DEF Becomes
<1> QED
  BY <1>4, <1>5, <1>6 DEF Ask

(* A request is cut off.                                                   *)
LEMMA CrashStep == ASSUME ExecutionInv, NEW c \in Callers, CallerDies(c) PROVE ExecutionInv'
<1>1. callFaults' \in Nat
  BY DEF CallerDies, CallFault, ExecutionInv, ExecutionTypeOK
<1> QED
  BY <1>1, IdleIsCall, RequestMoves DEF CallerDies, Becomes

(* A lost call arrives late.                                               *)
LEMMA ArriveStep == ASSUME ExecutionInv, Arrive PROVE ExecutionInv'
<1>1. PICK d \in late : Starts(d) /\ late' = late \ {d}
  BY DEF Arrive
<1>2. PICK s \in {"running", "failed"} : remote' = [remote EXCEPT ![d] = s]
  BY <1>1 DEF Starts
<1>3. d \in Delegations /\ remote[d] = "none" /\ runs[d].state \in Active
  BY DEF ExecutionInv, ExecutionTypeOK, LateIsToCome
<1>4. \A e \in Callers : calls[e].at = "sending" => calls[e].id # d
  BY DEF ExecutionInv, SendingIsToCome
<1>5. calls' = calls /\ runs' = runs /\ calls' \in [Callers -> Call] /\ callFaults' \in Nat
  BY DEF Arrive, ExecutionInv, ExecutionTypeOK
<1> QED
  BY <1>1, <1>2, <1>3, <1>4, <1>5, WorkBegins

(* A run ends.                                                             *)
LEMMA RunEndsStep == ASSUME ExecutionInv, RunEnds PROVE ExecutionInv'
<1>1. PICK d \in Delegations, s \in Ended :
        remote[d] = "running" /\ remote' = [remote EXCEPT ![d] = s]
  BY DEF RunEnds
<1>2. UNCHANGED <<runs, late, calls, callFaults>>
  BY DEF RunEnds
<1>3. \A e \in Delegations : remote'[e] = IF e = d THEN s ELSE remote[e]
  BY <1>1 DEF ExecutionInv, ExecutionTypeOK
<1>4. ExecutionTypeOK'
  BY <1>1, <1>2 DEF ExecutionInv, ExecutionTypeOK
<1>5. EndedAsTold' /\ FreeIsUnknownToCc' /\ OneHoldsThePlace'
  BY <1>1, <1>2, <1>3 DEF ExecutionInv, EndedAsTold, FreeIsUnknownToCc, OneHoldsThePlace, Ended
<1>6. LateIsToCome'
  <2>1. late \subseteq Delegations
    BY DEF ExecutionInv, ExecutionTypeOK
  <2> QED
    BY <1>1, <1>2, <1>3, <2>1 DEF ExecutionInv, LateIsToCome
<1>7. \A e \in Callers : calls[e].at # "idle" => calls[e].id \in Delegations
  BY UnderWayIsTyped DEF ExecutionInv
<1>8. SendingIsToCome' /\ SentOnce'
  BY <1>1, <1>2, <1>3, <1>7 DEF ExecutionInv, SendingIsToCome, SentOnce
<1>9. TellsTheTruth'
  BY <1>1, <1>2, <1>3, <1>7 DEF ExecutionInv, TellsTheTruth, Ended
<1> QED
  BY <1>4, <1>5, <1>6, <1>8, <1>9 DEF ExecutionInv

(* Every step keeps the delegations as they should be.                     *)
LEMMA NextIInv == ExecutionInv /\ [ExecutionNext]_executionVars => ExecutionInv'
<1> SUFFICES ASSUME ExecutionInv, [ExecutionNext]_executionVars PROVE ExecutionInv'
  OBVIOUS
<1>1. CASE \E c \in Callers :
        Reserve(c) \/ Send(c) \/ Look(c) \/ Ask(c) \/ Tell(c) \/ TellFails(c) \/ CallerDies(c)
  BY <1>1, ReserveStep, SendStep, LookStep, AskStep, TellStep, TellFailsStep, CrashStep
<1>2. CASE Arrive \/ RunEnds
  BY <1>2, ArriveStep, RunEndsStep
<1>3. CASE UNCHANGED executionVars
  BY <1>3 DEF executionVars, ExecutionInv, ExecutionTypeOK, EndedAsTold, LateIsToCome,
              SendingIsToCome, SentOnce, TellsTheTruth, FreeIsUnknownToCc, OneHoldsThePlace
<1> QED
  BY <1>1, <1>2, <1>3 DEF ExecutionNext

-----------------------------------------------------------------------------
(* Theorems. *)

(* The inductive invariant: whatever is done at Concordia, or may yet be,  *)
(* has a row that holds the one place (execution-store.ts,                 *)
(* execution-routes.ts).                                                   *)
THEOREM ExecutionInvariance == ExecutionSpec => []ExecutionInv
<1> QED
  BY ExecutionStarts, NextIInv, PTL DEF ExecutionSpec

(* The rows and the requests keep their types.                             *)
THEOREM ExecutionTypeCorrect == ExecutionSpec => []ExecutionTypeOK
<1>1. ExecutionInv => ExecutionTypeOK
  BY DEF ExecutionInv
<1> QED
  BY <1>1, ExecutionInvariance, PTL

(* Work that goes on, or may yet begin, has an active row. *)
LEMMA UnderWayIsActive ==
    ASSUME ExecutionInv, NEW d \in Delegations, UnderWay(d) PROVE runs[d].state \in Active
<1>1. CASE remote[d] = "running"
  <2>1. runs[d].state \notin Ended
    BY <1>1 DEF ExecutionInv, EndedAsTold, Ended
  <2>2. runs[d].state # "free"
    BY <1>1 DEF ExecutionInv, FreeIsUnknownToCc
  <2>3. runs[d].state \in Active \cup Ended \cup {"free"}
    BY DEF ExecutionInv, ExecutionTypeOK, Run
  <2> QED
    BY <2>1, <2>2, <2>3
<1>2. CASE d \in late
  BY <1>2 DEF ExecutionInv, LateIsToCome
<1>3. CASE \E c \in Callers : calls[c].at = "sending" /\ calls[c].id = d
  BY <1>3 DEF ExecutionInv, SendingIsToCome
<1> QED
  BY <1>1, <1>2, <1>3 DEF UnderWay

(* A row that has ended is written no more. *)
LEMMA EndedRowStays ==
    ASSUME ExecutionInv, [ExecutionNext]_executionVars,
           NEW d \in Delegations, runs[d].state \in Ended
    PROVE  runs'[d] = runs[d]
<1>1. runs[d].state \notin Active /\ runs[d].state # "free"
  BY DEF Active, Ended
<1>2. ASSUME NEW c \in Callers, Reserve(c) PROVE runs'[d] = runs[d]
  BY <1>1, <1>2 DEF Reserve, ExecutionInv, ExecutionTypeOK
<1>3. ASSUME NEW c \in Callers, Tell(c) PROVE runs'[d] = runs[d]
  BY <1>1, <1>3 DEF Tell, Observable
<1>4. CASE \E c \in Callers : Send(c) \/ Look(c) \/ Ask(c) \/ TellFails(c) \/ CallerDies(c)
  BY <1>4 DEF Send, Look, Ask, TellFails, CallerDies
<1>5. CASE Arrive \/ RunEnds \/ UNCHANGED executionVars
  BY <1>5 DEF Arrive, RunEnds, executionVars
<1> QED
  BY <1>2, <1>3, <1>4, <1>5 DEF ExecutionNext

(* No two delegations of a project are worked on at once, a delegation is  *)
(* called ended only as Concordia ended it, and an old answer revives none *)
(* (execution-store.ts, execution-routes.ts).                              *)
THEOREM OneExecution == ExecutionSpec => ExecutionKept
<1>1. ExecutionInv => OneUnderWay /\ EndedAsTold
  <2>1. ExecutionInv => OneUnderWay
    <3> SUFFICES ASSUME ExecutionInv, NEW d \in Delegations, NEW e \in Delegations,
                        UnderWay(d), UnderWay(e)
                 PROVE  d = e
      BY DEF OneUnderWay
    <3>1. runs[d].state \in Active /\ runs[e].state \in Active
      BY UnderWayIsActive
    <3> QED
      BY <3>1 DEF ExecutionInv, OneHoldsThePlace
  <2> QED
    BY <2>1 DEF ExecutionInv
<1>2. ExecutionInv /\ [ExecutionNext]_executionVars =>
        [\A d \in Delegations : runs[d].state \in Ended => runs'[d] = runs[d]]_executionVars
  BY EndedRowStays
<1> QED
  BY <1>1, <1>2, ExecutionInvariance, PTL DEF ExecutionSpec, ExecutionKept, EndedStays

-----------------------------------------------------------------------------
(* The projects of Concordia.  A tick promises a code and teams to every   *)
(* task; the invariant says, phase by phase, which job still to do will    *)
(* keep what is not yet kept, and that the copy is not ahead of the tasks. *)

ProjectPhases == {"rename", "bind", "record", "remove", "done", "failed"}
Project == [teams: SUBSET Teams, renamedFrom: SUBSET Codes]
Renaming == [from: Codes, to: Codes]
Binding == [code: Codes, team: Teams]

ProjectTyped ==
    /\ registry \in [Codes -> Project \cup {None}]
    /\ naming \in [NamingTasks -> [project: Codes \cup {None}, team: Teams \cup {None}]]
    /\ tick \in [at: ProjectPhases, projects: [Codes -> Project \cup {None}],
                 todo: SUBSET (Renaming \cup Binding \cup Codes),
                 picked: SUBSET ((Renaming \cup Binding) \X NamingTasks),
                 bindings: SUBSET Binding]
    /\ namings \in [Namers -> [task: NamingTasks, project: Codes \cup {None, "unsaid"},
                               team: Teams \cup {None, "unsaid"}] \cup {None}]
    /\ owing \in [NamingTasks -> [code: Codes \cup {None}, teams: SUBSET Teams] \cup {None}]

Owed == {t \in NamingTasks : owing[t] # None}

(* Renames lead from codes that are no more to codes that are; an old code *)
(* goes to one project only.                                               *)
JobsStand ==
    /\ tick.at = "rename" =>
        /\ tick.todo \subseteq Renaming
        /\ \A j \in tick.todo : j.from \notin Projects!Listed(tick.projects)
                             /\ j.to \in Projects!Listed(tick.projects)
        /\ \A i, j \in tick.todo : i.from = j.from => i.to = j.to
    /\ tick.at = "bind" => tick.todo \subseteq tick.bindings

(* What is picked belongs to one job, and holds every task promised        *)
(* something that the job is about.                                        *)
PickedStand ==
    /\ tick.picked # {} => tick.at \in {"rename", "bind"}
    /\ \A x, y \in tick.picked : x[1] \in tick.todo /\ x[1] = y[1]
    /\ tick.at = "rename" => \A x \in tick.picked, t \in Owed :
        naming[t].project = x[1].from <=> <<x[1], t>> \in tick.picked
    /\ tick.at = "bind" => \A x \in tick.picked, t \in Owed :
        naming[t].project = x[1].code /\ naming[t].team = None => <<x[1], t>> \in tick.picked

HasCode(t) == naming[t].project = owing[t].code

(* A task has the code promised, or a rename still to do leads to it; none *)
(* leads away from it.                                                     *)
CodeComes(t) ==
    /\ \A j \in tick.todo : j.from # owing[t].code
    /\ \/ HasCode(t)
       \/ \E j \in tick.todo : j.from = naming[t].project /\ j.to = owing[t].code

(* A task has a team, or a job among these gives it the one promised.      *)
TeamComes(t, jobs) ==
    \A team \in owing[t].teams :
        naming[t].team # None \/ [code |-> owing[t].code, team |-> team] \in jobs

NotCopied(t) == \A team \in owing[t].teams : Projects!TeamsBefore(owing[t].code) # {team}

PromisesStand ==
    \A t \in Owed :
        /\ tick.at = "rename" => CodeComes(t) /\ TeamComes(t, tick.bindings) /\ NotCopied(t)
        /\ tick.at = "bind" => HasCode(t) /\ TeamComes(t, tick.todo) /\ NotCopied(t)
        /\ tick.at \in {"record", "remove", "done"} => HasCode(t) /\ TeamComes(t, {})
        /\ tick.at = "failed" => TeamComes(t, {}) \/ NotCopied(t)

ProjectInv == ProjectTyped /\ JobsStand /\ PickedStand /\ PromisesStand

(* Between ticks the invariant is the property.                            *)
LEMMA PromisesKept == ProjectInv => TasksFollow
BY DEF ProjectInv, ProjectTyped, PromisesStand, Owed, HasCode, TeamComes, NotCopied,
       TasksFollow, Projects!TasksFollow

(* What nobody has begun, nobody was promised.                             *)
LEMMA ProjectStarts == Projects!ProjectInit => ProjectInv
<1> SUFFICES ASSUME Projects!ProjectInit PROVE ProjectInv
  OBVIOUS
<1> USE DEF Projects!ProjectInit
<1>1. \A t \in NamingTasks : owing[t] = None
  OBVIOUS
<1>2. /\ tick.at = "done" /\ tick.picked = {} /\ tick.todo = {}
      /\ tick \in [at: ProjectPhases, projects: [Codes -> Project \cup {None}],
                   todo: SUBSET (Renaming \cup Binding \cup Codes),
                   picked: SUBSET ((Renaming \cup Binding) \X NamingTasks),
                   bindings: SUBSET Binding]
  BY DEF Projects!Resting, ProjectPhases
<1>3. registry \in [Codes -> Project \cup {None}]
  BY DEF Project
<1>4. ProjectTyped
  BY <1>2, <1>3 DEF ProjectTyped
<1> QED
  BY <1>1, <1>2, <1>4 DEF ProjectInv, JobsStand, PickedStand, PromisesStand, Owed

(* What Concordia does changes nothing here.                               *)
LEMMA ChangesStand ==
    ASSUME ProjectInv, registry' \in [Codes -> Project \cup {None}], Projects!Change
    PROVE  ProjectInv'
BY DEF ProjectInv, ProjectTyped, JobsStand, PickedStand, PromisesStand, Owed, HasCode,
       CodeComes, TeamComes, NotCopied, Projects!TeamsBefore, Projects!Change

(* Concordia changes a project or its teams.                               *)
LEMMA ConcordiaStands ==
    ASSUME ProjectInv, NEW c \in Codes,
           \/ \E teams \in SUBSET Teams : Projects!AssignTeams(c, teams)
           \/ \E new \in Codes : Projects!RenameCode(c, new)
           \/ Projects!Register(c) \/ Projects!Unregister(c)
    PROVE  ProjectInv'
<1>1. Projects!Change
  BY DEF Projects!AssignTeams, Projects!RenameCode, Projects!Register, Projects!Unregister
<1>2. registry \in [Codes -> Project \cup {None}]
      /\ \A x \in Projects!Registered : registry[x] \in Project
  BY DEF ProjectInv, ProjectTyped, Projects!Registered
<1>3. ASSUME NEW teams \in SUBSET Teams, Projects!AssignTeams(c, teams)
      PROVE  registry' \in [Codes -> Project \cup {None}]
  BY <1>2, <1>3 DEF Projects!AssignTeams, Project
<1>4. ASSUME NEW new \in Codes, Projects!RenameCode(c, new)
      PROVE  registry' \in [Codes -> Project \cup {None}]
  <2>1. [registry[c] EXCEPT !.renamedFrom = (@ \cup {c}) \ {new}] \in Project
    BY <1>2, <1>4 DEF Projects!RenameCode, Project
  <2> QED
    BY <1>2, <1>4, <2>1 DEF Projects!RenameCode
<1>5. ASSUME Projects!Register(c) \/ Projects!Unregister(c)
      PROVE  registry' \in [Codes -> Project \cup {None}]
  BY <1>2, <1>5 DEF Projects!Register, Projects!Unregister, Project
<1> QED
  BY <1>1, <1>3, <1>4, <1>5, ChangesStand

(* A tick begins with jobs for all that it promises.                       *)
LEMMA FetchStands == ASSUME ProjectInv, Projects!Fetch PROVE ProjectInv'
<1>1. PICK renames \in Projects!Renames(registry) :
        /\ tick' = [at |-> "rename", projects |-> registry, picked |-> {},
                    todo |-> {[from |-> old, to |-> renames[old]] : old \in DOMAIN renames},
                    bindings |-> Projects!Bindings(registry)]
        /\ owing' = [t \in NamingTasks |->
                Projects!Owing(t, renames, Projects!Bindings(registry))]
  BY DEF Projects!Fetch
<1>2. UNCHANGED <<registry, refs, naming, namings>>
  BY DEF Projects!Fetch
<1> DEFINE old(t) == naming[t].project
           code(t) == IF old(t) \in DOMAIN renames THEN renames[old(t)] ELSE old(t)
           bindings == Projects!Bindings(registry)
           listed == Projects!Listed(registry)
<1>3. /\ renames \in [Projects!OldCodes(registry) -> listed]
      /\ \A c \in DOMAIN renames : c \in Codes /\ c \notin listed /\ renames[c] \in listed
      /\ listed \subseteq Codes
  BY DEF Projects!Renames, Projects!OldCodes, Projects!Listed, ProjectInv, ProjectTyped, Project
<1>4. /\ bindings \subseteq Binding
      /\ \A b \in bindings : Projects!TeamsBefore(b.code) # {b.team}
  BY DEF Projects!Bindings, Projects!Listed, Binding
<1>5. \A t \in NamingTasks :
        /\ owing'[t].code = code(t)
        /\ owing'[t].teams \subseteq {b.team : b \in {x \in bindings : x.code = code(t)}}
        /\ owing'[t] \in [code: Codes \cup {None}, teams: SUBSET Teams]
  <2> TAKE t \in NamingTasks
  <2>1. owing'[t] = Projects!Owing(t, renames, bindings)
    BY <1>1
  <2>2. code(t) \in Codes \cup {None}
    BY <1>3 DEF ProjectInv, ProjectTyped
  <2>3. /\ owing'[t].code = code(t)
        /\ owing'[t].teams = IF naming[t].team = None
                             THEN {b.team : b \in {x \in bindings : x.code = code(t)}} ELSE {}
        /\ owing'[t] = [code |-> owing'[t].code, teams |-> owing'[t].teams]
    BY <2>1 DEF Projects!Owing
  <2>4. {b.team : b \in {x \in bindings : x.code = code(t)}} \subseteq Teams
    BY <1>4 DEF Binding
  <2> QED
    BY <2>2, <2>3, <2>4
<1>6. /\ tick'.at = "rename" /\ tick'.picked = {} /\ tick'.projects = registry
      /\ tick'.bindings = bindings
      /\ \A j \in tick'.todo : j \in Renaming /\ j.from \notin listed /\ j.to \in listed
                            /\ j.from \in DOMAIN renames /\ j.to = renames[j.from]
      /\ \A c \in DOMAIN renames : [from |-> c, to |-> renames[c]] \in tick'.todo
  BY <1>1, <1>3 DEF Renaming
<1>7. ProjectTyped'
  <2>1. tick' \in [at: ProjectPhases, projects: [Codes -> Project \cup {None}],
                   todo: SUBSET (Renaming \cup Binding \cup Codes),
                   picked: SUBSET ((Renaming \cup Binding) \X NamingTasks),
                   bindings: SUBSET Binding]
    <3>1. tick'.todo \subseteq Renaming \cup Binding \cup Codes
      BY <1>6
    <3> QED
      BY <1>1, <1>4, <1>6, <3>1 DEF ProjectPhases, ProjectInv, ProjectTyped
  <2> QED
    BY <1>1, <1>2, <1>5, <2>1 DEF ProjectInv, ProjectTyped
<1>8. JobsStand' /\ PickedStand'
  BY <1>6 DEF JobsStand, PickedStand, Projects!Listed
<1>9. ASSUME NEW t \in Owed'
      PROVE  CodeComes(t)' /\ TeamComes(t, tick.bindings)' /\ NotCopied(t)'
  <2>1. t \in NamingTasks
    BY <1>9 DEF Owed
  <2>2. CodeComes(t)'
    <3>1. \A j \in tick'.todo : j.from # code(t)
      BY <1>3, <1>6
    <3>2. CASE old(t) \in DOMAIN renames
      <4>1. [from |-> old(t), to |-> renames[old(t)]] \in tick'.todo
        BY <1>6, <3>2
      <4> QED
        BY <1>2, <1>5, <2>1, <3>1, <3>2, <4>1 DEF CodeComes
    <3>3. CASE old(t) \notin DOMAIN renames
      BY <1>2, <1>5, <2>1, <3>1, <3>3 DEF CodeComes, HasCode
    <3> QED
      BY <3>2, <3>3
  <2>3. ASSUME NEW team \in owing'[t].teams
        PROVE  /\ [code |-> owing'[t].code, team |-> team] \in tick'.bindings
               /\ Projects!TeamsBefore(owing'[t].code) # {team}
    <3>1. PICK b \in bindings : b.code = code(t) /\ b.team = team
      BY <1>5, <2>1, <2>3
    <3>2. b = [code |-> code(t), team |-> team]
      BY <1>4, <3>1 DEF Binding
    <3> QED
      BY <1>4, <1>5, <1>6, <2>1, <3>1, <3>2
  <2> QED
    BY <1>2, <2>2, <2>3 DEF TeamComes, NotCopied, Projects!TeamsBefore
<1> QED
  BY <1>6, <1>7, <1>8, <1>9 DEF ProjectInv, PromisesStand

(* A phase ends when its jobs are done.                                    *)
LEMMA ProjectAdvanceStands == ASSUME ProjectInv, Projects!Advance PROVE ProjectInv'
<1> DEFINE next == Projects!Following(tick.at)
<1>1. /\ tick.at \in {"rename", "bind", "record"} /\ tick.todo = {}
      /\ tick' = [tick EXCEPT !.at = next, !.todo = Projects!Work(next)]
      /\ UNCHANGED <<registry, refs, naming, namings, owing>>
  BY DEF Projects!Advance
<1>2. /\ tick.at = "rename" => next = "bind"
      /\ tick.at = "bind" => next = "record"
      /\ tick.at = "record" => next = "remove"
  BY DEF Projects!Following
<1>3. /\ next = "bind" => Projects!Work(next) = tick.bindings
      /\ next = "record" => Projects!Work(next) = Projects!Listed(tick.projects)
      /\ next = "remove" => Projects!Work(next) = {}
  BY DEF Projects!Work
<1>4. Projects!Listed(tick.projects) \subseteq Codes
  BY DEF Projects!Listed
<1>5. /\ tick'.at = next /\ tick'.todo = Projects!Work(next) /\ tick'.picked = tick.picked
      /\ tick'.bindings = tick.bindings /\ tick'.projects = tick.projects
  BY <1>1 DEF ProjectInv, ProjectTyped
<1>6. tick.picked = {}
  BY <1>1 DEF ProjectInv, PickedStand
<1>7. ProjectTyped'
  <2>1. next \in ProjectPhases
    BY <1>1, <1>2 DEF ProjectPhases
  <2>2. Projects!Work(next) \subseteq Renaming \cup Binding \cup Codes
    BY <1>1, <1>2, <1>3, <1>4 DEF ProjectInv, ProjectTyped
  <2> QED
    BY <1>1, <2>1, <2>2 DEF ProjectInv, ProjectTyped
<1>8. JobsStand' /\ PickedStand'
  BY <1>1, <1>2, <1>3, <1>5, <1>6 DEF JobsStand, PickedStand
<1>9. PromisesStand'
  <2> SUFFICES ASSUME NEW t \in Owed
               PROVE  /\ next = "bind" =>
                            HasCode(t) /\ TeamComes(t, tick.bindings) /\ NotCopied(t)
                      /\ next # "bind" => HasCode(t) /\ TeamComes(t, {})
    BY <1>1, <1>2, <1>3, <1>5
       DEF PromisesStand, Owed, HasCode, TeamComes, NotCopied, Projects!TeamsBefore
  <2> QED
    BY <1>1, <1>2 DEF ProjectInv, PromisesStand, CodeComes, TeamComes
<1> QED
  BY <1>7, <1>8, <1>9 DEF ProjectInv

(* Picking takes all the tasks a job is about; there may be none.          *)
LEMMA SelectStands ==
    ASSUME ProjectInv, NEW job \in tick.todo, Projects!Select(job)
    PROVE  ProjectInv'
<1> DEFINE selected == Projects!Selected(job)
<1>1. /\ tick.at \in {"rename", "bind"} /\ tick.picked = {}
      /\ tick' = IF selected = {} THEN [tick EXCEPT !.todo = @ \ {job}]
                 ELSE [tick EXCEPT !.picked = {job} \X selected]
      /\ UNCHANGED <<registry, refs, naming, namings, owing>>
  BY DEF Projects!Select
<1>2. /\ tick'.at = tick.at /\ tick'.projects = tick.projects
      /\ tick'.bindings = tick.bindings
      /\ tick'.todo \subseteq tick.todo
      /\ tick'.todo = IF selected = {} THEN tick.todo \ {job} ELSE tick.todo
      /\ tick'.picked = IF selected = {} THEN {} ELSE {job} \X selected
  BY <1>1 DEF ProjectInv, ProjectTyped
<1>3. /\ tick.at = "rename" => selected = {t \in NamingTasks : naming[t].project = job.from}
      /\ tick.at = "bind" => selected =
            {t \in NamingTasks : naming[t].project = job.code /\ naming[t].team = None}
      /\ selected \subseteq NamingTasks
  BY DEF Projects!Selected
<1>4. job \in Renaming \cup Binding
  BY <1>1 DEF ProjectInv, JobsStand, ProjectTyped
<1>5. ProjectTyped'
  <2>1. {job} \X selected \subseteq (Renaming \cup Binding) \X NamingTasks
    BY <1>3, <1>4
  <2>2. tick.todo \ {job} \subseteq Renaming \cup Binding \cup Codes
    BY DEF ProjectInv, ProjectTyped
  <2>3. CASE selected = {}
    BY <1>1, <2>2, <2>3 DEF ProjectInv, ProjectTyped
  <2>4. CASE selected # {}
    BY <1>1, <2>1, <2>4 DEF ProjectInv, ProjectTyped
  <2> QED
    BY <2>3, <2>4
<1>6. JobsStand'
  BY <1>2 DEF ProjectInv, JobsStand
<1>7. Owed' = Owed
  BY <1>1 DEF Owed
<1>8. PickedStand'
  <2>1. CASE selected = {}
    BY <1>2, <2>1 DEF PickedStand
  <2>2. CASE selected # {}
    <3>1. \A x \in tick'.picked : x[1] = job
      BY <1>2, <2>2
    <3>2. \A t : <<job, t>> \in tick'.picked <=> t \in selected
      BY <1>2, <2>2
    <3>3. \A t \in Owed : t \in NamingTasks
      BY DEF Owed
    <3> QED
      BY <1>1, <1>2, <1>3, <1>7, <2>2, <3>1, <3>2, <3>3 DEF PickedStand
  <2> QED
    BY <2>1, <2>2
<1>9. PromisesStand'
  <2> SUFFICES ASSUME NEW t \in Owed
               PROVE  /\ tick.at = "rename" => CodeComes(t)'
                      /\ tick.at = "bind" => TeamComes(t, tick.todo)'
    BY <1>1, <1>2, <1>7
       DEF ProjectInv, PromisesStand, HasCode, TeamComes, NotCopied, Projects!TeamsBefore
  <2>1. t \in NamingTasks
    BY DEF Owed
  <2>2. CASE tick.at = "rename"
    <3>1. CodeComes(t)
      BY <2>2 DEF ProjectInv, PromisesStand
    <3>2. ASSUME NEW j \in tick.todo, j.from = naming[t].project
          PROVE  j \in tick'.todo
      BY <1>2, <1>3, <2>1, <2>2, <3>2
    <3> QED
      BY <1>1, <1>2, <2>2, <3>1, <3>2 DEF CodeComes, HasCode
  <2>3. CASE tick.at = "bind"
    <3>1. TeamComes(t, tick.todo) /\ HasCode(t)
      BY <2>3 DEF ProjectInv, PromisesStand
    <3>2. ASSUME NEW team \in owing[t].teams, naming[t].team = None,
                 [code |-> owing[t].code, team |-> team] \in tick.todo
          PROVE  [code |-> owing[t].code, team |-> team] \in tick'.todo
      BY <1>2, <1>3, <2>1, <2>3, <3>1, <3>2 DEF HasCode
    <3> QED
      BY <1>1, <2>3, <3>1, <3>2 DEF TeamComes
  <2> QED
    BY <1>1, <2>2, <2>3
<1> QED
  BY <1>5, <1>6, <1>8, <1>9 DEF ProjectInv

(* Doing a job gives the tasks promised what the job leads to.             *)
LEMMA UpdateStands ==
    ASSUME ProjectInv, None \notin Teams, NEW job \in tick.todo, Projects!Update(job)
    PROVE  ProjectInv'
<1>1. /\ tick.at \in {"rename", "bind"} /\ \E t \in NamingTasks : <<job, t>> \in tick.picked
      /\ naming' = [t \in NamingTasks |->
            IF <<job, t>> \in tick.picked THEN Projects!Followed(job, t) ELSE naming[t]]
      /\ tick' = [tick EXCEPT !.todo = @ \ {job}, !.picked = {}]
      /\ UNCHANGED <<registry, refs, namings, owing>>
  BY DEF Projects!Update
<1>2. /\ tick'.at = tick.at /\ tick'.projects = tick.projects
      /\ tick'.bindings = tick.bindings /\ tick'.picked = {}
      /\ tick'.todo = tick.todo \ {job}
  BY <1>1 DEF ProjectInv, ProjectTyped
<1>3. PICK first \in NamingTasks : <<job, first>> \in tick.picked
  BY <1>1
<1>4. /\ tick.at = "rename" => \A t \in Owed :
            naming[t].project = job.from <=> <<job, t>> \in tick.picked
      /\ tick.at = "bind" => \A t \in Owed :
            naming[t].project = job.code /\ naming[t].team = None => <<job, t>> \in tick.picked
  BY <1>3 DEF ProjectInv, PickedStand
<1>5. \A t \in NamingTasks :
        naming[t] \in [project: Codes \cup {None}, team: Teams \cup {None}]
  BY DEF ProjectInv, ProjectTyped
<1>6. ASSUME tick.at = "rename", NEW t \in NamingTasks
      PROVE  /\ naming'[t] \in [project: Codes \cup {None}, team: Teams \cup {None}]
             /\ naming'[t].team = naming[t].team
             /\ naming'[t].project =
                    IF <<job, t>> \in tick.picked THEN job.to ELSE naming[t].project
  <2>1. job.to \in Codes
    BY <1>6 DEF ProjectInv, JobsStand, Renaming
  <2> QED
    BY <1>1, <1>5, <1>6, <2>1 DEF Projects!Followed
<1>7. ASSUME tick.at = "bind", NEW t \in NamingTasks
      PROVE  /\ naming'[t] \in [project: Codes \cup {None}, team: Teams \cup {None}]
             /\ naming'[t].project = naming[t].project
             /\ naming[t].team # None => naming'[t].team = naming[t].team
             /\ <<job, t>> \in tick.picked => naming'[t].team # None
  <2>1. job.team \in Teams
    BY <1>7 DEF ProjectInv, JobsStand, ProjectTyped, Binding
  <2>2. tick.at # "rename"
    BY <1>7
  <2> QED
    BY <1>1, <1>5, <2>1, <2>2 DEF Projects!Followed
<1>8. ProjectTyped'
  <2>1. naming' \in [NamingTasks -> [project: Codes \cup {None}, team: Teams \cup {None}]]
    BY <1>1, <1>6, <1>7
  <2>2. tick.todo \ {job} \subseteq Renaming \cup Binding \cup Codes
    BY DEF ProjectInv, ProjectTyped
  <2> QED
    BY <1>1, <2>1, <2>2 DEF ProjectInv, ProjectTyped
<1>9. JobsStand' /\ PickedStand'
  BY <1>2 DEF ProjectInv, JobsStand, PickedStand
<1>10. Owed' = Owed /\ \A t \in Owed : t \in NamingTasks
  BY <1>1 DEF Owed
<1>11. ASSUME NEW t \in Owed, tick.at = "rename"
       PROVE  CodeComes(t)' /\ TeamComes(t, tick.bindings)' /\ NotCopied(t)'
  <2>1. CodeComes(t) /\ TeamComes(t, tick.bindings) /\ NotCopied(t)
    BY <1>11 DEF ProjectInv, PromisesStand
  <2>2. \A j \in tick'.todo : j.from # owing'[t].code
    BY <1>1, <1>2, <2>1 DEF CodeComes
  <2>3. CASE naming[t].project = job.from
    <3>1. PICK j \in tick.todo : j.from = naming[t].project /\ j.to = owing[t].code
      BY <2>1, <2>3 DEF CodeComes, HasCode
    <3>2. job.to = owing[t].code
      BY <1>11, <2>3, <3>1 DEF ProjectInv, JobsStand
    <3> QED
      BY <1>1, <1>2, <1>4, <1>6, <1>10, <1>11, <2>1, <2>2, <2>3, <3>2
         DEF CodeComes, HasCode, TeamComes, NotCopied, Projects!TeamsBefore
  <2>4. CASE naming[t].project # job.from
    <3>1. naming'[t].project = naming[t].project
      BY <1>4, <1>6, <1>10, <1>11, <2>4
    <3>2. CodeComes(t)'
      BY <1>1, <1>2, <2>1, <2>2, <2>4, <3>1 DEF CodeComes, HasCode
    <3> QED
      BY <1>1, <1>2, <1>6, <1>10, <1>11, <2>1, <3>2
         DEF TeamComes, NotCopied, Projects!TeamsBefore
  <2> QED
    BY <2>3, <2>4
<1>12. ASSUME NEW t \in Owed, tick.at = "bind"
       PROVE  HasCode(t)' /\ TeamComes(t, tick.todo)' /\ NotCopied(t)'
  <2>1. HasCode(t) /\ TeamComes(t, tick.todo) /\ NotCopied(t)
    BY <1>12 DEF ProjectInv, PromisesStand
  <2>2. ASSUME NEW team \in owing[t].teams
        PROVE  naming'[t].team # None \/ [code |-> owing[t].code, team |-> team] \in tick'.todo
    <3>1. CASE naming[t].team # None
      BY <1>7, <1>10, <1>12, <3>1
    <3>2. CASE naming[t].team = None /\ [code |-> owing[t].code, team |-> team] = job
      BY <1>4, <1>7, <1>10, <1>12, <2>1, <3>2 DEF HasCode
    <3>3. CASE naming[t].team = None /\ [code |-> owing[t].code, team |-> team] # job
      BY <1>2, <2>1, <3>3 DEF TeamComes
    <3> QED
      BY <3>1, <3>2, <3>3
  <2> QED
    BY <1>1, <1>7, <1>10, <1>12, <2>1, <2>2
       DEF HasCode, TeamComes, NotCopied, Projects!TeamsBefore
<1>13. PromisesStand'
  BY <1>1, <1>2, <1>10, <1>11, <1>12 DEF PromisesStand
<1> QED
  BY <1>8, <1>9, <1>13 DEF ProjectInv

(* The copy is updated when the tasks have followed.                       *)
LEMMA CopyStands ==
    ASSUME ProjectInv, (\E c \in Codes : Projects!Record(c)) \/ Projects!MarkRemoved
    PROVE  ProjectInv'
<1>1. /\ tick.at \in {"record", "remove"} /\ tick.picked = {}
      /\ UNCHANGED <<registry, naming, namings, owing>>
  BY DEF Projects!Record, Projects!MarkRemoved, ProjectInv, PickedStand
<1>2. /\ tick'.at \in {"record", "done"} /\ tick'.picked = {}
      /\ tick' \in [at: ProjectPhases, projects: [Codes -> Project \cup {None}],
                    todo: SUBSET (Renaming \cup Binding \cup Codes),
                    picked: SUBSET ((Renaming \cup Binding) \X NamingTasks),
                    bindings: SUBSET Binding]
  <2>1. CASE Projects!MarkRemoved
    BY <2>1 DEF Projects!MarkRemoved, Projects!Resting, ProjectPhases
  <2>2. ASSUME ~Projects!MarkRemoved
        PROVE  \E c \in Codes : tick.at = "record" /\ tick' = [tick EXCEPT !.todo = @ \ {c}]
    BY <2>2 DEF Projects!Record
  <2>3. \A c : tick.todo \ {c} \subseteq Renaming \cup Binding \cup Codes
    BY DEF ProjectInv, ProjectTyped
  <2> QED
    BY <1>1, <2>1, <2>2, <2>3 DEF ProjectInv, ProjectTyped
<1> QED
  BY <1>1, <1>2 DEF ProjectInv, ProjectTyped, JobsStand, PickedStand, PromisesStand, Owed,
     HasCode, TeamComes

(* A tick that fails before the copy is updated has not touched it.        *)
LEMMA FailStands == ASSUME ProjectInv, Projects!Fail PROVE ProjectInv'
<1>1. /\ tick.at \in {"rename", "bind", "record", "remove"}
      /\ tick' = [Projects!Resting EXCEPT !.at = "failed"]
      /\ UNCHANGED <<registry, refs, naming, namings, owing>>
  BY DEF Projects!Fail, ProjectInv, ProjectTyped, ProjectPhases
<1>2. /\ tick'.at = "failed" /\ tick'.picked = {}
      /\ tick' \in [at: ProjectPhases, projects: [Codes -> Project \cup {None}],
                    todo: SUBSET (Renaming \cup Binding \cup Codes),
                    picked: SUBSET ((Renaming \cup Binding) \X NamingTasks),
                    bindings: SUBSET Binding]
  BY <1>1 DEF Projects!Resting, ProjectPhases
<1>3. \A t \in Owed : TeamComes(t, {}) \/ NotCopied(t)
  BY <1>1 DEF ProjectInv, PromisesStand
<1> QED
  BY <1>1, <1>2, <1>3 DEF ProjectInv, ProjectTyped, JobsStand, PickedStand, PromisesStand,
     Owed, TeamComes, NotCopied, Projects!TeamsBefore

(* A promise about a task nobody touched stands while the tick rests.      *)
LEMMA PromisesUntouched ==
    ASSUME PromisesStand, UNCHANGED <<refs, tick>>,
           \A t \in Owed' : t \in Owed /\ naming'[t] = naming[t] /\ owing'[t] = owing[t]
    PROVE  PromisesStand'
<1>1. ASSUME NEW t \in Owed'
      PROVE  /\ t \in Owed
             /\ HasCode(t)' <=> HasCode(t)
             /\ CodeComes(t)' <=> CodeComes(t)
             /\ TeamComes(t, tick.bindings)' <=> TeamComes(t, tick.bindings)
             /\ TeamComes(t, tick.todo)' <=> TeamComes(t, tick.todo)
             /\ TeamComes(t, {})' <=> TeamComes(t, {})
             /\ NotCopied(t)' <=> NotCopied(t)
  BY <1>1 DEF HasCode, CodeComes, TeamComes, NotCopied, Projects!TeamsBefore
<1> QED
  BY <1>1 DEF PromisesStand

(* A task request takes its task out of what the tick promised.            *)
LEMMA RequestsStand ==
    ASSUME ProjectInv, NEW r \in Namers,
           \/ Projects!FinishRequest(r)
           \/ \E t \in NamingTasks, project \in Codes \cup {None, "unsaid"},
                 team \in Teams \cup {None, "unsaid"} :
                    Projects!BeginRequest(r, t, project, team)
    PROVE  ProjectInv'
<1>1. ASSUME Projects!FinishRequest(r)
      PROVE  ProjectInv'
  <2> DEFINE q == namings[r]
  <2>1. /\ q # None
        /\ naming' = [naming EXCEPT ![q.task] =
                [project |-> Projects!Said(q.project, @.project),
                 team |-> Projects!Said(q.team, @.team)]]
        /\ owing' = [owing EXCEPT ![q.task] = None]
        /\ namings' = [namings EXCEPT ![r] = None]
        /\ UNCHANGED <<registry, refs, tick>>
    BY <1>1 DEF Projects!FinishRequest
  <2>2. q \in [task: NamingTasks, project: Codes \cup {None, "unsaid"},
               team: Teams \cup {None, "unsaid"}]
    BY <2>1 DEF ProjectInv, ProjectTyped
  <2>3. [project |-> Projects!Said(q.project, naming[q.task].project),
         team |-> Projects!Said(q.team, naming[q.task].team)]
            \in [project: Codes \cup {None}, team: Teams \cup {None}]
    BY <2>2 DEF Projects!Said, ProjectInv, ProjectTyped
  <2>4. ProjectTyped'
    BY <2>1, <2>2, <2>3 DEF ProjectInv, ProjectTyped
  <2>5. \A t \in Owed' : t \in Owed /\ naming'[t] = naming[t] /\ owing'[t] = owing[t]
    BY <2>1, <2>2 DEF Owed, ProjectInv, ProjectTyped
  <2>6. PromisesStand'
    BY <2>1, <2>5, PromisesUntouched DEF ProjectInv
  <2> QED
    BY <2>1, <2>4, <2>5, <2>6 DEF ProjectInv, JobsStand, PickedStand
<1>2. ASSUME NEW t \in NamingTasks, NEW project \in Codes \cup {None, "unsaid"},
             NEW team \in Teams \cup {None, "unsaid"},
             Projects!BeginRequest(r, t, project, team)
      PROVE  ProjectInv'
  <2>1. /\ namings' = [namings EXCEPT ![r] =
                [task |-> t, project |-> project, team |-> team]]
        /\ UNCHANGED <<registry, refs, naming, tick, owing>>
    BY <1>2 DEF Projects!BeginRequest
  <2>2. ProjectTyped'
    BY <2>1 DEF ProjectInv, ProjectTyped
  <2>3. PromisesStand'
    BY <2>1, PromisesUntouched DEF ProjectInv, Owed
  <2> QED
    BY <2>1, <2>2, <2>3 DEF ProjectInv, JobsStand, PickedStand, Owed
<1> QED
  BY <1>1, <1>2

(* Every step keeps the promises.                                          *)
LEMMA ProjectNextStands ==
    ASSUME ProjectInv, None \notin Teams, [Projects!ProjectNext]_(Projects!projectVars)
    PROVE  ProjectInv'
<1>1. CASE UNCHANGED Projects!projectVars
  BY <1>1 DEF Projects!projectVars, ProjectInv, ProjectTyped, JobsStand, PickedStand,
     PromisesStand, Owed, HasCode, CodeComes, TeamComes, NotCopied, Projects!TeamsBefore
<1>2. ASSUME NEW job \in tick.todo, Projects!Select(job) \/ Projects!Update(job)
      PROVE  ProjectInv'
  BY <1>2, SelectStands, UpdateStands
<1> QED
  BY <1>1, <1>2, ConcordiaStands, FetchStands, ProjectAdvanceStands, CopyStands, FailStands,
     RequestsStand DEF Projects!ProjectNext

(* "A tick that fails half way finds the same differences and does them    *)
(* again": between ticks no task is left without a team the copy says was  *)
(* assigned, nor, after a good tick, under a renamed code, for any codes,  *)
(* teams, tasks, changes in Concordia, failures and task requests          *)
(* (cc-project-sync.ts, cc-project-apply.ts).                              *)
THEOREM TasksDoFollow ==
    ASSUME None \notin Teams
    PROVE  Projects!ProjectSpec => []TasksFollow
<1>1. Projects!ProjectInit => ProjectInv
  BY ProjectStarts
<1>2. ProjectInv /\ [Projects!ProjectNext]_(Projects!projectVars) => ProjectInv'
  BY ProjectNextStands
<1>3. ProjectInv => TasksFollow
  BY PromisesKept
<1> QED
  BY <1>1, <1>2, <1>3, PTL DEF Projects!ProjectSpec

-----------------------------------------------------------------------------
(* The sync with GitHub and Notion.                                        *)

Version == Pm!Versions
Mirrored == [v: Version, dirty: BOOLEAN]
Snapshot == [v: Version, news: Nat]
ConflictRow == [id: Nat, pending: BOOLEAN, local: Version \cup {None}, ext: Version \cup {None},
                base: Version \cup {None}, news: Nat]

(* A pull decides what to do with what it has read, and does it.           *)
Reads == {"fetched", "reading", "comparing"}
Decisions == {"create", "await_resolution", "keep", "apply_external", "conflict"}
Pushes == {"writing", "written", "saving"}
PullPhases == {"idle", "pulled", "pushing"} \cup Reads \cup Decisions \cup Pushes

PmTyped ==
    /\ outside \in [v: Version, changes: Nat]
    /\ mirrored \in Mirrored \cup {None}
    /\ base \in Snapshot \cup {None}
    /\ conflict \in ConflictRow
    /\ pull \in [at: PullPhases, ext: Version \cup {None}, news: Nat,
                 row: Mirrored \cup {None}, base: Snapshot \cup {None}]
    /\ resolvers \in [Resolvers -> [at: {"idle", "deciding", "claimed", "applied"},
                                    of: ConflictRow \cup {None}, merged: Version \cup {None}]]
    /\ writebackFaults \in Nat

(* What each step has in hand; a task that was stored is never gone.       *)
PullStands ==
    /\ pull.at # "idle" => pull.ext \in Version
    /\ pull.at \in (Decisions \ {"create"}) \cup Pushes => pull.row \in Mirrored
    /\ pull.row # None \/ base # None \/ pull.at \in {"pulled", "pushing"} => mirrored # None

ConflictStands ==
    conflict.pending => /\ mirrored # None /\ conflict.ext \in Version
                        /\ pull.at \notin Pushes

Busy(r) == resolvers[r].at \in {"claimed", "applied"}

ResolversStand ==
    \A r \in Resolvers : resolvers[r].at # "idle" =>
        /\ resolvers[r].of \in ConflictRow /\ resolvers[r].of.ext \in Version
        /\ resolvers[r].of.id <= conflict.id
        /\ mirrored # None
        /\ Busy(r) => resolvers[r].merged \in Version

(* Without resolutions during syncs there is one resolution at a time,     *)
(* none during a sync, and a sync knows the base as it is.                 *)
OneAtATime ==
    "resolve" \notin overlaps =>
        /\ pull.at # "idle" \/ conflict.pending => Pm!Resting
        /\ \A r, q \in Resolvers : Busy(r) /\ Busy(q) => r = q
        /\ pull.at \in Decisions \cup {"comparing"} => pull.base = base

(* A task that is not what it was in version v is dirty.                   *)
Noted(v) == mirrored.dirty \/ mirrored.v = v

(* While syncs run alone, a task that is not as the last sync left it is   *)
(* dirty, and so is one that is not as the base about to be written.      *)
DifferencesNoted ==
    overlaps = {} =>
        /\ Pm!Resting /\ base # None /\ pull.at \notin {"pulled", "written", "saving"} =>
               Noted(base.v)
        /\ pull.at = "pulled" => Noted(pull.ext)
        /\ pull.at \in Pushes => pull.row.v = mirrored.v
        /\ \A r \in Resolvers : resolvers[r].at = "applied" => Noted(resolvers[r].of.ext)

(* Nobody resolved a conflict during a sync, every writeback succeeded, and*)
(* people gave only such fields a value of their own as writebacks carry.  *)
Undisturbed ==
    overlaps \subseteq {"edit"} /\ writebackFaults = 0 /\ localEdits.unsent = {}

(* What no writeback carries, the task has as in version v.                *)
Level(v) == \A f \in Fields \ Written : mirrored.v[f] = v[f]

(* Then the fields that no writeback carries come from the outside: the    *)
(* task has them as the base does, and as what is about to be the base.    *)
OthersFromOutside ==
    Undisturbed =>
        /\ base # None /\ pull.at # "pulled" /\ (\A r \in Resolvers : resolvers[r].at # "applied")
           => Level(base.v)
        /\ pull.at \in {"reading", "comparing"} \cup Decisions \cup Pushes /\ pull.row \in Mirrored
           => Level(pull.row.v)
        /\ pull.at \in {"keep", "pulled"} => Level(pull.ext)
        /\ pull.at = "await_resolution" => conflict.pending
        /\ pull.at \in {"pushing"} \cup Pushes => conflict.pending \/ Level(pull.ext)
        /\ \A r \in Resolvers :
            /\ resolvers[r].at = "claimed" => \A f \in Fields \ Written :
                    resolvers[r].merged[f] = resolvers[r].of.ext[f]
            /\ resolvers[r].at = "applied" => Level(resolvers[r].of.ext)

(* What was seen after the last change is what is there.                   *)
Current(v, news) == news = outside.changes => v = outside.v

NothingAhead ==
    /\ base # None => base.news <= outside.changes
    /\ pull.news <= outside.changes
    /\ conflict.news <= outside.changes
    /\ \A r \in Resolvers : resolvers[r].at # "idle" => resolvers[r].of.news <= outside.changes

SeenIsCurrent ==
    Undisturbed =>
        /\ base # None /\ pull.at \notin {"written", "saving"} => Current(base.v, base.news)
        /\ pull.at \notin {"idle", "written", "saving"} => Current(pull.ext, pull.news)
        /\ pull.at \in {"written", "saving"} => Current(pull.row.v, pull.news)
        /\ conflict.pending => Current(conflict.ext, conflict.news)
        /\ \A r \in Resolvers :
              \/ Busy(r)
              \/ resolvers[r].at = "deciding" /\ Pm!StillPending(resolvers[r].of)
              => Current(resolvers[r].of.ext, resolvers[r].of.news)

(* A pull takes for a change outside only what is one.                     *)
ChangesAreNews ==
    Undisturbed /\ base # None =>
        /\ pull.at \in Reads \cup Decisions /\ pull.news = base.news => pull.ext = base.v
        /\ pull.at \in {"apply_external", "conflict"} => pull.ext # base.v

PmInv ==
    /\ PmTyped /\ PullStands /\ ConflictStands /\ ResolversStand
    /\ OneAtATime /\ DifferencesNoted /\ OthersFromOutside
    /\ NothingAhead /\ SeenIsCurrent /\ ChangesAreNews

(* A version is a value for each field.                                    *)
LEMMA VersionsAre ==
    /\ \A v \in Version : \A f \in Fields : v[f] \in Pm!Values(f)
    /\ \A v, w \in Version : Pm!Changed(v, w) = {} => v = w
    /\ \A v \in Version, f \in Fields : \A x \in Pm!Values(f) : [v EXCEPT ![f] = x] \in Version
<1> DEFINE All == UNION {Pm!Values(f) : f \in Fields}
<1>1. \A v : v \in Version <=>
            v \in [Fields -> All] /\ \A f \in Fields : v[f] \in Pm!Values(f)
  BY DEF Version, Pm!Versions
<1>2. ASSUME NEW v \in Version, NEW w \in Version, Pm!Changed(v, w) = {}
      PROVE  v = w
  <2>1. \A f \in Fields : v[f] = w[f]
    BY <1>2 DEF Pm!Changed
  <2> QED
    BY <1>1, <2>1
<1>3. ASSUME NEW v \in Version, NEW f \in Fields, NEW x \in Pm!Values(f)
      PROVE  [v EXCEPT ![f] = x] \in Version
  <2>1. x \in All
    OBVIOUS
  <2> QED
    BY <1>1, <2>1
<1> QED
  BY <1>1, <1>2, <1>3

(* A choice between two versions, field by field, is a version.            *)
LEMMA MixedVersion ==
    ASSUME NEW v \in Version, NEW w \in Version, NEW S
    PROVE  [f \in Fields |-> IF f \in S THEN v[f] ELSE w[f]] \in Version
<1> DEFINE All == UNION {Pm!Values(f) : f \in Fields}
           mixed == [f \in Fields |-> IF f \in S THEN v[f] ELSE w[f]]
<1>1. \A f \in Fields : mixed[f] \in Pm!Values(f)
  BY VersionsAre
<1>2. \A f \in Fields : mixed[f] \in All
  BY <1>1
<1> QED
  BY <1>1, <1>2 DEF Version, Pm!Versions

(* The merge of two sides is a version.                                    *)
LEMMA OverlaidVersion ==
    ASSUME NEW b \in Version, NEW v \in Version, NEW w \in Version
    PROVE  Pm!Overlaid(b, v, w) \in Version
<1> DEFINE S == {f \in Fields : w[f] # b[f]}
<1>1. Pm!Overlaid(b, v, w) = [f \in Fields |-> IF f \in S THEN w[f] ELSE v[f]]
  BY DEF Pm!Overlaid
<1>2. [f \in Fields |-> IF f \in S THEN w[f] ELSE v[f]] \in Version
  BY MixedVersion
<1> QED
  BY <1>1, <1>2

(* Nothing is stored yet.                                                  *)
LEMMA PmStarts == ASSUME Pm!PmInit, FieldTexts # {} PROVE PmInv
<1> DEFINE first == [f \in Fields |-> IF f = "status" THEN "open"
                                      ELSE CHOOSE x \in FieldTexts : TRUE]
<1>1. \A f \in Fields : first[f] \in Pm!Values(f)
  BY DEF Pm!PmInit, Pm!Values
<1>2. first \in Version
  BY <1>1 DEF Version, Pm!Versions
<1>3. PmTyped
  BY <1>2 DEF Pm!PmInit, PmTyped, Pm!Quiet, Pm!Away, Pm!NoConflict, ConflictRow, PullPhases
<1> QED
  BY <1>3 DEF Pm!PmInit, PmInv, Pm!Quiet, Pm!Away, Pm!NoConflict, PullStands, ConflictStands,
     ResolversStand, OneAtATime, DifferencesNoted, NothingAhead, SeenIsCurrent, Undisturbed,
     OthersFromOutside, ChangesAreNews, Busy, Decisions, Pushes, Reads, Pm!Resting, PmTyped

(* People change the issue: what was seen before is current no more.       *)
LEMMA OutsideStands ==
    ASSUME PmInv, NEW f \in Fields, NEW x \in Pm!Values(f), Pm!ChangeOutside(f, x)
    PROVE  PmInv'
<1>1. /\ outside' = [v |-> [outside.v EXCEPT ![f] = x], changes |-> outside.changes + 1]
      /\ UNCHANGED <<mirrored, base, conflict, pull, resolvers,
                     localEdits, writebackFaults, overlaps>>
  BY DEF Pm!ChangeOutside
<1>2. PmTyped'
  BY <1>1, VersionsAre DEF PmInv, PmTyped
<1>3. PullStands' /\ ConflictStands' /\ ResolversStand' /\ ChangesAreNews'
  BY <1>1 DEF PmInv, PullStands, ConflictStands, ResolversStand, ChangesAreNews, Undisturbed,
     Busy
<1>4. OneAtATime' /\ DifferencesNoted'
  BY <1>1 DEF PmInv, OneAtATime, DifferencesNoted, Busy, Noted, Pm!Resting
<1>5. /\ NothingAhead'
      /\ base # None => base.news # outside'.changes
      /\ pull.news # outside'.changes /\ conflict.news # outside'.changes
      /\ \A r \in Resolvers : resolvers[r].at # "idle" =>
            resolvers[r].of.news # outside'.changes
  BY <1>1 DEF PmInv, NothingAhead, PmTyped, ConflictRow, Snapshot, ResolversStand
<1>6. SeenIsCurrent'
  BY <1>1, <1>5 DEF SeenIsCurrent, Undisturbed, Current, Busy, Pm!StillPending
<1>7. OthersFromOutside'
  BY <1>1 DEF PmInv, OthersFromOutside, Undisturbed, Level
<1> QED
  BY <1>2, <1>3, <1>4, <1>5, <1>6, <1>7 DEF PmInv

(* People edit the task: the edit is noted.                                *)
LEMMA EditStands ==
    ASSUME PmInv, None \notin Mirrored, NEW f \in Fields, NEW x \in Pm!Values(f),
           Pm!Edit(f, x)
    PROVE  PmInv'
<1>1. /\ mirrored # None
      /\ mirrored' = [v |-> [mirrored.v EXCEPT ![f] = x], dirty |-> TRUE]
      /\ overlaps' = IF pull.at # "idle" THEN overlaps \cup {"edit"} ELSE overlaps
      /\ localEdits' = [made |-> localEdits.made + 1,
                         unsent |-> localEdits.unsent \cup ({f} \ Written)]
      /\ UNCHANGED <<outside, base, conflict, pull, resolvers, writebackFaults>>
  BY DEF Pm!Edit, Pm!Falls
<1>2. mirrored' \in Mirrored
  BY <1>1, VersionsAre DEF PmInv, PmTyped, Mirrored
<1>3. PmTyped' /\ PullStands' /\ ConflictStands' /\ ResolversStand'
  BY <1>1, <1>2 DEF PmInv, PmTyped, PullStands, ConflictStands, ResolversStand, Busy
<1>4. OneAtATime'
  BY <1>1 DEF PmInv, OneAtATime, Busy, Pm!Resting
<1>5. DifferencesNoted'
  BY <1>1 DEF PmInv, DifferencesNoted, Noted, Pm!Resting, Pushes
<1>6. NothingAhead'
  BY <1>1 DEF PmInv, NothingAhead
<1>7. SeenIsCurrent' /\ ChangesAreNews'
  BY <1>1 DEF PmInv, SeenIsCurrent, Undisturbed, Current, Busy, Pm!StillPending, ChangesAreNews
<1>8. OthersFromOutside'
  <2>1. ASSUME Undisturbed'
        PROVE  Undisturbed /\ f \in Written
    BY <1>1, <2>1 DEF Undisturbed
  <2>2. ASSUME f \in Written, NEW v, Level(v)
        PROVE  Level(v)'
    BY <1>1, <1>2, <2>2 DEF Level, PmInv, PmTyped, Mirrored, Version, Pm!Versions
  <2> QED
    BY <1>1, <2>1, <2>2 DEF PmInv, OthersFromOutside
<1> QED
  BY <1>3, <1>4, <1>5, <1>6, <1>7, <1>8 DEF PmInv

(* A sync begins with the issue as it is.                                  *)
LEMMA StartSyncStands == ASSUME PmInv, Pm!StartSync PROVE PmInv'
<1>1. /\ pull.at = "idle"
      /\ pull' = [Pm!Quiet EXCEPT !.at = "fetched", !.ext = outside.v,
                                  !.news = outside.changes]
      /\ overlaps' = IF ~Pm!Resting THEN overlaps \cup {"resolve"} ELSE overlaps
      /\ UNCHANGED <<outside, mirrored, base, conflict, resolvers, localEdits, writebackFaults>>
  BY DEF Pm!StartSync, Pm!Falls, Pm!SyncTo
<1>2. pull' = [at |-> "fetched", ext |-> outside.v, news |-> outside.changes,
               row |-> None, base |-> None]
  BY <1>1 DEF Pm!Quiet
<1>3. PmTyped' /\ PullStands'
  <2>1. outside.v \in Version /\ outside.changes \in Nat
    BY DEF PmInv, PmTyped
  <2>2. pull' \in [at: PullPhases, ext: Version \cup {None}, news: Nat,
                   row: Mirrored \cup {None}, base: Snapshot \cup {None}]
    BY <1>2, <2>1 DEF PullPhases, Reads
  <2>3. PmTyped'
    BY <1>1, <2>2 DEF PmInv, PmTyped
  <2>4. /\ pull'.at = "fetched" /\ pull'.ext \in Version /\ pull'.row = None
        /\ base # None => mirrored # None
    BY <1>2, <2>1 DEF PmInv, PullStands
  <2>5. PullStands'
    BY <1>1, <2>4 DEF PullStands, Decisions, Pushes
  <2> QED
    BY <2>3, <2>5
<1>4. ConflictStands' /\ ResolversStand' /\ OneAtATime'
  BY <1>1, <1>2 DEF PmInv, ConflictStands, ResolversStand, OneAtATime, Busy, Pm!Resting,
     Decisions, Pushes
<1>5. DifferencesNoted'
  BY <1>1, <1>2 DEF PmInv, DifferencesNoted, Noted, Pm!Resting, Pushes
<1>6. NothingAhead'
  BY <1>1, <1>2 DEF PmInv, NothingAhead, PmTyped
<1>7. SeenIsCurrent' /\ ChangesAreNews'
  BY <1>1, <1>2 DEF PmInv, SeenIsCurrent, Undisturbed, Current, Busy, Pm!StillPending,
     ChangesAreNews, PmTyped
<1>8. OthersFromOutside'
  BY <1>1, <1>2 DEF PmInv, OthersFromOutside, Undisturbed, Level, Decisions, Pushes
<1> QED
  BY <1>3, <1>4, <1>5, <1>6, <1>7, <1>8 DEF PmInv

(* What a sync reads stays true until it decides.                          *)
LEMMA ReadsStand ==
    ASSUME PmInv, Pm!ReadRow \/ Pm!ReadBase
    PROVE  PmInv'
<1>1. /\ \/ pull.at = "fetched" /\ pull' = [pull EXCEPT !.at = "reading", !.row = mirrored]
         \/ pull.at = "reading" /\ pull' = [pull EXCEPT !.at = "comparing", !.base = base]
      /\ UNCHANGED <<outside, mirrored, base, conflict, resolvers,
                     localEdits, writebackFaults, overlaps>>
  BY DEF Pm!ReadRow, Pm!ReadBase, Pm!SyncTo
<1>2. PmTyped' /\ PullStands'
  BY <1>1 DEF PmInv, PmTyped, PullStands, PullPhases, Reads, Decisions, Pushes
<1>3. ConflictStands' /\ ResolversStand' /\ OneAtATime'
  BY <1>1 DEF PmInv, PmTyped, ConflictStands, ResolversStand, OneAtATime, Busy, Pm!Resting,
     Decisions, Pushes
<1>4. DifferencesNoted'
  BY <1>1 DEF PmInv, PmTyped, DifferencesNoted, Noted, Pm!Resting, Pushes
<1>5. NothingAhead'
  BY <1>1 DEF PmInv, NothingAhead, PmTyped
<1>6. SeenIsCurrent' /\ ChangesAreNews'
  BY <1>1 DEF PmInv, PmTyped, SeenIsCurrent, Undisturbed, Current, Busy, Pm!StillPending,
     ChangesAreNews, Reads, Decisions
<1>7. OthersFromOutside'
  <2>1. /\ pull.at \in Reads /\ pull'.at \in {"reading", "comparing"}
        /\ \/ pull'.row = mirrored
           \/ pull.at = "reading" /\ pull'.row = pull.row
    BY <1>1 DEF PmInv, PmTyped, Reads
  <2>2. Level(mirrored.v)
    BY DEF Level
  <2>3. Undisturbed /\ pull'.row \in Mirrored => Level(pull'.row.v)
    BY <2>1, <2>2 DEF PmInv, OthersFromOutside
  <2> QED
    BY <1>1, <2>1, <2>3
       DEF PmInv, OthersFromOutside, Undisturbed, Level, Reads, Decisions, Pushes
<1> QED
  BY <1>2, <1>3, <1>4, <1>5, <1>6, <1>7 DEF PmInv

(* A change outside is one against the base as it is.                      *)
LEMMA CompareStands == ASSUME PmInv, Pm!Compare PROVE PmInv'
<1> DEFINE decision == Pm!Decision(conflict.pending)
<1>1. /\ pull.at = "comparing" /\ pull' = [pull EXCEPT !.at = decision]
      /\ UNCHANGED <<outside, mirrored, base, conflict, resolvers,
                     localEdits, writebackFaults, overlaps>>
  BY DEF Pm!Compare, Pm!SyncTo
<1>2. /\ decision \in Decisions
      /\ decision # "create" => pull.row # None
      /\ decision \in {"apply_external", "conflict"} => Pm!Changed(Pm!Base, pull.ext) # {}
  BY DEF Pm!Decision, Decisions
<1>3. PmTyped' /\ PullStands'
  BY <1>1, <1>2 DEF PmInv, PmTyped, PullStands, PullPhases, Decisions, Pushes
<1>4. ConflictStands' /\ ResolversStand' /\ OneAtATime'
  BY <1>1, <1>2 DEF PmInv, PmTyped, ConflictStands, ResolversStand, OneAtATime, Busy,
     Pm!Resting, Decisions, Pushes
<1>5. DifferencesNoted'
  BY <1>1, <1>2 DEF PmInv, PmTyped, DifferencesNoted, Noted, Pm!Resting, Pushes, Decisions
<1>6. NothingAhead'
  BY <1>1 DEF PmInv, NothingAhead, PmTyped
<1>7. SeenIsCurrent'
  BY <1>1, <1>2 DEF PmInv, PmTyped, SeenIsCurrent, Undisturbed, Current, Busy,
     Pm!StillPending, Decisions
<1>8. ChangesAreNews'
  <2>1. ASSUME overlaps \subseteq {"edit"}, base # None,
               decision \in {"apply_external", "conflict"}
        PROVE  pull.ext # base.v
    <3>1. pull.base = base
      BY <1>1, <2>1 DEF PmInv, OneAtATime
    <3>2. Pm!Base = base.v
      BY <2>1, <3>1 DEF Pm!Base
    <3>3. Pm!Changed(base.v, base.v) = {}
      BY DEF Pm!Changed
    <3> QED
      BY <1>2, <2>1, <3>2, <3>3
  <2> QED
    BY <1>1, <1>2, <2>1 DEF PmInv, PmTyped, ChangesAreNews, Undisturbed, Reads, Decisions
<1>9. OthersFromOutside'
  <2>1. ASSUME Undisturbed, decision = "keep"
        PROVE  Level(pull.ext)
    <3>1. pull.row \in Mirrored /\ pull.base = base /\ Level(pull.row.v)
      BY <1>1, <1>2, <2>1 DEF PmInv, PmTyped, OneAtATime, OthersFromOutside, Undisturbed
    <3>2. base # None => Level(base.v)
      BY <1>1, <2>1 DEF PmInv, OneAtATime, OthersFromOutside, Undisturbed, Pm!Resting
    <3>3. Level(Pm!Base)
      BY <3>1, <3>2 DEF Pm!Base
    <3>4. Pm!Changed(Pm!Base, pull.ext) = {}
      BY <2>1 DEF Pm!Decision
    <3> QED
      BY <3>3, <3>4 DEF Level, Pm!Changed
  <2>2. decision = "await_resolution" => conflict.pending
    BY DEF Pm!Decision
  <2> HIDE DEF decision
  <2> QED
    BY <1>1, <1>2, <2>1, <2>2
       DEF PmInv, PmTyped, OthersFromOutside, Undisturbed, Level, Decisions, Pushes
<1> QED
  BY <1>3, <1>4, <1>5, <1>6, <1>7, <1>8, <1>9 DEF PmInv

(* A pull that changes nothing, or asks people.                            *)
LEMMA UndecidedStand ==
    ASSUME PmInv, None \notin Mirrored, Pm!Keep \/ Pm!Refresh \/ Pm!OpenConflict
    PROVE  PmInv'
<1>1. /\ pull.at \in {"keep", "await_resolution", "conflict"}
      /\ pull' = [pull EXCEPT !.at = "pushing"]
      /\ UNCHANGED <<outside, mirrored, base, resolvers, localEdits, writebackFaults, overlaps>>
  BY DEF Pm!Keep, Pm!Refresh, Pm!OpenConflict, Pm!SyncTo
<1>2. \/ conflict' = conflict
      \/ conflict' = [conflict EXCEPT !.ext = pull.ext, !.news = pull.news]
      \/ conflict' = [id |-> conflict.id + 1, pending |-> TRUE, local |-> pull.row.v,
                      ext |-> pull.ext, base |-> Pm!Base, news |-> pull.news]
  BY DEF Pm!Keep, Pm!Refresh, Pm!OpenConflict
<1>3. pull.ext \in Version /\ pull.row \in Mirrored /\ mirrored # None
  BY <1>1 DEF PmInv, PullStands, Decisions
<1>4. Pm!Base \in Version
  BY <1>3 DEF Pm!Base, PmInv, PmTyped, Mirrored, Snapshot
<1>5. /\ conflict \in ConflictRow /\ conflict' \in ConflictRow
      /\ conflict.id <= conflict'.id
      /\ \/ conflict' = conflict
         \/ /\ conflict'.ext = pull.ext /\ conflict'.news = pull.news
            /\ \/ conflict'.id = conflict.id /\ conflict'.pending = conflict.pending
               \/ conflict'.id = conflict.id + 1
  <2>1. conflict \in ConflictRow /\ pull.news \in Nat /\ pull.row.v \in Version
    BY <1>3 DEF PmInv, PmTyped, Mirrored
  <2>2. CASE conflict' = conflict
    BY <2>1, <2>2 DEF ConflictRow
  <2>3. CASE conflict' = [conflict EXCEPT !.ext = pull.ext, !.news = pull.news]
    <3>1. conflict' = [id |-> conflict.id, pending |-> conflict.pending,
                       local |-> conflict.local, ext |-> pull.ext,
                       base |-> conflict.base, news |-> pull.news]
      BY <2>1, <2>3 DEF ConflictRow
    <3> QED
      BY <1>3, <2>1, <3>1 DEF ConflictRow
  <2>4. CASE conflict' = [id |-> conflict.id + 1, pending |-> TRUE, local |-> pull.row.v,
                          ext |-> pull.ext, base |-> Pm!Base, news |-> pull.news]
    BY <1>3, <1>4, <2>1, <2>4 DEF ConflictRow
  <2> QED
    BY <1>2, <2>2, <2>3, <2>4
<1>6. PmTyped' /\ PullStands'
  BY <1>1, <1>3, <1>5 DEF PmInv, PmTyped, PullStands, PullPhases, Decisions, Pushes
<1>7. ConflictStands'
  BY <1>1, <1>3, <1>5 DEF PmInv, PmTyped, ConflictStands, Pushes
<1>8. ResolversStand'
  <2>1. \A row \in ConflictRow : row.id \in Nat
    BY DEF ConflictRow
  <2> QED
    BY <1>1, <1>3, <1>5, <2>1 DEF PmInv, ResolversStand, Busy
<1>9. OneAtATime'
  BY <1>1 DEF PmInv, PmTyped, OneAtATime, Busy, Pm!Resting, Decisions
<1>10. DifferencesNoted'
  BY <1>1 DEF PmInv, PmTyped, DifferencesNoted, Noted, Pm!Resting, Pushes
<1>11. NothingAhead'
  BY <1>1, <1>5 DEF PmInv, NothingAhead, PmTyped
<1>12. SeenIsCurrent'
  <2>1. ASSUME NEW r \in Resolvers, resolvers[r].at # "idle",
               Pm!StillPending(resolvers[r].of)'
        PROVE  Pm!StillPending(resolvers[r].of)
    <3>1. conflict'.pending /\ conflict'.id = resolvers[r].of.id
      BY <1>1, <2>1 DEF Pm!StillPending
    <3>2. resolvers[r].of.id <= conflict.id /\ conflict.id \in Nat
      BY <1>5, <2>1 DEF PmInv, ResolversStand, ConflictRow
    <3>3. conflict'.id # conflict.id + 1
      BY <3>1, <3>2
    <3> QED
      BY <1>5, <3>1, <3>3 DEF Pm!StillPending
  <2> QED
    BY <1>1, <1>5, <2>1 DEF PmInv, PmTyped, SeenIsCurrent, Undisturbed, Current, Busy
<1>13. ChangesAreNews'
  BY <1>1 DEF PmInv, PmTyped, ChangesAreNews, Undisturbed, Reads, Decisions
<1>14. OthersFromOutside'
  <2>1. Undisturbed => conflict'.pending \/ pull.at = "keep"
    <3>1. CASE Pm!Keep
      BY <3>1 DEF Pm!Keep
    <3>2. CASE Pm!Refresh
      BY <1>5, <3>2 DEF Pm!Refresh, PmInv, OthersFromOutside, ConflictRow
    <3>3. CASE Pm!OpenConflict
      BY <3>3 DEF Pm!OpenConflict
    <3> QED
      BY <3>1, <3>2, <3>3
  <2> QED
    BY <1>1, <2>1 DEF PmInv, PmTyped, OthersFromOutside, Undisturbed, Level, Decisions, Pushes
<1> QED
  BY <1>6, <1>7, <1>8, <1>9, <1>10, <1>11, <1>12, <1>13, <1>14 DEF PmInv

(* What is pulled is noted unless it is what the outside has.              *)
LEMMA PulledStand ==
    ASSUME PmInv, None \notin Mirrored, Pm!CreateTask \/ Pm!ApplyExternal \/ Pm!MergeOnPull
    PROVE  PmInv'
<1>1. /\ pull.at \in {"create", "apply_external", "conflict"}
      /\ pull' = [pull EXCEPT !.at = "pulled"]
      /\ UNCHANGED <<outside, base, conflict, resolvers, localEdits, writebackFaults, overlaps>>
  BY DEF Pm!CreateTask, Pm!ApplyExternal, Pm!MergeOnPull, Pm!SyncTo
<1>2. mirrored' \in Mirrored /\ Noted(pull.ext)'
  <2>1. pull.ext \in Version
    BY <1>1 DEF PmInv, PullStands
  <2>2. CASE Pm!CreateTask
    BY <2>1, <2>2, <1>1 DEF Pm!CreateTask, Noted, Mirrored
  <2>3. CASE Pm!ApplyExternal
    <3>1. mirrored \in Mirrored /\ mirrored' = [mirrored EXCEPT !.v = pull.ext]
      BY <2>3 DEF Pm!ApplyExternal, PmInv, PmTyped, PullStands, Decisions, Pushes
    <3> QED
      BY <2>1, <3>1, <1>1 DEF Noted, Mirrored
  <2>4. CASE Pm!MergeOnPull
    <3>1. pull.at = "conflict"
      BY <2>4 DEF Pm!MergeOnPull
    <3>2. pull.row.v \in Version /\ Pm!Base \in Version
      BY <3>1 DEF Pm!Base, PmInv, PmTyped, Mirrored, Snapshot, PullStands, Decisions
    <3>3. PICK merged \in {pull.ext, Pm!Overlaid(Pm!Base, pull.row.v, pull.ext)} :
              mirrored' = [v |-> merged, dirty |-> merged # pull.ext]
      BY <2>4 DEF Pm!MergeOnPull
    <3>4. merged \in Version
      BY <2>1, <3>2, OverlaidVersion
    <3> DEFINE dirty == merged # pull.ext
    <3>5. dirty \in BOOLEAN /\ (dirty \/ merged = pull.ext)
      OBVIOUS
    <3>6. mirrored' = [v |-> merged, dirty |-> dirty]
      BY <3>3
    <3> HIDE DEF dirty
    <3> QED
      BY <3>4, <3>5, <3>6, <1>1 DEF Noted, Mirrored
  <2> QED
    BY <2>2, <2>3, <2>4
<1>3. PmTyped' /\ PullStands'
  BY <1>1, <1>2 DEF PmInv, PmTyped, PullStands, PullPhases, Decisions, Pushes
<1>4. ConflictStands' /\ ResolversStand' /\ OneAtATime'
  BY <1>1, <1>2 DEF PmInv, PmTyped, ConflictStands, ResolversStand, OneAtATime, Busy,
     Pm!Resting, Decisions, Pushes
<1>5. DifferencesNoted'
  <2>1. overlaps = {} => \A r \in Resolvers : ~Busy(r)
    BY <1>1 DEF PmInv, OneAtATime, Busy, Pm!Resting
  <2> QED
    BY <1>1, <1>2, <2>1 DEF PmInv, PmTyped, DifferencesNoted, Busy, Pushes
<1>6. NothingAhead'
  BY <1>1 DEF PmInv, NothingAhead, PmTyped
<1>7. SeenIsCurrent' /\ ChangesAreNews'
  BY <1>1 DEF PmInv, PmTyped, SeenIsCurrent, Undisturbed, Current, Busy, Pm!StillPending,
     ChangesAreNews, Reads, Decisions
<1>8. OthersFromOutside'
  <2>1. ASSUME Undisturbed, NEW f \in Fields \ Written
        PROVE  mirrored'.v[f] = pull.ext[f]
    <3>1. CASE Pm!CreateTask \/ Pm!ApplyExternal
      BY <3>1, <1>2 DEF Pm!CreateTask, Pm!ApplyExternal, PmInv, PmTyped, PullStands, Mirrored,
         Decisions
    <3>2. CASE Pm!MergeOnPull
      <4>1. pull.at = "conflict" /\ pull.row \in Mirrored
        BY <3>2 DEF Pm!MergeOnPull, PmInv, PullStands, Decisions
      <4>2. Level(pull.row.v) /\ (base # None => Level(base.v)) /\ pull.base = base
        BY <2>1, <4>1 DEF PmInv, OneAtATime, OthersFromOutside, Undisturbed, Decisions,
           Pm!Resting
      <4>3. Pm!Base[f] = pull.row.v[f]
        BY <4>2 DEF Pm!Base, Level
      <4>4. Pm!Overlaid(Pm!Base, pull.row.v, pull.ext)[f] = pull.ext[f]
        BY <4>3 DEF Pm!Overlaid
      <4>5. mirrored'.v \in {pull.ext, Pm!Overlaid(Pm!Base, pull.row.v, pull.ext)}
        BY <3>2 DEF Pm!MergeOnPull
      <4> QED
        BY <4>4, <4>5
    <3> QED
      BY <3>1, <3>2
  <2>2. Undisturbed => \A r \in Resolvers : ~Busy(r)
    BY <1>1 DEF PmInv, OneAtATime, Busy, Pm!Resting, Undisturbed
  <2> QED
    BY <1>1, <2>1, <2>2
       DEF PmInv, PmTyped, OthersFromOutside, Undisturbed, Level, Busy, Decisions, Pushes
<1> QED
  BY <1>3, <1>4, <1>5, <1>6, <1>7, <1>8 DEF PmInv

(* The base becomes what the task was compared with, or what was sent.     *)
LEMMA BaseStands ==
    ASSUME PmInv, None \notin Mirrored, Pm!SaveBase \/ Pm!SaveSent
    PROVE  PmInv'
<1>1. /\ \/ /\ pull.at = "pulled" /\ base' = [v |-> pull.ext, news |-> pull.news]
            /\ pull' = [pull EXCEPT !.at = "pushing"]
         \/ /\ pull.at = "saving" /\ base' = [v |-> pull.row.v, news |-> pull.news]
            /\ pull' = Pm!Quiet
      /\ UNCHANGED <<outside, mirrored, conflict, resolvers,
                     localEdits, writebackFaults, overlaps>>
  BY DEF Pm!SaveBase, Pm!SaveSent, Pm!SyncTo
<1>2. mirrored # None /\ base' \in Snapshot
  BY <1>1 DEF PmInv, PmTyped, PullStands, Mirrored, Snapshot, Pushes
<1>3. PmTyped' /\ PullStands'
  BY <1>1, <1>2 DEF PmInv, PmTyped, PullStands, PullPhases, Decisions, Pushes, Pm!Quiet
<1>4. ConflictStands' /\ ResolversStand' /\ OneAtATime'
  BY <1>1, <1>2 DEF PmInv, PmTyped, ConflictStands, ResolversStand, OneAtATime, Busy,
     Pm!Resting, Decisions, Pushes, Pm!Quiet
<1>5. DifferencesNoted'
  BY <1>1 DEF PmInv, PmTyped, DifferencesNoted, Noted, Pushes, Pm!Quiet
<1>6. NothingAhead'
  BY <1>1 DEF PmInv, NothingAhead, PmTyped, Pm!Quiet
<1>7. SeenIsCurrent' /\ ChangesAreNews'
  BY <1>1 DEF PmInv, PmTyped, SeenIsCurrent, Undisturbed, Current, Busy, Pm!StillPending,
     ChangesAreNews, Reads, Decisions, Pm!Quiet
<1>8. OthersFromOutside'
  <2>1. Undisturbed => \A r \in Resolvers : ~Busy(r)
    BY <1>1 DEF PmInv, OneAtATime, Busy, Pm!Resting, Undisturbed
  <2> QED
    BY <1>1, <2>1 DEF PmInv, PmTyped, OthersFromOutside, Undisturbed, Level, Busy, Decisions,
       Pushes, Pm!Quiet, PullStands
<1> QED
  BY <1>3, <1>4, <1>5, <1>6, <1>7, <1>8 DEF PmInv

(* A sync goes on to push what is dirty, and not in conflict.              *)
LEMMA PushBegins == ASSUME PmInv, None \notin Mirrored, Pm!StartPush PROVE PmInv'
<1>1. /\ pull.at = "pushing"
      /\ \/ ~conflict.pending /\ pull' = [pull EXCEPT !.at = "writing", !.row = mirrored]
         \/ pull' = Pm!Quiet
      /\ UNCHANGED <<outside, mirrored, base, conflict, resolvers,
                     localEdits, writebackFaults, overlaps>>
  BY DEF Pm!StartPush, Pm!SyncTo
<1>2. mirrored \in Mirrored
  BY <1>1 DEF PmInv, PmTyped, PullStands
<1>3. CASE pull' = Pm!Quiet
  <2>1. pull' = [at |-> "idle", ext |-> None, news |-> 0, row |-> None, base |-> None]
    BY <1>3 DEF Pm!Quiet
  <2>2. PmTyped' /\ PullStands'
    BY <1>1, <1>2, <2>1 DEF PmInv, PmTyped, PullStands, PullPhases, Decisions, Pushes
  <2>3. ConflictStands' /\ ResolversStand' /\ OneAtATime'
    BY <1>1, <2>1 DEF PmInv, ConflictStands, ResolversStand, OneAtATime, Busy, Pm!Resting,
       Decisions, Pushes
  <2>4. DifferencesNoted'
    BY <1>1, <2>1 DEF PmInv, DifferencesNoted, Noted, Pm!Resting, Pushes
  <2>5. NothingAhead'
    BY <1>1, <2>1 DEF PmInv, NothingAhead, PmTyped
  <2>6. SeenIsCurrent' /\ ChangesAreNews'
    BY <1>1, <2>1 DEF PmInv, SeenIsCurrent, Undisturbed, Current, Busy, Pm!StillPending,
       ChangesAreNews, Reads, Decisions
  <2>7. OthersFromOutside'
    BY <1>1, <2>1 DEF PmInv, OthersFromOutside, Undisturbed, Level, Decisions, Pushes
  <2> QED
    BY <2>2, <2>3, <2>4, <2>5, <2>6, <2>7 DEF PmInv
<1>4. ASSUME ~conflict.pending, pull' = [pull EXCEPT !.at = "writing", !.row = mirrored]
      PROVE  PmInv'
  <2>1. PmTyped' /\ PullStands'
    BY <1>1, <1>2, <1>4 DEF PmInv, PmTyped, PullStands, PullPhases, Decisions, Pushes
  <2>2. ConflictStands' /\ ResolversStand' /\ OneAtATime'
    BY <1>1, <1>4 DEF PmInv, PmTyped, ConflictStands, ResolversStand, OneAtATime, Busy,
       Pm!Resting, Decisions, Pushes
  <2>3. DifferencesNoted'
    BY <1>1, <1>4 DEF PmInv, PmTyped, DifferencesNoted, Noted, Pm!Resting, Pushes
  <2>4. NothingAhead'
    BY <1>1, <1>4 DEF PmInv, NothingAhead, PmTyped
  <2>5. SeenIsCurrent' /\ ChangesAreNews'
    BY <1>1, <1>4 DEF PmInv, PmTyped, SeenIsCurrent, Undisturbed, Current, Busy,
       Pm!StillPending, ChangesAreNews, Undisturbed, Reads, Decisions
  <2>6. OthersFromOutside'
    BY <1>1, <1>4 DEF PmInv, PmTyped, OthersFromOutside, Undisturbed, Level, Decisions, Pushes
  <2> QED
    BY <2>1, <2>2, <2>3, <2>4, <2>5, <2>6 DEF PmInv
<1> QED
  BY <1>1, <1>3, <1>4

(* A writeback leaves outside a version: what was sent, if the fields that *)
(* it does not carry are there as they were.                               *)
LEMMA PatchedIs ==
    ASSUME PmInv, pull.at = "writing"
    PROVE  /\ Pm!Patched \in Version
           /\ (\A f \in Fields \ Written : outside.v[f] = pull.row.v[f]) =>
                Pm!Patched = pull.row.v
<1>1. pull.row.v \in Version /\ outside.v \in Version
  BY DEF PmInv, PmTyped, PullStands, Pushes, Mirrored
<1>2. Pm!Patched \in Version
  BY <1>1, MixedVersion DEF Pm!Patched
<1>3. ASSUME \A f \in Fields \ Written : outside.v[f] = pull.row.v[f]
      PROVE  Pm!Changed(Pm!Patched, pull.row.v) = {}
  BY <1>3 DEF Pm!Changed, Pm!Patched
<1> QED
  BY <1>1, <1>2, <1>3, VersionsAre

(* What is sent is what is there, without a conflict waiting for people.   *)
LEMMA WritebackStands ==
    ASSUME PmInv, Pm!Writeback
    PROVE  PmInv'
<1>1. /\ pull.at = "writing" /\ pull' = [pull EXCEPT !.at = "written"]
      /\ outside' = [outside EXCEPT !.v = Pm!Patched]
      /\ UNCHANGED <<mirrored, base, conflict, resolvers, localEdits, writebackFaults, overlaps>>
  BY DEF Pm!Writeback, Pm!SyncTo
<1>2. /\ Pm!Patched \in Version
      /\ Undisturbed /\ pull.news = outside.changes => Pm!Patched = pull.row.v
  <2>1. ASSUME Undisturbed, pull.news = outside.changes
        PROVE  \A f \in Fields \ Written : outside.v[f] = pull.row.v[f]
    <3>1. Level(pull.row.v) /\ Level(pull.ext)
      BY <1>1, <2>1 DEF PmInv, PullStands, ConflictStands, PmTyped, OthersFromOutside, Pushes
    <3>2. pull.ext = outside.v
      BY <1>1, <2>1 DEF PmInv, SeenIsCurrent, Current
    <3> QED
      BY <3>1, <3>2 DEF Level
  <2> QED
    BY <1>1, <2>1, PatchedIs
<1>3. PmTyped' /\ PullStands'
  BY <1>1, <1>2 DEF PmInv, PmTyped, PullStands, PullPhases, Decisions, Pushes
<1>4. ConflictStands' /\ ResolversStand' /\ OneAtATime'
  BY <1>1, <1>2 DEF PmInv, PmTyped, ConflictStands, ResolversStand, OneAtATime, Busy,
     Pm!Resting, Decisions, Pushes
<1>5. DifferencesNoted'
  BY <1>1 DEF PmInv, PmTyped, DifferencesNoted, Noted, Pm!Resting, Pushes
<1>6. NothingAhead'
  BY <1>1 DEF PmInv, NothingAhead, PmTyped
<1>7. SeenIsCurrent'
  <2>1. ~conflict.pending
    BY <1>1 DEF PmInv, ConflictStands, Pushes
  <2>2. Undisturbed => \A r \in Resolvers : ~Busy(r)
    BY <1>1 DEF PmInv, OneAtATime, Busy, Pm!Resting, Undisturbed
  <2>3. /\ pull'.at = "written" /\ pull'.row = pull.row
        /\ pull'.news = pull.news /\ outside'.changes = outside.changes
        /\ Undisturbed /\ pull.news = outside.changes => outside'.v = pull.row.v
    BY <1>1, <1>2 DEF PmInv, PmTyped
  <2> QED
    BY <1>1, <2>1, <2>2, <2>3 DEF SeenIsCurrent, Undisturbed, Current, Busy, Pm!StillPending
<1>8. ChangesAreNews'
  BY <1>1 DEF PmInv, PmTyped, ChangesAreNews, Undisturbed, Reads, Decisions
<1>9. OthersFromOutside'
  BY <1>1 DEF PmInv, PmTyped, OthersFromOutside, Undisturbed, Level, Decisions, Pushes
<1> QED
  BY <1>3, <1>4, <1>5, <1>6, <1>7, <1>8, <1>9 DEF PmInv

(* A writeback that fails leaves the task dirty.                           *)
LEMMA FaultStands == ASSUME PmInv, Pm!WritebackFails PROVE PmInv'
<1>1. /\ pull.at = "writing" /\ pull' = Pm!Quiet
      /\ outside' \in {outside, [outside EXCEPT !.v = Pm!Patched]}
      /\ writebackFaults' = writebackFaults + 1
      /\ UNCHANGED <<mirrored, base, conflict, resolvers, localEdits, overlaps>>
  BY DEF Pm!WritebackFails, Pm!SyncTo, Pm!AfterFault
<1>2. /\ outside' \in [v: Version, changes: Nat] /\ outside'.changes = outside.changes
      /\ writebackFaults' \in Nat /\ writebackFaults' # 0
  BY <1>1, PatchedIs DEF PmInv, PmTyped
<1>3. PmTyped' /\ PullStands'
  BY <1>1, <1>2 DEF PmInv, PmTyped, PullStands, PullPhases, Decisions, Pushes, Pm!Quiet
<1>4. ConflictStands' /\ ResolversStand' /\ OneAtATime'
  BY <1>1, <1>2 DEF PmInv, PmTyped, ConflictStands, ResolversStand, OneAtATime, Busy,
     Pm!Resting, Decisions, Pushes, Pm!Quiet
<1>5. DifferencesNoted'
  BY <1>1 DEF PmInv, PmTyped, DifferencesNoted, Noted, Pm!Resting, Pushes, Pm!Quiet
<1>6. NothingAhead'
  BY <1>1, <1>2 DEF PmInv, NothingAhead, PmTyped, Pm!Quiet
<1>7. SeenIsCurrent' /\ ChangesAreNews'
  BY <1>2 DEF SeenIsCurrent, Undisturbed, ChangesAreNews
<1>8. OthersFromOutside'
  BY <1>2 DEF OthersFromOutside, Undisturbed
<1> QED
  BY <1>3, <1>4, <1>5, <1>6, <1>7, <1>8 DEF PmInv

(* What was sent is as the outside has it.                                 *)
LEMMA ClearStands == ASSUME PmInv, None \notin Mirrored, Pm!ClearDirty PROVE PmInv'
<1>1. /\ pull.at = "written" /\ pull' = [pull EXCEPT !.at = "saving"]
      /\ mirrored' = [v |-> [mirrored.v EXCEPT !["labels"] = pull.row.v["labels"]],
                      dirty |-> FALSE]
      /\ UNCHANGED <<outside, base, conflict, resolvers, localEdits, writebackFaults, overlaps>>
  BY DEF Pm!ClearDirty, Pm!SyncTo
<1>2. mirrored \in Mirrored /\ pull.row.v \in Version /\ mirrored.v \in Version
  BY <1>1 DEF PmInv, PmTyped, PullStands, Pushes, Mirrored
<1>3. /\ mirrored' \in Mirrored
      /\ pull.row.v = mirrored.v => mirrored'.v = mirrored.v
      /\ \A f \in Fields : mirrored.v[f] = pull.row.v[f] => mirrored'.v[f] = mirrored.v[f]
  <2> DEFINE w == pull.row.v["labels"]
  <2>1. \A v \in Version : v = [f \in Fields |-> v[f]]
    BY DEF Version, Pm!Versions
  <2>2. mirrored'.v = [mirrored.v EXCEPT !["labels"] = w] /\ mirrored'.dirty = FALSE
    BY <1>1
  <2>3. [mirrored.v EXCEPT !["labels"] = w] \in Version
    <3>1. CASE "labels" \in Fields
      BY <1>2, <3>1, VersionsAre
    <3>2. CASE "labels" \notin Fields
      BY <1>2, <2>1, <3>2
    <3> QED
      BY <3>1, <3>2
  <2>4. mirrored' \in Mirrored
    BY <1>1, <2>3 DEF Mirrored
  <2>5. \A f \in Fields : mirrored.v[f] = pull.row.v[f] => mirrored'.v[f] = mirrored.v[f]
    BY <1>2, <2>1, <2>2
  <2>6. pull.row.v = mirrored.v => mirrored'.v = mirrored.v
    BY <1>2, <2>1, <2>2
  <2> QED
    BY <2>4, <2>5, <2>6
<1>4. PmTyped' /\ PullStands'
  BY <1>1, <1>3 DEF PmInv, PmTyped, PullStands, PullPhases, Decisions, Pushes
<1>5. ConflictStands' /\ ResolversStand' /\ OneAtATime'
  BY <1>1, <1>3 DEF PmInv, PmTyped, ConflictStands, ResolversStand, OneAtATime, Busy,
     Pm!Resting, Decisions, Pushes
<1>6. DifferencesNoted'
  <2>1. overlaps = {} => \A r \in Resolvers : ~Busy(r)
    BY <1>1 DEF PmInv, OneAtATime, Busy, Pm!Resting
  <2> QED
    BY <1>1, <1>3, <2>1 DEF PmInv, PmTyped, DifferencesNoted, Noted, Busy, Pushes
<1>7. NothingAhead'
  BY <1>1 DEF PmInv, NothingAhead, PmTyped
<1>8. SeenIsCurrent' /\ ChangesAreNews'
  BY <1>1 DEF PmInv, PmTyped, SeenIsCurrent, Undisturbed, Current, Busy, Pm!StillPending,
     ChangesAreNews, Reads, Decisions
<1>9. OthersFromOutside'
  <2>1. Undisturbed => Level(pull.row.v) /\ \A r \in Resolvers : ~Busy(r)
    BY <1>1 DEF PmInv, PullStands, PmTyped, OneAtATime, OthersFromOutside, Undisturbed, Busy,
       Pm!Resting, Decisions, Pushes, Mirrored
  <2>2. Undisturbed => \A f \in Fields \ Written : mirrored'.v[f] = mirrored.v[f]
    BY <1>3, <2>1 DEF Level
  <2> QED
    BY <1>1, <2>1, <2>2
       DEF PmInv, PmTyped, OthersFromOutside, Undisturbed, Level, Busy, Decisions, Pushes
<1> QED
  BY <1>4, <1>5, <1>6, <1>7, <1>8, <1>9 DEF PmInv

(* A step of a sync.                                                       *)
LEMMA SyncStands ==
    ASSUME PmInv, None \notin Mirrored, Pm!StartSync \/ Pm!SyncStep
    PROVE  PmInv'
  BY StartSyncStands, ReadsStand, CompareStands, UndecidedStand, PulledStand, BaseStands,
     PushBegins, WritebackStands, FaultStands, ClearStands DEF Pm!SyncStep

(* A resolver that has nothing claimed changes nothing.                    *)
LEMMA LooksStand ==
    ASSUME PmInv, NEW r \in Resolvers, Pm!Load(r) \/ Pm!GiveUp(r)
    PROVE  PmInv'
<1>1. /\ resolvers[r].at \in {"idle", "deciding"}
      /\ \/ /\ conflict.pending
            /\ resolvers' = [resolvers EXCEPT ![r] =
                                [Pm!Away EXCEPT !.at = "deciding", !.of = conflict]]
         \/ resolvers' = [resolvers EXCEPT ![r] = Pm!Away]
      /\ UNCHANGED <<outside, mirrored, base, conflict, pull,
                     localEdits, writebackFaults, overlaps>>
  BY DEF Pm!Load, Pm!GiveUp, Pm!ResolverTo
<1>2. PICK state : /\ resolvers' = [resolvers EXCEPT ![r] = state]
                   /\ \/ state = Pm!Away
                      \/ /\ conflict.pending
                         /\ state = [at |-> "deciding", of |-> conflict, merged |-> None]
  BY <1>1 DEF Pm!Away
<1>3. /\ state \in [at: {"idle", "deciding"}, of: ConflictRow \cup {None},
                    merged: Version \cup {None}]
      /\ state.at = "deciding" => conflict.pending /\ state.of = conflict
  BY <1>2 DEF Pm!Away, PmInv, PmTyped
<1>4. /\ resolvers'[r] = state
      /\ \A q \in Resolvers : q # r => resolvers'[q] = resolvers[q]
      /\ \A q \in Resolvers : Busy(q)' => Busy(q) /\ resolvers'[q] = resolvers[q]
      /\ \A q \in Resolvers : Busy(q) => Busy(q)'
  BY <1>1, <1>2, <1>3 DEF PmInv, PmTyped, Busy
<1>5. PmTyped' /\ PullStands' /\ ConflictStands'
  BY <1>1, <1>2, <1>3 DEF PmInv, PmTyped, PullStands, ConflictStands
<1>6. ResolversStand'
  <2>1. conflict \in ConflictRow /\ conflict.id \in Nat
    BY DEF PmInv, PmTyped, ConflictRow
  <2> QED
    BY <1>1, <1>3, <1>4, <2>1 DEF PmInv, ConflictStands, ResolversStand, Busy
<1>7. OneAtATime'
  BY <1>1, <1>4 DEF PmInv, OneAtATime, Pm!Resting, Busy
<1>8. DifferencesNoted'
  <2>1. Pm!Resting' => Pm!Resting
    BY <1>4 DEF Pm!Resting, Busy
  <2>2. \A q \in Resolvers : resolvers'[q].at = "applied" =>
            resolvers[q].at = "applied" /\ resolvers'[q] = resolvers[q]
    BY <1>4 DEF Busy
  <2> QED
    BY <1>1, <2>1, <2>2 DEF PmInv, DifferencesNoted, Noted
<1>9. NothingAhead'
  BY <1>1, <1>3, <1>4 DEF PmInv, NothingAhead
<1>10. SeenIsCurrent' /\ ChangesAreNews'
  BY <1>1, <1>3, <1>4 DEF PmInv, SeenIsCurrent, Undisturbed, Current, Pm!StillPending, Busy,
     ChangesAreNews
<1>11. OthersFromOutside'
  <2>1. \A q \in Resolvers : resolvers'[q].at \in {"claimed", "applied"} =>
            resolvers'[q] = resolvers[q]
    BY <1>4 DEF Busy
  <2>2. (\A q \in Resolvers : resolvers'[q].at # "applied") =>
            \A q \in Resolvers : resolvers[q].at # "applied"
    BY <1>1, <1>4 DEF Busy
  <2> QED
    BY <1>1, <2>1, <2>2 DEF PmInv, OthersFromOutside, Undisturbed, Level
<1> QED
  BY <1>5, <1>6, <1>7, <1>8, <1>9, <1>10, <1>11 DEF PmInv

(* Whoever claims a conflict is the only one to resolve it.                *)
LEMMA ClaimStands ==
    ASSUME PmInv, NEW r \in Resolvers, NEW v \in Version, Pm!Claim(r, v)
    PROVE  PmInv'
<1> DEFINE claims == Pm!StillPending(resolvers[r].of)
<1>1. /\ resolvers[r].at = "deciding"
      /\ overlaps' = IF pull.at # "idle" THEN overlaps \cup {"resolve"} ELSE overlaps
      /\ IF claims
         THEN /\ conflict' = [conflict EXCEPT !.pending = FALSE]
              /\ resolvers' = [resolvers EXCEPT ![r] =
                                [resolvers[r] EXCEPT !.at = "claimed", !.merged = v]]
              /\ localEdits' = [made |-> localEdits.made, unsent |-> localEdits.unsent \cup
                                    (Pm!Changed(v, resolvers[r].of.ext) \ Written)]
         ELSE /\ conflict' = conflict /\ localEdits' = localEdits
              /\ resolvers' = [resolvers EXCEPT ![r] = Pm!Away]
      /\ UNCHANGED <<outside, mirrored, base, pull, writebackFaults>>
  BY DEF Pm!Claim, Pm!Falls, Pm!ResolverTo
<1>2. /\ conflict' \in ConflictRow /\ conflict'.id = conflict.id
      /\ conflict'.ext = conflict.ext /\ conflict'.news = conflict.news
      /\ conflict'.pending => conflict.pending /\ ~claims
      /\ claims => conflict.pending
  BY <1>1 DEF PmInv, PmTyped, ConflictRow, Pm!StillPending
<1>3. PICK state : /\ resolvers' = [resolvers EXCEPT ![r] = state]
                   /\ claims => state = [resolvers[r] EXCEPT !.at = "claimed", !.merged = v]
                   /\ ~claims => state = Pm!Away
  BY <1>1
<1>4. /\ state \in [at: {"idle", "claimed"}, of: ConflictRow \cup {None},
                    merged: Version \cup {None}]
      /\ claims => /\ state.at = "claimed" /\ state.of = resolvers[r].of /\ state.merged = v
      /\ ~claims => state.at = "idle"
  <2>1. CASE claims
    <3>1. resolvers[r] \in [at: {"idle", "deciding", "claimed", "applied"},
                            of: ConflictRow \cup {None}, merged: Version \cup {None}]
      BY DEF PmInv, PmTyped
    <3>2. state = [at |-> "claimed", of |-> resolvers[r].of, merged |-> v]
      BY <1>3, <2>1, <3>1
    <3> QED
      BY <2>1, <3>1, <3>2
  <2>2. CASE ~claims
    BY <1>3, <2>2 DEF Pm!Away
  <2> QED
    BY <2>1, <2>2
<1> HIDE DEF claims
<1>5. /\ resolvers'[r] = state
      /\ \A q \in Resolvers : q # r => resolvers'[q] = resolvers[q]
      /\ \A q \in Resolvers : q # r => (Busy(q)' <=> Busy(q))
  BY <1>3 DEF PmInv, PmTyped, Busy
<1>6. PmTyped' /\ PullStands' /\ ConflictStands'
  BY <1>1, <1>2, <1>3, <1>4 DEF PmInv, PmTyped, PullStands, ConflictStands
<1>7. ResolversStand'
  BY <1>1, <1>2, <1>4, <1>5 DEF PmInv, ResolversStand, Busy
<1>8. OneAtATime'
  <2>1. ASSUME "resolve" \notin overlaps', claims
        PROVE  Pm!Resting /\ pull.at = "idle" /\ ~conflict'.pending
    BY <1>1, <1>2, <2>1 DEF PmInv, OneAtATime
  <2>2. ~claims => ~Busy(r)'
    BY <1>4, <1>5 DEF Busy
  <2>3. Pm!Resting <=> \A q \in Resolvers : ~Busy(q)
    BY DEF Pm!Resting, Busy
  <2>4. Pm!Resting' <=> \A q \in Resolvers : ~Busy(q)'
    BY DEF Pm!Resting, Busy
  <2> QED
    BY <1>1, <1>2, <1>5, <2>1, <2>2, <2>3, <2>4 DEF PmInv, OneAtATime, Decisions
<1>9. DifferencesNoted'
  <2>1. \A q \in Resolvers : resolvers'[q].at = "applied" =>
            resolvers[q].at = "applied" /\ resolvers'[q] = resolvers[q]
    BY <1>4, <1>5
  <2>2. Pm!Resting' => Pm!Resting
    BY <1>1, <1>5 DEF Pm!Resting, Busy
  <2>3. overlaps' = {} => overlaps = {}
    BY <1>1
  <2> QED
    BY <1>1, <2>1, <2>2, <2>3 DEF PmInv, DifferencesNoted, Noted
<1>10. NothingAhead'
  BY <1>1, <1>2, <1>4, <1>5 DEF PmInv, NothingAhead
<1>11. SeenIsCurrent' /\ ChangesAreNews'
  <2>1. Undisturbed' => Undisturbed
    BY <1>1 DEF Undisturbed
  <2>2. Busy(r)' => claims
    BY <1>4, <1>5 DEF Busy
  <2>3. \A q \in Resolvers : resolvers'[q].at = "deciding" =>
            resolvers[q].at = "deciding" /\ resolvers'[q] = resolvers[q]
    BY <1>4, <1>5
  <2>4. \A c : Pm!StillPending(c)' => Pm!StillPending(c)
    BY <1>2 DEF Pm!StillPending
  <2> QED
    BY <1>1, <1>2, <1>4, <1>5, <2>1, <2>2, <2>3, <2>4
       DEF PmInv, SeenIsCurrent, Current, ChangesAreNews, claims
<1>12. OthersFromOutside'
  <2>1. ASSUME Undisturbed'
        PROVE  /\ Undisturbed
               /\ claims => \A f \in Fields \ Written : v[f] = resolvers[r].of.ext[f]
               /\ claims => pull.at = "idle"
    BY <1>1, <2>1 DEF Undisturbed, Pm!Changed
  <2>2. /\ \A q \in Resolvers : resolvers'[q].at = "applied" <=> resolvers[q].at = "applied"
        /\ \A q \in Resolvers : resolvers'[q].at = "applied" => resolvers'[q] = resolvers[q]
        /\ \A q \in Resolvers : resolvers'[q].at = "claimed" =>
                resolvers'[q] = resolvers[q] \/ (claims /\ q = r)
    BY <1>1, <1>4, <1>5
  <2>3. ~claims => conflict' = conflict
    BY <1>1
  <2> QED
    BY <1>1, <1>4, <1>5, <2>1, <2>2, <2>3 DEF PmInv, OthersFromOutside, Level, Decisions, Pushes
<1> QED
  BY <1>6, <1>7, <1>8, <1>9, <1>10, <1>11, <1>12 DEF PmInv

(* What was resolved is noted unless it is what the outside had.           *)
LEMMA ApplyStands ==
    ASSUME PmInv, None \notin Mirrored, NEW r \in Resolvers, Pm!Apply(r)
    PROVE  PmInv'
<1>1. /\ resolvers[r].at = "claimed" /\ mirrored' = Pm!Resolved(r)
      /\ resolvers' = [resolvers EXCEPT ![r] = [resolvers[r] EXCEPT !.at = "applied"]]
      /\ UNCHANGED <<outside, base, conflict, pull, localEdits, writebackFaults, overlaps>>
  BY DEF Pm!Apply, Pm!ResolverTo
<1>2. mirrored' \in Mirrored /\ Noted(resolvers[r].of.ext)'
  <2> DEFINE dirty == resolvers[r].merged # resolvers[r].of.ext
  <2>1. dirty \in BOOLEAN /\ (dirty \/ resolvers[r].merged = resolvers[r].of.ext)
    OBVIOUS
  <2>2. mirrored' = [v |-> resolvers[r].merged, dirty |-> dirty]
    BY <1>1 DEF Pm!Resolved
  <2>3. resolvers[r].merged \in Version
    BY <1>1 DEF PmInv, ResolversStand, Busy
  <2>4. resolvers'[r].of.ext = resolvers[r].of.ext
    BY <1>1 DEF PmInv, PmTyped
  <2> HIDE DEF dirty
  <2> QED
    BY <2>1, <2>2, <2>3, <2>4 DEF Noted, Mirrored
<1>3. /\ resolvers'[r].at = "applied" /\ resolvers'[r].of = resolvers[r].of
      /\ resolvers'[r].merged = resolvers[r].merged
      /\ \A q \in Resolvers : q # r => resolvers'[q] = resolvers[q]
      /\ \A q \in Resolvers : Busy(q)' <=> Busy(q)
  BY <1>1 DEF PmInv, PmTyped, Busy
<1>4. PmTyped' /\ PullStands' /\ ConflictStands'
  BY <1>1, <1>2 DEF PmInv, PmTyped, PullStands, ConflictStands
<1>5. ResolversStand'
  BY <1>1, <1>2, <1>3 DEF PmInv, ResolversStand, Busy
<1>6. OneAtATime'
  BY <1>1, <1>3 DEF PmInv, OneAtATime, Pm!Resting, Busy
<1>7. DifferencesNoted'
  <2>1. Busy(r) /\ ~Pm!Resting'
    BY <1>1, <1>3 DEF Busy, Pm!Resting
  <2>2. overlaps = {} => /\ pull.at = "idle"
                         /\ \A q \in Resolvers : resolvers'[q].at = "applied" => q = r
    BY <1>1, <1>3, <2>1 DEF PmInv, OneAtATime, Pm!Resting, Busy
  <2>3. \A q \in Resolvers : q = r => Noted(resolvers[q].of.ext)'
    BY <1>2
  <2> QED
    BY <1>1, <1>3, <2>1, <2>2, <2>3, Zenon DEF DifferencesNoted, Noted, Pushes
<1>8. NothingAhead'
  BY <1>1, <1>3 DEF PmInv, NothingAhead
<1>9. SeenIsCurrent' /\ ChangesAreNews'
  BY <1>1, <1>3 DEF PmInv, SeenIsCurrent, Undisturbed, Current, Pm!StillPending, Busy,
     ChangesAreNews
<1>10. OthersFromOutside'
  <2>1. ASSUME Undisturbed
        PROVE  /\ pull.at = "idle"
               /\ \A f \in Fields \ Written : mirrored'.v[f] = resolvers[r].of.ext[f]
               /\ \A q \in Resolvers : Busy(q) => q = r
    <3>1. mirrored'.v = resolvers[r].merged
      BY <1>1 DEF Pm!Resolved
    <3> QED
      BY <1>1, <2>1, <3>1
         DEF PmInv, OneAtATime, OthersFromOutside, Undisturbed, Busy, Pm!Resting
  <2> QED
    BY <1>1, <1>3, <2>1 DEF OthersFromOutside, Undisturbed, Level, Busy, Decisions, Pushes
<1> QED
  BY <1>4, <1>5, <1>6, <1>7, <1>8, <1>9, <1>10 DEF PmInv

(* The outside of the conflict becomes the base of the next pull.          *)
LEMMA SaveResolvedStands ==
    ASSUME PmInv, NEW r \in Resolvers, Pm!SaveResolved(r)
    PROVE  PmInv'
<1>1. /\ resolvers[r].at = "applied"
      /\ base' = [v |-> resolvers[r].of.ext, news |-> resolvers[r].of.news]
      /\ resolvers' = [resolvers EXCEPT ![r] = Pm!Away]
      /\ UNCHANGED <<outside, mirrored, conflict, pull, localEdits, writebackFaults, overlaps>>
  BY DEF Pm!SaveResolved, Pm!ResolverTo
<1>2. base' \in Snapshot /\ mirrored # None
  BY <1>1 DEF PmInv, ResolversStand, ConflictRow, Snapshot
<1>3. /\ resolvers'[r].at = "idle"
      /\ \A q \in Resolvers : q # r => resolvers'[q] = resolvers[q]
      /\ \A q \in Resolvers : Busy(q)' <=> Busy(q) /\ q # r
  BY <1>1 DEF PmInv, PmTyped, Busy, Pm!Away
<1>4. PmTyped' /\ PullStands' /\ ConflictStands'
  BY <1>1, <1>2 DEF PmInv, PmTyped, PullStands, ConflictStands, Pm!Away
<1>5. ResolversStand'
  BY <1>1, <1>3 DEF PmInv, ResolversStand, Busy
<1>6. "resolve" \notin overlaps => pull.at = "idle" /\ ~conflict.pending
  BY <1>1 DEF PmInv, OneAtATime, Pm!Resting
<1>7. OneAtATime'
  BY <1>1, <1>3, <1>6 DEF PmInv, OneAtATime, Pm!Resting, Busy, Decisions
<1>8. DifferencesNoted'
  BY <1>1, <1>3, <1>6 DEF PmInv, DifferencesNoted, Noted, Busy, Pushes
<1>9. NothingAhead'
  BY <1>1, <1>3 DEF PmInv, NothingAhead
<1>10. SeenIsCurrent' /\ ChangesAreNews'
  BY <1>1, <1>3, <1>6 DEF PmInv, SeenIsCurrent, Undisturbed, Current, Pm!StillPending, Busy,
     ChangesAreNews, Reads, Decisions
<1>11. OthersFromOutside'
  <2>1. Undisturbed => Level(resolvers[r].of.ext) /\ \A q \in Resolvers : Busy(q) => q = r
    BY <1>1 DEF PmInv, OneAtATime, OthersFromOutside, Undisturbed, Busy
  <2> QED
    BY <1>1, <1>3, <1>6, <2>1
       DEF OthersFromOutside, Undisturbed, Level, Busy, Decisions, Pushes
<1> QED
  BY <1>4, <1>5, <1>7, <1>8, <1>9, <1>10, <1>11 DEF PmInv

(* Every step keeps the invariant.                                         *)
LEMMA PmNextStands ==
    ASSUME PmInv, None \notin Mirrored, [Pm!PmNext]_(Pm!pmVars)
    PROVE  PmInv'
<1>1. CASE UNCHANGED Pm!pmVars
  <2>1. PmTyped' /\ PullStands' /\ ConflictStands' /\ ResolversStand'
    BY <1>1 DEF Pm!pmVars, PmInv, PmTyped, PullStands, ConflictStands, ResolversStand, Busy
  <2>2. OneAtATime' /\ DifferencesNoted'
    BY <1>1 DEF Pm!pmVars, PmInv, OneAtATime, DifferencesNoted, Busy, Noted, Pm!Resting
  <2>3. NothingAhead'
    BY <1>1 DEF Pm!pmVars, PmInv, NothingAhead
  <2>4. SeenIsCurrent' /\ ChangesAreNews'
    BY <1>1 DEF Pm!pmVars, PmInv, SeenIsCurrent, ChangesAreNews, Undisturbed, Busy, Current,
       Pm!StillPending
  <2>5. OthersFromOutside'
    BY <1>1 DEF Pm!pmVars, PmInv, OthersFromOutside, Undisturbed, Level
  <2> QED
    BY <2>1, <2>2, <2>3, <2>4, <2>5 DEF PmInv
<1>2. ASSUME NEW r \in Resolvers, NEW v \in Pm!Versions, Pm!Claim(r, v)
      PROVE  PmInv'
  BY <1>2, ClaimStands DEF Version
<1> QED
  BY <1>1, <1>2, OutsideStands, EditStands, SyncStands, LooksStand, ApplyStands,
     SaveResolvedStands DEF Pm!PmNext

(* The invariant holds throughout, for any fields, values, people and      *)
(* bounds, whatever overlaps and fails.                                    *)
LEMMA PmInvariance ==
    ASSUME None \notin Mirrored, FieldTexts # {}
    PROVE  Pm!PmSpec => []PmInv
<1>1. Pm!PmInit => PmInv
  BY PmStarts
<1>2. PmInv /\ [Pm!PmNext]_(Pm!pmVars) => PmInv'
  BY PmNextStands
<1> QED
  BY <1>1, <1>2, PTL DEF Pm!PmSpec

(* "If unchanged outside, a pull does not overwrite", whatever fields the  *)
(* source's writeback carries, as long as none failed and people in Actio  *)
(* changed only those: what they left alone follows the outside.  However  *)
(* they edit the task during the sync (sync-project.ts, sync-plan.ts).     *)
THEOREM UnchangedIsKept ==
    ASSUME None \notin Mirrored, FieldTexts # {}
    PROVE  Pm!PmSpec => KeptWhileUnchanged
<1>1. PmInv => Pm!KeptWhileUnchanged
  BY DEF PmInv, ChangesAreNews, Undisturbed, Decisions, Pm!KeptWhileUnchanged,
     Pm!UnchangedOutside
<1>2. PmInv /\ [Pm!PmNext]_(Pm!pmVars) => [Pm!KeptWhileUnchanged]_pmVars
  BY <1>1
<1> QED
  BY <1>2, PmInvariance, PTL DEF Pm!PmSpec, KeptWhileUnchanged

(* Between syncs that ran alone, no difference from the outside is         *)
(* forgotten: it waits to be written back, or the next pull sees it,       *)
(* whatever writebacks failed (sync-project.ts, resolve-conflict.ts).      *)
THEOREM NothingIsForgotten ==
    ASSUME None \notin Mirrored, FieldTexts # {}
    PROVE  Pm!PmSpec => []NothingForgotten
<1>1. PmInv => NothingForgotten
  BY DEF PmInv, DifferencesNoted, Noted, NothingForgotten, Pm!NothingForgotten
<1> QED
  BY <1>1, PmInvariance, PTL

-----------------------------------------------------------------------------
(* The recomputation of critical paths.                                    *)

(* What a computation gives for a backlog is a value for every row.        *)
ComputesOutcomes == \A plan \in Path!Backlogs : ComputedPath(plan) \in Path!Outcomes

Recomputing ==
    [at: {"writing"}, todo: SUBSET BacklogTasks, results: Path!Outcomes]

PathTyped ==
    /\ backlog \in Path!Backlogs
    /\ pathRows \in Path!Outcomes
    /\ recomputesOwed \in Nat
    /\ recompute \in Recomputing \cup {Path!NoJob}

(* What a recomputation has not still to write is in the rows as it read   *)
(* and computed it.                                                        *)
RestIsWritten ==
    recompute.at = "writing" =>
        \A t \in BacklogTasks \ recompute.todo : pathRows[t] = recompute.results[t]

(* What it computed is true of the tasks as they are, or another is owed.  *)
ComputedOrOwed ==
    recompute.at = "writing" /\ recomputesOwed = 0 =>
        recompute.results = ComputedPath(backlog)

(* The rows hold what the computation gives for the tasks as they are.     *)
StoredAsComputed == Path!Settled => pathRows = ComputedPath(backlog)

(* The inductive invariant of the recomputations.                          *)
PathInv == PathTyped /\ RestIsWritten /\ ComputedOrOwed /\ StoredAsComputed

(* An edit leaves every row a row, and no task waits for itself.           *)
LEMMA EditKeepsBacklog ==
    ASSUME backlog \in Path!Backlogs, NEW t \in BacklogTasks, NEW row \in Path!Changed(t)
    PROVE  [backlog EXCEPT ![t] = row] \in Path!Backlogs
PROOF
<1>1. /\ backlog[t] \in Path!TaskRow
      /\ t \notin backlog[t].blockedBy
  BY DEF Path!Backlogs
<1>2. row \in Path!TaskRow /\ t \notin row.blockedBy
  BY <1>1 DEF Path!Changed, Path!TaskRow
<1> QED
  BY <1>2 DEF Path!Backlogs

(* Every step of the recomputations keeps what they rest on.               *)
LEMMA PathNextStands ==
    ASSUME PathInv, [Path!PathNext]_(Path!pathVars), ComputesOutcomes
    PROVE  PathInv'
PROOF
<1>1. /\ backlog \in Path!Backlogs /\ pathRows \in Path!Outcomes
      /\ recomputesOwed \in Nat
      /\ recompute \in Recomputing \cup {Path!NoJob}
      /\ ComputedPath(backlog) \in Path!Outcomes
  BY DEF PathInv, PathTyped, ComputesOutcomes
<1>2. Path!NoJob.at = "idle"
  BY DEF Path!NoJob
<1>3. ASSUME NEW t \in BacklogTasks, Path!Edit(t)
      PROVE  PathInv'
  <2>1. PICK row \in Path!Changed(t) : backlog' = [backlog EXCEPT ![t] = row]
    BY <1>3 DEF Path!Edit
  <2>2. /\ recomputesOwed' = recomputesOwed + 1
        /\ UNCHANGED <<pathRows, recompute, incomplete>>
    BY <1>3 DEF Path!Edit, Path!Triggers
  <2>3. backlog' \in Path!Backlogs
    BY <1>1, <2>1, EditKeepsBacklog
  <2>4. recomputesOwed' \in Nat /\ recomputesOwed' # 0
    BY <1>1, <2>2
  <2> QED
    BY <1>1, <2>2, <2>3, <2>4
       DEF PathInv, PathTyped, RestIsWritten, ComputedOrOwed, StoredAsComputed, Path!Settled
<1>4. CASE Path!Begin
  <2> DEFINE results == ComputedPath(backlog)
             todo == {t \in BacklogTasks : pathRows[t] # results[t]}
  <2>1. /\ recomputesOwed > 0 /\ recomputesOwed' = recomputesOwed - 1
        /\ recompute' = [at |-> "writing", results |-> results, todo |-> todo]
        /\ UNCHANGED <<backlog, pathRows, incomplete>>
    BY <1>4 DEF Path!Begin, Path!Differs
  <2>2. recompute' \in Recomputing
    BY <1>1, <2>1 DEF Recomputing
  <2>3. RestIsWritten'
    BY <2>1 DEF RestIsWritten
  <2>4. ComputedOrOwed' /\ StoredAsComputed'
    BY <2>1 DEF ComputedOrOwed, StoredAsComputed, Path!Settled
  <2> QED
    BY <1>1, <2>1, <2>2, <2>3, <2>4 DEF PathInv, PathTyped
<1>5. CASE Path!WriteNext
  <2>1. PICK t : /\ pathRows' = [pathRows EXCEPT ![t] = recompute.results[t]]
                 /\ recompute' = [recompute EXCEPT !.todo = @ \ {t}]
    BY <1>5 DEF Path!WriteNext
  <2>2. recompute \in Recomputing
    BY <1>1, <1>5 DEF Path!WriteNext, Path!NoJob
  <2>3. /\ recompute' \in Recomputing
        /\ recompute'.at = "writing" /\ recompute'.results = recompute.results
        /\ recompute'.todo = recompute.todo \ {t}
    BY <2>1, <2>2 DEF Recomputing
  <2>4. UNCHANGED <<backlog, recomputesOwed, incomplete>>
    BY <1>5 DEF Path!WriteNext
  <2>5. pathRows' \in Path!Outcomes
    BY <1>1, <2>1, <2>2 DEF Recomputing, Path!Outcomes
  <2>6. RestIsWritten'
    BY <1>1, <2>1, <2>2, <2>3 DEF PathInv, RestIsWritten, Recomputing, Path!Outcomes
  <2>7. ComputedOrOwed' /\ StoredAsComputed'
    BY <2>2, <2>3, <2>4
       DEF PathInv, ComputedOrOwed, StoredAsComputed, Path!Settled, Recomputing
  <2> QED
    BY <1>1, <2>3, <2>4, <2>5, <2>6, <2>7 DEF PathInv, PathTyped
<1>6. CASE Path!End
  <2>1. /\ recompute.at = "writing" /\ recompute.todo = {}
        /\ recompute' = Path!NoJob
        /\ UNCHANGED <<backlog, pathRows, recomputesOwed>>
    BY <1>6 DEF Path!End
  <2>2. recompute.results \in Path!Outcomes
    BY <1>1, <1>2, <2>1 DEF Recomputing
  <2>3. pathRows = recompute.results
    BY <1>1, <2>1, <2>2 DEF PathInv, RestIsWritten, Path!Outcomes
  <2>4. StoredAsComputed'
    BY <2>1, <2>3 DEF PathInv, ComputedOrOwed, StoredAsComputed, Path!Settled
  <2> QED
    BY <1>1, <1>2, <2>1, <2>4 DEF PathInv, PathTyped, RestIsWritten, ComputedOrOwed
<1>7. CASE Path!Fail \/ Path!Crash
  <2>1. /\ recompute' = Path!NoJob /\ incomplete'
        /\ recomputesOwed' \in {recomputesOwed, 0}
        /\ UNCHANGED <<backlog, pathRows>>
    BY <1>7 DEF Path!Fail, Path!Crash
  <2> QED
    BY <1>1, <1>2, <2>1
       DEF PathInv, PathTyped, RestIsWritten, ComputedOrOwed, StoredAsComputed, Path!Settled
<1>8. CASE UNCHANGED Path!pathVars
  BY <1>8 DEF PathInv, PathTyped, RestIsWritten, ComputedOrOwed, StoredAsComputed,
              Path!Settled, Path!pathVars
<1> QED
  BY <1>3, <1>4, <1>5, <1>6, <1>7, <1>8 DEF Path!PathNext

(* At first the rows are computed and nothing is owed.                     *)
LEMMA PathStarts ==
    ASSUME Path!PathInit, ComputesOutcomes, StartBacklogs \subseteq Path!Backlogs
    PROVE  PathInv
PROOF
<1>1. /\ backlog \in Path!Backlogs /\ pathRows = ComputedPath(backlog)
      /\ recomputesOwed = 0 /\ recompute = Path!NoJob
  BY DEF Path!PathInit
<1>2. pathRows \in Path!Outcomes /\ recompute.at = "idle"
  BY <1>1 DEF ComputesOutcomes, Path!NoJob
<1> QED
  BY <1>1, <1>2 DEF PathInv, PathTyped, RestIsWritten, ComputedOrOwed, StoredAsComputed

(* Whatever is computed: once no recomputation is owed and the last one    *)
(* came to its end, the rows hold what the computation gives for the tasks *)
(* as they are, however edits, failures and crashes fell between the read  *)
(* and the writes of the recomputations before.                            *)
THEOREM RowsAreComputed ==
    ASSUME ComputesOutcomes, StartBacklogs \subseteq Path!Backlogs
    PROVE  Path!PathSpec => []StoredAsComputed
PROOF
<1>1. Path!PathInit => PathInv
  BY PathStarts
<1>2. PathInv /\ [Path!PathNext]_(Path!pathVars) => PathInv'
  BY PathNextStands
<1>3. PathInv => StoredAsComputed
  BY DEF PathInv
<1> QED
  BY <1>1, <1>2, <1>3, PTL DEF Path!PathSpec

(* So they hold what the plan means, if the computation gives that for     *)
(* every backlog: nothing but the computation itself can be wrong.         *)
THEOREM RowsAreCurrent ==
    ASSUME \A plan \in Path!Backlogs :
                ComputedPath(plan) \in Path!Outcomes /\ ComputedPath(plan) = MeantPath(plan),
           StartBacklogs \subseteq Path!Backlogs
    PROVE  Path!PathSpec => []StoredIsCurrent
PROOF
<1>1. ComputesOutcomes
  BY DEF ComputesOutcomes
<1>2. Path!PathInit => PathInv
  BY <1>1, PathStarts
<1>3. PathInv /\ [Path!PathNext]_(Path!pathVars) => PathInv'
  BY <1>1, PathNextStands
<1>4. PathInv => StoredIsCurrent
  BY DEF PathInv, PathTyped, StoredAsComputed, StoredIsCurrent, Path!StoredIsCurrent
<1> QED
  BY <1>2, <1>3, <1>4, PTL DEF Path!PathSpec
=============================================================================
