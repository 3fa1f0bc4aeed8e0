---------------------------- MODULE CriticalPath ----------------------------
(***************************************************************************)
(* The critical path of a team's backlog: computeCriticalPath of           *)
(* modules/task/critical-path/compute.ts, and what it is meant to compute. *)
(* PathRecompute has when it is computed and how it comes into the rows.   *)
(*                                                                         *)
(* Ids are numbers.  A deleted task counts as a finished one: neither is   *)
(* waited for.                                                             *)
(***************************************************************************)
EXTENDS Integers, SequencesExt

CONSTANTS
    Tasks,              \* numbers
    DailyMinutes,       \* default_daily_minutes of the team
    None

Ascending(S) == SetToSortSeq(S, <)

Targets(rows) == {t \in Tasks : rows[t].counted}

Duration(row) ==
    IF row.days # None THEN row.days
    ELSE IF row.minutes # None THEN (row.minutes + DailyMinutes - 1) \div DailyMinutes
    ELSE 1

-----------------------------------------------------------------------------
(* findCycles: Tarjan's strongly connected components.  The state of the   *)
(* search is a record; 0 stands for a number not yet given.                *)

Lowered(s, id, to) == [s EXCEPT !.low[id] = Min({@, to})]

Entered(s, id) ==
    [s EXCEPT !.index = @ + 1, !.indices[id] = s.index, !.low[id] = s.index,
              !.stack = Append(@, id)]

(* The component of id is what lies on the stack from id upwards.          *)
Left(s, id) ==
    LET from == CHOOSE i \in DOMAIN s.stack : s.stack[i] = id
        component == {s.stack[i] : i \in from..Len(s.stack)}
    IN  IF s.low[id] # s.indices[id] THEN s
        ELSE [s EXCEPT !.stack = SubSeq(@, 1, from - 1),
                       !.cyclic = IF Cardinality(component) > 1 THEN @ \cup component ELSE @]

(* Mutant: a task met again counts although its component is complete.     *)
OnceOnStack(s, id) == TRUE

OnStack(s, id) == \E i \in DOMAIN s.stack : s.stack[i] = id

RECURSIVE Visit(_, _, _)
Visit(state, id, preds) ==
    LET look(s, pred) ==
            IF s.indices[pred] = 0
            THEN LET visited == Visit(s, pred, preds)
                 IN  Lowered(visited, id, visited.low[pred])
            ELSE IF OnStack(s, pred) THEN Lowered(s, id, s.indices[pred])
            ELSE s
    IN  Left(FoldLeft(look, Entered(state, id), Ascending(preds[id])), id)

FindCycles(ids, preds) ==
    LET start == [index |-> 1, indices |-> [t \in Tasks |-> 0], low |-> [t \in Tasks |-> 0],
                  stack |-> <<>>, cyclic |-> {}]
        visit(s, id) == IF s.indices[id] = 0 THEN Visit(s, id, preds) ELSE s
    IN  FoldLeft(visit, start, Ascending(ids)).cyclic

-----------------------------------------------------------------------------
(* computeCriticalPath.                                                    *)

RECURSIVE Drain(_, _, _, _)
(* The queue of Kahn's order: a task follows its last predecessor.         *)
Drain(order, queue, remaining, succs) ==
    IF queue = <<>> THEN order
    ELSE LET id == Head(queue)
             left == [t \in DOMAIN remaining |->
                        IF t \in succs[id] THEN remaining[t] - 1 ELSE remaining[t]]
             ready == SelectSeq(Ascending(succs[id]), LAMBDA t : left[t] = 0)
         IN  Drain(Append(order, id), Tail(queue) \o ready, left, succs)

Order(nodes, preds, succs) ==
    LET remaining == [t \in nodes |-> Cardinality(preds[t])]
        first == {t \in nodes : remaining[t] = 0}
    IN  Drain(<<>>, Ascending(first), remaining, succs)

EarliestStarts(order, preds, rows) ==
    LET step(starts, id) ==
            [starts EXCEPT ![id] = Max({0} \cup {starts[p] + Duration(rows[p]) : p \in preds[id]})]
    IN  FoldLeft(step, [t \in Tasks |-> 0], order)

LatestStarts(order, succs, rows, totalDays) ==
    LET step(starts, id) ==
            [starts EXCEPT ![id] =
                (IF succs[id] = {} THEN totalDays ELSE Min({starts[n] : n \in succs[id]}))
                    - Duration(rows[id])]
    IN  FoldLeft(step, [t \in Tasks |-> totalDays], Reverse(order))

NoResult == [critical |-> FALSE, slack |-> None, error |-> None]

Computed(rows) ==
    LET targets == Targets(rows)
        waitsFor == [t \in targets |-> rows[t].blockedBy \cap targets]
        cyclic == FindCycles(targets, waitsFor)
        nodes == targets \ cyclic
        preds == [t \in nodes |-> waitsFor[t] \cap nodes]
        succs == [t \in nodes |-> {n \in nodes : t \in preds[n]}]
        order == Order(nodes, preds, succs)
        earliest == EarliestStarts(order, preds, rows)
        totalDays == Max({0} \cup {earliest[t] + Duration(rows[t]) : t \in nodes})
        latest == LatestStarts(order, succs, rows, totalDays)
    IN  [t \in Tasks |->
            IF t \in ToSet(order)
            THEN [critical |-> latest[t] = earliest[t], slack |-> latest[t] - earliest[t],
                  error |-> None]
            ELSE IF t \in cyclic THEN [NoResult EXCEPT !.error = "cycle"]
            ELSE NoResult]

-----------------------------------------------------------------------------
(* The definition it is checked against.                                   *)

(* What the plan means, without passes and orders: a task on a cycle has   *)
(* no slack; the slack of another is what the longest chain through it     *)
(* lacks to the longest of all.                                            *)
Chains(rows, nodes) ==
    {c \in UNION {[1..n -> nodes] : n \in 1..Cardinality(nodes)} :
        \A i \in 1..Len(c) - 1 : c[i] \in rows[c[i + 1]].blockedBy}

Length(rows, chain) == FoldLeft(LAMBDA sum, t : sum + Duration(rows[t]), 0, chain)

Meant(rows) ==
    LET targets == Targets(rows)
        cyclic == {c[1] : c \in {d \in Chains(rows, targets) :
                                    d[Len(d)] \in rows[d[1]].blockedBy}}
        nodes == targets \ cyclic
        chains == Chains(rows, nodes)
        longest == [t \in nodes |-> Max({Length(rows, c) : c \in {d \in chains : t \in ToSet(d)}})]
        slack == [t \in nodes |-> Max({longest[n] : n \in nodes}) - longest[t]]
    IN  [t \in Tasks |->
            IF t \in nodes THEN [critical |-> slack[t] = 0, slack |-> slack[t], error |-> None]
            ELSE IF t \in targets THEN [NoResult EXCEPT !.error = "cycle"]
            ELSE NoResult]
=============================================================================
