-------------------------- MODULE AggregateColumn --------------------------
(***************************************************************************)
(* The incremental aggregates of the rolling windows: add_event and        *)
(* remove_events of Sum-, Count-, Avg-, Min- and MaxColumn, for an integer *)
(* T.  events is _allEvents; indices are 1-based, so the code's -1 is 0    *)
(* and its events.size() is Len(events) + 1.                               *)
(***************************************************************************)
EXTENDS Integers, Sequences, FiniteSetsExt

CONSTANT Default        \* the "default" of the operation in the preprocessor JSON

Operators == {"Sum", "Count", "Avg", "Min", "Max"}
Subtracting == {"Sum", "Count", "Avg"}       \* remove_events subtracts, Min and Max rescan

\* _oldestIndex, _totalCount, _sum (AverageColumn only) and *_storeValue.
NewColumn == [oldest |-> 0, count |-> 0, sum |-> 0, store |-> Default]

Abs(n) == IF n < 0 THEN -n ELSE n

\* C++ integer division rounds towards zero; by zero it is undefined, and the
\* value given here is never relied on.
Quotient(a, b) ==
    IF b = 0 THEN 0
    ELSE LET q == Abs(a) \div Abs(b) IN IF (a < 0) = (b < 0) THEN q ELSE -q

\* The running sums of the values of the events with an index in I; the last is the total.
RunningSums(events, I) ==
    LET upTo[n \in 0 .. Len(events)] ==
            IF n = 0 THEN 0 ELSE upTo[n - 1] + (IF n \in I THEN events[n].val ELSE 0)
    IN  upTo

Total(events, I) == RunningSums(events, I)[Len(events)]
Vals(events, I) == {events[i].val : i \in I}
Best(op, S) == IF op = "Max" THEN Max(S) ELSE Min(S)

-----------------------------------------------------------------------------
\* The value add_event stores, given the column with count and sum already updated.
StoreAfterAdd(op, c, first, val) ==
    CASE op = "Sum"   -> IF first THEN val ELSE c.store + val
      [] op = "Count" -> IF first THEN 1 ELSE c.store + 1
      [] op = "Avg"   -> Quotient(c.sum, c.count)
      [] OTHER        -> IF first THEN val ELSE Best(op, {c.store, val})

\* Fault variant of AddToColumn: the first event is added to the default.
AddToColumnNoFirst(op, c, events, i) ==
    LET d == [c EXCEPT !.count = @ + 1, !.oldest = IF @ = 0 THEN i ELSE @,
                       !.sum = @ + events[i].val]
    IN  [d EXCEPT !.store = StoreAfterAdd(op, d, FALSE, events[i].val)]

\* add_event for an event of the column's own group.
AddToColumn(op, c, events, i) ==
    LET d == [c EXCEPT !.count = @ + 1, !.oldest = IF @ = 0 THEN i ELSE @,
                       !.sum = @ + events[i].val]
    IN  [d EXCEPT !.store = StoreAfterAdd(op, d, c.oldest = 0, events[i].val)]

\* AverageColumn divides by the count, which is 0 if it was wrong (-1) before.
DividesByZero(op, c) == op = "Avg" /\ c.count = -1

\* The events of group g that remove_events walks over as expired.
Expired(c, events, g, valid) ==
    {i \in 1 .. valid - 1 : i >= c.oldest /\ events[i].group = g}
Remaining(events, g, valid) ==
    {i \in valid .. Len(events) : events[i].group = g}

\* The loop of Sum-, Count- and AverageColumn starts at _oldestIndex also when
\* that is -1: with anything to walk over it reads allEvents[-1] first.
ReadsOutOfBounds(op, c, valid) == op \in Subtracting /\ c.oldest = 0 /\ valid > 0

\* The end of every remove_events: an empty column starts over.
Settle(c, valid) ==
    IF c.count = 0 THEN [c EXCEPT !.oldest = 0, !.sum = 0, !.store = Default]
                   ELSE [c EXCEPT !.oldest = valid]

Subtract(op, c, events, g, valid) ==
    LET gone == Expired(c, events, g, valid)
        n == c.count - Cardinality(gone)
        s == c.sum - Total(events, gone)
    IN  [c EXCEPT !.count = n, !.sum = s,
                  !.store = CASE op = "Sum"   -> @ - Total(events, gone)
                              [] op = "Count" -> @ - Cardinality(gone)
                              [] OTHER        -> IF n = 0 THEN @ ELSE Quotient(s, n)]

\* Fault variant of Rescan: the count is not rebuilt along with the extremum.
RescanKeepsCount(op, c, events, g, valid) ==
    LET gone == IF c.oldest = 0 THEN {} ELSE Expired(c, events, g, valid)
        left == Remaining(events, g, valid)
    IN  IF c.store \in Vals(events, gone)
          THEN [c EXCEPT !.store = IF left = {} THEN Default ELSE Best(op, Vals(events, left))]
          ELSE [c EXCEPT !.count = @ - Cardinality(gone)]

\* Min and Max: if the extremum is among the expired events, the remaining ones
\* are gone through again.  (-1 compared with size() is a large unsigned number,
\* so an empty column does not enter the loop.)
Rescan(op, c, events, g, valid) ==
    LET gone == IF c.oldest = 0 THEN {} ELSE Expired(c, events, g, valid)
        left == Remaining(events, g, valid)
    IN  IF c.store \in Vals(events, gone)
          THEN [c EXCEPT !.count = Cardinality(left),
                         !.store = IF left = {} THEN Default ELSE Best(op, Vals(events, left))]
          ELSE [c EXCEPT !.count = @ - Cardinality(gone)]

RemoveFromColumn(op, c, events, g, valid) ==
    Settle(IF op \in Subtracting THEN Subtract(op, c, events, g, valid)
                                 ELSE Rescan(op, c, events, g, valid), valid)

-----------------------------------------------------------------------------
\* Reference: the aggregate of the events with the indices in I.
Aggregate(op, events, I) ==
    IF I = {} THEN Default
    ELSE CASE op = "Sum"   -> Total(events, I)
           [] op = "Count" -> Cardinality(I)
           [] op = "Avg"   -> Quotient(Total(events, I), Cardinality(I))
           [] OTHER        -> Best(op, Vals(events, I))
=============================================================================
