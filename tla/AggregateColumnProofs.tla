----------------------- MODULE AggregateColumnProofs -----------------------
(***************************************************************************)
(* Lemmas about the aggregates of AggregateColumn, for any sequence of     *)
(* events: what the running sum of a set of events is, and that add_event  *)
(* and remove_events keep a column the aggregate of the events counted.    *)
(***************************************************************************)
EXTENDS AggregateColumn, FiniteSetTheorems, WellFoundedInduction, TLAPS

\* The smallest element of a set of indices exists.
LEMMA MinOfNat ==
    ASSUME NEW S, S \subseteq Nat, S # {}
    PROVE  Min(S) \in S /\ \A x \in S : Min(S) <= x
<1> DEFINE R == OpToRel(<, Nat)
<1>1. ASSUME NEW x \in Nat, NEW y \in Nat, y < x PROVE <<y, x>> \in R
  <2>1. <<y, x>> \in Nat \X Nat /\ <<y, x>>[1] = y /\ <<y, x>>[2] = x
    OBVIOUS
  <2>2. <<y, x>>[1] < <<y, x>>[2]
    BY <1>1, <2>1, Zenon
  <2> QED BY <2>1, <2>2, Zenon DEF OpToRel
<1>2. IsWellFoundedOn(R, Nat)
  BY NatLessThanWellFounded, Zenon
<1> HIDE DEF R
<1>3. PICK x \in S : \A y \in S : ~(<<y, x>> \in R)
  BY WFMin, <1>2
<1>4. ASSUME NEW y \in S PROVE x <= y
  <2>1. x \in Nat /\ y \in Nat
    OBVIOUS
  <2>2. ~(y < x)
    BY <1>1, <1>3, <2>1, Zenon
  <2> QED BY <2>1, <2>2
<1> QED BY <1>4 DEF Min

\* Induction over the indices 0 .. n, with the statement given as a set.
LEMMA IndexInduction ==
    ASSUME NEW n \in Nat, NEW S, 0 \in S, \A i \in 1 .. n : i - 1 \in S => i \in S
    PROVE  \A i \in 0 .. n : i \in S
<1> DEFINE Rest == {i \in 0 .. n : i \notin S}
<1>1. CASE Rest # {}
  <2>1. Rest \subseteq Nat
    OBVIOUS
  <2>2. PICK m \in Rest : \A x \in Rest : m <= x
    BY <1>1, <2>1, MinOfNat
  <2>3. m \in 1 .. n /\ m - 1 \in 0 .. n /\ ~(m <= m - 1)
    OBVIOUS
  <2>4. m - 1 \in S
    BY <2>2, <2>3
  <2> QED BY <2>2, <2>3, <2>4
<1> QED BY <1>1

-----------------------------------------------------------------------------
(* The sum of the values of a set of events.                                *)

Valued(events) == Len(events) \in Nat /\ \A i \in 1 .. Len(events) : events[i].val \in Int

\* RunningSums is what its recursion says.
LEMMA SumsRecursion ==
    ASSUME NEW events, Len(events) \in Nat, NEW I
    PROVE  RunningSums(events, I) =
             [n \in 0 .. Len(events) |->
                IF n = 0 THEN 0
                ELSE RunningSums(events, I)[n - 1] + (IF n \in I THEN events[n].val ELSE 0)]
<1> DEFINE L == Len(events)
           v(n) == IF n \in I THEN events[n].val ELSE 0
           Sums(f, n) == f = [m \in 0 .. n |-> IF m = 0 THEN 0 ELSE f[m - 1] + v(m)]
           S == {n \in 0 .. L : \E f : Sums(f, n)}
<1>1. 0 \in S
  <2> DEFINE f == [m \in 0 .. 0 |-> 0]
  <2> HIDE DEF v
  <2>1. \A m \in 0 .. 0 : f[m] = IF m = 0 THEN 0 ELSE f[m - 1] + v(m)
    OBVIOUS
  <2>2. f = [m \in 0 .. 0 |-> f[m]]
    OBVIOUS
  <2> HIDE DEF f
  <2>3. Sums(f, 0)
    BY <2>1, <2>2
  <2> QED BY <2>3
<1>2. ASSUME NEW n \in 1 .. L, n - 1 \in S PROVE n \in S
  <2>1. PICK f : Sums(f, n - 1)
    BY <1>2
  <2> DEFINE g == [m \in 0 .. n |-> IF m = n THEN f[n - 1] + v(n) ELSE f[m]]
  <2> HIDE DEF v
  <2>2. \A m \in 0 .. n : g[m] = IF m = 0 THEN 0 ELSE g[m - 1] + v(m)
    <3> SUFFICES ASSUME NEW m \in 0 .. n PROVE g[m] = IF m = 0 THEN 0 ELSE g[m - 1] + v(m)
      OBVIOUS
    <3>1. CASE m = n
      BY <3>1
    <3>2. CASE m # n
      <4>1. m \in 0 .. n - 1 /\ g[m] = f[m] /\ (m # 0 => g[m - 1] = f[m - 1])
        BY <3>2
      <4>2. f[m] = IF m = 0 THEN 0 ELSE f[m - 1] + v(m)
        BY <2>1, <4>1
      <4> QED BY <4>1, <4>2
    <3> QED BY <3>1, <3>2
  <2>3. g = [m \in 0 .. n |-> g[m]]
    OBVIOUS
  <2> HIDE DEF g
  <2>4. Sums(g, n)
    BY <2>2, <2>3
  <2> QED BY <2>4
<1>3. L \in S
  <2> HIDE DEF S
  <2>1. \A i \in 0 .. L : i \in S
    BY <1>1, <1>2, IndexInduction
  <2> QED BY <2>1
<1>4. RunningSums(events, I) = CHOOSE f : Sums(f, L)
  BY DEF RunningSums
<1>5. Sums(RunningSums(events, I), L)
  <2> HIDE DEF Sums
  <2> QED BY <1>3, <1>4
<1> QED BY <1>5

\* The first running sum is 0, and each event of the set adds its value to the next.
LEMMA SumsAt ==
    ASSUME NEW events, Valued(events), NEW I
    PROVE  /\ RunningSums(events, I)[0] = 0
           /\ \A n \in 1 .. Len(events) : RunningSums(events, I)[n] =
                RunningSums(events, I)[n - 1] + (IF n \in I THEN events[n].val ELSE 0)
           /\ \A n \in 0 .. Len(events) : RunningSums(events, I)[n] \in Int
<1> DEFINE f == RunningSums(events, I)
           v(n) == IF n \in I THEN events[n].val ELSE 0
           S == {n \in 0 .. Len(events) : f[n] \in Int}
<1>1. f = [n \in 0 .. Len(events) |-> IF n = 0 THEN 0 ELSE f[n - 1] + v(n)]
  BY SumsRecursion DEF Valued
<1> HIDE DEF f
<1>2. f[0] = 0 /\ \A n \in 1 .. Len(events) : f[n] = f[n - 1] + v(n)
  <2> HIDE DEF v
  <2>1. 0 \in 0 .. Len(events) /\ \A n \in 1 .. Len(events) : n \in 0 .. Len(events) /\ n # 0
    BY DEF Valued
  <2> QED BY <1>1, <2>1
<1>3. \A n \in 0 .. Len(events) : n \in S
  <2>1. 0 \in S
    BY <1>2 DEF Valued
  <2>2. ASSUME NEW n \in 1 .. Len(events), n - 1 \in S PROVE n \in S
    <3>1. f[n - 1] \in Int /\ n \in 0 .. Len(events) /\ f[n] = f[n - 1] + v(n)
      BY <1>2, <2>2 DEF Valued
    <3>2. v(n) \in Int
      BY DEF Valued
    <3> HIDE DEF v
    <3> QED BY <3>1, <3>2
  <2> HIDE DEF S
  <2> QED BY <2>1, <2>2, IndexInduction DEF Valued
<1> QED BY <1>2, <1>3 DEF f

\* The total is an integer.
LEMMA TotalType ==
    ASSUME NEW events, Valued(events), NEW I
    PROVE  Total(events, I) \in Int
BY SumsAt DEF Total, Valued

\* One more event adds its value to the total.
LEMMA TotalAdd ==
    ASSUME NEW events, Valued(events), NEW I, NEW i \in 1 .. Len(events), i \notin I
    PROVE  Total(events, I \cup {i}) = Total(events, I) + events[i].val
<1> DEFINE f == RunningSums(events, I)
           h == RunningSums(events, I \cup {i})
           x == events[i].val
           S == {n \in 0 .. Len(events) : h[n] = f[n] + (IF i <= n THEN x ELSE 0)}
<1>0. Len(events) \in Nat /\ i \in Nat \ {0} /\ x \in Int
  BY DEF Valued
<1>1. /\ f[0] = 0 /\ h[0] = 0
      /\ \A n \in 0 .. Len(events) : f[n] \in Int /\ h[n] \in Int
      /\ \A n \in 1 .. Len(events) : f[n] = f[n - 1] + (IF n \in I THEN events[n].val ELSE 0)
      /\ \A n \in 1 .. Len(events) : h[n] = h[n - 1] + (IF n \in I \cup {i} THEN events[n].val ELSE 0)
  BY SumsAt
<1> HIDE DEF f, h, x
<1>2. 0 \in S
  BY <1>0, <1>1
<1>3. ASSUME NEW n \in 1 .. Len(events), n - 1 \in S PROVE n \in S
  <2>1. h[n - 1] = f[n - 1] + (IF i <= n - 1 THEN x ELSE 0) /\ n - 1 \in 0 .. Len(events)
    BY <1>3
  <2>2. events[n].val \in Int /\ f[n - 1] \in Int
    BY <1>1, <2>1 DEF Valued
  <2>3. CASE n = i
    <3>1. h[n] = h[n - 1] + x /\ f[n] = f[n - 1] + 0
      BY <1>1, <2>3 DEF x
    <3> QED BY <1>0, <2>1, <2>2, <2>3, <3>1
  <2>4. CASE n # i
    <3> DEFINE y == IF n \in I THEN events[n].val ELSE 0
    <3>1. h[n] = h[n - 1] + y /\ f[n] = f[n - 1] + y /\ y \in Int
      BY <1>1, <2>2, <2>4
    <3>2. (i <= n) <=> (i <= n - 1)
      BY <1>0, <2>4
    <3> HIDE DEF y
    <3> QED BY <1>0, <2>1, <2>2, <3>1, <3>2
  <2> QED BY <2>3, <2>4
<1>4. Len(events) \in S
  <2> HIDE DEF S
  <2>1. \A n \in 0 .. Len(events) : n \in S
    BY <1>0, <1>2, <1>3, IndexInduction
  <2> QED BY <1>0, <2>1
<1> QED BY <1>0, <1>4 DEF Total, f, h, x

\* Two histories that agree on the events of the set have the same total.
LEMMA TotalAppend ==
    ASSUME NEW events, Valued(events), NEW more, Valued(more), NEW I,
           Len(more) = Len(events) + 1, I \subseteq 1 .. Len(events),
           \A n \in 1 .. Len(events) : more[n] = events[n]
    PROVE  Total(more, I) = Total(events, I)
<1> DEFINE f == RunningSums(events, I)
           h == RunningSums(more, I)
           L == Len(events)
           S == {n \in 0 .. L : h[n] = f[n]}
<1>0. L \in Nat /\ Len(more) = L + 1 /\ I \subseteq 1 .. L
  BY DEF Valued
<1>1. /\ f[0] = 0 /\ h[0] = 0
      /\ \A n \in 0 .. L + 1 : h[n] \in Int
      /\ \A n \in 1 .. L : f[n] = f[n - 1] + (IF n \in I THEN events[n].val ELSE 0)
      /\ \A n \in 1 .. L + 1 : h[n] = h[n - 1] + (IF n \in I THEN more[n].val ELSE 0)
  BY <1>0, SumsAt
<1> HIDE DEF f, h, L
<1>2. 0 \in S
  BY <1>0, <1>1
<1>3. ASSUME NEW n \in 1 .. L, n - 1 \in S PROVE n \in S
  <2>1. h[n - 1] = f[n - 1] /\ n \in 1 .. L + 1 /\ more[n] = events[n] /\ n \in 0 .. L
    BY <1>0, <1>3 DEF L
  <2> QED BY <1>1, <2>1
<1>4. h[L] = f[L]
  <2> HIDE DEF S
  <2>1. \A n \in 0 .. L : n \in S
    BY <1>0, <1>2, <1>3, IndexInduction
  <2> QED BY <1>0, <2>1 DEF S
<1>5. h[L + 1] = h[L]
  <2>1. L + 1 \notin I /\ L + 1 \in 1 .. L + 1 /\ (L + 1) - 1 = L /\ h[L] \in Int
    BY <1>0, <1>1
  <2>2. h[L + 1] = h[L] + 0
    BY <1>1, <2>1
  <2> QED BY <2>1, <2>2
<1> QED BY <1>0, <1>4, <1>5 DEF Total, f, h, L

\* No event, no sum.
LEMMA TotalEmpty ==
    ASSUME NEW events, Valued(events)
    PROVE  Total(events, {}) = 0
<1> DEFINE f == RunningSums(events, {})
           S == {n \in 0 .. Len(events) : f[n] = 0}
<1>1. f[0] = 0 /\ \A n \in 1 .. Len(events) : f[n] = f[n - 1] + 0
  BY SumsAt
<1> HIDE DEF f
<1>2. 0 \in S /\ \A n \in 1 .. Len(events) : n - 1 \in S => n \in S
  BY <1>1 DEF Valued
<1>3. Len(events) \in S
  <2> HIDE DEF S
  <2>1. \A n \in 0 .. Len(events) : n \in S
    BY <1>2, IndexInduction DEF Valued
  <2> QED BY <2>1 DEF Valued
<1> QED BY <1>3 DEF Total, f

-----------------------------------------------------------------------------
(* Columns.                                                                 *)

HasMembers(c) == c = [oldest |-> c.oldest, count |-> c.count, sum |-> c.sum, store |-> c.store]
IsColumn(c) == HasMembers(c) /\ c.count \in Nat

\* Column a is column c after one more event, at index i and with value v.
AddedTo(op, c, a, i, v) ==
    /\ IsColumn(a)
    /\ a.oldest = (IF c.oldest = 0 THEN i ELSE c.oldest)
    /\ a.count = c.count + 1 /\ a.sum = c.sum + v
    /\ op = "Sum" => a.store = IF c.oldest = 0 THEN v ELSE c.store + v
    /\ op = "Count" => a.store = IF c.oldest = 0 THEN 1 ELSE c.store + 1
    /\ op = "Avg" => a.store = Quotient(a.sum, a.count)
    /\ op \notin Subtracting => a.store = IF c.oldest = 0 THEN v ELSE Best(op, {c.store, v})

\* What add_event makes of every member of a column.
LEMMA AddedColumn ==
    ASSUME NEW op \in Operators, NEW c, IsColumn(c), NEW events, NEW i
    PROVE  AddedTo(op, c, AddToColumn(op, c, events, i), i, events[i].val)
<1> DEFINE a == AddToColumn(op, c, events, i)
           v == events[i].val
           o == IF c.oldest = 0 THEN i ELSE c.oldest
           n == c.count + 1
           m == c.sum + v
           d == [oldest |-> o, count |-> n, sum |-> m, store |-> c.store]
           store == StoreAfterAdd(op, d, c.oldest = 0, v)
<1>1. [c EXCEPT !.count = @ + 1, !.oldest = IF @ = 0 THEN i ELSE @,
                !.sum = @ + events[i].val] = [c EXCEPT !.count = n, !.oldest = o, !.sum = m]
  BY Zenon DEF IsColumn, HasMembers
<1>2. [c EXCEPT !.count = n, !.oldest = o, !.sum = m] = d
  <2> HIDE DEF o, n, m
  <2>1. c = [oldest |-> c.oldest, count |-> c.count, sum |-> c.sum, store |-> c.store]
    BY DEF IsColumn, HasMembers
  <2>2. [c EXCEPT !.count = n] = [oldest |-> c.oldest, count |-> n, sum |-> c.sum, store |-> c.store]
    BY <2>1
  <2>3. [[oldest |-> c.oldest, count |-> n, sum |-> c.sum, store |-> c.store] EXCEPT !.oldest = o]
        = [oldest |-> o, count |-> n, sum |-> c.sum, store |-> c.store]
    OBVIOUS
  <2>4. [[oldest |-> o, count |-> n, sum |-> c.sum, store |-> c.store] EXCEPT !.sum = m] = d
    OBVIOUS
  <2>5. [c EXCEPT !.count = n, !.oldest = o, !.sum = m]
        = [[[c EXCEPT !.count = n] EXCEPT !.oldest = o] EXCEPT !.sum = m]
    BY Zenon
  <2> QED BY <2>2, <2>3, <2>4, <2>5, Zenon
<1>3. AddToColumn(op, c, events, i) = [d EXCEPT !.store = store]
  BY <1>1, <1>2, Zenon DEF AddToColumn
<1>4. AddToColumn(op, c, events, i) = [oldest |-> o, count |-> n, sum |-> m, store |-> store]
  <2> HIDE DEF store, o, n, m
  <2> QED BY <1>3
<1>5. n \in Nat
  BY DEF IsColumn, HasMembers
<1>6. /\ op = "Sum" => store = IF c.oldest = 0 THEN v ELSE c.store + v
      /\ op = "Count" => store = IF c.oldest = 0 THEN 1 ELSE c.store + 1
      /\ op = "Avg" => store = Quotient(m, n)
      /\ op \notin Subtracting => store = IF c.oldest = 0 THEN v ELSE Best(op, {c.store, v})
  <2> HIDE DEF o, n, m
  <2>1. d.store = c.store /\ d.sum = m /\ d.count = n
    OBVIOUS
  <2> HIDE DEF d
  <2> QED BY <2>1 DEF StoreAfterAdd, Operators, Subtracting
<1> HIDE DEF store, o, n, m, v
<1>7. a.oldest = o /\ a.count = n /\ a.sum = m /\ a.store = store
  BY <1>4
<1>8. IsColumn(a)
  BY <1>4, <1>5 DEF IsColumn, HasMembers
<1> HIDE DEF a
<1>9. AddedTo(op, c, a, i, v)
  BY <1>6, <1>7, <1>8 DEF AddedTo, o, n, m
<1> QED BY <1>9 DEF a, v

\* x is the value of the maximum or minimum of S.
IsBest(op, S, x) == x \in S /\ \A y \in S : IF op = "Max" THEN y <= x ELSE x <= y

\* The extremum is unique.
LEMMA BestIs ==
    ASSUME NEW op, NEW S, S \subseteq Int, NEW x, IsBest(op, S, x)
    PROVE  Best(op, S) = x
<1>1. CASE op = "Max"
  <2>1. ASSUME NEW z \in S, \A y \in S : z >= y PROVE z = x
    BY <1>1, <2>1 DEF IsBest
  <2>2. x \in S /\ \A y \in S : x >= y
    BY <1>1 DEF IsBest
  <2> QED BY <1>1, <2>1, <2>2 DEF Best, Max
<1>2. CASE op # "Max"
  <2>1. ASSUME NEW z \in S, \A y \in S : z <= y PROVE z = x
    BY <1>2, <2>1 DEF IsBest
  <2>2. x \in S /\ \A y \in S : x <= y
    BY <1>2 DEF IsBest
  <2> QED BY <1>2, <2>1, <2>2 DEF Best, Min
<1> QED BY <1>1, <1>2

\* The better of the stored value and a new one is the best of all.
LEMMA BestAdd ==
    ASSUME NEW op, NEW S, S \subseteq Int, NEW x, IsBest(op, S, x), NEW v \in Int
    PROVE  IsBest(op, S \cup {v}, Best(op, {x, v}))
<1>0. x \in Int
  BY DEF IsBest
<1>1. PICK z \in {x, v} : IsBest(op, {x, v}, z)
  BY <1>0 DEF IsBest
<1>2. Best(op, {x, v}) = z
  BY <1>0, <1>1, BestIs
<1>3. z \in Int /\ z \in S \cup {v}
  BY <1>0, <1>1 DEF IsBest
<1>4. ASSUME NEW y \in S \cup {v} PROVE IF op = "Max" THEN y <= z ELSE z <= y
  <2>1. CASE y = v
    BY <1>1, <2>1 DEF IsBest
  <2>2. CASE y \in S
    <3>1. IF op = "Max" THEN y <= x /\ x <= z ELSE x <= y /\ z <= x
      BY <1>1, <2>2 DEF IsBest
    <3> QED BY <1>0, <1>3, <2>2, <3>1
  <2> QED BY <2>1, <2>2
<1> QED BY <1>2, <1>3, <1>4 DEF IsBest

-----------------------------------------------------------------------------
(* A column of group g is the aggregate of the events with the indices in C *)
(* when the first n events have been given to the preprocessor: the events  *)
(* of g from _oldestIndex on are those in C, so all of them are removed.    *)

ColumnHolds(op, c, events, g, C, n) ==
    /\ IsColumn(c)
    /\ c.count = Cardinality(C) /\ c.sum = Total(events, C)
    /\ c.store = Aggregate(op, events, C)
    /\ C # {} /\ op \notin Subtracting => IsBest(op, Vals(events, C), c.store)
    /\ C = {} => c.oldest = 0
    /\ C # {} => /\ c.oldest \in C /\ \A i \in C : c.oldest <= i
                 /\ \A j \in 1 .. n : j >= c.oldest /\ events[j].group = g => j \in C

\* A new column is the aggregate of no event.
LEMMA ColumnNew ==
    ASSUME NEW op, NEW events, Valued(events), NEW g, NEW n
    PROVE  IsColumn(NewColumn) /\ ColumnHolds(op, NewColumn, events, g, {}, n)
<1>1. IsColumn(NewColumn) /\ NewColumn.count = 0 /\ NewColumn.sum = 0 /\ NewColumn.oldest = 0
      /\ NewColumn.store = Default
  BY DEF NewColumn, IsColumn, HasMembers
<1>2. Cardinality({}) = 0 /\ Total(events, {}) = 0 /\ Aggregate(op, events, {}) = Default
  BY FS_EmptySet, TotalEmpty DEF Aggregate
<1> QED BY <1>1, <1>2 DEF ColumnHolds

\* The only column of no event is a new one.
LEMMA ColumnEmpty ==
    ASSUME NEW op, NEW c, NEW events, Valued(events), NEW g, NEW n,
           ColumnHolds(op, c, events, g, {}, n)
    PROVE  c = NewColumn
<1>1. Cardinality({}) = 0 /\ Total(events, {}) = 0 /\ Aggregate(op, events, {}) = Default
  BY FS_EmptySet, TotalEmpty DEF Aggregate
<1> QED BY <1>1 DEF ColumnHolds, NewColumn, IsColumn, HasMembers

\* add_event for the next event, of the group of the column.
LEMMA ColumnAdd ==
    ASSUME NEW op \in Operators, NEW c, NEW events, Valued(events), NEW i \in 1 .. Len(events),
           NEW g, NEW C, C \subseteq 1 .. i - 1, ColumnHolds(op, c, events, g, C, i - 1)
    PROVE  ColumnHolds(op, AddToColumn(op, c, events, i), events, g, C \cup {i}, i)
<1> DEFINE a == AddToColumn(op, c, events, i)
           D == C \cup {i}
           v == events[i].val
<1>0. /\ Len(events) \in Nat /\ i \in Nat \ {0} /\ i \notin C /\ v \in Int /\ IsColumn(c)
      /\ C \subseteq 1 .. Len(events)
  BY DEF Valued, ColumnHolds
<1>1. /\ IsColumn(a) /\ a.oldest = (IF c.oldest = 0 THEN i ELSE c.oldest)
      /\ a.count = c.count + 1 /\ a.sum = c.sum + v
      /\ op = "Sum" => a.store = IF c.oldest = 0 THEN v ELSE c.store + v
      /\ op = "Count" => a.store = IF c.oldest = 0 THEN 1 ELSE c.store + 1
      /\ op = "Avg" => a.store = Quotient(a.sum, a.count)
      /\ op \notin Subtracting => a.store = IF c.oldest = 0 THEN v ELSE Best(op, {c.store, v})
  <2>1. AddedTo(op, c, a, i, v)
    BY <1>0, AddedColumn
  <2> HIDE DEF a, v
  <2> QED BY <2>1 DEF AddedTo
<1> HIDE DEF a
<1>2. IsFiniteSet(C)
  <2>1. C \in SUBSET (1 .. i - 1) /\ i - 1 \in Int
    BY <1>0
  <2>2. IsFiniteSet(1 .. i - 1)
    BY <2>1, FS_Interval
  <2> QED BY <2>1, <2>2, FS_Subset
<1>3. a.count = Cardinality(D)
  BY <1>0, <1>1, <1>2, FS_AddElement DEF ColumnHolds
<1>4. a.sum = Total(events, D) /\ Total(events, D) = Total(events, C) + v
  BY <1>0, <1>1, TotalAdd DEF ColumnHolds
<1>5. Vals(events, D) = Vals(events, C) \cup {v} /\ Vals(events, C) \subseteq Int
  BY <1>0 DEF Vals, Valued
<1>6. c.oldest = 0 <=> C = {}
  <2>1. 0 \notin C
    OBVIOUS
  <2> QED BY <2>1 DEF ColumnHolds
<1>7. op \notin Subtracting => IsBest(op, Vals(events, D), a.store)
  <2>1. CASE C = {}
    <3>1. op \notin Subtracting => a.store = v
      BY <1>1, <1>6, <2>1
    <3>2. Vals(events, {}) = {}
      BY DEF Vals
    <3>3. Vals(events, D) = {v}
      BY <1>5, <2>1, <3>2
    <3> HIDE DEF D, v
    <3> QED BY <1>0, <3>1, <3>3 DEF IsBest
  <2>2. CASE C # {}
    <3> SUFFICES ASSUME op \notin Subtracting PROVE IsBest(op, Vals(events, D), a.store)
      OBVIOUS
    <3>1. IsBest(op, Vals(events, C), c.store) /\ a.store = Best(op, {c.store, v})
      BY <1>1, <1>6, <2>2 DEF ColumnHolds
    <3> HIDE DEF D, v
    <3> QED BY <1>0, <1>5, <3>1, BestAdd
  <2> QED BY <2>1, <2>2
<1>8. a.store = Aggregate(op, events, D)
  <2>0. D # {}
    OBVIOUS
  <2>1. CASE op = "Sum"
    <3>1. a.store = Total(events, D)
      <4>1. CASE C = {}
        <5>1. Total(events, C) = 0 /\ a.store = v
          BY <1>1, <1>6, <2>1, <4>1, TotalEmpty
        <5> QED BY <1>0, <1>4, <5>1
      <4>2. CASE C # {}
        <5>1. c.store = Total(events, C)
          BY <2>1, <4>2 DEF ColumnHolds, Aggregate
        <5> QED BY <1>1, <1>4, <1>6, <2>1, <4>2, <5>1
      <4> QED BY <4>1, <4>2
    <3> QED BY <2>0, <2>1, <3>1 DEF Aggregate
  <2>2. CASE op = "Count"
    <3>1. a.store = Cardinality(D)
      <4>1. CASE C = {}
        <5>1. c.count = 0 /\ a.store = 1
          BY <1>1, <1>6, <2>2, <4>1, FS_EmptySet DEF ColumnHolds
        <5> QED BY <1>1, <1>3, <5>1
      <4>2. CASE C # {}
        <5>1. c.store = Cardinality(C) /\ c.count = Cardinality(C)
          BY <2>2, <4>2 DEF ColumnHolds, Aggregate
        <5> QED BY <1>1, <1>3, <1>6, <2>2, <4>2, <5>1
      <4> QED BY <4>1, <4>2
    <3> QED BY <2>0, <2>2, <3>1 DEF Aggregate
  <2>3. CASE op = "Avg"
    BY <1>1, <1>3, <1>4, <2>0, <2>3 DEF Aggregate
  <2>4. CASE op \notin Subtracting
    <3>1. Best(op, Vals(events, D)) = a.store
      BY <1>0, <1>5, <1>7, <2>4, BestIs
    <3> QED BY <2>0, <2>4, <3>1 DEF Aggregate, Subtracting
  <2> QED BY <2>1, <2>2, <2>3, <2>4 DEF Subtracting
<1>9. a.oldest \in D /\ \A k \in D : a.oldest <= k
  <2>1. CASE C = {}
    BY <1>0, <1>1, <1>6, <2>1
  <2>2. CASE C # {}
    <3>1. a.oldest \in C /\ \A k \in C : a.oldest <= k
      BY <1>1, <1>6, <2>2 DEF ColumnHolds
    <3>2. \A k \in C : k <= i
      BY <1>0
    <3> QED BY <3>1, <3>2 DEF D
  <2> QED BY <2>1, <2>2
<1>10. ASSUME NEW j \in 1 .. i, j >= a.oldest, events[j].group = g PROVE j \in D
  <2>1. CASE C = {}
    BY <1>0, <1>1, <1>6, <1>10, <2>1
  <2>2. CASE C # {} /\ j # i
    BY <1>0, <1>1, <1>6, <1>10, <2>2 DEF ColumnHolds
  <2> QED BY <2>1, <2>2
<1>11. D # {}
  OBVIOUS
<1> HIDE DEF D
<1> QED BY <1>1, <1>3, <1>4, <1>7, <1>8, <1>9, <1>10, <1>11 DEF ColumnHolds, a, D

\* An event of another group, or none of whose predecessors is counted.
LEMMA ColumnPass ==
    ASSUME NEW op, NEW c, NEW events, NEW g, NEW C, NEW i \in Nat \ {0},
           ColumnHolds(op, c, events, g, C, i - 1), events[i].group # g \/ C = {}
    PROVE  ColumnHolds(op, c, events, g, C, i)
<1>1. \A j \in 1 .. i : j \in 1 .. i - 1 \/ j = i
  OBVIOUS
<1> QED BY <1>1 DEF ColumnHolds

\* What comes after the first n events does not matter.
LEMMA ColumnAppend ==
    ASSUME NEW op, NEW c, NEW events, Valued(events), NEW more, Valued(more), NEW g, NEW C,
           Len(more) = Len(events) + 1, \A k \in 1 .. Len(events) : more[k] = events[k],
           C \subseteq 1 .. Len(events), ColumnHolds(op, c, events, g, C, Len(events))
    PROVE  ColumnHolds(op, c, more, g, C, Len(events))
<1>1. Total(more, C) = Total(events, C)
  BY TotalAppend
<1>2. Vals(more, C) = Vals(events, C)
  BY DEF Vals
<1>3. Aggregate(op, more, C) = Aggregate(op, events, C)
  BY <1>1, <1>2 DEF Aggregate
<1> QED BY <1>1, <1>2, <1>3 DEF ColumnHolds

-----------------------------------------------------------------------------
(* remove_events.                                                           *)

\* The count after the subtraction.
LEMMA SubtractCount ==
    ASSUME NEW op, NEW c, IsColumn(c), NEW events, NEW g, NEW valid
    PROVE  /\ HasMembers(Subtract(op, c, events, g, valid))
           /\ Subtract(op, c, events, g, valid).count
                = c.count - Cardinality(Expired(c, events, g, valid))
<1> DEFINE gone == Expired(c, events, g, valid)
           n == c.count - Cardinality(gone)
           s == c.sum - Total(events, gone)
           store == CASE op = "Sum"   -> c.store - Total(events, gone)
                      [] op = "Count" -> c.store - Cardinality(gone)
                      [] OTHER        -> IF n = 0 THEN c.store ELSE Quotient(s, n)
<1>1. Subtract(op, c, events, g, valid) = [c EXCEPT !.count = n, !.sum = s, !.store = store]
  <2> HIDE DEF gone
  <2> QED BY Zenon DEF Subtract, gone
<1> HIDE DEF n, s, store
<1>2. Subtract(op, c, events, g, valid) = [oldest |-> c.oldest, count |-> n, sum |-> s, store |-> store]
  BY <1>1 DEF IsColumn, HasMembers
<1> QED BY <1>2 DEF HasMembers, n

\* The events Min and Max walk over: none from index -1, which is no index below size().
Walked(c, events, g, valid) == IF c.oldest = 0 THEN {} ELSE Expired(c, events, g, valid)

\* The count after the search for a new extremum.
LEMMA RescanCount ==
    ASSUME NEW op, NEW c, IsColumn(c), NEW events, NEW g, NEW valid
    PROVE  /\ HasMembers(Rescan(op, c, events, g, valid))
           /\ Rescan(op, c, events, g, valid).count
                = IF c.store \in Vals(events, Walked(c, events, g, valid))
                    THEN Cardinality(Remaining(events, g, valid))
                    ELSE c.count - Cardinality(Walked(c, events, g, valid))
<1> DEFINE gone == Walked(c, events, g, valid)
           left == Remaining(events, g, valid)
           n == Cardinality(left)
           m == c.count - Cardinality(gone)
           x == IF left = {} THEN Default ELSE Best(op, Vals(events, left))
<1>1. Rescan(op, c, events, g, valid) =
        IF c.store \in Vals(events, gone) THEN [c EXCEPT !.count = n, !.store = x]
                                          ELSE [c EXCEPT !.count = m]
  BY Zenon DEF Rescan, Walked
<1> HIDE DEF n, m, x
<1>2. /\ [c EXCEPT !.count = n, !.store = x] = [oldest |-> c.oldest, count |-> n, sum |-> c.sum, store |-> x]
      /\ [c EXCEPT !.count = m] = [oldest |-> c.oldest, count |-> m, sum |-> c.sum, store |-> c.store]
  <2>1. c = [oldest |-> c.oldest, count |-> c.count, sum |-> c.sum, store |-> c.store]
    BY DEF IsColumn, HasMembers
  <2>2. [c EXCEPT !.count = n, !.store = x] = [oldest |-> c.oldest, count |-> n, sum |-> c.sum, store |-> x]
    <3>1. [c EXCEPT !.count = n] = [oldest |-> c.oldest, count |-> n, sum |-> c.sum, store |-> c.store]
      BY <2>1
    <3>2. [[oldest |-> c.oldest, count |-> n, sum |-> c.sum, store |-> c.store] EXCEPT !.store = x]
          = [oldest |-> c.oldest, count |-> n, sum |-> c.sum, store |-> x]
      OBVIOUS
    <3>3. [c EXCEPT !.count = n, !.store = x] = [[c EXCEPT !.count = n] EXCEPT !.store = x]
      BY Zenon
    <3> QED BY <3>1, <3>2, <3>3, Zenon
  <2>3. [c EXCEPT !.count = m] = [oldest |-> c.oldest, count |-> m, sum |-> c.sum, store |-> c.store]
    BY <2>1
  <2> QED BY <2>2, <2>3
<1> QED BY <1>1, <1>2 DEF HasMembers, n, m

\* A column left without events starts over.
LEMMA SettleCount ==
    ASSUME NEW c, HasMembers(c), NEW valid
    PROVE  /\ HasMembers(Settle(c, valid)) /\ Settle(c, valid).count = c.count
           /\ c.count = 0 => Settle(c, valid) = NewColumn
BY DEF Settle, HasMembers, NewColumn

\* Removing up to index 0 takes no event out of a column.
LEMMA RemoveNothing ==
    ASSUME NEW op, NEW c, IsColumn(c), NEW events, NEW g
    PROVE  /\ IsColumn(RemoveFromColumn(op, c, events, g, 0))
           /\ c.count = 0 => RemoveFromColumn(op, c, events, g, 0) = NewColumn
<1> DEFINE d == IF op \in Subtracting THEN Subtract(op, c, events, g, 0)
                                      ELSE Rescan(op, c, events, g, 0)
<1>1. Expired(c, events, g, 0) = {} /\ Cardinality({}) = 0 /\ Vals(events, {}) = {}
  BY FS_EmptySet DEF Expired, Vals
<1>2. HasMembers(Subtract(op, c, events, g, 0)) /\ Subtract(op, c, events, g, 0).count = c.count
  BY <1>1, SubtractCount DEF IsColumn
<1>3. HasMembers(Rescan(op, c, events, g, 0)) /\ Rescan(op, c, events, g, 0).count = c.count
  <2>1. Walked(c, events, g, 0) = {}
    BY <1>1 DEF Walked
  <2>2. c.store \notin Vals(events, Walked(c, events, g, 0)) /\ Cardinality(Walked(c, events, g, 0)) = 0
    BY <1>1, <2>1, Zenon
  <2>3. Rescan(op, c, events, g, 0).count = c.count - Cardinality(Walked(c, events, g, 0))
    BY <2>2, RescanCount
  <2> QED BY <2>2, <2>3, RescanCount DEF IsColumn
<1>4. HasMembers(d) /\ d.count = c.count
  BY <1>2, <1>3
<1>5. RemoveFromColumn(op, c, events, g, 0) = Settle(d, 0)
  BY DEF RemoveFromColumn
<1> HIDE DEF d
<1> QED BY <1>4, <1>5, SettleCount DEF IsColumn

\* Once every event of the table has expired, a column is as good as new, unless the loop
\* of remove_events started at index -1.
LEMMA RemoveAll ==
    ASSUME NEW op \in Operators, NEW c, NEW events, Valued(events), NEW g,
           NEW C, C \subseteq 1 .. Len(events), \A k \in C : events[k].group = g,
           ColumnHolds(op, c, events, g, C, Len(events)), op \in Subtracting => c.oldest # 0
    PROVE  RemoveFromColumn(op, c, events, g, Len(events) + 1) = NewColumn
<1> DEFINE valid == Len(events) + 1
           d == IF op \in Subtracting THEN Subtract(op, c, events, g, valid)
                                      ELSE Rescan(op, c, events, g, valid)
<1>0. IsColumn(c) /\ c.count = Cardinality(C) /\ c.count \in Nat /\ Len(events) \in Nat
  BY DEF ColumnHolds, IsColumn, Valued
<1>1. C # {} => Expired(c, events, g, valid) = C /\ c.oldest # 0
  <2> SUFFICES ASSUME C # {} PROVE Expired(c, events, g, valid) = C /\ c.oldest # 0
    OBVIOUS
  <2>1. /\ c.oldest \in C /\ \A k \in C : k >= c.oldest
        /\ \A j \in 1 .. Len(events) : j >= c.oldest /\ events[j].group = g => j \in C
    BY <1>0 DEF ColumnHolds
  <2>2. valid - 1 = Len(events)
    BY <1>0
  <2>3. Expired(c, events, g, valid) = {k \in 1 .. Len(events) : k >= c.oldest /\ events[k].group = g}
    BY <2>2 DEF Expired
  <2>4. \A k : k \in C => k \in 1 .. Len(events) /\ events[k].group = g
    OBVIOUS
  <2>5. Expired(c, events, g, valid) = C
    BY <2>1, <2>3, <2>4, Zenon
  <2> QED BY <2>1, <2>5
<1>2. C = {} => c.oldest = 0
  BY DEF ColumnHolds
<1>3. Remaining(events, g, valid) = {} /\ Cardinality({}) = 0 /\ Vals(events, {}) = {}
  BY <1>0, FS_EmptySet DEF Remaining, Vals
<1> HIDE DEF valid
<1>4. CASE op \in Subtracting
  <2>1. d = Subtract(op, c, events, g, valid) /\ C # {}
    BY <1>2, <1>4
  <2> HIDE DEF d
  <2>2. HasMembers(d) /\ d.count = c.count - Cardinality(C)
    BY <1>0, <1>1, <2>1, SubtractCount
  <2> QED BY <1>0, <2>2, SettleCount, <1>4 DEF RemoveFromColumn, d, valid
<1>5. CASE op \notin Subtracting
  <2>1. d = Rescan(op, c, events, g, valid)
    BY <1>5
  <2> HIDE DEF d
  <2>2. CASE C = {}
    <3>1. HasMembers(d) /\ d.count = c.count - Cardinality({})
      <4>1. Walked(c, events, g, valid) = {}
        BY <1>2, <2>2 DEF Walked
      <4>2. c.store \notin Vals(events, Walked(c, events, g, valid))
        BY <1>3, <4>1, Zenon
      <4>3. HasMembers(d) /\ d.count = c.count - Cardinality(Walked(c, events, g, valid))
        BY <1>0, <2>1, <4>2, RescanCount
      <4> QED BY <4>1, <4>3, Zenon
    <3> QED BY <1>0, <1>3, <2>2, <3>1, SettleCount, <1>5 DEF RemoveFromColumn, d, valid
  <2>3. CASE C # {}
    <3>1. c.store \in Vals(events, C)
      BY <1>5, <2>3 DEF ColumnHolds, IsBest
    <3>2. HasMembers(d) /\ d.count = 0
      <4>1. Walked(c, events, g, valid) = C
        BY <1>1, <2>3 DEF Walked
      <4> QED BY <1>0, <1>3, <2>1, <3>1, <4>1, RescanCount
    <3> QED BY <3>2, SettleCount, <1>5 DEF RemoveFromColumn, d, valid
  <2> QED BY <2>2, <2>3
<1> QED BY <1>4, <1>5
=============================================================================
