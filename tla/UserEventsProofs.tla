-------------------------- MODULE UserEventsProofs --------------------------
(***************************************************************************)
(* Proofs about UserEvents, for any window, expiry, groups, values, lag of *)
(* add_event and any number of events, restarts and models.                *)
(***************************************************************************)
EXTENDS UserEvents, AggregateColumnProofs

Events == [id : Nat, ts : Int, group : Groups, val : Values]

\* What delete_old_rows_from_table_in_db leaves are rows of the table, with all that
\* have not expired.
LEMMA DeleteKeeps ==
    ASSUME NEW rs \in Seq(Events), clock \in Nat
    PROVE  /\ DeleteOldRows(rs) \in Seq(Events)
           /\ \A i \in 1 .. Len(rs) : rs[i].ts >= clock - Expiry =>
                  \E j \in 1 .. Len(DeleteOldRows(rs)) : DeleteOldRows(rs)[j] = rs[i]
<1> DEFINE S == {i \in 1 .. Len(rs) + 1 : i > Len(rs) \/ rs[i].ts >= clock - Expiry}
           m == Min(S)
           d == SubSeq(rs, m, Len(rs))
<1>1. Len(rs) \in Nat /\ Len(rs) + 1 \in S /\ S \subseteq Nat
  OBVIOUS
<1>2. m \in S /\ \A i \in S : m <= i
  BY <1>1, MinOfNat
<1>3. DeleteOldRows(rs) = d
  BY DEF DeleteOldRows
<1>4. \A i \in 1 .. Len(rs) : rs[i].ts >= clock - Expiry => m <= i
  BY <1>1, <1>2
<1>5. m \in 1 .. Len(rs) + 1
  BY <1>2
<1> HIDE DEF m, S
<1>6. d \in Seq(Events) /\ Len(d) = Len(rs) - m + 1 /\ \A j \in 1 .. Len(d) : d[j] = rs[m + j - 1]
  BY <1>1, <1>5
<1>7. ASSUME NEW i \in 1 .. Len(rs), rs[i].ts >= clock - Expiry
      PROVE  \E j \in 1 .. Len(d) : d[j] = rs[i]
  <2>1. m <= i
    BY <1>4, <1>7
  <2>2. i - m + 1 \in 1 .. Len(d) /\ m + (i - m + 1) - 1 = i
    BY <1>1, <1>5, <1>6, <2>1
  <2> QED BY <1>6, <2>2
<1> HIDE DEF d
<1> QED BY <1>3, <1>6, <1>7

-----------------------------------------------------------------------------
(* The table in the database and in memory.                                 *)

Opened ==
    /\ running \in BOOLEAN /\ open \in BOOLEAN /\ ready \in BOOLEAN
    /\ phase \in {"none", "filling", "ready"}
    /\ fillIdx \in Nat \ {0}
    /\ open => running
    /\ ready => open
    /\ phase # "none" => ready
    /\ phase = "none" => win = NewWindow /\ undefined = FALSE /\ fillIdx = 1
    /\ ~ready => allEvents = <<>> /\ cut = 0 /\ missed = 0
    /\ cut \in Nat /\ missed \in Nat

\* The row of the table that is at position i of memory.
RowOf(i) == IF i <= cut THEN i ELSE i + missed

TablesInv ==
    /\ Opened
    /\ clock \in Nat /\ added \in Nat
    /\ rows \in Seq(Events) /\ allEvents \in Seq(Events)
    /\ ready => /\ Len(rows) = Len(allEvents) + missed /\ (missed # 0 => cut <= Len(allEvents))
                /\ \A i \in 1 .. Len(allEvents) : allEvents[i].id = rows[RowOf(i)].id

\* Before the first start there is no table.
LEMMA TablesInit == Init => TablesInv
<1> SUFFICES ASSUME Init PROVE TablesInv
  OBVIOUS
<1>1. <<>> \in Seq(Events) /\ 1 \in Nat \ {0}
  OBVIOUS
<1>2. Opened
  BY <1>1 DEF Init, Opened
<1>3. clock \in Nat /\ added \in Nat /\ ~ready /\ rows = <<>> /\ allEvents = <<>>
  BY DEF Init
<1> QED BY <1>1, <1>2, <1>3 DEF TablesInv

\* What add_event appends to the table and to memory.
LEMMA AddedEvent ==
    ASSUME TablesInv, NEW g \in Groups, NEW v \in Values, NEW lag \in 0 .. MaxLag,
           AddEvent(g, v, lag)
    PROVE  \E e \in Events :
              /\ e.id = added + 1 /\ e.ts = clock - lag /\ e.group = g /\ e.ts <= clock
              /\ \E r \in Events : r.id = e.id /\ r.ts = clock /\ rows' = Append(rows, r)
              /\ allEvents' = IF ready THEN Append(allEvents, e) ELSE allEvents
              /\ accepted' = accepted \cup {[id |-> e.id, ts |-> e.ts]}
<1> DEFINE e == [id |-> added + 1, ts |-> clock - lag, group |-> g, val |-> v]
<1>1. e \in Events /\ e.ts <= clock
  BY UserEventsAssumption DEF Events, TablesInv
<1>2. [e EXCEPT !.ts = clock] \in Events /\ [e EXCEPT !.ts = clock].id = e.id
      /\ [e EXCEPT !.ts = clock].ts = clock
  <2>1. [e EXCEPT !.ts = clock] = [id |-> added + 1, ts |-> clock, group |-> g, val |-> v]
    OBVIOUS
  <2> QED BY <2>1 DEF Events, TablesInv
<1>3. /\ rows' = Append(rows, [e EXCEPT !.ts = clock])
      /\ allEvents' = IF ready THEN Append(allEvents, e) ELSE allEvents
      /\ accepted' = accepted \cup {[id |-> e.id, ts |-> e.ts]}
  BY DEF AddEvent
<1>4. e.id = added + 1 /\ e.ts = clock - lag /\ e.group = g
  OBVIOUS
<1> HIDE DEF e
<1> QED BY <1>1, <1>2, <1>3, <1>4

\* No step makes the two copies differ: the table changes under a filled memory only by
\* an INSERT, and what the INSERT adds is copied.
LEMMA TablesStep == TablesInv /\ [Next]_vars => TablesInv'
<1> SUFFICES ASSUME TablesInv, [Next]_vars PROVE TablesInv'
  OBVIOUS
<1>1. ASSUME NEW s \in Schemas, NEW debug \in BOOLEAN, Start(s, debug) PROVE TablesInv'
  <2>1. /\ ~running /\ running' = TRUE /\ open' \in BOOLEAN
        /\ UNCHANGED <<clock, ready, allEvents, cut, missed, phase, fillIdx, win, undefined, added>>
    BY <1>1 DEF Start, memVars, gapVars
  <2>2. rows' \in {rows, DeleteOldRows(rows), <<>>}
    BY <1>1 DEF Start
  <2>3. rows' \in Seq(Events)
    <3>1. <<>> \in Seq(Events)
      OBVIOUS
    <3> QED BY <2>2, <3>1, DeleteKeeps DEF TablesInv
  <2> QED BY <2>1, <2>3 DEF TablesInv, Opened
<1>2. ASSUME NEW g \in Groups, NEW v \in Values, NEW lag \in 0 .. MaxLag, AddEvent(g, v, lag)
      PROVE  TablesInv'
  <2>1. PICK e \in Events : /\ \E r \in Events : r.id = e.id /\ rows' = Append(rows, r)
                            /\ allEvents' = IF ready THEN Append(allEvents, e) ELSE allEvents
    BY <1>2, AddedEvent
  <2>2. PICK r \in Events : r.id = e.id /\ rows' = Append(rows, r)
    BY <2>1
  <2>3. /\ UNCHANGED <<clock, open, running, ready, cut, missed, phase, fillIdx>> /\ open
        /\ added' = added + 1 /\ (phase # "ready" => win' = win) /\ phase # "filling"
        /\ (phase # "ready" => undefined' = undefined)
    BY <1>2 DEF AddEvent, TablesInv, Opened, gapVars
  <2>4. Opened'
    BY <2>1, <2>3 DEF TablesInv, Opened
  <2>5. ASSUME ready
        PROVE  /\ Len(rows') = Len(allEvents') + missed /\ (missed # 0 => cut <= Len(allEvents'))
               /\ \A i \in 1 .. Len(allEvents') : allEvents'[i].id = rows'[RowOf(i)].id
    <3>1. /\ Len(rows) \in Nat /\ Len(rows') = Len(rows) + 1 /\ rows'[Len(rows) + 1] = r
          /\ \A i \in 1 .. Len(rows) : rows'[i] = rows[i]
      BY <2>2 DEF TablesInv
    <3>2. /\ Len(allEvents) \in Nat /\ Len(allEvents') = Len(allEvents) + 1
          /\ allEvents'[Len(allEvents) + 1] = e
          /\ \A i \in 1 .. Len(allEvents) : allEvents'[i] = allEvents[i]
      BY <2>1, <2>5 DEF TablesInv
    <3>3. /\ Len(rows) = Len(allEvents) + missed /\ (missed # 0 => cut <= Len(allEvents))
          /\ \A i \in 1 .. Len(allEvents) : allEvents[i].id = rows[RowOf(i)].id
          /\ cut \in Nat /\ missed \in Nat
      BY <2>5 DEF TablesInv, Opened
    <3>4. RowOf(Len(allEvents) + 1) = Len(rows) + 1
      BY <3>2, <3>3 DEF RowOf
    <3>5. \A i \in 1 .. Len(allEvents) : RowOf(i) \in 1 .. Len(rows)
      BY <3>2, <3>3 DEF RowOf
    <3>6. ASSUME NEW i \in 1 .. Len(allEvents') PROVE allEvents'[i].id = rows'[RowOf(i)].id
      <4>1. CASE i = Len(allEvents) + 1
        BY <2>2, <3>1, <3>2, <3>4, <4>1
      <4>2. CASE i # Len(allEvents) + 1
        <5>1. i \in 1 .. Len(allEvents)
          BY <3>2, <4>2
        <5> QED BY <3>1, <3>2, <3>3, <3>5, <5>1
      <4> QED BY <4>1, <4>2
    <3>7. Len(rows') = Len(allEvents') + missed /\ (missed # 0 => cut <= Len(allEvents'))
      BY <3>1, <3>2, <3>3
    <3> QED BY <3>6, <3>7
  <2>6. clock' \in Nat /\ added' \in Nat /\ rows' \in Seq(Events) /\ allEvents' \in Seq(Events)
    BY <2>1, <2>2, <2>3 DEF TablesInv
  <2> QED BY <2>3, <2>4, <2>5, <2>6 DEF TablesInv, RowOf
<1>3. CASE BeginCreate
  BY <1>3 DEF BeginCreate, gapVars, TablesInv, Opened, RowOf
<1>8. ASSUME NEW n \in 0 .. Len(rows), FailCreate(n) PROVE TablesInv'
  <2>1. /\ open /\ ~ready /\ ready' = TRUE /\ allEvents' = SubSeq(rows, 1, n)
        /\ cut' = n /\ missed' = Len(rows) - n
        /\ UNCHANGED <<clock, rows, open, running, phase, fillIdx, win, added, undefined>>
    BY <1>8 DEF FailCreate
  <2>2. rows \in Seq(Events) /\ Len(rows) \in Nat
    BY DEF TablesInv
  <2>3. allEvents' \in Seq(Events) /\ Len(allEvents') = n /\ \A i \in 1 .. n : allEvents'[i] = rows[i]
    BY <2>1, <2>2
  <2>4. Opened'
    BY <2>1, <2>2 DEF TablesInv, Opened, NewWindow
  <2> QED BY <2>1, <2>2, <2>3, <2>4 DEF TablesInv, RowOf
<1>4. CASE FillStep \/ FillDone \/ GetModelInput
  <2>1. /\ UNCHANGED <<clock, rows, open, running, ready, allEvents, cut, missed, added>>
        /\ phase \in {"filling", "ready"} /\ phase' \in {"filling", "ready"}
        /\ fillIdx' \in {fillIdx, fillIdx + 1}
    BY <1>4 DEF FillStep, FillDone, GetModelInput, gapVars
  <2>2. phase' # "none" /\ fillIdx' \in Nat \ {0}
    BY <2>1 DEF TablesInv, Opened
  <2>3. Opened'
    BY <2>1, <2>2 DEF TablesInv, Opened
  <2> QED BY <2>1, <2>3 DEF TablesInv, RowOf
<1>5. CASE Stop
  <2>1. /\ UNCHANGED <<clock, rows, added>>
        /\ running' = FALSE /\ open' = FALSE /\ ready' = FALSE /\ phase' = "none" /\ fillIdx' = 1
        /\ allEvents' = <<>> /\ cut' = 0 /\ missed' = 0 /\ win' = NewWindow /\ undefined' = FALSE
    BY <1>5 DEF Stop
  <2>2. <<>> \in Seq(Events) /\ 1 \in Nat \ {0}
    OBVIOUS
  <2>3. Opened'
    BY <2>1, <2>2 DEF Opened, NewWindow
  <2> QED BY <2>1, <2>2, <2>3 DEF TablesInv
<1>6. CASE Tick
  BY <1>6 DEF Tick, memVars, gapVars, TablesInv, Opened, RowOf
<1>7. CASE UNCHANGED vars
  BY <1>7 DEF vars, memVars, gapVars, TablesInv, Opened, NewWindow, RowOf
<1> QED BY <1>1, <1>2, <1>3, <1>4, <1>5, <1>6, <1>7, <1>8 DEF Next

\* Once the table was read, memory holds the events of the database in their order, all
\* but those that a SELECT that failed left out.
THEOREM MirrorSafety == Spec => []MemoryMirrorsTable
<1>1. TablesInv => MemoryMirrorsTable
  BY DEF TablesInv, MemoryMirrorsTable, RowOf
<1> QED BY <1>1, TablesInit, TablesStep, PTL DEF Spec

-----------------------------------------------------------------------------
(* Every event accepted, while inside the window, is in the table, in memory *)
(* and counted.                                                             *)

\* An event of s has the id of a, and its time or a later one.
Has(s, a) == \E i \in 1 .. Len(s) : s[i].id = a.id /\ s[i].ts >= a.ts

AcceptedInv ==
    /\ \A a \in accepted : a.ts \in Int
    /\ \A a \in accepted : InWindow(a) /\ Window <= Expiry =>
           Has(rows, a) /\ (ready => Has(allEvents, a) \/ LeftOut(a))

\* The preprocessor has seen it.
Processed(i) == phase = "ready" \/ i < fillIdx

IsWindow(w) == w = [oldest |-> w.oldest, seen |-> w.seen, cols |-> w.cols,
                    counted |-> w.counted, spoiled |-> w.spoiled]

\* A processed event inside the window is counted, and update_window has not stepped
\* over it.
WindowInv ==
    /\ IsWindow(win) /\ win.oldest \in 0 .. Len(allEvents) + 1
    /\ phase = "filling" => fillIdx <= Len(allEvents) + 1 /\ win.oldest < fillIdx
    /\ \A i \in 1 .. Len(allEvents) : Processed(i) /\ InWindow(allEvents[i]) =>
           i \in win.counted /\ win.oldest # 0 /\ win.oldest <= i

\* At first no event was accepted.
LEMMA AcceptedInit == Init => AcceptedInv
BY DEF Init, AcceptedInv

\* Time and whatever leaves the events alone keep it.
LEMMA AcceptedFrame ==
    ASSUME TablesInv, AcceptedInv, accepted' = accepted, clock' \in Nat, clock' >= clock,
           \A a \in accepted : Has(rows, a) => Has(rows, a)',
           \A a \in accepted : Has(rows, a)' /\ ready' =>
               Has(allEvents, a)' \/ LeftOut(a)' \/ (ready /\ UNCHANGED <<allEvents, rows, cut, missed>>)
    PROVE  AcceptedInv'
<1> SUFFICES ASSUME NEW a \in accepted, InWindow(a)', Window <= Expiry
             PROVE  Has(rows, a)' /\ (ready' => Has(allEvents, a)' \/ LeftOut(a)')
  BY DEF AcceptedInv
<1>1. InWindow(a)
  BY UserEventsAssumption DEF InWindow, AcceptedInv, TablesInv
<1>2. Has(rows, a) /\ (ready => Has(allEvents, a) \/ LeftOut(a))
  BY <1>1 DEF AcceptedInv
<1>3. UNCHANGED <<allEvents, rows, cut, missed>> =>
        (Has(allEvents, a) => Has(allEvents, a)') /\ (LeftOut(a) => LeftOut(a)')
  BY DEF Has, LeftOut
<1> QED BY <1>2, <1>3

\* No step loses an accepted event that is still inside the window.
LEMMA AcceptedStep == TablesInv /\ AcceptedInv /\ [Next]_vars => AcceptedInv'
<1> SUFFICES ASSUME TablesInv, AcceptedInv, [Next]_vars PROVE AcceptedInv'
  OBVIOUS
<1>0. clock \in Nat /\ Window \in Nat /\ Expiry \in Nat /\ \A a \in accepted : a.ts \in Int
  BY UserEventsAssumption DEF TablesInv, AcceptedInv
<1>1. ASSUME NEW s \in Schemas, NEW debug \in BOOLEAN, Start(s, debug) PROVE AcceptedInv'
  <2>1. /\ UNCHANGED <<clock, ready>> /\ ~ready
        /\ \/ accepted' = {}
           \/ accepted' = accepted /\ rows' \in {rows, DeleteOldRows(rows)}
    BY <1>1 DEF Start, memVars, TablesInv, Opened
  <2>2. CASE accepted' = {}
    BY <2>2 DEF AcceptedInv
  <2>3. CASE accepted' = accepted /\ rows' \in {rows, DeleteOldRows(rows)}
    <3> SUFFICES ASSUME NEW a \in accepted, InWindow(a), Window <= Expiry PROVE Has(rows, a)'
      BY <2>1, <2>3 DEF AcceptedInv, InWindow
    <3>1. PICK i \in 1 .. Len(rows) : rows[i].id = a.id /\ rows[i].ts >= a.ts
      BY DEF AcceptedInv, Has
    <3>2. rows[i].ts >= clock - Expiry
      <4>1. rows[i].ts \in Int
        <5>1. rows[i] \in Events
          BY DEF TablesInv
        <5> QED BY <5>1 DEF Events
      <4> QED BY <1>0, <3>1, <4>1 DEF InWindow
    <3>3. CASE rows' = rows
      BY <3>1, <3>3 DEF Has
    <3>4. CASE rows' = DeleteOldRows(rows)
      <4>1. PICK j \in 1 .. Len(rows') : rows'[j] = rows[i]
        BY <3>2, <3>4, DeleteKeeps DEF TablesInv
      <4> QED BY <3>1, <4>1 DEF Has
    <3> QED BY <2>3, <3>3, <3>4
  <2> QED BY <2>1, <2>2, <2>3
<1>2. ASSUME NEW g \in Groups, NEW v \in Values, NEW lag \in 0 .. MaxLag, AddEvent(g, v, lag)
      PROVE  AcceptedInv'
  <2>1. PICK e \in Events :
              /\ e.ts <= clock
              /\ \E r \in Events : r.id = e.id /\ r.ts = clock /\ rows' = Append(rows, r)
              /\ allEvents' = IF ready THEN Append(allEvents, e) ELSE allEvents
              /\ accepted' = accepted \cup {[id |-> e.id, ts |-> e.ts]}
    BY <1>2, AddedEvent
  <2>2. PICK r \in Events : r.id = e.id /\ r.ts = clock /\ rows' = Append(rows, r)
    BY <2>1
  <2>3. clock' = clock /\ ready' = ready /\ cut' = cut /\ missed' = missed
    BY <1>2 DEF AddEvent, gapVars
  <2>4. /\ Len(rows) \in Nat /\ Len(rows') = Len(rows) + 1 /\ rows'[Len(rows) + 1] = r
        /\ \A i \in 1 .. Len(rows) : rows'[i] = rows[i]
    BY <2>2 DEF TablesInv
  <2>5. ready => /\ Len(allEvents) \in Nat /\ Len(allEvents') = Len(allEvents) + 1
                 /\ allEvents'[Len(allEvents) + 1] = e
                 /\ \A i \in 1 .. Len(allEvents) : allEvents'[i] = allEvents[i]
    BY <2>1 DEF TablesInv
  <2>6. e.ts \in Int
    BY DEF Events
  <2>7. ASSUME NEW a \in accepted PROVE Has(rows, a) => Has(rows, a)'
    BY <2>4 DEF Has
  <2>8. ASSUME NEW a \in accepted PROVE ready /\ Has(allEvents, a) => Has(allEvents, a)'
    BY <2>5 DEF Has
  <2>11. ASSUME NEW a \in accepted PROVE ready /\ LeftOut(a) => LeftOut(a)'
    <3>1. ready => cut + missed <= Len(rows) \/ missed = 0
      BY DEF TablesInv, Opened
    <3>2. cut \in Nat /\ missed \in Nat
      BY DEF TablesInv, Opened
    <3> QED BY <2>3, <2>4, <3>1, <3>2 DEF LeftOut
  <2>9. ASSUME NEW a, a = [id |-> e.id, ts |-> e.ts]
        PROVE  Has(rows, a)' /\ (ready => Has(allEvents, a)')
    <3>1. Has(rows, a)'
      <4>1. Len(rows) + 1 \in 1 .. Len(rows') /\ rows'[Len(rows) + 1].id = a.id
            /\ rows'[Len(rows) + 1].ts >= a.ts
        BY <2>1, <2>2, <2>4, <2>9
      <4> QED BY <4>1 DEF Has
    <3>2. ASSUME ready PROVE Has(allEvents, a)'
      <4>1. Len(allEvents) + 1 \in 1 .. Len(allEvents') /\ allEvents'[Len(allEvents) + 1].id = a.id
            /\ allEvents'[Len(allEvents) + 1].ts >= a.ts
        BY <2>5, <2>6, <2>9, <3>2
      <4> QED BY <4>1 DEF Has
    <3> QED BY <3>1, <3>2
  <2>10. ASSUME NEW a \in accepted' PROVE a.ts \in Int /\ (InWindow(a)' /\ Window <= Expiry =>
               Has(rows, a)' /\ (ready' => Has(allEvents, a)' \/ LeftOut(a)'))
    <3>1. CASE a \in accepted
      <4>1. InWindow(a)' = InWindow(a)
        BY <2>3 DEF InWindow
      <4> QED BY <1>0, <2>3, <2>7, <2>8, <2>11, <3>1, <4>1 DEF AcceptedInv
    <3>2. CASE a = [id |-> e.id, ts |-> e.ts]
      BY <2>3, <2>6, <2>9, <3>2
    <3> QED BY <2>1, <3>1, <3>2
  <2> QED BY <2>10 DEF AcceptedInv
<1>3. CASE BeginCreate
  <2>1. /\ UNCHANGED <<clock, accepted, rows, cut, missed>>
        /\ allEvents' = IF ready THEN allEvents ELSE rows
    BY <1>3 DEF BeginCreate, gapVars
  <2>2. \A a \in accepted : Has(rows, a)' = Has(rows, a)
    BY <2>1 DEF Has
  <2>3. \A a \in accepted : ~ready => Has(allEvents, a)' = Has(rows, a)
    BY <2>1 DEF Has
  <2> QED BY <1>0, <2>1, <2>2, <2>3, AcceptedFrame
<1>6. ASSUME NEW n \in 0 .. Len(rows), FailCreate(n) PROVE AcceptedInv'
  <2>1. /\ UNCHANGED <<clock, accepted, rows>> /\ allEvents' = SubSeq(rows, 1, n)
        /\ cut' = n /\ missed' = Len(rows) - n
    BY <1>6 DEF FailCreate
  <2>2. \A a \in accepted : Has(rows, a)' = Has(rows, a)
    BY <2>1 DEF Has
  <2>3. /\ Len(rows) \in Nat /\ Len(allEvents') = n /\ \A i \in 1 .. n : allEvents'[i] = rows[i]
    BY <2>1 DEF TablesInv
  <2>4. ASSUME NEW a \in accepted, Has(rows, a) PROVE Has(allEvents, a)' \/ LeftOut(a)'
    <3>1. PICK i \in 1 .. Len(rows) : rows[i].id = a.id /\ rows[i].ts >= a.ts
      BY <2>4 DEF Has
    <3>2. CASE i <= n
      <4>1. i \in 1 .. Len(allEvents') /\ allEvents'[i] = rows[i]
        BY <2>3, <3>2
      <4> QED BY <3>1, <4>1 DEF Has
    <3>3. CASE i > n
      <4>1. i \in n + 1 .. n + (Len(rows) - n)
        BY <2>3, <3>3
      <4> QED BY <2>1, <3>1, <4>1 DEF LeftOut
    <3> QED BY <2>3, <3>2, <3>3
  <2> QED BY <1>0, <2>1, <2>2, <2>4, AcceptedFrame
<1>4. CASE FillStep \/ FillDone \/ GetModelInput \/ Tick \/ UNCHANGED vars
  <2>1. /\ UNCHANGED <<accepted, rows, ready, allEvents, cut, missed>>
        /\ clock' \in Nat /\ clock' >= clock
    BY <1>0, <1>4 DEF FillStep, FillDone, GetModelInput, Tick, vars, memVars, gapVars
  <2>2. \A a \in accepted : Has(rows, a)' = Has(rows, a)
    BY <2>1 DEF Has
  <2> QED BY <2>1, <2>2, AcceptedFrame
<1>5. CASE Stop
  <2>1. UNCHANGED <<clock, accepted, rows>> /\ ~ready'
    BY <1>5 DEF Stop
  <2>2. \A a \in accepted : Has(rows, a)' = Has(rows, a)
    BY <2>1 DEF Has
  <2> QED BY <1>0, <2>1, <2>2, AcceptedFrame
<1> QED BY <1>1, <1>2, <1>3, <1>4, <1>5, <1>6 DEF Next

\* Giving event i to the window: its fields, and that event i is counted in the window.
LEMMA AddCounts ==
    ASSUME NEW w, IsWindow(w), NEW events, NEW i \in Nat \ {0}
    PROVE  /\ IsWindow(AddToWindow(w, events, i))
           /\ AddToWindow(w, events, i).oldest =
                 IF InWindow(events[i]) /\ w.oldest = 0 THEN i ELSE w.oldest
           /\ AddToWindow(w, events, i).counted =
                 IF InWindow(events[i]) THEN w.counted \cup {i} ELSE w.counted
<1> DEFINE g == events[i].group
           cols == [w.cols EXCEPT ![g] = AddToColumns(w.cols[g], events, i)]
           spoiled == IF \E op \in Operators : w.cols[g][op].oldest # 0
                        THEN w.spoiled \cup {g} ELSE w.spoiled
           yes == [oldest |-> IF w.oldest = 0 THEN i ELSE w.oldest, seen |-> w.seen \cup {g},
                   cols |-> cols, counted |-> w.counted \cup {i}, spoiled |-> w.spoiled]
           no == [oldest |-> w.oldest, seen |-> w.seen \cup {g},
                  cols |-> w.cols, counted |-> w.counted, spoiled |-> spoiled]
<1>1. InWindow(events[i]) => AddToWindow(w, events, i) = yes
  BY DEF AddToWindow, IsWindow
<1>2. ~InWindow(events[i]) => AddToWindow(w, events, i) = no
  BY DEF AddToWindow, IsWindow
<1>3. /\ IsWindow(yes) /\ yes.oldest = (IF w.oldest = 0 THEN i ELSE w.oldest)
      /\ yes.counted = w.counted \cup {i}
      /\ IsWindow(no) /\ no.oldest = w.oldest /\ no.counted = w.counted
  <2> HIDE DEF cols, spoiled
  <2> QED BY DEF IsWindow
<1> HIDE DEF yes, no
<1> QED BY <1>1, <1>2, <1>3

\* What update_window makes of _oldestIndex and of the events counted.
LEMMA UpdateKeeps ==
    ASSUME NEW w, IsWindow(w), NEW events
    PROVE  /\ IsWindow(UpdateWindow(w, events))
           /\ IF StillValid(w, events) # {}
                THEN /\ UpdateWindow(w, events).oldest = Min(StillValid(w, events))
                     /\ UpdateWindow(w, events).counted = w.counted
                     /\ UpdateWindow(w, events).cols = w.cols
                ELSE UpdateWindow(w, events).oldest = ValidIndex(w, events)
<1>1. CASE StillValid(w, events) # {}
  BY <1>1 DEF UpdateWindow, IsWindow
<1>2. CASE StillValid(w, events) = {}
  BY <1>2 DEF UpdateWindow, IsWindow
<1> QED BY <1>1, <1>2

\* At first nothing is in memory.
LEMMA WindowInit == Init => WindowInv
BY DEF Init, WindowInv, IsWindow, NewWindow

\* The loop of create_preprocessor, add_row and update_window together miss no event that
\* is inside the window.
LEMMA WindowStep == TablesInv /\ WindowInv /\ [Next]_vars => WindowInv'
<1> SUFFICES ASSUME TablesInv, WindowInv, [Next]_vars PROVE WindowInv'
  OBVIOUS
<1>0. /\ clock \in Nat /\ Window \in Nat /\ fillIdx \in Nat \ {0}
      /\ allEvents \in Seq(Events) /\ Len(allEvents) \in Nat
      /\ IsWindow(win) /\ win.oldest \in 0 .. Len(allEvents) + 1
      /\ \A i \in 1 .. Len(allEvents) : allEvents[i].ts \in Int
  <2>1. allEvents \in Seq(Events) /\ clock \in Nat /\ fillIdx \in Nat \ {0}
    BY DEF TablesInv, Opened
  <2>2. Window \in Nat
    BY UserEventsAssumption
  <2>3. IsWindow(win) /\ win.oldest \in 0 .. Len(allEvents) + 1
    BY DEF WindowInv
  <2>4. \A i \in 1 .. Len(allEvents) : allEvents[i] \in Events
    BY <2>1
  <2>5. \A i \in 1 .. Len(allEvents) : allEvents[i].ts \in Int
    BY <2>4 DEF Events
  <2>6. Len(allEvents) \in Nat
    BY <2>1
  <2> QED BY <2>1, <2>2, <2>3, <2>5, <2>6
<1>1. ASSUME UNCHANGED <<allEvents, phase, fillIdx, win>>, clock' \in Nat, clock' >= clock
      PROVE  WindowInv'
  <2>1. \A i \in 1 .. Len(allEvents) : InWindow(allEvents[i])' => InWindow(allEvents[i])
    BY <1>0, <1>1 DEF InWindow
  <2> QED BY <1>1, <2>1 DEF WindowInv, Processed, IsWindow
<1>2. CASE (\E s \in Schemas, debug \in BOOLEAN : Start(s, debug)) \/ Tick \/ UNCHANGED vars
  BY <1>0, <1>1, <1>2 DEF Start, Tick, vars, memVars
<1>3. ASSUME NEW g \in Groups, NEW v \in Values, NEW lag \in 0 .. MaxLag, AddEvent(g, v, lag)
      PROVE  WindowInv'
  <2>1. PICK e \in Events : allEvents' = IF ready THEN Append(allEvents, e) ELSE allEvents
    BY <1>3, AddedEvent
  <2>2. /\ UNCHANGED <<clock, phase, fillIdx>> /\ phase # "filling"
        /\ win' = IF phase = "ready" THEN AddToWindow(win, allEvents', Len(allEvents')) ELSE win
    BY <1>3 DEF AddEvent
  <2>3. CASE phase = "ready"
    <3>1. ready
      BY <2>3 DEF TablesInv, Opened
    <3>2. /\ Len(allEvents') = Len(allEvents) + 1
          /\ \A i \in 1 .. Len(allEvents) : allEvents'[i] = allEvents[i]
      BY <1>0, <2>1, <3>1
    <3>3. /\ IsWindow(win')
          /\ win'.oldest = IF InWindow(allEvents'[Len(allEvents) + 1]) /\ win.oldest = 0
                             THEN Len(allEvents) + 1 ELSE win.oldest
          /\ win'.counted = IF InWindow(allEvents'[Len(allEvents) + 1])
                              THEN win.counted \cup {Len(allEvents) + 1} ELSE win.counted
      <4>1. Len(allEvents') \in Nat \ {0} /\ win' = AddToWindow(win, allEvents', Len(allEvents'))
        BY <1>0, <2>2, <2>3, <3>2
      <4>2. \A n \in Nat \ {0} :
               /\ IsWindow(AddToWindow(win, allEvents', n))
               /\ AddToWindow(win, allEvents', n).oldest =
                     IF InWindow(allEvents'[n]) /\ win.oldest = 0 THEN n ELSE win.oldest
               /\ AddToWindow(win, allEvents', n).counted =
                     IF InWindow(allEvents'[n]) THEN win.counted \cup {n} ELSE win.counted
        BY <1>0, AddCounts
      <4> QED BY <3>2, <4>1, <4>2
    <3>4. \A x : InWindow(x)' <=> clock - x.ts <= Window
      BY <2>2 DEF InWindow
    <3>5. win'.oldest \in 0 .. Len(allEvents') + 1
      BY <1>0, <3>2, <3>3
    <3>6. ASSUME NEW i \in 1 .. Len(allEvents'), clock - allEvents'[i].ts <= Window
          PROVE  i \in win'.counted /\ win'.oldest # 0 /\ win'.oldest <= i
      <4>1. CASE i = Len(allEvents) + 1
        BY <1>0, <3>3, <3>6, <4>1 DEF InWindow
      <4>2. CASE i # Len(allEvents) + 1
        <5>1. i \in 1 .. Len(allEvents) /\ allEvents'[i] = allEvents[i]
          BY <1>0, <3>2, <4>2
        <5>2. i \in win.counted /\ win.oldest # 0 /\ win.oldest <= i
          BY <2>3, <3>6, <5>1 DEF WindowInv, Processed, InWindow
        <5> QED BY <3>3, <5>2
      <4> QED BY <4>1, <4>2
    <3> QED BY <2>2, <2>3, <3>3, <3>4, <3>5, <3>6 DEF WindowInv, InWindow, IsWindow
  <2>4. CASE phase = "none"
    <3>1. win' = NewWindow /\ fillIdx' = 1 /\ phase' = "none"
      BY <2>2, <2>4 DEF TablesInv, Opened
    <3>2. allEvents' \in Seq(Events)
      BY <2>1 DEF TablesInv
    <3>3. Len(allEvents') \in Nat
      BY <3>2
    <3> QED BY <3>1, <3>3 DEF WindowInv, Processed, IsWindow, NewWindow
  <2> QED BY <2>2, <2>3, <2>4 DEF TablesInv, Opened
<1>4. CASE BeginCreate
  <2>1. /\ phase' = "filling" /\ fillIdx' = 1 /\ win' = NewWindow
        /\ allEvents' = IF ready THEN allEvents ELSE rows
    BY <1>4 DEF BeginCreate
  <2>2. allEvents' \in Seq(Events)
    BY <2>1 DEF TablesInv
  <2>3. Len(allEvents') \in Nat
    BY <2>2
  <2> QED BY <2>1, <2>3 DEF WindowInv, Processed, IsWindow, NewWindow
<1>9. ASSUME NEW n \in 0 .. Len(rows), FailCreate(n) PROVE WindowInv'
  <2>1. allEvents' = SubSeq(rows, 1, n) /\ ~ready /\ UNCHANGED <<phase, fillIdx, win>>
    BY <1>9 DEF FailCreate
  <2>2. win' = NewWindow /\ fillIdx' = 1 /\ phase' = "none"
    BY <2>1 DEF TablesInv, Opened
  <2>3. Len(allEvents') \in Nat
    BY <2>1 DEF TablesInv
  <2> QED BY <2>2, <2>3 DEF WindowInv, Processed, IsWindow, NewWindow
<1>5. CASE FillStep
  <2>1. /\ phase = "filling" /\ fillIdx <= Len(allEvents) /\ fillIdx' = fillIdx + 1
        /\ UNCHANGED <<clock, allEvents, phase>> /\ win' = AddToWindow(win, allEvents, fillIdx)
    BY <1>5 DEF FillStep
  <2>2. /\ IsWindow(win')
        /\ win'.oldest = IF InWindow(allEvents[fillIdx]) /\ win.oldest = 0 THEN fillIdx ELSE win.oldest
        /\ win'.counted = IF InWindow(allEvents[fillIdx]) THEN win.counted \cup {fillIdx} ELSE win.counted
    BY <1>0, <2>1, AddCounts
  <2>3. win.oldest < fillIdx
    BY <2>1 DEF WindowInv
  <2>4. win'.oldest \in 0 .. Len(allEvents) + 1 /\ win'.oldest < fillIdx'
    BY <1>0, <2>1, <2>2, <2>3
  <2>5. ASSUME NEW i \in 1 .. Len(allEvents), i < fillIdx + 1, InWindow(allEvents[i])
        PROVE  i \in win'.counted /\ win'.oldest # 0 /\ win'.oldest <= i
    <3>1. CASE i = fillIdx
      BY <1>0, <2>2, <2>3, <2>5, <3>1
    <3>2. CASE i < fillIdx
      <4>1. i \in win.counted /\ win.oldest # 0 /\ win.oldest <= i
        BY <2>5, <3>2 DEF WindowInv, Processed
      <4> QED BY <2>2, <4>1
    <3> QED BY <1>0, <2>5, <3>1, <3>2
  <2>6. \A x : InWindow(x)' = InWindow(x)
    BY <2>1 DEF InWindow
  <2> QED BY <1>0, <2>1, <2>2, <2>4, <2>5, <2>6 DEF WindowInv, Processed, IsWindow
<1>6. CASE FillDone
  <2>1. /\ phase = "filling" /\ fillIdx > Len(allEvents)
        /\ phase' = "ready" /\ UNCHANGED <<clock, allEvents, fillIdx, win>>
    BY <1>6 DEF FillDone
  <2>2. \A i \in 1 .. Len(allEvents) : Processed(i) /\ InWindow(allEvents[i])' = InWindow(allEvents[i])
    BY <1>0, <2>1 DEF Processed, InWindow
  <2> QED BY <2>1, <2>2 DEF WindowInv, IsWindow
<1>7. CASE GetModelInput
  <2>1. /\ phase = "ready" /\ UNCHANGED <<clock, allEvents, phase, fillIdx>>
        /\ win' = UpdateWindow(win, allEvents)
    BY <1>7 DEF GetModelInput
  <2>2. \A i \in 1 .. Len(allEvents) : InWindow(allEvents[i]) =>
            i \in win.counted /\ i \in StillValid(win, allEvents)
    BY <2>1 DEF WindowInv, Processed, StillValid
  <2>3. IsWindow(win')
    BY <1>0, <2>1, UpdateKeeps
  <2>4. CASE StillValid(win, allEvents) # {}
    <3>1. StillValid(win, allEvents) \subseteq 1 .. Len(allEvents)
      BY DEF StillValid
    <3>2. StillValid(win, allEvents) \subseteq Nat
      BY <3>1
    <3>3. /\ Min(StillValid(win, allEvents)) \in StillValid(win, allEvents)
          /\ \A i \in StillValid(win, allEvents) : Min(StillValid(win, allEvents)) <= i
      BY <2>4, <3>2, MinOfNat
    <3>4. win'.oldest = Min(StillValid(win, allEvents)) /\ win'.counted = win.counted
      BY <1>0, <2>1, <2>4, UpdateKeeps
    <3>5. win'.oldest \in 1 .. Len(allEvents) /\ \A i \in StillValid(win, allEvents) : win'.oldest <= i
      BY <3>1, <3>3, <3>4
    <3>6. \A x : InWindow(x)' = InWindow(x)
      BY <2>1 DEF InWindow
    <3>7. win'.oldest \in 0 .. Len(allEvents) + 1 /\ win'.oldest # 0
      BY <1>0, <3>5
    <3> QED BY <2>1, <2>2, <2>3, <3>4, <3>5, <3>6, <3>7 DEF WindowInv, IsWindow
  <2>5. CASE StillValid(win, allEvents) = {}
    <3>1. win'.oldest \in 0 .. Len(allEvents) + 1
      <4>1. win'.oldest = ValidIndex(win, allEvents)
        BY <1>0, <2>1, <2>5, UpdateKeeps
      <4> QED BY <1>0, <4>1 DEF ValidIndex
    <3>2. \A i \in 1 .. Len(allEvents) : ~InWindow(allEvents[i])'
      BY <2>1, <2>2, <2>5 DEF InWindow
    <3> QED BY <2>1, <2>3, <3>1, <3>2 DEF WindowInv, IsWindow
  <2> QED BY <2>4, <2>5
<1>8. CASE Stop
  <2>1. allEvents' = <<>> /\ phase' = "none" /\ win' = NewWindow
    BY <1>8 DEF Stop
  <2> QED BY <2>1 DEF WindowInv, IsWindow, NewWindow
<1> QED BY <1>2, <1>3, <1>4, <1>5, <1>6, <1>7, <1>8, <1>9 DEF Next

\* No accepted event inside the window is missing from the features, whatever restarts,
\* schemas, a failing CREATE, DROP or DELETE, reloads, new models, queries and ticks of the
\* clock do, but for the rows that a failing SELECT leaves out until the next restart.
THEOREM FreshSafety == Spec => []NoFreshEventMissing
<1>1. TablesInv /\ AcceptedInv /\ WindowInv => NoFreshEventMissing
  <2> SUFFICES ASSUME TablesInv, AcceptedInv, WindowInv, phase = "ready", Window <= Expiry,
                      NEW a \in accepted, InWindow(a), ~LeftOut(a)
               PROVE  \E i \in win.counted : allEvents[i].id = a.id
    BY DEF NoFreshEventMissing
  <2>1. PICK i \in 1 .. Len(allEvents) : allEvents[i].id = a.id /\ allEvents[i].ts >= a.ts
    BY DEF AcceptedInv, TablesInv, Opened, Has
  <2>2. InWindow(allEvents[i])
    <3>1. allEvents[i] \in Events
      BY DEF TablesInv
    <3>2. allEvents[i].ts \in Int /\ a.ts \in Int /\ clock \in Nat
      BY <3>1 DEF Events, AcceptedInv, TablesInv
    <3> QED BY <2>1, <3>2, UserEventsAssumption DEF InWindow
  <2> QED BY <2>1, <2>2 DEF WindowInv, Processed
<1> QED BY <1>1, TablesInit, TablesStep, AcceptedInit, AcceptedStep, WindowInit, WindowStep, PTL DEF Spec

-----------------------------------------------------------------------------
\* Every column has counted some number of events.
ColumnsCount(w) ==
    /\ w.cols = [g \in Groups |-> w.cols[g]]
    /\ \A g \in Groups, op \in Operators : IsColumn(w.cols[g][op])

NoneExpired == \A i \in 1 .. Len(allEvents) : InWindow(allEvents[i])

\* As long as no event expired, update_window stops at an event or has none to remove,
\* and no count falls below 0.
DefinedInv ==
    /\ undefined => ready
    /\ NoneExpired => ~undefined /\ ColumnsCount(win) /\ win.oldest <= Len(allEvents)

\* A column of a new window, and a column that was given one more event.
LEMMA ColumnCounts ==
    /\ ColumnsCount(NewWindow)
    /\ \A c, events, i : IsColumn(c) => \A op \in Operators : IsColumn(AddToColumn(op, c, events, i))
<1>1. ColumnsCount(NewWindow)
  BY DEF ColumnsCount, NewWindow, NewColumn, IsColumn, HasMembers
<1>2. ASSUME NEW op \in Operators, NEW c, NEW events, NEW i, IsColumn(c)
      PROVE  IsColumn(AddToColumn(op, c, events, i))
  BY <1>2, AddedColumn DEF AddedTo
<1> QED BY <1>1, <1>2

\* An event given to the window leaves every column with a count.
LEMMA AddColumns ==
    ASSUME NEW w, IsWindow(w), ColumnsCount(w), NEW events, NEW i, events[i].group \in Groups
    PROVE  ColumnsCount(AddToWindow(w, events, i))
<1> DEFINE g == events[i].group
           new == AddToColumns(w.cols[g], events, i)
<1>1. \A op \in Operators : new[op] = AddToColumn(op, w.cols[g][op], events, i)
  BY DEF AddToColumns
<1>2. \A op \in Operators : IsColumn(new[op])
  BY <1>1, ColumnCounts DEF ColumnsCount
<1>3. InWindow(events[i]) => AddToWindow(w, events, i).cols = [w.cols EXCEPT ![g] = new]
  BY DEF AddToWindow, IsWindow
<1>4. ~InWindow(events[i]) => AddToWindow(w, events, i).cols = w.cols
  BY DEF AddToWindow, IsWindow
<1> HIDE DEF new
<1>5. CASE InWindow(events[i])
  <2> DEFINE cols == [w.cols EXCEPT ![g] = new]
  <2>1. \A h \in Groups : cols[h] = IF h = g THEN new ELSE w.cols[h]
    BY DEF ColumnsCount
  <2>2. cols = [h \in Groups |-> cols[h]]
    BY DEF ColumnsCount
  <2> HIDE DEF cols
  <2> QED BY <1>2, <1>3, <1>5, <2>1, <2>2 DEF ColumnsCount, cols
<1> QED BY <1>4, <1>5 DEF ColumnsCount

\* update_window with no event expired: nothing is read outside _allEvents and no column
\* loses an event.
LEMMA UpdateDefined ==
    ASSUME TablesInv, IsWindow(win), win.oldest \in 0 .. Len(allEvents), ColumnsCount(win), NoneExpired
    PROVE  /\ ~UpdateReadsOutOfBounds(win, allEvents)
           /\ ColumnsCount(UpdateWindow(win, allEvents))
           /\ UpdateWindow(win, allEvents).oldest <= Len(allEvents)
<1>0. Len(allEvents) \in Nat
  BY DEF TablesInv
<1>1. CASE win.oldest = 0
  <2>1. StillValid(win, allEvents) = {} /\ ValidIndex(win, allEvents) = 0
    BY <1>1 DEF StillValid, ValidIndex
  <2>2. ~UpdateReadsOutOfBounds(win, allEvents)
    BY <2>1 DEF UpdateReadsOutOfBounds, ReadsOutOfBounds
  <2> DEFINE cols == [g \in Groups |->
                 IF g \in win.seen
                   THEN [op \in Operators |-> RemoveFromColumn(op, win.cols[g][op], allEvents, g, 0)]
                   ELSE win.cols[g]]
  <2>3. UpdateWindow(win, allEvents).oldest = 0 /\ UpdateWindow(win, allEvents).cols = cols
    BY <2>1 DEF UpdateWindow, IsWindow
  <2>4. \A g \in Groups, op \in Operators : IsColumn(cols[g][op])
    BY RemoveNothing DEF ColumnsCount
  <2>5. cols = [g \in Groups |-> cols[g]]
    OBVIOUS
  <2> HIDE DEF cols
  <2> QED BY <1>0, <2>2, <2>3, <2>4, <2>5 DEF ColumnsCount
<1>2. CASE win.oldest # 0
  <2>1. win.oldest \in StillValid(win, allEvents)
    BY <1>0, <1>2 DEF StillValid, NoneExpired
  <2>2. StillValid(win, allEvents) \subseteq 1 .. Len(allEvents)
    BY DEF StillValid
  <2>3. StillValid(win, allEvents) \subseteq Nat
    BY <2>2
  <2>4. Min(StillValid(win, allEvents)) <= Len(allEvents)
    <3>1. Min(StillValid(win, allEvents)) \in StillValid(win, allEvents)
      BY <2>1, <2>3, MinOfNat
    <3> QED BY <1>0, <2>2, <3>1
  <2>5. /\ UpdateWindow(win, allEvents).oldest = Min(StillValid(win, allEvents))
        /\ UpdateWindow(win, allEvents).cols = win.cols
    BY <2>1 DEF UpdateWindow, IsWindow
  <2> QED BY <2>1, <2>4, <2>5 DEF ColumnsCount, UpdateReadsOutOfBounds
<1> QED BY <1>1, <1>2

\* At first nothing was done.
LEMMA DefinedInit == Init => DefinedInv
BY ColumnCounts DEF Init, DefinedInv, NewWindow

\* Nothing undefined is done before an event expires.
LEMMA DefinedStep == TablesInv /\ WindowInv /\ DefinedInv /\ [Next]_vars => DefinedInv'
<1> SUFFICES ASSUME TablesInv, WindowInv, DefinedInv, [Next]_vars PROVE DefinedInv'
  OBVIOUS
<1>0. /\ clock \in Nat /\ Window \in Nat /\ fillIdx \in Nat \ {0}
      /\ allEvents \in Seq(Events) /\ Len(allEvents) \in Nat
      /\ IsWindow(win) /\ win.oldest \in 0 .. Len(allEvents) + 1
      /\ \A i \in 1 .. Len(allEvents) : allEvents[i].ts \in Int /\ allEvents[i].group \in Groups
  <2>1. allEvents \in Seq(Events) /\ clock \in Nat /\ fillIdx \in Nat \ {0}
    BY DEF TablesInv, Opened
  <2>2. Window \in Nat
    BY UserEventsAssumption
  <2>3. IsWindow(win) /\ win.oldest \in 0 .. Len(allEvents) + 1
    BY DEF WindowInv
  <2>4. \A i \in 1 .. Len(allEvents) : allEvents[i] \in Events
    BY <2>1
  <2>5. \A i \in 1 .. Len(allEvents) : allEvents[i].ts \in Int /\ allEvents[i].group \in Groups
    BY <2>4 DEF Events
  <2>6. Len(allEvents) \in Nat
    BY <2>1
  <2> QED BY <2>1, <2>2, <2>3, <2>5, <2>6
<1>1. ASSUME UNCHANGED <<allEvents, win, ready>>, undefined' => undefined,
             clock' \in Nat, clock' >= clock
      PROVE  DefinedInv'
  <2>1. \A i \in 1 .. Len(allEvents) : InWindow(allEvents[i])' => InWindow(allEvents[i])
    BY <1>0, <1>1 DEF InWindow
  <2>2. NoneExpired' => NoneExpired
    BY <1>1, <2>1 DEF NoneExpired
  <2>3. ColumnsCount(win)' = ColumnsCount(win)
    BY <1>1
  <2> QED BY <1>1, <2>2, <2>3 DEF DefinedInv
<1>2. CASE (\E s \in Schemas, debug \in BOOLEAN : Start(s, debug)) \/ FillDone \/ Tick \/ UNCHANGED vars
  BY <1>0, <1>1, <1>2 DEF Start, FillDone, Tick, vars, memVars
<1>3. ASSUME NEW g \in Groups, NEW v \in Values, NEW lag \in 0 .. MaxLag, AddEvent(g, v, lag)
      PROVE  DefinedInv'
  <2> DEFINE e == [id |-> added + 1, ts |-> clock - lag, group |-> g, val |-> v]
  <2>1. /\ allEvents' = IF ready THEN Append(allEvents, e) ELSE allEvents
        /\ win' = IF phase = "ready" THEN AddToWindow(win, allEvents', Len(allEvents')) ELSE win
        /\ undefined' => undefined \/ (phase = "ready" /\ AddDividesByZero(win, g, clock - lag))
        /\ UNCHANGED <<clock, ready>>
    BY <1>3 DEF AddEvent
  <2>2. CASE phase = "ready" /\ NoneExpired'
    <3>1. ready
      BY <2>2 DEF TablesInv, Opened
    <3>2. /\ Len(allEvents') = Len(allEvents) + 1 /\ allEvents'[Len(allEvents')].group = g
          /\ \A i \in 1 .. Len(allEvents) : allEvents'[i] = allEvents[i]
      BY <1>0, <2>1, <3>1
    <3>3. NoneExpired
      BY <1>0, <2>1, <2>2, <3>2 DEF NoneExpired, InWindow
    <3>4. ~undefined /\ ColumnsCount(win) /\ win.oldest <= Len(allEvents)
      BY <3>3 DEF DefinedInv
    <3>5. ~AddDividesByZero(win, g, clock - lag)
      <4>1. \A op \in Operators : win.cols[g][op].count \in Nat
        BY <3>4 DEF ColumnsCount, IsColumn
      <4>2. \A op \in Operators : win.cols[g][op].count # -1
        BY <4>1
      <4> QED BY <4>2, Zenon DEF AddDividesByZero, DividesByZero
    <3>6. ColumnsCount(win')
      <4>1. win' = AddToWindow(win, allEvents', Len(allEvents'))
        BY <2>1, <2>2
      <4>2. \A events, i : events[i].group \in Groups => ColumnsCount(AddToWindow(win, events, i))
        BY <1>0, <3>4, AddColumns
      <4> QED BY <3>2, <4>1, <4>2
    <3>7. win'.oldest <= Len(allEvents')
      <4>1. Len(allEvents') \in Nat \ {0} /\ win' = AddToWindow(win, allEvents', Len(allEvents'))
        BY <1>0, <2>1, <2>2, <3>2
      <4>2. \A n \in Nat \ {0} : AddToWindow(win, allEvents', n).oldest =
               IF InWindow(allEvents'[n]) /\ win.oldest = 0 THEN n ELSE win.oldest
        BY <1>0, AddCounts
      <4> QED BY <1>0, <3>2, <3>4, <4>1, <4>2
    <3>8. ColumnsCount(win)' = ColumnsCount(win')
      BY DEF ColumnsCount
    <3> QED BY <2>1, <3>1, <3>4, <3>5, <3>6, <3>7, <3>8 DEF DefinedInv
  <2>3. CASE phase = "ready" /\ ~NoneExpired'
    <3>1. ready
      BY <2>3 DEF TablesInv, Opened
    <3> QED BY <2>1, <2>3, <3>1 DEF DefinedInv
  <2>4. CASE phase = "none"
    <3>1. win' = NewWindow /\ undefined = FALSE
      BY <2>1, <2>4 DEF TablesInv, Opened
    <3>2. ~undefined'
      BY <1>3, <2>4, <3>1, Zenon DEF AddEvent
    <3>3. ColumnsCount(win)' /\ win'.oldest = 0
      BY <2>1, <2>4, <3>1, ColumnCounts DEF NewWindow, ColumnsCount
    <3>4. Len(allEvents') \in Nat
      BY TablesStep DEF TablesInv
    <3> QED BY <3>2, <3>3, <3>4 DEF DefinedInv
  <2> QED BY <1>3, <2>2, <2>3, <2>4 DEF AddEvent, TablesInv, Opened
<1>4. CASE BeginCreate
  <2>1. /\ win' = NewWindow /\ ready' = TRUE /\ UNCHANGED <<clock, undefined>>
        /\ allEvents' = IF ready THEN allEvents ELSE rows
    BY <1>4 DEF BeginCreate
  <2>2. NoneExpired' => ~undefined
    BY <1>0, <2>1 DEF DefinedInv, NoneExpired, InWindow
  <2>3. ColumnsCount(win)' /\ win'.oldest = 0 /\ Len(allEvents') \in Nat
    BY <1>0, <2>1, ColumnCounts DEF NewWindow, TablesInv
  <2> QED BY <2>1, <2>2, <2>3 DEF DefinedInv
<1>8. ASSUME NEW n \in 0 .. Len(rows), FailCreate(n) PROVE DefinedInv'
  <2>1. allEvents' = SubSeq(rows, 1, n) /\ ~ready /\ ready' /\ UNCHANGED <<phase, win, undefined>>
    BY <1>8 DEF FailCreate
  <2>2. win' = NewWindow /\ undefined' = FALSE
    BY <2>1 DEF TablesInv, Opened
  <2>3. ColumnsCount(win)' /\ win'.oldest = 0 /\ Len(allEvents') \in Nat
    BY <2>1, <2>2, ColumnCounts DEF NewWindow, TablesInv
  <2> QED BY <2>2, <2>3 DEF DefinedInv
<1>5. CASE FillStep
  <2>1. /\ phase = "filling" /\ fillIdx <= Len(allEvents)
        /\ UNCHANGED <<clock, ready, allEvents, undefined>> /\ win' = AddToWindow(win, allEvents, fillIdx)
    BY <1>5 DEF FillStep
  <2>2. NoneExpired' = NoneExpired
    BY <2>1 DEF NoneExpired, InWindow
  <2>3. NoneExpired => ColumnsCount(win')
    BY <1>0, <2>1, AddColumns DEF DefinedInv
  <2>4. NoneExpired => win'.oldest <= Len(allEvents)
    BY <1>0, <2>1, AddCounts DEF DefinedInv
  <2>5. ColumnsCount(win)' = ColumnsCount(win')
    BY DEF ColumnsCount
  <2> QED BY <2>1, <2>2, <2>3, <2>4, <2>5 DEF DefinedInv
<1>6. CASE GetModelInput
  <2>1. /\ phase = "ready" /\ UNCHANGED <<clock, ready, allEvents>>
        /\ win' = UpdateWindow(win, allEvents)
        /\ undefined' => undefined \/ UpdateReadsOutOfBounds(win, allEvents)
    BY <1>6 DEF GetModelInput
  <2>2. NoneExpired' = NoneExpired /\ ready
    BY <2>1 DEF NoneExpired, InWindow, TablesInv, Opened
  <2>3. NoneExpired => ~undefined' /\ ColumnsCount(win') /\ win'.oldest <= Len(allEvents)
    <3> SUFFICES ASSUME NoneExpired
                 PROVE  ~undefined' /\ ColumnsCount(win') /\ win'.oldest <= Len(allEvents)
      OBVIOUS
    <3>1. ~undefined /\ ColumnsCount(win) /\ win.oldest \in 0 .. Len(allEvents)
      BY <1>0 DEF DefinedInv
    <3>2. /\ ~UpdateReadsOutOfBounds(win, allEvents)
          /\ ColumnsCount(UpdateWindow(win, allEvents))
          /\ UpdateWindow(win, allEvents).oldest <= Len(allEvents)
      BY <1>0, <3>1, UpdateDefined
    <3> QED BY <2>1, <3>1, <3>2, Zenon
  <2>4. ColumnsCount(win)' = ColumnsCount(win')
    BY DEF ColumnsCount
  <2> QED BY <2>1, <2>2, <2>3, <2>4 DEF DefinedInv
<1>7. CASE Stop
  <2>1. allEvents' = <<>> /\ win' = NewWindow /\ ~undefined'
    BY <1>7 DEF Stop
  <2> QED BY <2>1, ColumnCounts DEF DefinedInv, NewWindow
<1> QED BY <1>2, <1>3, <1>4, <1>5, <1>6, <1>7, <1>8 DEF Next

\* get_model_input reads outside _allEvents, and an average divides by zero, only once an
\* event of the table has left the window.
THEOREM DefinedSafety == Spec => []DefinedUntilExpiry
<1>1. TablesInv /\ DefinedInv => DefinedUntilExpiry
  <2> SUFFICES ASSUME TablesInv, DefinedInv, undefined
               PROVE  \E i \in DOMAIN allEvents : ~InWindow(allEvents[i])
    BY DEF DefinedUntilExpiry
  <2>1. DOMAIN allEvents = 1 .. Len(allEvents)
    BY DEF TablesInv
  <2> QED BY <2>1 DEF DefinedInv, NoneExpired
<1> QED BY <1>1, TablesInit, TablesStep, WindowInit, WindowStep, DefinedInit, DefinedStep, PTL DEF Spec

-----------------------------------------------------------------------------
(* The features are the aggregates of the events counted.                   *)

\* The events counted for group g.
Counted(w, events, g) == {i \in w.counted : events[i].group = g}

\* The window when the first n events have been given to it: only events of groups it
\* has seen are counted, none while _oldestIndex is -1, and every column of a group no
\* event was left out of is their aggregate.
WindowHolds(w, events, n) ==
    /\ w.counted \subseteq 1 .. n
    /\ w.oldest = 0 => w.counted = {}
    /\ w.seen \subseteq Groups
    /\ \A i \in w.counted : events[i].group \in w.seen
    /\ w.cols = [g \in Groups |-> w.cols[g]]
    /\ \A g \in Groups \ w.spoiled, op \in Operators :
          ColumnHolds(op, w.cols[g][op], events, g, Counted(w, events, g), n)

GivenSoFar == IF phase = "filling" THEN fillIdx - 1 ELSE Len(allEvents)

AggregateInv == ~undefined => WindowHolds(win, allEvents, GivenSoFar)

\* Window a is window w after event i of group g: its groups and columns.
FieldsAdded(w, a, events, i, g) ==
    /\ a.seen = w.seen \cup {g}
    /\ a.cols = IF InWindow(events[i]) THEN [w.cols EXCEPT ![g] = AddToColumns(w.cols[g], events, i)]
                                       ELSE w.cols
    /\ a.spoiled = IF ~InWindow(events[i]) /\ \E op \in Operators : w.cols[g][op].oldest # 0
                     THEN w.spoiled \cup {g} ELSE w.spoiled

\* Giving event i to the window makes such a window.
LEMMA AddFields ==
    ASSUME NEW w, IsWindow(w), NEW events, NEW i
    PROVE  FieldsAdded(w, AddToWindow(w, events, i), events, i, events[i].group)
<1> DEFINE g == events[i].group
           cols == [w.cols EXCEPT ![g] = AddToColumns(w.cols[g], events, i)]
           oldest == IF w.oldest = 0 THEN i ELSE w.oldest
           spoiled == IF \E op \in Operators : w.cols[g][op].oldest # 0
                        THEN w.spoiled \cup {g} ELSE w.spoiled
           yes == [oldest |-> oldest, seen |-> w.seen \cup {g},
                   cols |-> cols, counted |-> w.counted \cup {i}, spoiled |-> w.spoiled]
           no == [oldest |-> w.oldest, seen |-> w.seen \cup {g},
                  cols |-> w.cols, counted |-> w.counted, spoiled |-> spoiled]
<1>1. InWindow(events[i]) => AddToWindow(w, events, i) = yes
  BY DEF AddToWindow, IsWindow
<1>2. ~InWindow(events[i]) => AddToWindow(w, events, i) = no
  BY DEF AddToWindow, IsWindow
<1>3. /\ yes.seen = w.seen \cup {g} /\ yes.cols = cols /\ yes.spoiled = w.spoiled
      /\ no.seen = w.seen \cup {g} /\ no.cols = w.cols /\ no.spoiled = spoiled
  <2> HIDE DEF cols, spoiled, oldest
  <2> QED OBVIOUS
<1> HIDE DEF yes, no
<1>4. CASE InWindow(events[i])
  BY <1>1, <1>3, <1>4 DEF FieldsAdded
<1>5. CASE ~InWindow(events[i])
  BY <1>2, <1>3, <1>5 DEF FieldsAdded
<1> QED BY <1>4, <1>5

\* PreProcessor::add_event keeps the columns the aggregates of the events counted.
LEMMA WindowAdd ==
    ASSUME NEW w, IsWindow(w), NEW events, Valued(events), NEW i \in 1 .. Len(events),
           events[i].group \in Groups, WindowHolds(w, events, i - 1)
    PROVE  WindowHolds(AddToWindow(w, events, i), events, i)
<1> DEFINE a == AddToWindow(w, events, i)
           g == events[i].group
<1>0. Len(events) \in Nat /\ i \in Nat \ {0} /\ w.counted \subseteq 1 .. i - 1 /\ i \notin w.counted
  BY DEF Valued, WindowHolds
<1>1. /\ a.oldest = (IF InWindow(events[i]) /\ w.oldest = 0 THEN i ELSE w.oldest)
      /\ a.counted = IF InWindow(events[i]) THEN w.counted \cup {i} ELSE w.counted
  BY <1>0, AddCounts
<1>2. /\ a.seen = w.seen \cup {g}
      /\ a.cols = IF InWindow(events[i]) THEN [w.cols EXCEPT ![g] = AddToColumns(w.cols[g], events, i)]
                                         ELSE w.cols
      /\ a.spoiled = IF ~InWindow(events[i]) /\ \E op \in Operators : w.cols[g][op].oldest # 0
                       THEN w.spoiled \cup {g} ELSE w.spoiled
  <2>1. FieldsAdded(w, a, events, i, g)
    BY AddFields
  <2> HIDE DEF a, g
  <2> QED BY <2>1 DEF FieldsAdded
<1> HIDE DEF a
<1>3. /\ a.counted \subseteq 1 .. i /\ a.seen \subseteq Groups
      /\ a.oldest = 0 => a.counted = {}
      /\ \A k \in a.counted : events[k].group \in a.seen
      /\ a.cols = [h \in Groups |-> a.cols[h]]
  <2>1. CASE InWindow(events[i])
    <3>1. a.counted \subseteq 1 .. i
      BY <1>0, <1>1, <2>1
    <3>2. a.oldest # 0
      BY <1>0, <1>1, <2>1
    <3>3. (\A k \in a.counted : events[k].group \in a.seen) /\ a.seen \subseteq Groups
      BY <1>1, <1>2, <2>1 DEF WindowHolds
    <3>4. a.cols = [h \in Groups |-> a.cols[h]]
      BY <1>2, <2>1 DEF WindowHolds
    <3> QED BY <3>1, <3>2, <3>3, <3>4
  <2>2. CASE ~InWindow(events[i])
    <3>1. a.counted \subseteq 1 .. i
      BY <1>0, <1>1, <2>2
    <3> QED BY <1>1, <1>2, <2>2, <3>1 DEF WindowHolds
  <2> QED BY <2>1, <2>2
<1>4. ASSUME NEW h \in Groups \ a.spoiled, NEW op \in Operators
      PROVE  ColumnHolds(op, a.cols[h][op], events, h, Counted(a, events, h), i)
  <2> DEFINE c == w.cols[h][op]
             C == Counted(w, events, h)
  <2>1. h \notin w.spoiled
    BY <1>2, <1>4
  <2>2. ColumnHolds(op, c, events, h, C, i - 1) /\ C \subseteq 1 .. i - 1
    BY <1>0, <2>1 DEF WindowHolds, Counted
  <2>3. CASE InWindow(events[i]) /\ h = g
    <3>1. a.cols[h] = AddToColumns(w.cols[g], events, i)
      BY <1>2, <2>3 DEF WindowHolds
    <3>2. a.cols[h][op] = AddToColumn(op, c, events, i)
      BY <2>3, <3>1 DEF AddToColumns
    <3>3. Counted(a, events, h) = C \cup {i}
      BY <1>1, <2>3 DEF Counted
    <3> HIDE DEF c, C
    <3>4. ColumnHolds(op, AddToColumn(op, c, events, i), events, h, C \cup {i}, i)
      BY <2>2, ColumnAdd
    <3> QED BY <3>2, <3>3, <3>4, Zenon
  <2>4. CASE InWindow(events[i]) /\ h # g
    <3>1. a.cols[h][op] = c
      BY <1>2, <2>4 DEF WindowHolds
    <3>2. Counted(a, events, h) = C
      BY <1>1, <2>4 DEF Counted
    <3> HIDE DEF c, C
    <3> QED BY <1>0, <2>2, <2>4, <3>1, <3>2, ColumnPass
  <2>5. CASE ~InWindow(events[i])
    <3>1. a.cols[h][op] = c /\ Counted(a, events, h) = C
      BY <1>1, <1>2, <2>5 DEF Counted
    <3>2. h # g \/ C = {}
      <4> SUFFICES ASSUME h = g, C # {} PROVE FALSE
        OBVIOUS
      <4>1. c.oldest = 0
        BY <1>2, <1>4, <2>5
      <4>2. c.oldest \in C
        BY <2>2 DEF ColumnHolds
      <4> QED BY <2>2, <4>1, <4>2
    <3> HIDE DEF c, C
    <3> QED BY <1>0, <2>2, <3>1, <3>2, ColumnPass
  <2> QED BY <2>3, <2>4, <2>5
<1> QED BY <1>3, <1>4 DEF WindowHolds, a

\* A new window counts nothing.
LEMMA WindowNew ==
    ASSUME NEW events, Valued(events), NEW n
    PROVE  WindowHolds(NewWindow, events, n)
<1>1. /\ NewWindow.counted = {} /\ NewWindow.seen = {} /\ NewWindow.spoiled = {}
      /\ NewWindow.cols = [g \in Groups |-> [op \in Operators |-> NewColumn]]
  BY DEF NewWindow
<1>2. NewWindow.cols = [g \in Groups |-> NewWindow.cols[g]]
  BY <1>1
<1>3. \A g \in Groups, op \in Operators : NewWindow.cols[g][op] = NewColumn
  BY <1>1
<1>4. \A g : Counted(NewWindow, events, g) = {}
  BY <1>1 DEF Counted
<1>5. \A g \in Groups, op \in Operators :
        ColumnHolds(op, NewWindow.cols[g][op], events, g, Counted(NewWindow, events, g), n)
  <2> SUFFICES ASSUME NEW g \in Groups, NEW op \in Operators
               PROVE  ColumnHolds(op, NewWindow.cols[g][op], events, g, Counted(NewWindow, events, g), n)
    OBVIOUS
  <2>1. ColumnHolds(op, NewColumn, events, g, {}, n)
    BY ColumnNew
  <2> QED BY <1>3, <1>4, <2>1, Zenon
<1> QED BY <1>1, <1>2, <1>5 DEF WindowHolds

\* One more event in memory changes no aggregate.
LEMMA WindowAppend ==
    ASSUME NEW w, NEW events, Valued(events), NEW more, Valued(more), Len(more) = Len(events) + 1,
           \A k \in 1 .. Len(events) : more[k] = events[k], WindowHolds(w, events, Len(events))
    PROVE  WindowHolds(w, more, Len(events))
<1>1. \A g : Counted(w, more, g) = Counted(w, events, g)
  BY DEF Counted, WindowHolds
<1>2. ASSUME NEW g \in Groups \ w.spoiled, NEW op \in Operators
      PROVE  ColumnHolds(op, w.cols[g][op], more, g, Counted(w, more, g), Len(events))
  <2> DEFINE c == w.cols[g][op]
             C == Counted(w, events, g)
  <2>1. ColumnHolds(op, c, events, g, C, Len(events)) /\ C \subseteq 1 .. Len(events)
    BY DEF WindowHolds, Counted
  <2> HIDE DEF c, C
  <2>2. ColumnHolds(op, c, more, g, C, Len(events))
    BY <2>1, ColumnAppend
  <2> QED BY <1>1, <2>2 DEF c, C
<1>3. \A i \in w.counted : more[i].group \in w.seen
  BY DEF WindowHolds
<1> QED BY <1>2, <1>3 DEF WindowHolds

\* update_window steps over expired events, or empties every column of every group.
LEMMA WindowUpdate ==
    ASSUME NEW w, IsWindow(w), NEW events, Valued(events), WindowHolds(w, events, Len(events)),
           ~UpdateReadsOutOfBounds(w, events)
    PROVE  WindowHolds(UpdateWindow(w, events), events, Len(events))
<1> DEFINE u == UpdateWindow(w, events)
           valid == ValidIndex(w, events)
<1>0. Len(events) \in Nat
  BY DEF Valued
<1>1. CASE StillValid(w, events) # {}
  <2>1. /\ u.oldest = Min(StillValid(w, events)) /\ u.seen = w.seen /\ u.cols = w.cols
        /\ u.counted = w.counted /\ u.spoiled = w.spoiled
    BY <1>1 DEF UpdateWindow, IsWindow
  <2>2. u.oldest # 0
    <3>1. StillValid(w, events) \subseteq Nat \ {0}
      BY DEF StillValid
    <3> QED BY <1>1, <2>1, <3>1, MinOfNat
  <2> HIDE DEF u
  <2>3. \A g : Counted(u, events, g) = Counted(w, events, g)
    BY <2>1 DEF Counted
  <2> QED BY <2>1, <2>2, <2>3 DEF WindowHolds, u
<1>2. CASE StillValid(w, events) = {}
  <2> DEFINE cols == [g \in Groups |->
                 IF g \in w.seen
                   THEN [op \in Operators |-> RemoveFromColumn(op, w.cols[g][op], events, g, valid)]
                   ELSE w.cols[g]]
  <2>1. /\ u.oldest = valid /\ u.seen = w.seen /\ u.cols = cols
        /\ u.counted = {i \in w.counted : i >= valid} /\ u.spoiled = w.spoiled
    BY <1>2 DEF UpdateWindow, IsWindow
  <2> HIDE DEF u
  <2>2. valid = IF w.oldest = 0 THEN 0 ELSE Len(events) + 1
    BY DEF ValidIndex
  <2> HIDE DEF valid
  <2>3. u.counted = {}
    BY <1>0, <2>1, <2>2 DEF WindowHolds
  <2>4. \A g : Counted(u, events, g) = {}
    BY <2>3 DEF Counted
  <2>5. ASSUME NEW g \in Groups \ w.spoiled, NEW op \in Operators PROVE cols[g][op] = NewColumn
    <3> DEFINE c == w.cols[g][op]
               C == Counted(w, events, g)
    <3>1. /\ ColumnHolds(op, c, events, g, C, Len(events)) /\ C \subseteq 1 .. Len(events)
          /\ \A k \in C : events[k].group = g
      BY DEF WindowHolds, Counted
    <3>2. CASE g \notin w.seen
      <4>1. C = {} /\ cols[g][op] = c
        BY <3>2 DEF WindowHolds, Counted
      <4> HIDE DEF c, C, cols
      <4> QED BY <3>1, <4>1, ColumnEmpty
    <3>3. CASE g \in w.seen
      <4>1. cols[g][op] = RemoveFromColumn(op, c, events, g, valid)
        BY <3>3
      <4>2. CASE w.oldest = 0
        <5>1. C = {} /\ valid = 0
          BY <2>2, <4>2 DEF WindowHolds, Counted
        <5>2. IsColumn(c) /\ c.count = 0
          BY <3>1, <5>1, FS_EmptySet DEF ColumnHolds
        <5> HIDE DEF c, C, cols
        <5> QED BY <4>1, <5>1, <5>2, RemoveNothing
      <4>3. CASE w.oldest # 0
        <5>1. valid = Len(events) + 1 /\ valid > 0
          BY <1>0, <2>2, <4>3
        <5>2. op \in Subtracting => c.oldest # 0
          BY <1>2, <3>3, <5>1 DEF UpdateReadsOutOfBounds, ReadsOutOfBounds, valid
        <5> HIDE DEF c, C, cols
        <5> QED BY <3>1, <4>1, <5>1, <5>2, RemoveAll
      <4> QED BY <4>2, <4>3
    <3> QED BY <3>2, <3>3
  <2>6. cols = [g \in Groups |-> cols[g]]
    OBVIOUS
  <2> HIDE DEF cols
  <2>7. ASSUME NEW g \in Groups \ u.spoiled, NEW op \in Operators
        PROVE  ColumnHolds(op, u.cols[g][op], events, g, Counted(u, events, g), Len(events))
    <3>1. ColumnHolds(op, NewColumn, events, g, {}, Len(events))
      BY ColumnNew
    <3>2. u.cols[g][op] = NewColumn
      BY <2>1, <2>5
    <3> QED BY <2>4, <3>1, <3>2, Zenon
  <2> QED BY <2>1, <2>3, <2>6, <2>7 DEF WindowHolds, u
<1> QED BY <1>1, <1>2

\* At first nothing is counted.
LEMMA AggregateInit == Init => AggregateInv
<1>1. Valued(<<>>)
  BY DEF Valued
<1> QED BY <1>1, WindowNew DEF Init, AggregateInv

\* However events, models, queries and the clock interleave, the columns are the aggregates
\* of the events counted.
LEMMA AggregateStep == TablesInv /\ WindowInv /\ AggregateInv /\ [Next]_vars => AggregateInv'
<1> SUFFICES ASSUME TablesInv, WindowInv, AggregateInv, [Next]_vars PROVE AggregateInv'
  OBVIOUS
<1>0. ASSUME NEW events \in Seq(Events)
      PROVE  Valued(events) /\ \A i \in 1 .. Len(events) : events[i].group \in Groups
  <2>1. Len(events) \in Nat /\ \A i \in 1 .. Len(events) : events[i] \in Events
    OBVIOUS
  <2>2. \A e \in Events : e.val \in Int /\ e.group \in Groups
    BY UserEventsAssumption DEF Events
  <2> QED BY <2>1, <2>2 DEF Valued
<1>1. /\ allEvents \in Seq(Events) /\ Len(allEvents) \in Nat /\ fillIdx \in Nat \ {0}
      /\ allEvents' \in Seq(Events) /\ IsWindow(win) /\ Valued(allEvents) /\ Valued(allEvents')
  BY <1>0, TablesStep DEF TablesInv, WindowInv, Opened
<1>2. ASSUME UNCHANGED <<allEvents, win>>, undefined' => undefined, undefined => undefined',
             GivenSoFar' = GivenSoFar
      PROVE  AggregateInv'
  BY <1>2 DEF AggregateInv
<1>3. CASE (\E s \in Schemas, debug \in BOOLEAN : Start(s, debug)) \/ Tick \/ UNCHANGED vars
  BY <1>2, <1>3 DEF Start, Tick, vars, memVars, GivenSoFar
<1>4. ASSUME NEW g \in Groups, NEW v \in Values, NEW lag \in 0 .. MaxLag, AddEvent(g, v, lag)
      PROVE  AggregateInv'
  <2>1. PICK e \in Events : allEvents' = IF ready THEN Append(allEvents, e) ELSE allEvents
    BY <1>4, AddedEvent
  <2>2. /\ UNCHANGED <<phase, fillIdx>> /\ phase # "filling"
        /\ win' = IF phase = "ready" THEN AddToWindow(win, allEvents', Len(allEvents')) ELSE win
    BY <1>4 DEF AddEvent
  <2>3. (undefined => undefined') /\ (phase # "ready" /\ undefined' => undefined)
    BY <1>4, Zenon DEF AddEvent
  <2>4. CASE phase = "ready"
    <3> SUFFICES ASSUME ~undefined' PROVE WindowHolds(win', allEvents', Len(allEvents'))
      BY <2>2, <2>4 DEF AggregateInv, GivenSoFar
    <3>1. ready /\ ~undefined
      BY <2>4, <2>3 DEF TablesInv, Opened
    <3>2. /\ Len(allEvents') = Len(allEvents) + 1
          /\ \A i \in 1 .. Len(allEvents) : allEvents'[i] = allEvents[i]
      BY <1>1, <2>1, <3>1
    <3>3. WindowHolds(win, allEvents, Len(allEvents))
      BY <2>4, <3>1 DEF AggregateInv, GivenSoFar
    <3>4. WindowHolds(win, allEvents', Len(allEvents))
      BY <1>1, <3>2, <3>3, WindowAppend
    <3>5. /\ Len(allEvents') \in 1 .. Len(allEvents') /\ Len(allEvents') - 1 = Len(allEvents)
          /\ allEvents'[Len(allEvents')].group \in Groups
      BY <1>0, <1>1, <3>2
    <3>6. WindowHolds(AddToWindow(win, allEvents', Len(allEvents')), allEvents', Len(allEvents'))
      BY <1>1, <3>4, <3>5, WindowAdd
    <3> QED BY <2>2, <2>4, <3>6
  <2>5. CASE phase = "none"
    <3>1. win' = NewWindow
      BY <2>2, <2>5 DEF TablesInv, Opened
    <3> QED BY <1>1, <3>1, WindowNew DEF AggregateInv
  <2>6. phase = "ready" \/ phase = "none"
    BY <2>2 DEF TablesInv, Opened
  <2> QED BY <2>4, <2>5, <2>6
<1>5. CASE BeginCreate \/ Stop
  <2>1. win' = NewWindow
    BY <1>5 DEF BeginCreate, Stop
  <2> QED BY <1>1, <2>1, WindowNew DEF AggregateInv
<1>9. ASSUME NEW n \in 0 .. Len(rows), FailCreate(n) PROVE AggregateInv'
  <2>1. win' = NewWindow
    BY <1>9 DEF FailCreate, TablesInv, Opened
  <2> QED BY <1>1, <2>1, WindowNew DEF AggregateInv
<1>6. CASE FillStep
  <2>1. /\ phase = "filling" /\ fillIdx <= Len(allEvents) /\ fillIdx' = fillIdx + 1
        /\ UNCHANGED <<allEvents, phase, undefined>> /\ win' = AddToWindow(win, allEvents, fillIdx)
    BY <1>6 DEF FillStep
  <2> SUFFICES ASSUME ~undefined' PROVE WindowHolds(win', allEvents', fillIdx)
    BY <1>1, <2>1 DEF AggregateInv, GivenSoFar
  <2>2. WindowHolds(win, allEvents, fillIdx - 1)
    BY <2>1 DEF AggregateInv, GivenSoFar
  <2>3. fillIdx \in 1 .. Len(allEvents) /\ allEvents[fillIdx].group \in Groups
    BY <1>0, <1>1, <2>1
  <2> QED BY <1>1, <2>1, <2>2, <2>3, WindowAdd
<1>7. CASE FillDone
  <2>1. /\ phase = "filling" /\ fillIdx > Len(allEvents) /\ phase' = "ready"
        /\ UNCHANGED <<allEvents, fillIdx, win, undefined>>
    BY <1>7 DEF FillDone
  <2>2. GivenSoFar' = GivenSoFar
    BY <1>1, <2>1 DEF GivenSoFar, WindowInv
  <2> QED BY <1>2, <2>1, <2>2
<1>8. CASE GetModelInput
  <2>1. /\ phase = "ready" /\ UNCHANGED <<allEvents, phase, fillIdx>>
        /\ win' = UpdateWindow(win, allEvents)
        /\ undefined' <=> undefined \/ UpdateReadsOutOfBounds(win, allEvents)
    BY <1>8 DEF GetModelInput
  <2> SUFFICES ASSUME ~undefined' PROVE WindowHolds(win', allEvents', Len(allEvents))
    BY <2>1 DEF AggregateInv, GivenSoFar
  <2>2. WindowHolds(win, allEvents, Len(allEvents)) /\ ~UpdateReadsOutOfBounds(win, allEvents)
    BY <2>1 DEF AggregateInv, GivenSoFar
  <2> QED BY <1>1, <2>1, <2>2, WindowUpdate
<1> QED BY <1>3, <1>4, <1>5, <1>6, <1>7, <1>8, <1>9 DEF Next

\* The features of a group are the aggregates of exactly the events counted for it, as long
\* as no event was left out behind a counted one and nothing undefined was done.
THEOREM AggregateSafety == Spec => []StoreMatchesCounted
<1>1. TablesInv /\ WindowInv /\ AggregateInv => StoreMatchesCounted
  <2> SUFFICES ASSUME TablesInv, WindowInv, AggregateInv, ~undefined,
                      NEW g \in win.seen \ win.spoiled, NEW op \in Operators
               PROVE  win.cols[g][op].store = Aggregate(op, allEvents, win.counted \cap OfGroup(g))
    BY DEF StoreMatchesCounted
  <2>1. WindowHolds(win, allEvents, GivenSoFar) /\ g \in Groups \ win.spoiled
    BY DEF AggregateInv, WindowHolds
  <2>2. win.cols[g][op].store = Aggregate(op, allEvents, Counted(win, allEvents, g))
    BY <2>1 DEF WindowHolds, ColumnHolds
  <2>3. win.counted \subseteq 1 .. Len(allEvents)
    <3>1. GivenSoFar \in Nat /\ Len(allEvents) \in Nat /\ GivenSoFar <= Len(allEvents)
      BY DEF GivenSoFar, TablesInv, Opened, WindowInv
    <3> QED BY <2>1, <3>1 DEF WindowHolds
  <2>4. Counted(win, allEvents, g) = win.counted \cap OfGroup(g)
    BY <2>3 DEF Counted, OfGroup
  <2> QED BY <2>2, <2>4
<1> QED BY <1>1, TablesInit, TablesStep, WindowInit, WindowStep, AggregateInit, AggregateStep, PTL DEF Spec

\* A get_model_input that meets no event inside the window returns the defaults: nothing of
\* the expired events is left in a column.
LEMMA ForgetsExpired ==
    ASSUME TablesInv, WindowInv, AggregateInv, AggregateInv', GetModelInput, ~undefined',
           \A i \in DOMAIN allEvents : ~InWindow(allEvents[i]),
           NEW g \in win.seen \ win.spoiled, NEW op \in Operators
    PROVE  win'.cols[g][op].store = Default
<1>1. /\ win' = UpdateWindow(win, allEvents) /\ phase = "ready"
      /\ UNCHANGED <<allEvents, phase, fillIdx>> /\ ~undefined
  BY DEF GetModelInput
<1>2. WindowHolds(win, allEvents, Len(allEvents)) /\ WindowHolds(win', allEvents, Len(allEvents))
  BY <1>1 DEF AggregateInv, GivenSoFar
<1>3. StillValid(win, allEvents) = {}
  <2>1. DOMAIN allEvents = 1 .. Len(allEvents)
    BY DEF TablesInv, Opened
  <2> QED BY <2>1 DEF StillValid
<1>4. /\ win'.counted = {i \in win.counted : i >= ValidIndex(win, allEvents)}
      /\ win'.spoiled = win.spoiled /\ IsWindow(win)
  BY <1>1, <1>3 DEF UpdateWindow, IsWindow, WindowInv
<1>5. Counted(win', allEvents, g) = {}
  <2>1. win.counted \subseteq 1 .. Len(allEvents) /\ (win.oldest = 0 => win.counted = {})
    BY <1>2 DEF WindowHolds
  <2>2. Len(allEvents) \in Nat
    BY DEF TablesInv, Opened
  <2>3. win'.counted = {}
    BY <1>4, <2>1, <2>2 DEF ValidIndex
  <2> QED BY <2>3 DEF Counted
<1>6. ColumnHolds(op, win'.cols[g][op], allEvents, g, {}, Len(allEvents))
  <2>1. g \in Groups \ win'.spoiled
    BY <1>2, <1>4 DEF WindowHolds
  <2> QED BY <1>2, <1>5, <2>1 DEF WindowHolds
<1> QED BY <1>6 DEF ColumnHolds, Aggregate

\* When all events have expired, the features of a group are the defaults again, unless an
\* event of the group was left out behind a counted one or something undefined was done.
THEOREM ForgetSafety == Spec => ExpiredForgotten
<1> DEFINE Inv == TablesInv /\ WindowInv /\ AggregateInv
           Forgets == GetModelInput /\ ~undefined'
                        /\ (\A i \in DOMAIN allEvents : ~InWindow(allEvents[i])) =>
                        \A g \in win.seen \ win.spoiled, op \in Operators :
                            win'.cols[g][op].store = Default
<1>1. Init => Inv
  BY TablesInit, WindowInit, AggregateInit
<1>2. Inv /\ [Next]_vars => Inv'
  BY TablesStep, WindowStep, AggregateStep
<1>3. Inv /\ Inv' => Forgets
  BY ForgetsExpired
<1>4. Spec => []Inv
  <2> HIDE DEF Inv
  <2> QED BY <1>1, <1>2, PTL DEF Spec
<1> HIDE DEF Inv
<1> QED BY <1>3, <1>4, PTL DEF ExpiredForgotten
=============================================================================
