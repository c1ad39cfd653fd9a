------------------------- MODULE ModelInputsProofs -------------------------
(***************************************************************************)
(* Proofs about ModelInputs, for any finite set of add_event calls and any *)
(* numbers of inputs and loads: the table implements EventIngest and loses *)
(* no event, the model in service has its inputs served, the groups of an  *)
(* event are in the order of the preprocessors, and how often a            *)
(* preprocessor counts an event.                                           *)
(***************************************************************************)
EXTENDS ModelInputs, FiniteSetTheorems, TLAPS

Entries == [event : Events, filled : BOOLEAN, groups : Seq(Nat), counted : Seq(Nat)]

Registered == [load : Nat, input : Nat]

\* The variables of _cmdThread and those of the host threads, apart from _allEvents.
LoadTypes ==
    /\ loads \in Nat /\ serving \in Nat /\ input \in Nat \ {0} /\ turn \in Nat \ {0}
    /\ at \in {"idle", "input", "select", "filling", "columns", "loop", "map", "push"}
    /\ preprocessors \in Seq(Registered)
    /\ idMap \in [Inputs -> Nat]
    /\ ready \in BOOLEAN

RowTypes ==
    /\ rows \subseteq Events /\ selected \subseteq Events /\ missed \subseteq Events
    /\ overlapped \subseteq Events /\ met \subseteq Events /\ crowded \subseteq Events
    /\ call \in [Events -> {"new", "inserted", "sized", "pushed", "group", "count", "done",
                            "rejected"}]
    /\ feed \in [Events -> [index : Nat, turn : Nat, last : Nat]]

Types == LoadTypes /\ RowTypes /\ allEvents \in Seq(Entries)

-----------------------------------------------------------------------------
(* What the steps do to _allEvents.                                         *)

\* A push puts an entry without groups behind the others.
LEMMA PushedEntry ==
    ASSUME allEvents \in Seq(Entries), NEW e \in Events, NEW b \in BOOLEAN,
           allEvents' = Append(allEvents, Entry(e, b))
    PROVE  /\ allEvents' \in Seq(Entries) /\ Len(allEvents') = Len(allEvents) + 1
           /\ \A k \in 1 .. Len(allEvents) : allEvents'[k] = allEvents[k]
           /\ allEvents'[Len(allEvents) + 1] = Entry(e, b)
<1>1. <<>> \in Seq(Nat)
  OBVIOUS
<1>2. Entry(e, b) \in Entries
  BY <1>1 DEF Entry, Entries
<1> QED BY <1>2

\* The other steps leave events and their number as they are.
Rewritten(k, groups, counted) ==
    /\ allEvents' \in Seq(Entries) /\ Len(allEvents') = Len(allEvents)
    /\ \A i \in 1 .. Len(allEvents) :
          /\ allEvents'[i].event = allEvents[i].event /\ allEvents'[i].filled = allEvents[i].filled
          /\ i # k => allEvents'[i] = allEvents[i]
    /\ allEvents'[k].groups = groups /\ allEvents'[k].counted = counted

\* An entry is replaced by such a one.
LEMMA RewrittenEntry ==
    ASSUME allEvents \in Seq(Entries), NEW k \in 1 .. Len(allEvents),
           NEW groups \in Seq(Nat), NEW counted \in Seq(Nat),
           NEW d, d \in Entries, d.event = allEvents[k].event, d.filled = allEvents[k].filled,
           d.groups = groups, d.counted = counted, allEvents' = [allEvents EXCEPT ![k] = d]
    PROVE  Rewritten(k, groups, counted)
<1>1. allEvents' \in Seq(Entries) /\ Len(allEvents') = Len(allEvents) /\ allEvents'[k] = d
      /\ \A i \in 1 .. Len(allEvents) : i # k => allEvents'[i] = allEvents[i]
  OBVIOUS
<1> QED BY <1>1 DEF Rewritten

\* Groups and counts are sequences of preprocessors.
LEMMA EntryTypes ==
    ASSUME allEvents \in Seq(Entries), NEW k \in 1 .. Len(allEvents), NEW p \in Nat
    PROVE  /\ allEvents[k] \in Entries
           /\ allEvents[k].groups \in Seq(Nat) /\ allEvents[k].counted \in Seq(Nat)
           /\ Append(allEvents[k].groups, p) \in Seq(Nat)
           /\ Append(allEvents[k].counted, p) \in Seq(Nat)
           /\ allEvents[k].event \in Events
<1>1. ASSUME NEW c \in Entries
      PROVE  c.groups \in Seq(Nat) /\ c.counted \in Seq(Nat) /\ c.event \in Events
  BY DEF Entries
<1>2. allEvents[k] \in Entries
  OBVIOUS
<1> QED BY <1>1, <1>2

\* An entry gets a group.
LEMMA GroupedEntry ==
    ASSUME allEvents \in Seq(Entries), NEW k \in 1 .. Len(allEvents), NEW p \in Nat,
           allEvents' = [allEvents EXCEPT ![k].groups = Append(@, p)]
    PROVE  Rewritten(k, Append(allEvents[k].groups, p), allEvents[k].counted)
<1> DEFINE c == allEvents[k]
           groups == Append(c.groups, p)
           d == [c EXCEPT !.groups = groups]
<1>1. c \in Entries /\ groups \in Seq(Nat) /\ c.counted \in Seq(Nat)
  BY EntryTypes
<1>2. allEvents' = [allEvents EXCEPT ![k] = d]
  OBVIOUS
<1> HIDE DEF c, groups
<1>3. d \in Entries /\ d.event = c.event /\ d.filled = c.filled /\ d.groups = groups /\ d.counted = c.counted
  BY <1>1 DEF Entries
<1> HIDE DEF d
<1> QED BY <1>1, <1>2, <1>3, RewrittenEntry DEF c, groups

\* An entry is counted.
LEMMA CountedEntry ==
    ASSUME allEvents \in Seq(Entries), NEW k \in 1 .. Len(allEvents), NEW p \in Nat,
           allEvents' = [allEvents EXCEPT ![k].counted = Append(@, p)]
    PROVE  Rewritten(k, allEvents[k].groups, Append(allEvents[k].counted, p))
<1> DEFINE c == allEvents[k]
           counted == Append(c.counted, p)
           d == [c EXCEPT !.counted = counted]
<1>1. c \in Entries /\ counted \in Seq(Nat) /\ c.groups \in Seq(Nat)
  BY EntryTypes
<1>2. allEvents' = [allEvents EXCEPT ![k] = d]
  OBVIOUS
<1> HIDE DEF c, counted
<1>3. d \in Entries /\ d.event = c.event /\ d.filled = c.filled /\ d.groups = c.groups /\ d.counted = counted
  BY <1>1 DEF Entries
<1> HIDE DEF d
<1> QED BY <1>1, <1>2, <1>3, RewrittenEntry DEF c, counted

\* The loop of create_preprocessor does both.
LEMMA CreatedEntry ==
    ASSUME Types, CountEntry
    PROVE  Rewritten(turn, Append(allEvents[turn].groups, NewId), Append(allEvents[turn].counted, NewId))
<1>0. turn \in 1 .. Len(allEvents) /\ NewId \in Nat /\ allEvents \in Seq(Entries)
  BY DEF Types, LoadTypes, CountEntry, NewId
<1> DEFINE c == allEvents[turn]
           groups == Append(c.groups, NewId)
           counted == Append(c.counted, NewId)
           d == [c EXCEPT !.groups = groups, !.counted = counted]
<1>1. c \in Entries /\ groups \in Seq(Nat) /\ counted \in Seq(Nat)
  BY <1>0, EntryTypes
<1>2. allEvents' = [allEvents EXCEPT ![turn] = d]
  BY DEF CountEntry
<1> HIDE DEF c, groups, counted
<1>3. d \in Entries /\ d.event = c.event /\ d.filled = c.filled /\ d.groups = groups /\ d.counted = counted
  BY <1>1 DEF Entries
<1> HIDE DEF d
<1> QED BY <1>0, <1>1, <1>2, <1>3, RewrittenEntry DEF c, groups, counted

\* The places of an event after a push and after any other step.
LEMMA PlacesStep ==
    ASSUME allEvents \in Seq(Entries), NEW e \in Events
    PROVE  /\ IsFiniteSet(PlacesOf(e)) /\ Cardinality(PlacesOf(e)) \in Nat
           /\ allEvents' = allEvents => PlacesOf(e)' = PlacesOf(e)
           /\ \A k, groups, counted : Rewritten(k, groups, counted) => PlacesOf(e)' = PlacesOf(e)
           /\ \A f \in Events, b \in BOOLEAN : allEvents' = Append(allEvents, Entry(f, b)) =>
                 /\ f # e => PlacesOf(e)' = PlacesOf(e)
                 /\ f = e => /\ PlacesOf(e)' # {}
                             /\ Cardinality(PlacesOf(e)') = Cardinality(PlacesOf(e)) + 1
<1>1. PlacesOf(e) \subseteq 1 .. Len(allEvents) /\ IsFiniteSet(1 .. Len(allEvents))
  BY FS_Interval DEF PlacesOf
<1>2. IsFiniteSet(PlacesOf(e)) /\ Cardinality(PlacesOf(e)) \in Nat
  BY <1>1, FS_Subset, FS_CardinalityType
<1>3. allEvents' = allEvents => PlacesOf(e)' = PlacesOf(e)
  BY DEF PlacesOf
<1>4. ASSUME NEW k, NEW groups, NEW counted, Rewritten(k, groups, counted)
      PROVE  PlacesOf(e)' = PlacesOf(e)
  <2>1. /\ DOMAIN allEvents' = 1 .. Len(allEvents) /\ DOMAIN allEvents = 1 .. Len(allEvents)
        /\ \A i \in 1 .. Len(allEvents) : allEvents'[i].event = allEvents[i].event
    BY <1>4 DEF Rewritten
  <2> QED BY <2>1 DEF PlacesOf
<1>5. ASSUME NEW f \in Events, NEW b \in BOOLEAN, allEvents' = Append(allEvents, Entry(f, b))
      PROVE  /\ f # e => PlacesOf(e)' = PlacesOf(e)
             /\ f = e => /\ PlacesOf(e)' # {}
                         /\ Cardinality(PlacesOf(e)') = Cardinality(PlacesOf(e)) + 1
  <2> DEFINE n == Len(allEvents) + 1
  <2>1. /\ DOMAIN allEvents' = 1 .. n /\ DOMAIN allEvents = 1 .. Len(allEvents)
        /\ \A i \in 1 .. Len(allEvents) : allEvents'[i] = allEvents[i]
        /\ allEvents'[n].event = f
    BY <1>5, PushedEntry DEF Entry
  <2>2. f # e => PlacesOf(e)' = PlacesOf(e)
    BY <2>1 DEF PlacesOf
  <2>3. f = e => PlacesOf(e)' = PlacesOf(e) \cup {n}
    BY <2>1 DEF PlacesOf
  <2>4. n \notin PlacesOf(e)
    BY <1>1
  <2> QED BY <1>2, <2>2, <2>3, <2>4, FS_AddElement
<1> QED BY <1>2, <1>3, <1>4, <1>5

-----------------------------------------------------------------------------
(* The table: types, and how far the threads are.                           *)

\* The position an add_row read lies in the vector once it has pushed its event, and
\* the preprocessors of its loop are registered.
RowInv ==
    \A e \in Events :
        /\ call[e] = "sized" => feed[e].index \in 1 .. Len(allEvents) + 1
        /\ call[e] \in {"pushed", "group", "count"} => feed[e].index \in 1 .. Len(allEvents)
        /\ call[e] \in {"group", "count"} =>
              feed[e].turn \in 1 .. feed[e].last /\ feed[e].last <= Len(preprocessors)

\* The flag is set before the SELECT runs and before any add_row pushes; only a SELECT
\* under way has rows to deliver; there is no preprocessor before its end.
PhaseInv ==
    /\ rows = {e \in Events : call[e] \notin {"new", "rejected"}}
    /\ selected \subseteq rows
    /\ selected # {} => at = "filling"
    /\ ~ready => /\ at \in {"idle", "input"} /\ allEvents = <<>>
                 /\ \A e \in Events : call[e] \in {"new", "inserted", "done", "rejected"}
    /\ ~ready \/ at \in {"select", "filling"} => preprocessors = <<>> /\ missed = {}

BaseInv == Types /\ RowInv /\ PhaseInv

\* Before any call.
LEMMA BaseInit == Init => BaseInv
<1> SUFFICES ASSUME Init PROVE BaseInv
  OBVIOUS
<1> USE DEF Init
<1>1. preprocessors \in Seq(Registered)
  OBVIOUS
<1>5. allEvents \in Seq(Entries)
  OBVIOUS
<1>6. idMap \in [Inputs -> Nat]
  OBVIOUS
<1>7. ready \in BOOLEAN
  OBVIOUS
<1>4. LoadTypes
  BY <1>1, <1>6, <1>7 DEF LoadTypes
<1>3. RowTypes
  <2>1. NoFeed \in [index : Nat, turn : Nat, last : Nat]
    BY DEF NoFeed
  <2> QED BY <2>1 DEF RowTypes
<1>2. RowInv /\ PhaseInv
  BY DEF RowInv, PhaseInv
<1> QED BY <1>2, <1>3, <1>4, <1>5 DEF BaseInv, Types

\* What _cmdThread does to its variables.
LEMMA LoadTypesStep == LoadTypes /\ [Next]_vars => LoadTypes'
<1> SUFFICES ASSUME LoadTypes, [Next]_vars PROVE LoadTypes'
  OBVIOUS
<1> USE DEF LoadTypes
<1>1. CASE LoadPlan
  BY <1>1 DEF LoadPlan, tableVars
<1>2. CASE BeginInput
  BY <1>2 DEF BeginInput
<1>3. CASE Select \/ SelectDone \/ SelectFails
  BY <1>3 DEF Select, SelectDone, SelectFails, tableVars
<1>4. ASSUME NEW e \in Events, FillRow(e) PROVE LoadTypes'
  BY <1>4 DEF FillRow, loadVars
<1>5. CASE CheckColumns \/ LoopEnd \/ ConstructorThrows \/ ConstructorDone
  BY <1>5 DEF CheckColumns, LoopEnd, ConstructorThrows, ConstructorDone, tableVars
<1>6. CASE CountEntry
  BY <1>6 DEF CountEntry, loadVars, tableVars
<1>7. CASE MapInput
  <2>1. NewId \in Nat
    BY DEF NewId
  <2> QED BY <1>7, <2>1 DEF MapInput, tableVars
<1>8. CASE PushBack
  <2>1. [load |-> loads, input |-> input] \in Registered
    BY DEF Registered
  <2>2. preprocessors' \in Seq(Registered)
    BY <1>8, <2>1 DEF PushBack
  <2> QED BY <1>8, <2>2 DEF PushBack, tableVars
<1>9. ASSUME NEW e \in Events, InsertEvent(e) \/ RejectEvent(e) \/ AddRow(e) PROVE LoadTypes'
  BY <1>9 DEF InsertEvent, RejectEvent, AddRow, SkipRow, ReadSize, PushRow, EnterLoop, GroupRow,
     CountRow, loadVars, tableVars
<1>10. CASE UNCHANGED vars
  BY <1>10 DEF vars, loadVars, tableVars
<1> QED BY <1>1, <1>2, <1>3, <1>4, <1>5, <1>6, <1>7, <1>8, <1>9, <1>10 DEF Next, Constructor

\* What an add_row does to its own variables, and that it leaves those of others.
LEMMA OwnFeed ==
    ASSUME Types, NEW e \in Events
    PROVE  /\ ReadSize(e) =>
                 /\ feed'[e].index = Len(allEvents) + 1 /\ feed'[e].turn = feed[e].turn
                 /\ feed'[e].last = feed[e].last
           /\ EnterLoop(e) /\ preprocessors # <<>> =>
                 /\ feed'[e].turn = 1 /\ feed'[e].last = Len(preprocessors)
                 /\ feed'[e].index = feed[e].index
           /\ CountRow(e) /\ feed[e].turn # feed[e].last =>
                 /\ feed'[e].turn = feed[e].turn + 1 /\ feed'[e].last = feed[e].last
                 /\ feed'[e].index = feed[e].index
           /\ ReadSize(e) \/ EnterLoop(e) \/ CountRow(e) =>
                 /\ feed' \in [Events -> [index : Nat, turn : Nat, last : Nat]]
                 /\ \A f \in Events : f # e => feed'[f] = feed[f]
                 /\ \A f \in Events : f # e => call'[f] = call[f]
<1> DEFINE F == [index : Nat, turn : Nat, last : Nat]
<1>0. /\ feed \in [Events -> F] /\ feed[e] \in F /\ call \in [Events -> {"new", "inserted", "sized",
            "pushed", "group", "count", "done", "rejected"}]
      /\ Len(allEvents) \in Nat /\ Len(preprocessors) \in Nat
  BY DEF Types, LoadTypes, RowTypes
<1>1. ASSUME NEW r \in F, feed' = [feed EXCEPT ![e] = r]
      PROVE  feed' \in [Events -> F] /\ feed'[e] = r /\ \A f \in Events : f # e => feed'[f] = feed[f]
  BY <1>0, <1>1
<1>2. ASSUME ReadSize(e)
      PROVE  /\ feed'[e].index = Len(allEvents) + 1 /\ feed'[e].turn = feed[e].turn
             /\ feed'[e].last = feed[e].last
             /\ feed' \in [Events -> F] /\ \A f \in Events : f # e => feed'[f] = feed[f]
  <2> DEFINE r == [feed[e] EXCEPT !.index = Len(allEvents) + 1]
  <2>1. r \in F /\ r.index = Len(allEvents) + 1 /\ r.turn = feed[e].turn /\ r.last = feed[e].last
    BY <1>0
  <2>2. feed' = [feed EXCEPT ![e] = r]
    BY <1>2 DEF ReadSize
  <2> HIDE DEF r
  <2> QED BY <1>1, <2>1, <2>2
<1>3. ASSUME EnterLoop(e)
      PROVE  /\ preprocessors # <<>> =>
                   /\ feed'[e].turn = 1 /\ feed'[e].last = Len(preprocessors)
                   /\ feed'[e].index = feed[e].index
             /\ feed' \in [Events -> F] /\ \A f \in Events : f # e => feed'[f] = feed[f]
  <2>1. CASE preprocessors = <<>>
    <3>1. NoFeed \in F /\ feed' = [feed EXCEPT ![e] = NoFeed]
      BY <1>3, <2>1 DEF EnterLoop, NoFeed
    <3> QED BY <1>1, <2>1, <3>1
  <2>2. CASE preprocessors # <<>>
    <3> DEFINE r == [feed[e] EXCEPT !.turn = 1, !.last = Len(preprocessors)]
    <3>1. r \in F /\ r.turn = 1 /\ r.last = Len(preprocessors) /\ r.index = feed[e].index
      BY <1>0
    <3>2. feed' = [feed EXCEPT ![e] = r]
      BY <1>3, <2>2 DEF EnterLoop
    <3> HIDE DEF r
    <3> QED BY <1>1, <3>1, <3>2
  <2> QED BY <2>1, <2>2
<1>4. ASSUME CountRow(e)
      PROVE  /\ feed[e].turn # feed[e].last =>
                   /\ feed'[e].turn = feed[e].turn + 1 /\ feed'[e].last = feed[e].last
                   /\ feed'[e].index = feed[e].index
             /\ feed' \in [Events -> F] /\ \A f \in Events : f # e => feed'[f] = feed[f]
  <2>1. CASE feed[e].turn = feed[e].last
    <3>1. NoFeed \in F /\ feed' = [feed EXCEPT ![e] = NoFeed]
      BY <1>4, <2>1 DEF CountRow, NoFeed
    <3> QED BY <1>1, <2>1, <3>1
  <2>2. CASE feed[e].turn # feed[e].last
    <3> DEFINE r == [feed[e] EXCEPT !.turn = feed[e].turn + 1]
    <3>1. r \in F /\ r.turn = feed[e].turn + 1 /\ r.last = feed[e].last /\ r.index = feed[e].index
      BY <1>0
    <3>2. feed' = [feed EXCEPT ![e] = r]
      BY <1>4, <2>2 DEF CountRow
    <3> HIDE DEF r
    <3> QED BY <1>1, <3>1, <3>2
  <2> QED BY <2>1, <2>2
<1>5. ReadSize(e) \/ EnterLoop(e) \/ CountRow(e) => \A f \in Events : f # e => call'[f] = call[f]
  BY <1>0 DEF ReadSize, EnterLoop, CountRow
<1> QED BY <1>2, <1>3, <1>4, <1>5

\* What the host threads do to theirs.
LEMMA RowTypesStep == Types /\ [Next]_vars => RowTypes'
<1> SUFFICES ASSUME Types, [Next]_vars PROVE RowTypes'
  OBVIOUS
<1> USE DEF Types, RowTypes
<1>1. CASE LoadPlan \/ BeginInput \/ SelectDone \/ CountEntry \/ LoopEnd \/ MapInput \/ PushBack
           \/ ConstructorThrows \/ ConstructorDone \/ UNCHANGED vars
  BY <1>1 DEF LoadPlan, BeginInput, SelectDone, CountEntry, LoopEnd, MapInput, PushBack,
     ConstructorThrows, ConstructorDone, vars, tableVars, rowVars, history
<1>2. CASE Select \/ SelectFails
  BY <1>2 DEF Select, SelectFails, rowVars, history, Active
<1>3. CASE CheckColumns
  BY <1>3 DEF CheckColumns, tableVars, rowVars, Active
<1>4. ASSUME NEW e \in Events, FillRow(e) PROVE RowTypes'
  BY <1>4 DEF FillRow, rowVars
<1>5. ASSUME NEW e \in Events, InsertEvent(e) \/ RejectEvent(e) \/ SkipRow(e) PROVE RowTypes'
  BY <1>5 DEF InsertEvent, RejectEvent, SkipRow, tableVars, history
<1>6. ASSUME NEW e \in Events, ReadSize(e) PROVE RowTypes'
  <2>1. feed' \in [Events -> [index : Nat, turn : Nat, last : Nat]]
    BY <1>6, OwnFeed
  <2> QED BY <1>6, <2>1 DEF ReadSize, tableVars, Active
<1>7. ASSUME NEW e \in Events, PushRow(e) \/ GroupRow(e) PROVE RowTypes'
  BY <1>7 DEF PushRow, GroupRow, tableVars, history
<1>8. ASSUME NEW e \in Events, EnterLoop(e) \/ CountRow(e) PROVE RowTypes'
  <2>1. feed' \in [Events -> [index : Nat, turn : Nat, last : Nat]]
    BY <1>8, OwnFeed
  <2> QED BY <1>8, <2>1 DEF EnterLoop, CountRow, tableVars, history
<1> QED BY <1>1, <1>2, <1>3, <1>4, <1>5, <1>6, <1>7, <1>8 DEF Next, Constructor, AddRow

\* A turn of the loop of add_row, on the entry at newIndex and on the last one.
LEMMA RowRewrites ==
    ASSUME BaseInv, NEW e \in Events
    PROVE  /\ GroupRow(e) =>
                 LET k == feed[e].index IN
                 /\ k \in 1 .. Len(allEvents)
                 /\ Rewritten(k, Append(allEvents[k].groups, feed[e].turn), allEvents[k].counted)
           /\ CountRow(e) =>
                 LET k == Len(allEvents) IN
                 /\ k \in 1 .. Len(allEvents)
                 /\ Rewritten(k, allEvents[k].groups, Append(allEvents[k].counted, feed[e].turn))
<1>0. allEvents \in Seq(Entries) /\ Len(allEvents) \in Nat /\ feed[e].turn \in Nat
  BY DEF BaseInv, Types, RowTypes
<1>1. ASSUME GroupRow(e)
      PROVE  LET k == feed[e].index IN
             /\ k \in 1 .. Len(allEvents)
             /\ Rewritten(k, Append(allEvents[k].groups, feed[e].turn), allEvents[k].counted)
  <2>1. feed[e].index \in 1 .. Len(allEvents)
    BY <1>1 DEF BaseInv, RowInv, GroupRow
  <2>2. allEvents' = [allEvents EXCEPT ![feed[e].index].groups = Append(@, feed[e].turn)]
    BY <1>1 DEF GroupRow
  <2> QED BY <1>0, <2>1, <2>2, GroupedEntry
<1>2. ASSUME CountRow(e)
      PROVE  LET k == Len(allEvents) IN
             /\ k \in 1 .. Len(allEvents)
             /\ Rewritten(k, allEvents[k].groups, Append(allEvents[k].counted, feed[e].turn))
  <2>1. feed[e].index \in 1 .. Len(allEvents)
    BY <1>2 DEF BaseInv, RowInv, CountRow
  <2>2. Len(allEvents) \in 1 .. Len(allEvents)
    BY <1>0, <2>1
  <2>3. allEvents' = [allEvents EXCEPT ![Len(allEvents)].counted = Append(@, feed[e].turn)]
    BY <1>2 DEF CountRow
  <2> QED BY <1>0, <2>2, <2>3, CountedEntry
<1> QED BY <1>1, <1>2

\* _allEvents keeps its type and loses nothing.
LEMMA VectorStep ==
    ASSUME BaseInv, [Next]_vars
    PROVE  allEvents' \in Seq(Entries) /\ Len(allEvents') >= Len(allEvents)
<1>0. allEvents \in Seq(Entries) /\ Len(allEvents) \in Nat
  BY DEF BaseInv, Types
<1>1. CASE allEvents' = allEvents
  BY <1>0, <1>1
<1>2. ASSUME NEW e \in Events, NEW b \in BOOLEAN, allEvents' = Append(allEvents, Entry(e, b))
      PROVE  allEvents' \in Seq(Entries) /\ Len(allEvents') >= Len(allEvents)
  BY <1>0, <1>2, PushedEntry
<1>3. CASE CountEntry
  BY <1>0, <1>3, CreatedEntry DEF BaseInv, Rewritten
<1>4. ASSUME NEW k, NEW groups, NEW counted, Rewritten(k, groups, counted)
      PROVE  allEvents' \in Seq(Entries) /\ Len(allEvents') >= Len(allEvents)
  BY <1>0, <1>4 DEF Rewritten
<1>5. ASSUME NEW e \in Events, GroupRow(e) \/ CountRow(e)
      PROVE  allEvents' \in Seq(Entries) /\ Len(allEvents') >= Len(allEvents)
  BY <1>4, <1>5, RowRewrites
<1>6. ASSUME NEW e \in Events, FillRow(e) \/ PushRow(e)
      PROVE  \E b \in BOOLEAN : allEvents' = Append(allEvents, Entry(e, b))
  BY <1>6 DEF FillRow, PushRow
<1>7. ASSUME ~CountEntry, ~\E e \in Events : FillRow(e) \/ PushRow(e) \/ GroupRow(e) \/ CountRow(e)
      PROVE  allEvents' = allEvents
  BY <1>7 DEF Next, Constructor, AddRow, LoadPlan, BeginInput, Select, SelectDone, SelectFails,
     CheckColumns, LoopEnd, MapInput, PushBack, ConstructorThrows, ConstructorDone, InsertEvent,
     RejectEvent, SkipRow, ReadSize, EnterLoop, vars
<1> QED BY <1>1, <1>2, <1>3, <1>4, <1>5, <1>6, <1>7

\* The places in the vector that add_rows read stay inside it.
LEMMA RowInvStep == BaseInv /\ [Next]_vars => RowInv'
<1> SUFFICES ASSUME BaseInv, [Next]_vars, NEW e \in Events
             PROVE  /\ call'[e] = "sized" => feed'[e].index \in 1 .. Len(allEvents') + 1
                    /\ call'[e] \in {"pushed", "group", "count"} => feed'[e].index \in 1 .. Len(allEvents')
                    /\ call'[e] \in {"group", "count"} =>
                          feed'[e].turn \in 1 .. feed'[e].last /\ feed'[e].last <= Len(preprocessors')
  BY DEF RowInv
<1> DEFINE Goal == /\ call'[e] = "sized" => feed'[e].index \in 1 .. Len(allEvents') + 1
                   /\ call'[e] \in {"pushed", "group", "count"} => feed'[e].index \in 1 .. Len(allEvents')
                   /\ call'[e] \in {"group", "count"} =>
                         feed'[e].turn \in 1 .. feed'[e].last /\ feed'[e].last <= Len(preprocessors')
<1>0. /\ Len(allEvents) \in Nat /\ Len(allEvents') \in Nat /\ Len(allEvents') >= Len(allEvents)
      /\ Len(preprocessors) \in Nat /\ feed \in [Events -> [index : Nat, turn : Nat, last : Nat]]
      /\ feed[e] \in [index : Nat, turn : Nat, last : Nat]
      /\ call \in [Events -> {"new", "inserted", "sized", "pushed", "group", "count", "done", "rejected"}]
  BY VectorStep DEF BaseInv, Types, LoadTypes, RowTypes
<1>1. /\ call[e] = "sized" => feed[e].index \in 1 .. Len(allEvents) + 1
      /\ call[e] \in {"pushed", "group", "count"} => feed[e].index \in 1 .. Len(allEvents)
      /\ call[e] \in {"group", "count"} =>
            feed[e].turn \in 1 .. feed[e].last /\ feed[e].last <= Len(preprocessors)
  BY DEF BaseInv, RowInv
<1>2. Len(preprocessors') \in Nat /\ Len(preprocessors') >= Len(preprocessors)
  <2>1. CASE PushBack
    BY <2>1 DEF PushBack, BaseInv, Types, LoadTypes
  <2>2. CASE ~PushBack
    <3>1. preprocessors' = preprocessors
      BY <2>2 DEF Next, Constructor, AddRow, LoadPlan, BeginInput, Select, FillRow, SelectDone,
         SelectFails, CheckColumns, CountEntry, LoopEnd, MapInput, ConstructorThrows, ConstructorDone,
         InsertEvent, RejectEvent, SkipRow, ReadSize, PushRow, EnterLoop, GroupRow, CountRow, vars,
         loadVars
    <3> QED BY <1>0, <3>1
  <2> QED BY <2>1, <2>2
<1>3. ASSUME feed'[e] = feed[e],
             call'[e] = call[e] \/ call'[e] \notin {"sized", "pushed", "group", "count"}
      PROVE  Goal
  <2>1. CASE call'[e] = call[e]
    BY <1>0, <1>1, <1>2, <1>3, <2>1
  <2>2. CASE call'[e] \notin {"sized", "pushed", "group", "count"}
    BY <2>2
  <2> QED BY <1>3, <2>1, <2>2
<1>4. CASE UNCHANGED rowVars
  BY <1>3, <1>4 DEF rowVars
<1>5. ASSUME NEW f \in Events, f # e, InsertEvent(f) \/ RejectEvent(f) \/ AddRow(f) PROVE Goal
  <2>1. feed'[e] = feed[e] /\ call'[e] = call[e]
    BY <1>0, <1>5, OwnFeed DEF InsertEvent, RejectEvent, AddRow, SkipRow, PushRow, GroupRow, BaseInv
  <2> QED BY <1>3, <2>1
<1>6. CASE InsertEvent(e) \/ RejectEvent(e) \/ SkipRow(e)
  BY <1>0, <1>3, <1>6 DEF InsertEvent, RejectEvent, SkipRow
<1>7. CASE ReadSize(e)
  <2>1. feed'[e].index = Len(allEvents) + 1 /\ call'[e] = "sized" /\ allEvents' = allEvents
    BY <1>0, <1>7, OwnFeed DEF ReadSize, BaseInv
  <2> QED BY <1>0, <2>1
<1>8. CASE PushRow(e)
  <2>1. /\ feed' = feed /\ call[e] = "sized" /\ call'[e] = "pushed"
        /\ Len(allEvents') = Len(allEvents) + 1
    BY <1>0, <1>8, PushedEntry DEF PushRow, BaseInv, Types
  <2> QED BY <1>0, <1>1, <2>1
<1>9. CASE EnterLoop(e)
  <2>1. CASE preprocessors = <<>>
    <3>1. call'[e] = "done"
      BY <1>0, <1>9, <2>1 DEF EnterLoop
    <3> QED BY <3>1
  <2>2. CASE preprocessors # <<>>
    <3>1. /\ feed'[e].turn = 1 /\ feed'[e].last = Len(preprocessors) /\ feed'[e].index = feed[e].index
          /\ call[e] = "pushed" /\ call'[e] = "group" /\ allEvents' = allEvents
      BY <1>0, <1>9, <2>2, OwnFeed DEF EnterLoop, BaseInv
    <3>2. Len(preprocessors) >= 1
      BY <2>2 DEF BaseInv, Types, LoadTypes
    <3> QED BY <1>0, <1>1, <1>2, <3>1, <3>2
  <2> QED BY <2>1, <2>2
<1>10. CASE GroupRow(e)
  <2>1. feed'[e] = feed[e] /\ call[e] = "group" /\ call'[e] = "count"
    BY <1>0, <1>10 DEF GroupRow
  <2> QED BY <1>0, <1>1, <1>2, <2>1
<1>11. CASE CountRow(e)
  <2>1. CASE feed[e].turn = feed[e].last
    <3>1. call'[e] = "done"
      BY <1>0, <1>11, <2>1 DEF CountRow
    <3> QED BY <3>1
  <2>2. CASE feed[e].turn # feed[e].last
    <3>1. /\ feed'[e].turn = feed[e].turn + 1 /\ feed'[e].last = feed[e].last
          /\ feed'[e].index = feed[e].index /\ call[e] = "count" /\ call'[e] = "group"
      BY <1>0, <1>11, <2>2, OwnFeed DEF CountRow, BaseInv
    <3> QED BY <1>0, <1>1, <1>2, <2>2, <3>1
  <2> QED BY <2>1, <2>2
<1>12. CASE LoadPlan \/ Constructor \/ UNCHANGED vars
  BY <1>4, <1>12 DEF Constructor, LoadPlan, BeginInput, Select, FillRow, SelectDone, SelectFails,
     CheckColumns, CountEntry, LoopEnd, MapInput, PushBack, ConstructorThrows, ConstructorDone, vars
<1> QED
  <2>1. Goal
    BY <1>5, <1>6, <1>7, <1>8, <1>9, <1>10, <1>11, <1>12 DEF Next, AddRow
  <2> QED BY <2>1

\* How far the table is.
LEMMA PhaseInvStep == BaseInv /\ [Next]_vars => PhaseInv'
<1> SUFFICES ASSUME BaseInv, [Next]_vars PROVE PhaseInv'
  OBVIOUS
<1>0. /\ Types /\ PhaseInv
      /\ call \in [Events -> {"new", "inserted", "sized", "pushed", "group", "count", "done", "rejected"}]
  BY DEF BaseInv, Types, RowTypes
<1> USE <1>0 DEF PhaseInv
<1>1. CASE LoadPlan
  BY <1>1 DEF LoadPlan, tableVars, rowVars
<1>2. CASE BeginInput
  BY <1>2 DEF BeginInput, rowVars
<1>3. CASE Select \/ SelectDone
  BY <1>3 DEF Select, SelectDone, tableVars, rowVars
<1>4. CASE SelectFails
  BY <1>4 DEF SelectFails, rowVars
<1>5. ASSUME NEW e \in Events, FillRow(e) PROVE PhaseInv'
  BY <1>5 DEF FillRow, loadVars, rowVars
<1>6. CASE CheckColumns \/ LoopEnd \/ MapInput \/ PushBack \/ ConstructorThrows \/ ConstructorDone
  BY <1>6 DEF CheckColumns, LoopEnd, MapInput, PushBack, ConstructorThrows, ConstructorDone,
     tableVars, rowVars
<1>7. CASE CountEntry
  BY <1>7 DEF CountEntry, loadVars, tableVars, rowVars
<1>8. ASSUME NEW e \in Events, InsertEvent(e) PROVE PhaseInv'
  BY <1>8 DEF InsertEvent, loadVars
<1>9. ASSUME NEW e \in Events, RejectEvent(e) \/ SkipRow(e) PROVE PhaseInv'
  BY <1>9 DEF RejectEvent, SkipRow, loadVars, tableVars
<1>10. ASSUME NEW e \in Events, AddRow(e), ~SkipRow(e) PROVE PhaseInv'
  <2>1. ready /\ call[e] \notin {"new", "rejected"} /\ call'[e] \notin {"new", "rejected"}
    BY <1>10 DEF AddRow, ReadSize, PushRow, EnterLoop, GroupRow, CountRow
  <2>2. UNCHANGED <<loadVars, tableVars>> /\ \A f \in Events : f # e => call'[f] = call[f]
    BY <1>10 DEF AddRow, ReadSize, PushRow, EnterLoop, GroupRow, CountRow
  <2> QED BY <2>1, <2>2 DEF loadVars, tableVars
<1>11. CASE UNCHANGED vars
  BY <1>11 DEF vars, loadVars, tableVars, rowVars
<1> QED BY <1>1, <1>2, <1>3, <1>4, <1>5, <1>6, <1>7, <1>8, <1>9, <1>10, <1>11 DEF Next, Constructor, AddRow

\* BaseInv is inductive.
LEMMA BaseStep == BaseInv /\ [Next]_vars => BaseInv'
BY LoadTypesStep, RowTypesStep, VectorStep, RowInvStep, PhaseInvStep DEF BaseInv, Types

-----------------------------------------------------------------------------
(* The ways of an event into memory.                                        *)

BeforeSelect == ~ready \/ at = "select"

Unpushed(e) == call[e] \in {"new", "inserted", "sized", "rejected"}

\* An event that add_row skipped is in memory, or the SELECT will bring it or failed to.
DeliveryInv ==
    \A e \in Events :
        ~Unpushed(e) => PlacesOf(e) # {} \/ BeforeSelect \/ e \in selected \cup missed

\* The SELECT brings one copy at most, add_row another.
CopiesInv ==
    \A e \in Events :
        Cardinality(PlacesOf(e)) + (IF BeforeSelect \/ e \in selected THEN 1 ELSE 0)
            <= (IF Unpushed(e) THEN 1 ELSE 2)

WaysInv == BaseInv /\ DeliveryInv /\ CopiesInv

\* What a step does to the ways of one event: it pushes the event, or leaves it.
LEMMA WaysStep == WaysInv /\ [Next]_vars => WaysInv'
<1> SUFFICES ASSUME WaysInv, [Next]_vars, NEW e \in Events
             PROVE  /\ ~Unpushed(e)' => PlacesOf(e)' # {} \/ BeforeSelect' \/ e \in selected' \cup missed'
                    /\ Cardinality(PlacesOf(e)') + (IF BeforeSelect' \/ e \in selected' THEN 1 ELSE 0)
                          <= (IF Unpushed(e)' THEN 1 ELSE 2)
  BY BaseStep DEF WaysInv, DeliveryInv, CopiesInv
<1> DEFINE Goal == /\ ~Unpushed(e)' => PlacesOf(e)' # {} \/ BeforeSelect' \/ e \in selected' \cup missed'
                   /\ Cardinality(PlacesOf(e)') + (IF BeforeSelect' \/ e \in selected' THEN 1 ELSE 0)
                         <= (IF Unpushed(e)' THEN 1 ELSE 2)
<1>0. /\ allEvents \in Seq(Entries) /\ IsFiniteSet(PlacesOf(e)) /\ Cardinality(PlacesOf(e)) \in Nat
      /\ call \in [Events -> {"new", "inserted", "sized", "pushed", "group", "count", "done", "rejected"}]
      /\ Types /\ PhaseInv /\ BaseInv
  BY PlacesStep DEF WaysInv, BaseInv, Types, RowTypes
<1>1. /\ ~Unpushed(e) => PlacesOf(e) # {} \/ BeforeSelect \/ e \in selected \cup missed
      /\ Cardinality(PlacesOf(e)) + (IF BeforeSelect \/ e \in selected THEN 1 ELSE 0)
            <= (IF Unpushed(e) THEN 1 ELSE 2)
  BY DEF WaysInv, DeliveryInv, CopiesInv
<1>2. ASSUME PlacesOf(e)' = PlacesOf(e), Unpushed(e)' = Unpushed(e), BeforeSelect' = BeforeSelect,
             UNCHANGED <<selected, missed>>
      PROVE  Goal
  BY <1>1, <1>2
<1>3. allEvents' = allEvents => PlacesOf(e)' = PlacesOf(e)
  BY <1>0, PlacesStep
<1>4. CASE LoadPlan \/ SelectDone \/ CheckColumns \/ LoopEnd \/ MapInput \/ PushBack \/ ConstructorThrows
           \/ ConstructorDone \/ UNCHANGED vars
  <2>1. /\ allEvents' = allEvents /\ UNCHANGED <<ready, selected, missed, call>>
        /\ at' = at \/ (at # "select" /\ at' # "select")
    BY <1>4 DEF LoadPlan, SelectDone, CheckColumns, LoopEnd, MapInput, PushBack, ConstructorThrows,
       ConstructorDone, vars, loadVars, tableVars, rowVars
  <2> QED BY <1>2, <1>3, <2>1 DEF BeforeSelect, Unpushed
<1>5. CASE BeginInput
  <2>1. allEvents' = allEvents /\ UNCHANGED <<selected, missed, call>> /\ (BeforeSelect' <=> BeforeSelect)
    BY <1>5 DEF BeginInput, rowVars, BeforeSelect
  <2> QED BY <1>2, <1>3, <2>1 DEF Unpushed
<1>6. CASE Select
  <2>1. /\ PlacesOf(e)' = PlacesOf(e) /\ BeforeSelect /\ ~BeforeSelect' /\ selected' = rows
        /\ Unpushed(e)' = Unpushed(e) /\ selected = {} /\ call' = call
    BY <1>0, <1>3, <1>6 DEF Select, BeforeSelect, Unpushed, rowVars, PhaseInv
  <2>2. ~Unpushed(e) => e \in rows
    BY <1>0 DEF PhaseInv, Unpushed
  <2> QED BY <1>0, <1>1, <2>1, <2>2
<1>7. CASE SelectFails
  <2>1. /\ PlacesOf(e)' = PlacesOf(e) /\ ~BeforeSelect' /\ selected' = {} /\ missed = {}
        /\ Unpushed(e)' = Unpushed(e) /\ missed' = (IF at = "select" THEN rows ELSE selected) /\ ready
    BY <1>0, <1>3, <1>7 DEF SelectFails, BeforeSelect, Unpushed, rowVars, PhaseInv
  <2>2. ~Unpushed(e) => e \in rows
    BY <1>0 DEF PhaseInv, Unpushed
  <2>3. at # "select" => ~BeforeSelect
    BY <2>1 DEF BeforeSelect
  <2> QED BY <1>0, <1>1, <2>1, <2>2, <2>3
<1>8. ASSUME NEW f \in Events, FillRow(f) PROVE Goal
  <2>1. /\ allEvents' = Append(allEvents, Entry(f, TRUE)) /\ f \in selected /\ selected' = selected \ {f}
        /\ ~BeforeSelect /\ ~BeforeSelect' /\ missed' = missed /\ Unpushed(e)' = Unpushed(e)
    BY <1>0, <1>8 DEF FillRow, BeforeSelect, Unpushed, loadVars, rowVars, PhaseInv
  <2>2. CASE f = e
    <3>1. PlacesOf(e)' # {} /\ Cardinality(PlacesOf(e)') = Cardinality(PlacesOf(e)) + 1
      BY <1>0, <2>1, <2>2, PlacesStep
    <3> QED BY <1>0, <1>1, <2>1, <2>2, <3>1
  <2>3. CASE f # e
    <3>1. PlacesOf(e)' = PlacesOf(e)
      BY <1>0, <2>1, <2>3, PlacesStep
    <3> QED BY <1>0, <1>1, <2>1, <2>3, <3>1
  <2> QED BY <2>2, <2>3
<1>9. CASE CountEntry
  <2>1. PlacesOf(e)' = PlacesOf(e)
    BY <1>0, <1>9, CreatedEntry, PlacesStep
  <2> QED BY <1>2, <1>9, <2>1 DEF CountEntry, loadVars, tableVars, rowVars, BeforeSelect, Unpushed
<1>10. ASSUME NEW f \in Events, InsertEvent(f) \/ RejectEvent(f) \/ SkipRow(f) \/ ReadSize(f) PROVE Goal
  <2>1. /\ PlacesOf(e)' = PlacesOf(e) /\ BeforeSelect' = BeforeSelect /\ selected' = selected
        /\ missed' = missed
    BY <1>3, <1>10 DEF InsertEvent, RejectEvent, SkipRow, ReadSize, loadVars, tableVars, BeforeSelect
  <2>2. CASE SkipRow(f)
    <3>1. BeforeSelect
      BY <2>2 DEF SkipRow, BeforeSelect
    <3>2. Unpushed(e)' => Unpushed(e)
      BY <1>0, <2>2 DEF SkipRow, Unpushed
    <3> QED BY <1>0, <1>1, <2>1, <3>1, <3>2
  <2>3. CASE ~SkipRow(f)
    <3>1. Unpushed(e)' = Unpushed(e)
      BY <1>0, <1>10, <2>3 DEF InsertEvent, RejectEvent, ReadSize, Unpushed
    <3> QED BY <1>2, <2>1, <3>1
  <2> QED BY <2>2, <2>3
<1>11. ASSUME NEW f \in Events, PushRow(f) PROVE Goal
  <2>1. /\ allEvents' = Append(allEvents, Entry(f, FALSE)) /\ selected' = selected /\ missed' = missed
        /\ BeforeSelect' = BeforeSelect /\ Unpushed(f) /\ ~Unpushed(f)'
    BY <1>0, <1>11 DEF PushRow, BeforeSelect, Unpushed, loadVars, tableVars
  <2>2. CASE f = e
    <3>1. PlacesOf(e)' # {} /\ Cardinality(PlacesOf(e)') = Cardinality(PlacesOf(e)) + 1
      BY <1>0, <2>1, <2>2, PlacesStep
    <3> QED BY <1>0, <1>1, <2>1, <2>2, <3>1
  <2>3. CASE f # e
    <3>1. PlacesOf(e)' = PlacesOf(e)
      BY <1>0, <2>1, <2>3, PlacesStep
    <3>2. Unpushed(e)' = Unpushed(e)
      BY <1>0, <1>11, <2>3 DEF PushRow, Unpushed
    <3> QED BY <1>2, <2>1, <3>1, <3>2
  <2> QED BY <2>2, <2>3
<1>12. ASSUME NEW f \in Events, EnterLoop(f) \/ GroupRow(f) \/ CountRow(f) PROVE Goal
  <2>1. /\ UNCHANGED <<at, ready, selected, missed>> /\ BeforeSelect' = BeforeSelect
        /\ Unpushed(e)' = Unpushed(e)
    BY <1>0, <1>12 DEF EnterLoop, GroupRow, CountRow, loadVars, tableVars, Unpushed, BeforeSelect
  <2>2. PlacesOf(e)' = PlacesOf(e)
    <3>1. EnterLoop(f) => allEvents' = allEvents
      BY DEF EnterLoop
    <3>2. GroupRow(f) \/ CountRow(f) => \E k, groups, counted : Rewritten(k, groups, counted)
      BY <1>0, RowRewrites
    <3> QED BY <1>0, <1>3, <1>12, <3>1, <3>2, PlacesStep
  <2> QED BY <1>2, <2>1, <2>2
<1> QED
  <2>1. Goal
    BY <1>4, <1>5, <1>6, <1>7, <1>8, <1>9, <1>10, <1>11, <1>12 DEF Next, Constructor, AddRow
  <2> QED BY <2>1

\* Before any call an event can come by either way.
LEMMA WaysInit == Init => WaysInv
<1> SUFFICES ASSUME Init PROVE DeliveryInv /\ CopiesInv
  BY BaseInit DEF WaysInv
<1>1. ASSUME NEW e \in Events PROVE PlacesOf(e) = {} /\ Unpushed(e) /\ BeforeSelect
  BY DEF Init, PlacesOf, Unpushed, BeforeSelect
<1>2. Cardinality({}) = 0
  BY FS_EmptySet
<1> QED BY <1>1, <1>2 DEF DeliveryInv, CopiesInv

\* WaysInv is an invariant.
LEMMA WaysHold == Spec => []WaysInv
BY WaysInit, WaysStep, PTL DEF Spec

\* However the two ways into memory interleave, and whatever constructors fail, an
\* event whose add_event has returned is in _allEvents once the table has been read,
\* unless the reading failed before it.
THEOREM LoadsLoseNothing == Spec => []NoEventLost
<1>1. WaysInv => NoEventLost
  BY DEF WaysInv, BaseInv, PhaseInv, DeliveryInv, BeforeSelect, Unpushed, NoEventLost, Returned
<1> QED BY <1>1, WaysHold, PTL

\* It is there at most twice.
THEOREM LoadsCopyAtMostTwice == Spec => []CopiesBounded
<1>1. WaysInv => CopiesBounded
  <2> SUFFICES ASSUME WaysInv, NEW e \in Events
               PROVE  Cardinality(PlacesOf(e)) <= (IF Unpushed(e) THEN 1 ELSE 2)
    BY DEF CopiesBounded, Unpushed
  <2>1. Cardinality(PlacesOf(e)) \in Nat
    BY PlacesStep DEF WaysInv, BaseInv, Types
  <2>2. CASE BeforeSelect \/ e \in selected
    BY <2>1, <2>2 DEF WaysInv, CopiesInv
  <2>3. CASE ~(BeforeSelect \/ e \in selected)
    BY <2>1, <2>3 DEF WaysInv, CopiesInv
  <2> QED BY <2>2, <2>3
<1> QED BY <1>1, WaysHold, PTL

-----------------------------------------------------------------------------
(* The refinement.                                                          *)

ingest == <<IngestCall, IngestTable, selected, IngestCopies, missed>>

\* What EventIngest sees of the places of events.
LEMMA CopiesStep ==
    ASSUME BaseInv
    PROVE  /\ allEvents' = allEvents => IngestCopies' = IngestCopies
           /\ \A k, groups, counted : Rewritten(k, groups, counted) => IngestCopies' = IngestCopies
           /\ \A f \in Events, b \in BOOLEAN : allEvents' = Append(allEvents, Entry(f, b)) =>
                 IngestCopies' = [IngestCopies EXCEPT ![f] = @ + 1]
<1>0. allEvents \in Seq(Entries)
  BY DEF BaseInv, Types
<1>1. ASSUME allEvents' = allEvents PROVE IngestCopies' = IngestCopies
  BY <1>0, <1>1, PlacesStep DEF IngestCopies
<1>2. ASSUME NEW k, NEW groups, NEW counted, Rewritten(k, groups, counted)
      PROVE  IngestCopies' = IngestCopies
  BY <1>0, <1>2, PlacesStep DEF IngestCopies
<1>3. ASSUME NEW f \in Events, NEW b \in BOOLEAN, allEvents' = Append(allEvents, Entry(f, b))
      PROVE  IngestCopies' = [IngestCopies EXCEPT ![f] = @ + 1]
  <2>1. ASSUME NEW e \in Events
        PROVE  Cardinality(PlacesOf(e)') = IF e = f THEN Cardinality(PlacesOf(e)) + 1
                                           ELSE Cardinality(PlacesOf(e))
    BY <1>0, <1>3, PlacesStep
  <2> QED BY <2>1 DEF IngestCopies
<1> QED BY <1>1, <1>2, <1>3

\* A step of the constructor or of an add_row is a step of EventIngest or none.
LEMMA StepIngests == BaseInv /\ [Next]_vars => [Ingest!IngestNext]_ingest
<1> SUFFICES ASSUME BaseInv, [Next]_vars PROVE [Ingest!IngestNext]_ingest
  OBVIOUS
<1>0. /\ Types /\ PhaseInv /\ ready \in BOOLEAN
      /\ call \in [Events -> {"new", "inserted", "sized", "pushed", "group", "count", "done", "rejected"}]
  BY DEF BaseInv, Types, LoadTypes, RowTypes
<1>1. ASSUME IngestCall' = IngestCall, IngestTable' = IngestTable, IngestCopies' = IngestCopies,
             UNCHANGED <<selected, missed>>
      PROVE  [Ingest!IngestNext]_ingest
  BY <1>1 DEF ingest
<1>2. CASE LoadPlan \/ CheckColumns \/ LoopEnd \/ MapInput \/ PushBack \/ ConstructorThrows
           \/ ConstructorDone \/ UNCHANGED vars
  <2>1. /\ allEvents' = allEvents /\ UNCHANGED <<ready, selected, missed, call>>
        /\ at' = at \/ {at, at'} \cap {"select", "filling"} = {}
    BY <1>2 DEF LoadPlan, CheckColumns, LoopEnd, MapInput, PushBack, ConstructorThrows,
       ConstructorDone, vars, loadVars, tableVars, rowVars
  <2>2. IngestTable' = IngestTable /\ IngestCall' = IngestCall
    BY <2>1 DEF IngestTable, IngestCall
  <2> QED BY <1>1, <2>1, <2>2, CopiesStep
<1>3. CASE BeginInput
  <2>1. /\ allEvents' = allEvents /\ UNCHANGED <<selected, missed>> /\ IngestCall' = IngestCall
        /\ at = "input"
    BY <1>3 DEF BeginInput, rowVars, IngestCall
  <2>2. CASE ready
    <3>1. IngestTable' = IngestTable
      BY <1>3, <2>2 DEF BeginInput, IngestTable
    <3> QED BY <1>1, <2>1, <3>1, CopiesStep
  <2>3. CASE ~ready
    <3>1. IngestTable = "unread" /\ IngestTable' = "opened"
      BY <1>3, <2>3 DEF BeginInput, IngestTable
    <3> QED BY <2>1, <3>1, CopiesStep DEF Ingest!IngestNext, Ingest!Open
  <2> QED BY <2>2, <2>3
<1>4. ASSUME TRUE PROVE rows = Ingest!InTable
  <2>1. ASSUME NEW e \in Events PROVE IngestCall[e] \in {"inserted", "done"} <=> call[e] \notin {"new", "rejected"}
    BY <1>0 DEF IngestCall
  <2> QED BY <1>0, <2>1 DEF PhaseInv, Ingest!InTable
<1>5. CASE Select
  <2>1. /\ allEvents' = allEvents /\ missed' = missed /\ selected' = rows /\ IngestCall' = IngestCall
        /\ IngestTable = "opened" /\ IngestTable' = "reading"
    <3>1. ready /\ at = "select" /\ at' = "filling" /\ ready' = ready
      BY <1>0, <1>5 DEF Select, PhaseInv
    <3> QED BY <1>5, <3>1 DEF Select, rowVars, IngestCall, IngestTable
  <2> QED BY <1>4, <2>1, CopiesStep DEF Ingest!IngestNext, Ingest!Read
<1>6. CASE SelectDone \/ SelectFails
  <2>1. /\ allEvents' = allEvents /\ selected' = {} /\ IngestCall' = IngestCall
        /\ IngestTable \in {"opened", "reading"} /\ IngestTable' = "read"
        /\ missed' = IF IngestTable = "opened" THEN rows ELSE selected
    <3>1. ready /\ ready' = ready /\ call' = call /\ allEvents' = allEvents
      BY <1>0, <1>6 DEF SelectDone, SelectFails, PhaseInv, tableVars, rowVars
    <3>2. CASE SelectDone
      <4>1. at = "filling" /\ at' = "columns" /\ missed = {} /\ selected = {} /\ UNCHANGED <<selected, missed>>
        BY <1>0, <3>2 DEF SelectDone, PhaseInv, tableVars
      <4> QED BY <3>1, <4>1 DEF IngestTable, IngestCall
    <3>3. CASE SelectFails
      BY <3>1, <3>3 DEF SelectFails, IngestTable, IngestCall
    <3> QED BY <1>6, <3>2, <3>3
  <2> QED BY <1>4, <2>1, CopiesStep DEF Ingest!IngestNext, Ingest!Close
<1>7. ASSUME NEW e \in Events, FillRow(e) PROVE [Ingest!IngestNext]_ingest
  <2>1. /\ e \in selected /\ selected' = selected \ {e} /\ missed' = missed
        /\ IngestCall' = IngestCall /\ IngestTable' = IngestTable
        /\ IngestCopies' = [IngestCopies EXCEPT ![e] = @ + 1]
    BY <1>7, CopiesStep DEF FillRow, loadVars, rowVars, IngestCall, IngestTable
  <2> QED BY <2>1 DEF Ingest!IngestNext, Ingest!Bring
<1>8. CASE CountEntry
  <2>1. IngestCopies' = IngestCopies
    BY <1>0, <1>8, CreatedEntry, CopiesStep
  <2>2. IngestCall' = IngestCall /\ IngestTable' = IngestTable /\ UNCHANGED <<selected, missed>>
    BY <1>8 DEF CountEntry, loadVars, tableVars, rowVars, IngestCall, IngestTable
  <2> QED BY <1>1, <2>1, <2>2
<1>9. ASSUME NEW e \in Events, InsertEvent(e) PROVE [Ingest!IngestNext]_ingest
  <2>1. /\ IngestTable' = IngestTable /\ UNCHANGED <<selected, missed>> /\ IngestCopies' = IngestCopies
        /\ IngestTable # "reading"
    BY <1>9, CopiesStep DEF InsertEvent, loadVars, IngestTable
  <2>2. IngestCall[e] = "new" /\ IngestCall' = [IngestCall EXCEPT ![e] = "inserted"]
    BY <1>0, <1>9 DEF InsertEvent, IngestCall
  <2> QED BY <2>1, <2>2 DEF Ingest!IngestNext, Ingest!Accept
<1>10. ASSUME NEW e \in Events, RejectEvent(e) PROVE [Ingest!IngestNext]_ingest
  <2>1. IngestTable' = IngestTable /\ UNCHANGED <<selected, missed>> /\ IngestCopies' = IngestCopies
    BY <1>10, CopiesStep DEF RejectEvent, loadVars, tableVars, IngestTable
  <2>2. IngestCall[e] = "new" /\ IngestCall' = [IngestCall EXCEPT ![e] = "rejected"]
    BY <1>0, <1>10 DEF RejectEvent, IngestCall
  <2> QED BY <2>1, <2>2 DEF Ingest!IngestNext, Ingest!Refuse
<1>11. ASSUME NEW e \in Events, SkipRow(e) PROVE [Ingest!IngestNext]_ingest
  <2>1. /\ IngestTable' = IngestTable /\ UNCHANGED <<selected, missed>> /\ IngestCopies' = IngestCopies
        /\ IngestTable = "unread"
    BY <1>11, CopiesStep DEF SkipRow, loadVars, tableVars, IngestTable
  <2>2. IngestCall[e] = "inserted" /\ IngestCall' = [IngestCall EXCEPT ![e] = "done"]
    BY <1>0, <1>11 DEF SkipRow, IngestCall
  <2> QED BY <2>1, <2>2 DEF Ingest!IngestNext, Ingest!Return
<1>12. ASSUME NEW e \in Events, PushRow(e) PROVE [Ingest!IngestNext]_ingest
  <2>1. ready
    BY <1>0, <1>12 DEF PushRow, PhaseInv
  <2>2. /\ IngestTable' = IngestTable /\ UNCHANGED <<selected, missed>> /\ IngestTable # "unread"
        /\ IngestCopies' = [IngestCopies EXCEPT ![e] = @ + 1]
    BY <1>12, <2>1, CopiesStep DEF PushRow, loadVars, tableVars, IngestTable
  <2>3. IngestCall[e] = "inserted" /\ IngestCall' = [IngestCall EXCEPT ![e] = "done"]
    BY <1>0, <1>12 DEF PushRow, IngestCall
  <2> QED BY <2>2, <2>3 DEF Ingest!IngestNext, Ingest!Return
<1>13. ASSUME NEW e \in Events, ReadSize(e) \/ EnterLoop(e) \/ GroupRow(e) \/ CountRow(e)
       PROVE  [Ingest!IngestNext]_ingest
  <2>1. IngestTable' = IngestTable /\ UNCHANGED <<selected, missed>>
    BY <1>13 DEF ReadSize, EnterLoop, GroupRow, CountRow, loadVars, tableVars, IngestTable
  <2>2. IngestCall' = IngestCall
    BY <1>0, <1>13 DEF ReadSize, EnterLoop, GroupRow, CountRow, IngestCall
  <2>3. ReadSize(e) \/ EnterLoop(e) => allEvents' = allEvents
    BY DEF ReadSize, EnterLoop
  <2>4. GroupRow(e) \/ CountRow(e) => \E k, groups, counted : Rewritten(k, groups, counted)
    BY RowRewrites
  <2> QED BY <1>1, <1>13, <2>1, <2>2, <2>3, <2>4, CopiesStep
<1> QED BY <1>2, <1>3, <1>5, <1>6, <1>7, <1>8, <1>9, <1>10, <1>11, <1>12, <1>13
        DEF Next, Constructor, AddRow

\* The constructors, the vector and the steps of the add_rows implement EventIngest.
THEOREM IngestRefinement == Spec => ImplementsIngest
<1>1. Init => Ingest!IngestInit
  <2> SUFFICES ASSUME Init PROVE Ingest!IngestInit
    OBVIOUS
  <2>1. IngestCall = [e \in Events |-> "new"] /\ IngestTable = "unread"
    BY DEF Init, IngestCall, IngestTable
  <2>2. ASSUME NEW e \in Events PROVE PlacesOf(e) = {}
    BY DEF Init, PlacesOf
  <2>3. IngestCopies = [e \in Events |-> 0]
    BY <2>2, FS_EmptySet DEF IngestCopies
  <2> QED BY <2>1, <2>3 DEF Init, Ingest!IngestInit
<1>2. [Ingest!IngestNext]_ingest => [Ingest!IngestNext]_(Ingest!ingestVars)
  BY DEF ingest, Ingest!ingestVars
<1>3. Spec => []BaseInv
  BY BaseInit, BaseStep, PTL DEF Spec
<1> QED BY <1>1, <1>2, <1>3, StepIngests, PTL DEF Spec, ImplementsIngest, Ingest!IngestSpec

-----------------------------------------------------------------------------
(* The model in service.                                                    *)

\* A constructor at work is that of a later load than the model in service.
PhaseOfLoad ==
    /\ serving <= loads
    /\ at # "idle" => serving < loads
    /\ at \notin {"idle", "input"} => input \in Inputs

\* An entry of idMap is a position, or the position that push_back fills next.
IdsInRange ==
    \A i \in Inputs :
        IF at = "push" /\ i = input THEN idMap[i] = Len(preprocessors) + 1
        ELSE idMap[i] <= Len(preprocessors)

\* What idMap leads to, by input.
Leads(i) ==
    idMap[i] \in 1 .. Len(preprocessors) =>
        /\ preprocessors[idMap[i]].input = i
        /\ preprocessors[idMap[i]].load >= serving

Renewed(i) ==
    idMap[i] \in 1 .. Len(preprocessors) /\ preprocessors[idMap[i]].load = loads

ServedIds ==
    /\ PhaseOfLoad /\ IdsInRange
    /\ \A i \in Inputs :
        /\ Leads(i)
        /\ serving # 0 => idMap[i] # 0
        /\ at # "idle" /\ i < input => Renewed(i)
        /\ serving # 0 /\ serving = loads => Renewed(i)

ServedInv == LoadTypes /\ ServedIds

\* No step, not even a constructor that throws, takes an input from the model in service.
LEMMA ServedStep == ServedInv /\ [Next]_vars => ServedInv'
<1> SUFFICES ASSUME ServedInv, [Next]_vars PROVE ServedIds'
  BY LoadTypesStep DEF ServedInv
<1> USE ModelInputsAssumption DEF ServedInv, ServedIds, LoadTypes, PhaseOfLoad, IdsInRange, Leads, Renewed, Registered, Inputs
<1>1. CASE LoadPlan
  BY <1>1 DEF LoadPlan
<1>2. CASE UNCHANGED loadVars
  BY <1>2 DEF loadVars
<1>3. CASE BeginInput
  BY <1>3 DEF BeginInput
<1>4. CASE Select \/ SelectDone \/ SelectFails
  <2>1. CASE Select
    BY <2>1 DEF Select
  <2>2. CASE SelectDone
    BY <2>2 DEF SelectDone
  <2>3. CASE SelectFails
    BY <2>3 DEF SelectFails
  <2> QED BY <1>4, <2>1, <2>2, <2>3
<1>5. CASE CheckColumns \/ LoopEnd \/ ConstructorThrows
  <2>1. CASE CheckColumns
    BY <2>1 DEF CheckColumns, tableVars
  <2>2. CASE LoopEnd
    BY <2>2 DEF LoopEnd, tableVars
  <2>3. CASE ConstructorThrows
    BY <2>3 DEF ConstructorThrows, tableVars
  <2> QED BY <1>5, <2>1, <2>2, <2>3
<1>6. CASE MapInput
  <2>1. /\ at = "map" /\ at' = "push" /\ idMap' = [idMap EXCEPT ![input] = Len(preprocessors) + 1]
        /\ UNCHANGED <<loads, input, serving, preprocessors>>
    BY <1>6 DEF MapInput, NewId
  <2>2. PhaseOfLoad' /\ IdsInRange'
    BY <2>1
  <2>3. ASSUME NEW i \in Inputs PROVE Leads(i)' /\ (Renewed(i) /\ i # input => Renewed(i)')
    BY <2>1
  <2>4. \A i \in Inputs : serving' # 0 => idMap'[i] # 0
    BY <2>1
  <2>5. serving' < loads' /\ serving < loads /\ input \in Nat /\ Inputs \subseteq Nat
    BY <2>1
  <2>6. ASSUME NEW i \in Inputs, i < input' PROVE Renewed(i)'
    <3>1. i # input /\ Renewed(i)
      BY <2>1, <2>5, <2>6
    <3> QED BY <2>3, <3>1
  <2> HIDE DEF Leads, Renewed
  <2> QED BY <2>1, <2>2, <2>3, <2>4, <2>5, <2>6
<1>7. CASE PushBack
  <2> DEFINE new == [load |-> loads, input |-> input]
  <2>1. /\ at = "push" /\ at' = "input" /\ input' = input + 1
        /\ preprocessors' = Append(preprocessors, new)
        /\ UNCHANGED <<loads, serving, idMap>>
    BY <1>7 DEF PushBack
  <2>2. /\ preprocessors' \in Seq([load : Nat, input : Nat])
        /\ Len(preprocessors') = Len(preprocessors) + 1
        /\ \A p \in 1 .. Len(preprocessors) : preprocessors'[p] = preprocessors[p]
        /\ preprocessors'[Len(preprocessors) + 1] = new
    BY <2>1
  <2>3. ASSUME NEW i \in Inputs PROVE Leads(i)' /\ (i = input => Renewed(i)')
    <3>1. CASE i = input
      BY <2>1, <2>2, <3>1
    <3>2. CASE i # input
      <4>1. idMap[i] \in Nat /\ idMap[i] <= Len(preprocessors)
        BY <2>1, <3>2
      <4> QED BY <2>1, <2>2, <3>2, <4>1
    <3> QED BY <3>1, <3>2
  <2>4. ASSUME NEW i \in Inputs, Renewed(i) PROVE Renewed(i)'
    BY <2>1, <2>2, <2>4
  <2>5. (PhaseOfLoad /\ IdsInRange)'
    BY <2>1, <2>2
  <2>6. ASSUME NEW i \in Inputs, i < input' PROVE Renewed(i)'
    <3>1. i < input \/ i = input
      BY <2>1, <2>6
    <3>2. i < input => Renewed(i)
      BY <2>1
    <3> QED BY <2>3, <2>4, <3>1, <3>2
  <2>7. serving' < loads'
    BY <2>1
  <2>8. \A i \in Inputs : serving' # 0 => idMap'[i] # 0
    BY <2>1
  <2> HIDE DEF Leads, Renewed
  <2> QED BY <2>1, <2>3, <2>5, <2>6, <2>7, <2>8
<1>8. CASE ConstructorDone
  BY <1>8 DEF ConstructorDone
<1>9. CASE UNCHANGED vars
  BY <1>9 DEF vars, loadVars
<1>10. ASSUME NEW e \in Events, InsertEvent(e) \/ RejectEvent(e) \/ AddRow(e) \/ FillRow(e)
       PROVE  UNCHANGED loadVars
  BY <1>10 DEF InsertEvent, RejectEvent, AddRow, SkipRow, ReadSize, PushRow, EnterLoop, GroupRow,
     CountRow, FillRow
<1>11. CASE CountEntry
  BY <1>2, <1>11 DEF CountEntry
<1> QED
  BY <1>1, <1>2, <1>3, <1>4, <1>5, <1>6, <1>7, <1>8, <1>9, <1>10, <1>11 DEF Next, Constructor

\* No model is in service yet.
LEMMA ServedInit == Init => ServedInv
<1> SUFFICES ASSUME Init PROVE ServedInv
  OBVIOUS
<1>1. LoadTypes
  BY BaseInit DEF BaseInv, Types
<1>2. ServedIds
  BY ModelInputsAssumption DEF Init, ServedIds, PhaseOfLoad, IdsInRange, Leads, Renewed, Inputs
<1> QED BY <1>1, <1>2 DEF ServedInv

\* Through the ids that constructors leave behind, whether they end or throw at any
\* input, the model in service finds for every input a preprocessor made for it.
THEOREM ServedSafety == Spec => []ServedInputs
<1>2. ServedInv => ServedInputs
  BY ModelInputsAssumption DEF ServedInv, ServedIds, LoadTypes, PhaseOfLoad, IdsInRange, Leads, Renewed, Registered,
     Inputs, ServedInputs
<1> QED BY <1>2, ServedInit, ServedStep, PTL DEF Spec


-----------------------------------------------------------------------------
(* Groups and counts of settled entries.                                    *)

\* The sequence 1, 2, ..., n of preprocessors.
UpTo(s, n) == Len(s) = n /\ \A i \in 1 .. n : s[i] = i

\* The next preprocessor appended.
LEMMA UpToNext ==
    ASSUME NEW s \in Seq(Nat), NEW n \in Nat, UpTo(s, n)
    PROVE  UpTo(Append(s, n + 1), n + 1)
<1> QED BY DEF UpTo

\* How many preprocessors have grouped and counted the entry of an add_row.
GroupsOf(e) == CASE call[e] = "group" -> feed[e].turn - 1 [] call[e] = "count" -> feed[e].turn [] OTHER -> 0
CountsOf(e) == IF call[e] \in {"group", "count"} THEN feed[e].turn - 1 ELSE 0

OwnEntry(e) ==
    LET n == Len(allEvents) IN
    /\ feed[e].index = n
    /\ n \in Nat \ {0} /\ allEvents[n].event = e /\ allEvents[n].filled = FALSE
    /\ UpTo(allEvents[n].groups, GroupsOf(e)) /\ UpTo(allEvents[n].counted, CountsOf(e))
    /\ call[e] \in {"group", "count"} => feed[e].last = Len(preprocessors)

\* An add_row that has met nobody is the only one, and its entry is the last.
SoloInv ==
    \A e \in Active : e \notin overlapped =>
        /\ Active = {e} /\ ~Creating /\ at # "filling"
        /\ IF call[e] = "sized" THEN feed[e].index = Len(allEvents) + 1 ELSE OwnEntry(e)

\* An add_row pushes one entry.
PushedInv ==
    \A k \in DOMAIN allEvents : allEvents[k].filled = FALSE =>
        /\ call[allEvents[k].event] \in {"pushed", "group", "count", "done"}
        /\ \A j \in DOMAIN allEvents :
              allEvents[j].filled = FALSE /\ allEvents[j].event = allEvents[k].event => j = k

\* A settled entry has a group and a count of every preprocessor, and of the one being made
\* once the loop is past it; no add_row under way works at its place or before it.
Reached(k) ==
    Len(preprocessors) + (IF (at = "loop" /\ k < turn) \/ at \in {"map", "push"} THEN 1 ELSE 0)

SettledEntry(k) ==
    /\ UpTo(allEvents[k].groups, Reached(k)) /\ UpTo(allEvents[k].counted, Reached(k))
    /\ \A f \in Active : k < feed[f].index

SettledInv == \A k \in DOMAIN allEvents : Settled(allEvents[k]) => SettledEntry(k)

GroupsInv == BaseInv /\ SoloInv /\ PushedInv /\ SettledInv

\* Before any call.
LEMMA GroupsInit == Init => GroupsInv
<1> SUFFICES ASSUME Init PROVE GroupsInv
  OBVIOUS
<1>1. Active = {} /\ DOMAIN allEvents = {}
  BY DEF Init, Active
<1> QED BY <1>1, BaseInit DEF GroupsInv, SoloInv, PushedInv, SettledInv

\* The steps that leave the entries and the add_rows alone.
Elsewhere ==
    \/ LoadPlan \/ BeginInput \/ Select \/ SelectDone \/ SelectFails \/ CheckColumns \/ LoopEnd
    \/ MapInput \/ PushBack \/ ConstructorThrows \/ ConstructorDone \/ UNCHANGED vars

\* What they do.
LEMMA ElsewhereStep ==
    ASSUME Types, Elsewhere
    PROVE  /\ UNCHANGED <<allEvents, call, feed, crowded>> /\ Active' = Active
           /\ overlapped \subseteq overlapped'
           /\ (Creating' \/ at' = "filling") /\ ~(Creating \/ at = "filling") => Active \subseteq overlapped'
           /\ preprocessors' = preprocessors \/ Creating
<1>1. UNCHANGED <<allEvents, call, feed, crowded>>
  BY DEF Elsewhere, LoadPlan, BeginInput, Select, SelectDone, SelectFails, CheckColumns, LoopEnd,
     MapInput, PushBack, ConstructorThrows, ConstructorDone, vars, rowVars, history
<1>2. Active' = Active
  BY <1>1 DEF Active
<1>3. overlapped \subseteq overlapped'
  BY DEF Elsewhere, LoadPlan, BeginInput, Select, SelectDone, SelectFails, CheckColumns, LoopEnd,
     MapInput, PushBack, ConstructorThrows, ConstructorDone, vars, history
<1>4. preprocessors' = preprocessors \/ Creating
  BY DEF Elsewhere, LoadPlan, BeginInput, Select, SelectDone, SelectFails, CheckColumns, LoopEnd,
     MapInput, PushBack, ConstructorThrows, ConstructorDone, vars, loadVars, Creating
<1>5. (Creating' \/ at' = "filling") /\ ~(Creating \/ at = "filling") => Active \subseteq overlapped'
  BY DEF Elsewhere, LoadPlan, BeginInput, Select, SelectDone, SelectFails, CheckColumns, LoopEnd,
     MapInput, PushBack, ConstructorThrows, ConstructorDone, vars, loadVars, Creating
<1> QED BY <1>1, <1>2, <1>3, <1>4, <1>5

\* The kinds of steps.
LEMMA StepKinds ==
    [Next]_vars =>
        \/ Elsewhere \/ CountEntry
        \/ \E e \in Events :
              \/ FillRow(e) \/ InsertEvent(e) \/ RejectEvent(e) \/ SkipRow(e) \/ ReadSize(e)
              \/ PushRow(e) \/ EnterLoop(e) \/ GroupRow(e) \/ CountRow(e)
BY DEF Next, Constructor, AddRow, Elsewhere

\* A step but a push keeps what the entries are of.
SameEvents ==
    /\ Len(allEvents') = Len(allEvents) /\ allEvents' \in Seq(Entries)
    /\ \A k \in 1 .. Len(allEvents) :
          allEvents'[k].event = allEvents[k].event /\ allEvents'[k].filled = allEvents[k].filled

\* So it does, and no call goes back.
LEMMA KeptEvents ==
    ASSUME BaseInv
    PROVE  /\ Elsewhere \/ CountEntry => SameEvents /\ UNCHANGED <<call, feed>>
           /\ \A e \in Events :
                 InsertEvent(e) \/ RejectEvent(e) \/ SkipRow(e) \/ ReadSize(e) \/ EnterLoop(e)
                 \/ GroupRow(e) \/ CountRow(e) => SameEvents
<1>0. Types /\ allEvents \in Seq(Entries)
  BY DEF BaseInv, Types
<1>1. allEvents' = allEvents => SameEvents
  BY <1>0 DEF SameEvents
<1>2. \A k, groups, counted : Rewritten(k, groups, counted) => SameEvents
  BY <1>0 DEF Rewritten, SameEvents
<1>3. Elsewhere => SameEvents /\ UNCHANGED <<call, feed>>
  BY <1>0, <1>1, ElsewhereStep
<1>4. CountEntry => SameEvents /\ UNCHANGED <<call, feed>>
  BY <1>0, <1>2, CreatedEntry DEF CountEntry, rowVars
<1>5. ASSUME NEW e \in Events, InsertEvent(e) \/ RejectEvent(e) \/ SkipRow(e) \/ ReadSize(e) \/ EnterLoop(e)
      PROVE  SameEvents
  BY <1>1, <1>5 DEF InsertEvent, RejectEvent, SkipRow, ReadSize, EnterLoop
<1>6. ASSUME NEW e \in Events, GroupRow(e) \/ CountRow(e) PROVE SameEvents
  BY <1>2, <1>6, RowRewrites
<1> QED BY <1>3, <1>4, <1>5, <1>6

\* An add_row pushes no second entry.
LEMMA PushedStep == BaseInv /\ PushedInv /\ [Next]_vars => PushedInv'
<1> SUFFICES ASSUME BaseInv, PushedInv, [Next]_vars PROVE PushedInv'
  OBVIOUS
<1>0. /\ allEvents \in Seq(Entries) /\ DOMAIN allEvents = 1 .. Len(allEvents) /\ Len(allEvents) \in Nat
      /\ call \in [Events -> {"new", "inserted", "sized", "pushed", "group", "count", "done", "rejected"}]
  BY DEF BaseInv, Types, RowTypes
<1> DEFINE Live == {"pushed", "group", "count", "done"}
<1>6. ASSUME NEW k \in 1 .. Len(allEvents), allEvents[k].filled = FALSE
      PROVE  /\ allEvents[k].event \in Events /\ call[allEvents[k].event] \in Live
             /\ \A j \in 1 .. Len(allEvents) :
                   allEvents[j].filled = FALSE /\ allEvents[j].event = allEvents[k].event => j = k
  <2>1. allEvents[k] \in Entries
    BY <1>0
  <2>2. allEvents[k].event \in Events
    BY <2>1 DEF Entries
  <2> QED BY <1>0, <1>6, <2>2 DEF PushedInv
<1>1. ASSUME SameEvents,
             \A f \in Events : call[f] \in {"pushed", "group", "count", "done"} =>
                                 call'[f] \in {"pushed", "group", "count", "done"}
      PROVE  PushedInv'
  <2>1. /\ DOMAIN allEvents' = 1 .. Len(allEvents)
        /\ \A k \in 1 .. Len(allEvents) :
              allEvents'[k].event = allEvents[k].event /\ allEvents'[k].filled = allEvents[k].filled
    BY <1>1 DEF SameEvents
  <2> SUFFICES ASSUME NEW k \in 1 .. Len(allEvents), allEvents'[k].filled = FALSE
               PROVE  /\ call'[allEvents'[k].event] \in Live
                      /\ \A j \in 1 .. Len(allEvents) :
                            allEvents'[j].filled = FALSE /\ allEvents'[j].event = allEvents'[k].event => j = k
    BY <2>1 DEF PushedInv
  <2> QED BY <1>1, <1>6, <2>1
<1>2. CASE Elsewhere \/ CountEntry
  BY <1>1, <1>2, KeptEvents
<1>3. ASSUME NEW e \in Events,
             InsertEvent(e) \/ RejectEvent(e) \/ SkipRow(e) \/ ReadSize(e) \/ EnterLoop(e)
             \/ GroupRow(e) \/ CountRow(e)
      PROVE  PushedInv'
  <2>1. \A f \in Events : call[f] \in {"pushed", "group", "count", "done"} =>
                            call'[f] \in {"pushed", "group", "count", "done"}
    BY <1>0, <1>3 DEF InsertEvent, RejectEvent, SkipRow, ReadSize, EnterLoop, GroupRow, CountRow
  <2> QED BY <1>1, <1>3, <2>1, KeptEvents
<1>4. ASSUME NEW e \in Events, FillRow(e) PROVE PushedInv'
  <2>1. allEvents' = Append(allEvents, Entry(e, TRUE)) /\ call' = call
    BY <1>4 DEF FillRow, rowVars
  <2>2. /\ Len(allEvents') = Len(allEvents) + 1 /\ DOMAIN allEvents' = 1 .. Len(allEvents')
        /\ \A k \in 1 .. Len(allEvents) : allEvents'[k] = allEvents[k]
        /\ allEvents'[Len(allEvents) + 1].filled = TRUE
    BY <1>0, <2>1, PushedEntry DEF Entry
  <2> SUFFICES ASSUME NEW k \in 1 .. Len(allEvents'), allEvents'[k].filled = FALSE
               PROVE  /\ call'[allEvents'[k].event] \in Live
                      /\ \A j \in 1 .. Len(allEvents') :
                            allEvents'[j].filled = FALSE /\ allEvents'[j].event = allEvents'[k].event => j = k
    BY <2>2 DEF PushedInv
  <2>3. ASSUME NEW j \in 1 .. Len(allEvents'), allEvents'[j].filled = FALSE
        PROVE  j \in 1 .. Len(allEvents) /\ allEvents'[j] = allEvents[j]
    BY <1>0, <2>2, <2>3
  <2>4. k \in 1 .. Len(allEvents) /\ allEvents'[k] = allEvents[k] /\ allEvents[k].filled = FALSE
    BY <2>3
  <2>5. call'[allEvents'[k].event] \in Live
    BY <1>6, <2>1, <2>4
  <2>6. ASSUME NEW j \in 1 .. Len(allEvents'), allEvents'[j].filled = FALSE,
               allEvents'[j].event = allEvents'[k].event
        PROVE  j = k
    <3>1. j \in 1 .. Len(allEvents) /\ allEvents'[j] = allEvents[j]
      BY <2>3, <2>6
    <3> QED BY <1>6, <2>4, <2>6, <3>1
  <2> QED BY <2>5, <2>6
<1>5. ASSUME NEW e \in Events, PushRow(e) PROVE PushedInv'
  <2>1. /\ allEvents' = Append(allEvents, Entry(e, FALSE)) /\ call[e] = "sized"
        /\ call' = [call EXCEPT ![e] = "pushed"]
    BY <1>5 DEF PushRow
  <2>2. /\ Len(allEvents') = Len(allEvents) + 1 /\ DOMAIN allEvents' = 1 .. Len(allEvents')
        /\ \A k \in 1 .. Len(allEvents) : allEvents'[k] = allEvents[k]
        /\ allEvents'[Len(allEvents) + 1].event = e
    BY <1>0, <2>1, PushedEntry DEF Entry
  <2>3. \A k \in 1 .. Len(allEvents) : allEvents[k].filled = FALSE => allEvents[k].event # e
    BY <1>6, <2>1
  <2> SUFFICES ASSUME NEW k \in 1 .. Len(allEvents'), allEvents'[k].filled = FALSE
               PROVE  /\ call'[allEvents'[k].event] \in Live
                      /\ \A j \in 1 .. Len(allEvents') :
                            allEvents'[j].filled = FALSE /\ allEvents'[j].event = allEvents'[k].event => j = k
    BY <2>2 DEF PushedInv
  <2>4. ASSUME NEW j \in 1 .. Len(allEvents'), j # Len(allEvents) + 1
        PROVE  j \in 1 .. Len(allEvents) /\ allEvents'[j] = allEvents[j]
    BY <1>0, <2>2, <2>4
  <2>5. call'[allEvents'[k].event] \in Live
    <3>1. CASE k = Len(allEvents) + 1
      <4>1. allEvents'[k].event = e
        BY <2>2, <3>1
      <4> QED BY <1>0, <2>1, <4>1
    <3>2. CASE k # Len(allEvents) + 1
      <4>1. /\ allEvents'[k].event = allEvents[k].event /\ allEvents[k].event # e
            /\ call[allEvents[k].event] \in Live /\ allEvents[k].event \in Events
        BY <1>6, <2>3, <2>4, <3>2
      <4> QED BY <1>0, <2>1, <4>1
    <3> QED BY <3>1, <3>2
  <2>6. ASSUME NEW j \in 1 .. Len(allEvents'), allEvents'[j].filled = FALSE,
               allEvents'[j].event = allEvents'[k].event
        PROVE  j = k
    <3>1. CASE k = Len(allEvents) + 1 \/ j = Len(allEvents) + 1
      BY <2>2, <2>3, <2>4, <2>6, <3>1
    <3>2. CASE k # Len(allEvents) + 1 /\ j # Len(allEvents) + 1
      BY <1>6, <2>4, <2>6, <3>2
    <3> QED BY <3>1, <3>2
  <2> QED BY <2>5, <2>6
<1> QED BY <1>2, <1>3, <1>4, <1>5, StepKinds

\* Who is active after an add_row's step, and what it leaves alone.
LEMMA ActiveStep ==
    ASSUME Types, NEW e \in Events
    PROVE  /\ InsertEvent(e) \/ RejectEvent(e) \/ SkipRow(e) => Active' = Active /\ e \notin Active
           /\ ReadSize(e) => Active' = Active \cup {e} /\ e \notin Active
           /\ PushRow(e) \/ GroupRow(e) => Active' = Active /\ e \in Active
           /\ EnterLoop(e) \/ CountRow(e) =>
                 e \in Active /\ Active' = IF call'[e] = "done" THEN Active \ {e} ELSE Active
           /\ InsertEvent(e) \/ RejectEvent(e) \/ AddRow(e) =>
                 /\ UNCHANGED <<at, turn, preprocessors, crowded>> /\ overlapped \subseteq overlapped'
                 /\ \A f \in Events : f # e => call'[f] = call[f] /\ feed'[f] = feed[f]
           /\ InsertEvent(e) \/ RejectEvent(e) \/ (AddRow(e) /\ ~ReadSize(e)) => overlapped' = overlapped
<1>0. call \in [Events -> {"new", "inserted", "sized", "pushed", "group", "count", "done", "rejected"}]
  BY DEF Types, RowTypes
<1>1. InsertEvent(e) \/ RejectEvent(e) \/ SkipRow(e) => Active' = Active /\ e \notin Active
  BY <1>0 DEF InsertEvent, RejectEvent, SkipRow, Active
<1>2. ReadSize(e) => Active' = Active \cup {e} /\ e \notin Active
  BY <1>0 DEF ReadSize, Active
<1>3. PushRow(e) \/ GroupRow(e) => Active' = Active /\ e \in Active
  BY <1>0 DEF PushRow, GroupRow, Active
<1>4. EnterLoop(e) \/ CountRow(e) =>
        e \in Active /\ Active' = IF call'[e] = "done" THEN Active \ {e} ELSE Active
  BY <1>0 DEF EnterLoop, CountRow, Active
<1>5. InsertEvent(e) \/ RejectEvent(e) \/ AddRow(e) =>
        UNCHANGED <<at, turn, preprocessors, crowded>> /\ overlapped \subseteq overlapped'
  BY DEF InsertEvent, RejectEvent, AddRow, SkipRow, ReadSize, PushRow, EnterLoop, GroupRow, CountRow,
     loadVars, history
<1>6. InsertEvent(e) \/ RejectEvent(e) \/ SkipRow(e) \/ PushRow(e) \/ GroupRow(e) =>
        \A f \in Events : f # e => call'[f] = call[f] /\ feed'[f] = feed[f]
  BY <1>0 DEF InsertEvent, RejectEvent, SkipRow, PushRow, GroupRow
<1>7. ReadSize(e) \/ EnterLoop(e) \/ CountRow(e) =>
        \A f \in Events : f # e => call'[f] = call[f] /\ feed'[f] = feed[f]
  BY OwnFeed
<1>8. InsertEvent(e) \/ RejectEvent(e) \/ (AddRow(e) /\ ~ReadSize(e)) => overlapped' = overlapped
  BY DEF InsertEvent, RejectEvent, AddRow, SkipRow, PushRow, EnterLoop, GroupRow, CountRow, history
<1> QED BY <1>1, <1>2, <1>3, <1>4, <1>5, <1>6, <1>7, <1>8 DEF AddRow

\* An undisturbed add_row works on its own entry.
LEMMA SoloStep == BaseInv /\ SoloInv /\ [Next]_vars => SoloInv'
<1> SUFFICES ASSUME BaseInv, SoloInv, [Next]_vars, NEW f \in Active', f \notin overlapped'
             PROVE  /\ Active' = {f} /\ ~Creating' /\ at' # "filling"
                    /\ IF call'[f] = "sized" THEN feed'[f].index = Len(allEvents') + 1 ELSE OwnEntry(f)'
  BY DEF SoloInv
<1> DEFINE Goal == /\ Active' = {f} /\ ~Creating' /\ at' # "filling"
                   /\ IF call'[f] = "sized" THEN feed'[f].index = Len(allEvents') + 1 ELSE OwnEntry(f)'
<1>0. /\ Types /\ allEvents \in Seq(Entries) /\ Len(allEvents) \in Nat /\ f \in Events
      /\ call \in [Events -> {"new", "inserted", "sized", "pushed", "group", "count", "done", "rejected"}]
      /\ Len(preprocessors) \in Nat /\ feed[f] \in [index : Nat, turn : Nat, last : Nat]
  BY DEF BaseInv, Types, RowTypes, LoadTypes, Active
<1>1. ASSUME f \in Active, f \notin overlapped
      PROVE  /\ Active = {f} /\ ~Creating /\ at # "filling"
             /\ IF call[f] = "sized" THEN feed[f].index = Len(allEvents) + 1 ELSE OwnEntry(f)
  BY <1>1 DEF SoloInv
<1>2. ASSUME Elsewhere PROVE Goal
  <2>1. f \in Active /\ f \notin overlapped
    BY <1>0, <1>2, ElsewhereStep
  <2>2. Active' = {f} /\ ~Creating' /\ at' # "filling" /\ preprocessors' = preprocessors
    BY <1>0, <1>1, <1>2, <2>1, ElsewhereStep
  <2>3. UNCHANGED <<allEvents, call, feed>>
    BY <1>0, <1>2, ElsewhereStep
  <2> QED BY <1>1, <2>1, <2>2, <2>3 DEF OwnEntry, GroupsOf, CountsOf
<1>3. ASSUME CountEntry PROVE Goal
  <2>1. f \in Active /\ f \notin overlapped /\ Creating
    BY <1>3 DEF CountEntry, Active, Creating, rowVars, history
  <2> QED BY <1>1, <2>1
<1>4. ASSUME NEW e \in Events, FillRow(e) PROVE Goal
  <2>1. f \in Active /\ f \notin overlapped /\ at = "filling"
    BY <1>4 DEF FillRow, Active, rowVars
  <2> QED BY <1>1, <2>1
<1>5. ASSUME NEW e \in Events, InsertEvent(e) \/ RejectEvent(e) \/ SkipRow(e) PROVE Goal
  <2>1. /\ f \in Active /\ Active' = Active /\ f # e /\ f \notin overlapped
        /\ UNCHANGED <<at, preprocessors>> /\ call'[f] = call[f] /\ feed'[f] = feed[f]
    BY <1>0, <1>5, ActiveStep DEF AddRow
  <2>2. allEvents' = allEvents
    BY <1>5 DEF InsertEvent, RejectEvent, SkipRow
  <2> QED BY <1>1, <2>1, <2>2 DEF OwnEntry, GroupsOf, CountsOf, Creating
<1>6. ASSUME NEW e \in Events, ReadSize(e) PROVE Goal
  <2>1. Active = {} /\ ~Creating /\ at # "filling" /\ f = e /\ Active' = {e}
    BY <1>0, <1>6, ActiveStep DEF ReadSize
  <2>2. call'[e] = "sized" /\ allEvents' = allEvents
    BY <1>0, <1>6 DEF ReadSize
  <2>3. feed'[e].index = Len(allEvents) + 1
    BY <1>0, <1>6, OwnFeed
  <2>4. UNCHANGED at
    BY <1>6 DEF ReadSize, loadVars
  <2> QED BY <2>1, <2>2, <2>3, <2>4 DEF Creating
<1>7. ASSUME NEW e \in Events, PushRow(e) \/ EnterLoop(e) \/ GroupRow(e) \/ CountRow(e)
      PROVE  /\ f = e /\ Active = {f} /\ Active' = {f} /\ ~Creating' /\ at' # "filling"
             /\ f \notin overlapped /\ preprocessors' = preprocessors /\ call'[f] # "done"
  <2>1. ~ReadSize(e)
    BY <1>7 DEF ReadSize, PushRow, EnterLoop, GroupRow, CountRow
  <2>2. f \in Active /\ f \notin overlapped /\ e \in Active
    BY <1>0, <1>7, <2>1, ActiveStep DEF AddRow
  <2>3. f = e /\ Active = {f}
    BY <1>1, <2>2
  <2>4. UNCHANGED <<at, preprocessors>>
    BY <1>0, <1>7, ActiveStep DEF AddRow
  <2>5. call'[f] # "done"
    BY DEF Active
  <2>6. Active' = Active
    BY <1>0, <1>7, <2>3, <2>5, ActiveStep
  <2> QED BY <1>1, <2>2, <2>3, <2>4, <2>5, <2>6 DEF Creating
<1>13. ASSUME PushRow(f) \/ EnterLoop(f) \/ GroupRow(f) \/ CountRow(f)
       PROVE  /\ f \in Active /\ Active' = {f} /\ ~Creating' /\ at' # "filling"
              /\ f \notin overlapped /\ preprocessors' = preprocessors /\ call'[f] # "done"
  BY <1>0, <1>7, <1>13
<1>8. ASSUME PushRow(f) PROVE Goal
  <2>1. feed'[f].index = Len(allEvents) + 1 /\ call'[f] = "pushed"
    BY <1>0, <1>1, <1>13, <1>8 DEF PushRow, Active
  <2>2. /\ Len(allEvents') = Len(allEvents) + 1
        /\ allEvents'[Len(allEvents) + 1] = Entry(f, FALSE)
    BY <1>0, <1>8, PushedEntry DEF PushRow
  <2>3. UpTo(<<>>, 0)
    BY DEF UpTo
  <2>4. OwnEntry(f)'
    BY <1>0, <2>1, <2>2, <2>3 DEF OwnEntry, GroupsOf, CountsOf, Entry
  <2> QED BY <1>13, <1>8, <2>1, <2>4
<1>9. ASSUME EnterLoop(f) PROVE Goal
  <2>1. call[f] = "pushed" /\ call'[f] = "group" /\ preprocessors # <<>> /\ allEvents' = allEvents
    BY <1>0, <1>13, <1>9 DEF EnterLoop
  <2>2. feed'[f].turn = 1 /\ feed'[f].last = Len(preprocessors) /\ feed'[f].index = feed[f].index
    BY <1>0, <1>9, <2>1, OwnFeed
  <2>3. OwnEntry(f)
    BY <1>1, <1>13, <1>9, <2>1
  <2>4. OwnEntry(f)'
    BY <1>13, <1>9, <2>1, <2>2, <2>3 DEF OwnEntry, GroupsOf, CountsOf
  <2> QED BY <1>13, <1>9, <2>1, <2>4
<1> DEFINE n == Len(allEvents)
<1>10. ASSUME GroupRow(f) PROVE Goal
  <2>1. call[f] = "group" /\ call'[f] = "count" /\ feed' = feed
    BY <1>0, <1>10 DEF GroupRow
  <2>2. OwnEntry(f)
    BY <1>1, <1>13, <1>10, <2>1
  <2>3. /\ n \in Nat \ {0} /\ feed[f].index = n /\ allEvents[n].event = f /\ allEvents[n].filled = FALSE
        /\ UpTo(allEvents[n].groups, feed[f].turn - 1) /\ UpTo(allEvents[n].counted, feed[f].turn - 1)
        /\ feed[f].last = Len(preprocessors) /\ feed[f].turn \in Nat \ {0}
    BY <1>0, <2>1, <2>2 DEF OwnEntry, GroupsOf, CountsOf, BaseInv, RowInv
  <2>4. Rewritten(n, Append(allEvents[n].groups, feed[f].turn), allEvents[n].counted)
    BY <1>0, <1>10, <2>3, RowRewrites
  <2>5. /\ Len(allEvents') = n /\ allEvents'[n].event = f /\ allEvents'[n].filled = FALSE
        /\ allEvents'[n].groups = Append(allEvents[n].groups, feed[f].turn)
        /\ allEvents'[n].counted = allEvents[n].counted
    BY <2>3, <2>4 DEF Rewritten
  <2>6. UpTo(Append(allEvents[n].groups, feed[f].turn), feed[f].turn)
    <3>1. allEvents[n].groups \in Seq(Nat) /\ feed[f].turn - 1 \in Nat
      BY <1>0, <2>3, EntryTypes
    <3> QED BY <2>3, <3>1, UpToNext
  <2>7. OwnEntry(f)'
    BY <1>13, <1>10, <2>1, <2>3, <2>5, <2>6 DEF OwnEntry, GroupsOf, CountsOf
  <2> QED BY <1>13, <1>10, <2>1, <2>7
<1>11. ASSUME CountRow(f) PROVE Goal
  <2>1. /\ call[f] = "count" /\ call'[f] = "group" /\ feed[f].turn # feed[f].last
    BY <1>0, <1>13, <1>11 DEF CountRow
  <2>2. OwnEntry(f)
    BY <1>1, <1>13, <1>11, <2>1
  <2>3. /\ n \in Nat \ {0} /\ feed[f].index = n /\ allEvents[n].event = f /\ allEvents[n].filled = FALSE
        /\ UpTo(allEvents[n].groups, feed[f].turn) /\ UpTo(allEvents[n].counted, feed[f].turn - 1)
        /\ feed[f].last = Len(preprocessors) /\ feed[f].turn \in Nat \ {0}
    BY <1>0, <2>1, <2>2 DEF OwnEntry, GroupsOf, CountsOf, BaseInv, RowInv
  <2>4. Rewritten(n, allEvents[n].groups, Append(allEvents[n].counted, feed[f].turn))
    BY <1>0, <1>11, <2>3, RowRewrites
  <2>5. /\ Len(allEvents') = n /\ allEvents'[n].event = f /\ allEvents'[n].filled = FALSE
        /\ allEvents'[n].groups = allEvents[n].groups
        /\ allEvents'[n].counted = Append(allEvents[n].counted, feed[f].turn)
    BY <2>3, <2>4 DEF Rewritten
  <2>6. UpTo(Append(allEvents[n].counted, feed[f].turn), feed[f].turn)
    <3>1. allEvents[n].counted \in Seq(Nat) /\ feed[f].turn - 1 \in Nat
      BY <1>0, <2>3, EntryTypes
    <3> QED BY <2>3, <3>1, UpToNext
  <2>7. feed'[f].turn = feed[f].turn + 1 /\ feed'[f].last = feed[f].last /\ feed'[f].index = feed[f].index
    BY <1>0, <1>11, <2>1, OwnFeed
  <2>8. OwnEntry(f)'
    BY <1>13, <1>11, <2>1, <2>3, <2>5, <2>6, <2>7 DEF OwnEntry, GroupsOf, CountsOf
  <2> QED BY <1>13, <1>11, <2>1, <2>8
<1> HIDE DEF Goal
<1>14. ASSUME NEW e \in Events, PushRow(e) \/ EnterLoop(e) \/ GroupRow(e) \/ CountRow(e)
       PROVE  Goal
  <2>1. f = e
    BY <1>7, <1>14
  <2> QED BY <1>8, <1>9, <1>10, <1>11, <1>14, <2>1
<1>12. Goal
  BY <1>2, <1>3, <1>4, <1>5, <1>6, <1>14, StepKinds
<1> QED BY <1>12 DEF Goal

\* Settled entries stay as they are but for the preprocessor being made.
LEMMA SettledStep == GroupsInv /\ [Next]_vars => SettledInv'
<1> SUFFICES ASSUME GroupsInv, [Next]_vars, NEW k \in 1 .. Len(allEvents'), Settled(allEvents[k])'
             PROVE  SettledEntry(k)'
  <2>1. DOMAIN allEvents' = 1 .. Len(allEvents')
    BY VectorStep DEF GroupsInv
  <2> QED BY <2>1 DEF SettledInv
<1>0. /\ Types /\ allEvents \in Seq(Entries) /\ Len(allEvents) \in Nat /\ Len(preprocessors) \in Nat
      /\ BaseInv /\ SoloInv /\ PushedInv /\ turn \in Nat /\ DOMAIN allEvents = 1 .. Len(allEvents)
      /\ call \in [Events -> {"new", "inserted", "sized", "pushed", "group", "count", "done", "rejected"}]
      /\ feed \in [Events -> [index : Nat, turn : Nat, last : Nat]]
  BY DEF GroupsInv, BaseInv, Types, LoadTypes, RowTypes
<1>16. Len(allEvents) \in Nat /\ \A i, j \in Nat : i < j => i # j
  BY <1>0
<1>1. ASSUME k \in 1 .. Len(allEvents), Settled(allEvents[k])
      PROVE  /\ UpTo(allEvents[k].groups, Reached(k)) /\ UpTo(allEvents[k].counted, Reached(k))
             /\ \A f \in Active : k < feed[f].index
  BY <1>0, <1>1 DEF GroupsInv, SettledInv, SettledEntry
<1>2. ASSUME k \in 1 .. Len(allEvents)
      PROVE  allEvents[k].event \in Events /\ allEvents[k].filled \in BOOLEAN
             /\ allEvents[k].groups \in Seq(Nat) /\ allEvents[k].counted \in Seq(Nat)
  <2>1. allEvents[k] \in Entries
    BY <1>0, <1>2
  <2> QED BY <2>1 DEF Entries
\* An entry that was settled before, at a step that changes neither it nor the registry.
<1>3. ASSUME k \in 1 .. Len(allEvents), Settled(allEvents[k]), allEvents'[k] = allEvents[k],
             Reached(k)' = Reached(k),
             \A f \in Active' : \/ f \in Active /\ feed'[f].index = feed[f].index
                                \/ feed'[f].index = Len(allEvents) + 1
      PROVE  SettledEntry(k)'
  <2>1. ASSUME NEW f \in Active' PROVE k < feed'[f].index
    BY <1>0, <1>1, <1>3, <2>1
  <2>2. UpTo(allEvents'[k].groups, Reached(k)') /\ UpTo(allEvents'[k].counted, Reached(k)')
    BY <1>1, <1>3
  <2> QED BY <2>1, <2>2 DEF SettledEntry
<1>4. UNCHANGED <<at, turn, preprocessors>> => Reached(k)' = Reached(k)
  BY DEF Reached
<1>5. CASE Elsewhere
  <2>1. /\ UNCHANGED <<allEvents, call, feed, crowded>> /\ Active' = Active
        /\ overlapped \subseteq overlapped'
    BY <1>0, <1>5, ElsewhereStep
  <2>2. k \in 1 .. Len(allEvents) /\ Settled(allEvents[k]) /\ allEvents'[k] = allEvents[k]
    BY <2>1 DEF Settled, Returned
  <2>3. Reached(k)' = Reached(k)
    <3>1. CASE LoadPlan \/ BeginInput \/ Select \/ SelectDone \/ SelectFails \/ MapInput
               \/ ConstructorThrows \/ ConstructorDone \/ UNCHANGED vars
      BY <3>1 DEF LoadPlan, BeginInput, Select, SelectDone, SelectFails, MapInput, ConstructorThrows,
         ConstructorDone, vars, loadVars, Reached
    <3>2. CASE CheckColumns
      BY <3>2 DEF CheckColumns, Reached
    <3>3. CASE LoopEnd
      BY <1>0, <2>2, <3>3 DEF LoopEnd, Reached
    <3>4. CASE PushBack
      <4>1. /\ at = "push" /\ at' = "input" /\ Len(preprocessors') = Len(preprocessors) + 1
        BY <1>0, <3>4 DEF PushBack, Types, LoadTypes
      <4> QED BY <4>1 DEF Reached
    <3> QED BY <1>5, <3>1, <3>2, <3>3, <3>4 DEF Elsewhere
  <2> QED BY <1>3, <2>1, <2>2, <2>3
<1>6. CASE CountEntry
  <2>1. /\ at = "loop" /\ UNCHANGED <<at, preprocessors, call, feed, overlapped, crowded>>
        /\ turn' = turn + 1 /\ Active' = Active
    BY <1>6 DEF CountEntry, loadVars, rowVars, history, Active
  <2>2. Rewritten(turn, Append(allEvents[turn].groups, NewId), Append(allEvents[turn].counted, NewId))
    BY <1>0, <1>6, CreatedEntry
  <2>3. k \in 1 .. Len(allEvents) /\ Settled(allEvents[k])
    BY <2>1, <2>2 DEF Rewritten, Settled, Returned
  <2>4. CASE k # turn
    <3>1. allEvents'[k] = allEvents[k]
      BY <2>2, <2>3, <2>4 DEF Rewritten
    <3>2. Reached(k)' = Reached(k)
      BY <1>0, <2>1, <2>4 DEF Reached
    <3> QED BY <1>3, <2>1, <2>3, <3>1, <3>2
  <2>5. CASE k = turn
    <3>1. Reached(k) = Len(preprocessors) /\ Reached(k)' = NewId /\ NewId = Len(preprocessors) + 1
      BY <1>0, <2>1, <2>5 DEF Reached, NewId
    <3>2. UpTo(Append(allEvents[k].groups, NewId), NewId) /\ UpTo(Append(allEvents[k].counted, NewId), NewId)
      BY <1>0, <1>1, <1>2, <2>3, <3>1, UpToNext
    <3>3. allEvents'[k].groups = Append(allEvents[k].groups, NewId)
          /\ allEvents'[k].counted = Append(allEvents[k].counted, NewId)
      BY <2>2, <2>5 DEF Rewritten
    <3> QED BY <1>1, <2>1, <2>3, <3>1, <3>2, <3>3 DEF SettledEntry
  <2> QED BY <2>4, <2>5
<1>7. ASSUME NEW e \in Events, FillRow(e) PROVE SettledEntry(k)'
  <2>1. /\ at = "filling" /\ UNCHANGED <<at, turn, preprocessors, call, feed, overlapped>>
        /\ Active' = Active /\ crowded \subseteq crowded' /\ (Active # {} => e \in crowded')
    BY <1>7 DEF FillRow, loadVars, rowVars, Active
  <2>2. /\ Len(allEvents') = Len(allEvents) + 1
        /\ \A i \in 1 .. Len(allEvents) : allEvents'[i] = allEvents[i]
        /\ allEvents'[Len(allEvents) + 1] = Entry(e, TRUE)
    BY <1>0, <1>7, PushedEntry DEF FillRow
  <2>3. CASE k \in 1 .. Len(allEvents)
    <3>1. Settled(allEvents[k]) /\ allEvents'[k] = allEvents[k]
      BY <2>1, <2>2, <2>3 DEF Settled, Returned
    <3> QED BY <1>3, <1>4, <2>1, <2>3, <3>1
  <2>4. CASE k = Len(allEvents) + 1
    <3>1. Active' = {}
      BY <2>1, <2>2, <2>4 DEF Settled, Entry
    <3>2. preprocessors = <<>>
      BY <1>0, <2>1 DEF BaseInv, PhaseInv
    <3>3. Reached(k)' = 0
      BY <2>1, <3>2 DEF Reached
    <3>4. UpTo(<<>>, 0)
      BY DEF UpTo
    <3> QED BY <2>2, <2>4, <3>1, <3>3, <3>4 DEF SettledEntry, Entry
  <2> QED BY <1>0, <2>2, <2>3, <2>4
<1>8. ASSUME NEW e \in Events, InsertEvent(e) \/ RejectEvent(e) \/ AddRow(e)
      PROVE  /\ UNCHANGED <<at, turn, preprocessors, crowded>> /\ overlapped \subseteq overlapped'
             /\ \A f \in Events : f # e => call'[f] = call[f] /\ feed'[f] = feed[f]
  BY <1>0, <1>8, ActiveStep
\* The steps of an add_row that leave its event unsettled or that entry as it was.
<1>9. ASSUME NEW e \in Events, InsertEvent(e) \/ RejectEvent(e) \/ AddRow(e), k \in 1 .. Len(allEvents),
             allEvents'[k].event = allEvents[k].event, allEvents'[k].filled = allEvents[k].filled,
             call'[e] # "done" \/ call[e] \in {"new", "inserted"}
      PROVE  Settled(allEvents[k])
  <2>1. CASE allEvents[k].filled
    BY <1>8, <1>9, <2>1 DEF Settled
  <2>2. CASE ~allEvents[k].filled
    <3>1. Returned(allEvents[k].event)' /\ allEvents[k].event \notin overlapped'
      BY <1>9, <2>2 DEF Settled, Returned
    <3>2. call[allEvents[k].event] \in {"pushed", "group", "count", "done"}
      BY <1>0, <1>2, <1>9, <2>2 DEF PushedInv
    <3>3. allEvents[k].event # e
      <4>1. call'[allEvents[k].event] = "done"
        BY <1>9, <3>1 DEF Returned
      <4> QED BY <1>9, <3>2, <4>1
    <3> QED BY <1>2, <1>8, <1>9, <2>2, <3>1, <3>3 DEF Settled, Returned
  <2> QED BY <2>1, <2>2
<1>10. ASSUME NEW e \in Events, InsertEvent(e) \/ RejectEvent(e) \/ SkipRow(e) PROVE SettledEntry(k)'
  <2>1. allEvents' = allEvents /\ call[e] \in {"new", "inserted"}
    BY <1>10 DEF InsertEvent, RejectEvent, SkipRow
  <2>2. k \in 1 .. Len(allEvents) /\ Settled(allEvents[k])
    BY <1>9, <1>10, <2>1 DEF AddRow
  <2>3. Active' = Active /\ e \notin Active /\ Active \subseteq Events
    BY <1>0, <1>10, ActiveStep DEF Active
  <2> QED BY <1>3, <1>4, <1>8, <1>10, <2>1, <2>2, <2>3 DEF AddRow
<1>11. ASSUME NEW e \in Events, ReadSize(e) PROVE SettledEntry(k)'
  <2>1. allEvents' = allEvents /\ call'[e] = "sized"
    BY <1>0, <1>11 DEF ReadSize
  <2>2. k \in 1 .. Len(allEvents) /\ Settled(allEvents[k])
    BY <1>9, <1>11, <2>1 DEF AddRow
  <2>3. Active' = Active \cup {e} /\ e \notin Active /\ Active \subseteq Events
    BY <1>0, <1>11, ActiveStep DEF Active
  <2>4. feed'[e].index = Len(allEvents) + 1
    BY <1>0, <1>11, OwnFeed
  <2> QED BY <1>3, <1>4, <1>8, <1>11, <2>1, <2>2, <2>3, <2>4 DEF AddRow
<1>12. ASSUME NEW e \in Events, PushRow(e) PROVE SettledEntry(k)'
  <2>1. feed' = feed /\ call'[e] = "pushed" /\ Active' = Active
    BY <1>0, <1>12, ActiveStep DEF PushRow
  <2>2. /\ Len(allEvents') = Len(allEvents) + 1
        /\ \A i \in 1 .. Len(allEvents) : allEvents'[i] = allEvents[i]
        /\ allEvents'[Len(allEvents) + 1] = Entry(e, FALSE)
    BY <1>0, <1>12, PushedEntry DEF PushRow
  <2>3. k # Len(allEvents) + 1
    BY <2>1, <2>2 DEF Settled, Returned, Entry
  <2>4. k \in 1 .. Len(allEvents) /\ allEvents'[k] = allEvents[k]
    BY <1>0, <2>2, <2>3
  <2>5. Settled(allEvents[k])
    BY <1>9, <1>12, <2>1, <2>4 DEF AddRow
  <2> QED BY <1>3, <1>4, <1>8, <1>12, <2>1, <2>4, <2>5 DEF AddRow
\* A loop that goes on.
<1>13. ASSUME NEW e \in Events, EnterLoop(e) \/ GroupRow(e) \/ CountRow(e), call'[e] # "done"
       PROVE  SettledEntry(k)'
  <2>1. /\ e \in Active /\ Active' = Active /\ Active \subseteq Events /\ call[e] \in {"pushed", "group", "count"}
    BY <1>0, <1>13, ActiveStep DEF Active, EnterLoop, GroupRow, CountRow
  <2>2. feed'[e].index = feed[e].index
    <3>1. CASE EnterLoop(e)
      <4>1. preprocessors # <<>>
        BY <1>0, <1>13, <3>1 DEF EnterLoop
      <4> QED BY <1>0, <3>1, <4>1, OwnFeed
    <3>2. CASE GroupRow(e)
      BY <3>2 DEF GroupRow
    <3>3. CASE CountRow(e)
      <4>1. feed[e].turn # feed[e].last
        BY <1>0, <1>13, <3>3 DEF CountRow
      <4> QED BY <1>0, <3>3, <4>1, OwnFeed
    <3> QED BY <1>13, <3>1, <3>2, <3>3
  <2>3. SameEvents
    BY <1>0, <1>13, KeptEvents
  <2>4. k \in 1 .. Len(allEvents) /\ Settled(allEvents[k])
    BY <1>9, <1>13, <2>3 DEF SameEvents, AddRow
  <2>5. k < feed[e].index /\ feed[e].index \in 1 .. Len(allEvents)
    BY <1>0, <1>1, <2>1, <2>4 DEF BaseInv, RowInv
  <2>6. allEvents'[k] = allEvents[k]
    <3>1. CASE EnterLoop(e)
      BY <3>1 DEF EnterLoop
    <3>2. CASE GroupRow(e)
      <4>1. k # feed[e].index
        BY <1>0, <2>4, <2>5
      <4> QED BY <1>0, <2>4, <3>2, <4>1, RowRewrites DEF Rewritten
    <3>3. CASE CountRow(e)
      <4>1. k < Len(allEvents)
        BY <2>4, <2>5
      <4>2. k # Len(allEvents)
        BY <1>16, <2>4, <4>1
      <4> QED BY <1>0, <2>4, <3>3, <4>2, RowRewrites DEF Rewritten
    <3> QED BY <1>13, <3>1, <3>2, <3>3
  <2> QED BY <1>3, <1>4, <1>8, <1>13, <2>1, <2>2, <2>4, <2>6 DEF AddRow
\* A loop that ends: its entry may become settled.
<1>14. ASSUME NEW e \in Events, EnterLoop(e) \/ CountRow(e), call'[e] = "done"
       PROVE  SettledEntry(k)'
  <2>1. /\ e \in Active /\ Active' = Active \ {e} /\ Active \subseteq Events
        /\ call[e] \in {"pushed", "count"} /\ overlapped' = overlapped
    BY <1>0, <1>14, ActiveStep DEF Active, EnterLoop, CountRow, AddRow, history
  <2>2. SameEvents
    BY <1>0, <1>14, KeptEvents
  <2>3. k \in 1 .. Len(allEvents) /\ allEvents'[k].event = allEvents[k].event
        /\ allEvents'[k].filled = allEvents[k].filled
    BY <2>2 DEF SameEvents
  <2>4. CASE Settled(allEvents[k])
    <3>1. k < feed[e].index /\ feed[e].index \in 1 .. Len(allEvents)
      BY <1>0, <1>1, <2>1, <2>3, <2>4 DEF BaseInv, RowInv
    <3>2. allEvents'[k] = allEvents[k]
      <4>1. CASE EnterLoop(e)
        BY <4>1 DEF EnterLoop
      <4>2. CASE CountRow(e)
        <5>1. k < Len(allEvents)
          BY <2>3, <3>1
        <5>2. k # Len(allEvents)
          BY <1>16, <2>3, <5>1
        <5> QED BY <1>0, <2>3, <4>2, <5>2, RowRewrites DEF Rewritten
      <4> QED BY <1>14, <4>1, <4>2
    <3> QED BY <1>3, <1>4, <1>8, <1>14, <2>1, <2>3, <2>4, <3>2 DEF AddRow
  <2>5. CASE ~Settled(allEvents[k])
    <3>1. UNCHANGED <<at, turn, preprocessors, crowded>>
      BY <1>8, <1>14 DEF AddRow
    <3>2. allEvents[k].filled = FALSE /\ allEvents[k].event = e /\ e \notin overlapped
      <4>1. ~allEvents[k].filled
        BY <2>3, <2>5, <3>1 DEF Settled
      <4>2. Returned(allEvents[k].event)' /\ allEvents[k].event \notin overlapped
        BY <2>1, <2>3, <4>1 DEF Settled, Returned
      <4>3. call[allEvents[k].event] # "done"
        BY <2>5, <4>1, <4>2 DEF Settled, Returned
      <4>4. allEvents[k].event = e
        BY <1>2, <1>8, <1>14, <2>3, <4>2, <4>3 DEF Returned, AddRow
      <4> QED BY <1>2, <2>3, <4>1, <4>2, <4>4
    <3>3. Active = {e} /\ ~Creating /\ OwnEntry(e)
      BY <2>1, <3>2, <1>0 DEF SoloInv
    <3>4. k = Len(allEvents)
      <4>1. Len(allEvents) \in 1 .. Len(allEvents) /\ allEvents[Len(allEvents)].event = e
            /\ allEvents[Len(allEvents)].filled = FALSE
        BY <1>0, <3>3 DEF OwnEntry
      <4> QED BY <1>0, <2>3, <3>2, <4>1 DEF PushedInv
    <3>5. Active' = {} /\ Reached(k)' = Len(preprocessors)
      BY <1>0, <2>1, <3>1, <3>3 DEF Reached, Creating
    <3>6. UpTo(allEvents'[k].groups, Len(preprocessors)) /\ UpTo(allEvents'[k].counted, Len(preprocessors))
      <4>1. CASE EnterLoop(e)
        <5>1. call[e] = "pushed" /\ preprocessors = <<>> /\ allEvents' = allEvents
          BY <1>0, <1>14, <4>1 DEF EnterLoop
        <5> QED BY <3>3, <3>4, <5>1 DEF OwnEntry, GroupsOf, CountsOf
      <4>2. CASE CountRow(e)
        <5>1. call[e] = "count" /\ feed[e].turn = feed[e].last
          BY <1>0, <1>14, <4>2 DEF CountRow
        <5>2. /\ feed[e].turn = Len(preprocessors) /\ feed[e].turn - 1 \in Nat /\ feed[e].turn \in Nat
              /\ UpTo(allEvents[k].groups, feed[e].turn) /\ UpTo(allEvents[k].counted, feed[e].turn - 1)
          BY <1>0, <3>3, <3>4, <5>1 DEF OwnEntry, GroupsOf, CountsOf, BaseInv, RowInv
        <5>3. Rewritten(k, allEvents[k].groups, Append(allEvents[k].counted, feed[e].turn))
          BY <1>0, <3>4, <4>2, RowRewrites
        <5>4. UpTo(Append(allEvents[k].counted, feed[e].turn), feed[e].turn)
          BY <1>2, <2>3, <5>2, UpToNext
        <5> QED BY <5>2, <5>3, <5>4 DEF Rewritten
      <4> QED BY <1>14, <4>1, <4>2
    <3> QED BY <3>5, <3>6 DEF SettledEntry
  <2> QED BY <2>4, <2>5
<1>15. ASSUME NEW e \in Events, GroupRow(e) PROVE call'[e] # "done"
  BY <1>0, <1>15 DEF GroupRow
<1> QED BY <1>5, <1>6, <1>7, <1>10, <1>11, <1>12, <1>13, <1>14, <1>15, StepKinds

\* GroupsInv is inductive.
LEMMA GroupsStep == GroupsInv /\ [Next]_vars => GroupsInv'
BY BaseStep, SoloStep, PushedStep, SettledStep DEF GroupsInv

\* event.groups[_preprocessorId] is the group of that preprocessor, whichever order
\* preprocessors and events came in.
THEOREM GroupsSafety == Spec => []GroupsInPlace
<1>1. ASSUME GroupsInv, NEW k \in DOMAIN allEvents, Settled(allEvents[k]), NEW p \in DOMAIN preprocessors
      PROVE  p \in DOMAIN allEvents[k].groups /\ allEvents[k].groups[p] = p
  <2>1. /\ UpTo(allEvents[k].groups, Reached(k)) /\ allEvents[k].groups \in Seq(Nat)
        /\ Reached(k) \in Nat /\ Len(preprocessors) <= Reached(k) /\ p \in 1 .. Len(preprocessors)
    <3>1. UpTo(allEvents[k].groups, Reached(k))
      BY <1>1 DEF GroupsInv, SettledInv, SettledEntry
    <3>2. allEvents[k] \in Entries
      BY <1>1 DEF GroupsInv, BaseInv, Types
    <3>3. Len(preprocessors) \in Nat /\ p \in 1 .. Len(preprocessors)
      BY <1>1 DEF GroupsInv, BaseInv, Types, LoadTypes
    <3> QED BY <3>1, <3>2, <3>3 DEF Entries, Reached
  <2> QED BY <2>1 DEF UpTo
<1>2. GroupsInv => GroupsInPlace
  BY <1>1 DEF GroupsInPlace
<1> QED BY <1>2, GroupsInit, GroupsStep, PTL DEF Spec

\* Every registered preprocessor counts an undisturbed event once.
THEOREM CountsSafety == Spec => []CountedOnce
<1>1. ASSUME GroupsInv, NEW k \in DOMAIN allEvents, Settled(allEvents[k]), NEW p \in DOMAIN preprocessors
      PROVE  Cardinality({j \in DOMAIN allEvents[k].counted : allEvents[k].counted[j] = p}) = 1
  <2>1. /\ UpTo(allEvents[k].counted, Reached(k)) /\ allEvents[k].counted \in Seq(Nat)
        /\ Reached(k) \in Nat /\ Len(preprocessors) <= Reached(k) /\ p \in 1 .. Len(preprocessors)
    <3>1. UpTo(allEvents[k].counted, Reached(k))
      BY <1>1 DEF GroupsInv, SettledInv, SettledEntry
    <3>2. allEvents[k] \in Entries
      BY <1>1 DEF GroupsInv, BaseInv, Types
    <3>3. Len(preprocessors) \in Nat /\ p \in 1 .. Len(preprocessors)
      BY <1>1 DEF GroupsInv, BaseInv, Types, LoadTypes
    <3> QED BY <3>1, <3>2, <3>3 DEF Entries, Reached
  <2>2. {j \in DOMAIN allEvents[k].counted : allEvents[k].counted[j] = p} = {p}
    BY <2>1 DEF UpTo
  <2> QED BY <2>2, FS_Singleton
<1>2. GroupsInv => CountedOnce
  BY <1>1 DEF CountedOnce
<1> QED BY <1>2, GroupsInit, GroupsStep, PTL DEF Spec
=============================================================================
