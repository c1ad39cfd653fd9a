---------------------------- MODULE ModelInputs ----------------------------
(***************************************************************************)
(* A table of user events between its two users: add_event on threads of   *)
(* the host, and the constructor of ONNXModel on _cmdThread, which makes a *)
(* preprocessor per input of a plan and registers it under the name of the *)
(* input, while the model of an earlier plan may be serving inferences     *)
(* through the same names.  The first preprocessor fills the table from    *)
(* the database.  The constructor may throw at any input or in the dummy   *)
(* run; the preprocessors it has registered by then stay.                  *)
(*                                                                         *)
(* Sources: ONNXExecutor.cpp, UserEventsManager.cpp, TableStore.cpp.  One  *)
(* model, all of whose plans have the inputs 1 .. NumInputs, from one      *)
(* table.  Vector positions are 1-based; a group is named by the           *)
(* preprocessor that computed it.  UserEventsManager and TableStore have   *)
(* no lock: a push_back or a read of a size is one step here, and what the *)
(* threads do between two of them interleaves.  sqlite3_exec holds the     *)
(* mutex of the connection until its last callback has returned.           *)
(***************************************************************************)
EXTENDS FiniteSets, Integers, Sequences

CONSTANTS
    Events,         \* calls of add_event, on threads of their own
    NumInputs,      \* inputs of the model that have a preprocessor
    MaxLoads,       \* bound: calls of load_plan
    MaxSize         \* bound: preprocessors and rows of the table together

ASSUME ModelInputsAssumption == IsFiniteSet(Events) /\ NumInputs \in Nat /\ MaxLoads \in Nat

Inputs == 1 .. NumInputs

VARIABLES
    loads,          \* calls of load_plan
    at, input,      \* the constructor of the last one: where it is, and at which input
    turn,           \* index i of the loop of TableStore::create_preprocessor
    serving,        \* load whose object is in modelMap, 0 for none
    preprocessors,  \* _preprocessors: load and input each was made for
    idMap,          \* _modelInputPreprocessorIdMap, 0 for no entry
    rows,           \* events in the database table
    ready,          \* _isReadyToBeFilled
    selected,       \* rows of the SELECT whose callback has not run yet
    allEvents,      \* _allEvents: its events with their groups, whether the SELECT brought
                    \* them and, as history, which preprocessors have counted them
    call,           \* per event, where its add_event is
    feed,           \* its add_row: newIndex, and turn and last turn of its loop
    missed,         \* history: rows a failed SELECT did not deliver
    overlapped,     \* history: add_rows that met another add_row, the SELECT or the creation
                    \* of a preprocessor,
    met,            \* and those of them that met the creation of a preprocessor
    crowded         \* history: rows the SELECT delivered while an add_row was under way

loadVars == <<loads, at, input, serving, preprocessors, idMap>>
tableVars == <<rows, ready, selected, missed>>
rowVars == <<call, feed>>
history == <<overlapped, met, crowded>>
vars == <<loadVars, turn, tableVars, allEvents, rowVars, history>>

NoFeed == [index |-> 0, turn |-> 0, last |-> 0]

Init ==
    /\ loads = 0 /\ at = "idle" /\ input = 1 /\ turn = 1 /\ serving = 0
    /\ preprocessors = <<>> /\ idMap = [i \in Inputs |-> 0]
    /\ rows = {} /\ ready = FALSE /\ selected = {} /\ allEvents = <<>>
    /\ call = [e \in Events |-> "new"] /\ feed = [e \in Events |-> NoFeed]
    /\ missed = {} /\ overlapped = {} /\ met = {} /\ crowded = {}

\* What is pushed to _allEvents.
Entry(e, filled) == [event |-> e, filled |-> filled, groups |-> <<>>, counted |-> <<>>]

\* newPreprocessorId, which is the position it will have.
NewId == Len(preprocessors) + 1

\* add_rows between the read of newIndex and their return.
Active == {e \in Events : call[e] \in {"sized", "pushed", "group", "count"}}

Creating == at \in {"loop", "map", "push"}

\* The bound on the size of the instance.
SizeLeft == Len(preprocessors) + Cardinality(rows) < MaxSize

-----------------------------------------------------------------------------
(* load_plan on _cmdThread.                                                 *)

LoadPlan ==
    /\ at = "idle" /\ loads < MaxLoads
    /\ loads' = loads + 1
    /\ at' = "input" /\ input' = 1
    /\ UNCHANGED <<turn, serving, preprocessors, idMap, tableVars, allEvents, rowVars, history>>

\* Fault variant of BeginInput: the table is read for every preprocessor.
BeginInputRereads ==
    /\ at = "input" /\ input \in Inputs /\ SizeLeft
    /\ ready' = TRUE /\ at' = "select"
    /\ UNCHANGED <<loads, input, turn, serving, preprocessors, idMap, rows, selected, missed,
                   allEvents, rowVars, history>>

\* create_preprocessor for the next input; the first for the table sets the flag
\* (set_to_fill_in_memory) before it reads the table.
BeginInput ==
    /\ at = "input" /\ input \in Inputs /\ SizeLeft
    /\ ready' = TRUE
    /\ at' = IF ready THEN "columns" ELSE "select"
    /\ UNCHANGED <<loads, input, turn, serving, preprocessors, idMap, rows, selected, missed,
                   allEvents, rowVars, history>>

\* The SELECT sees the rows of this moment.
Select ==
    /\ at = "select" /\ at' = "filling"
    /\ selected' = rows
    /\ overlapped' = overlapped \cup Active
    /\ UNCHANGED <<loads, input, turn, serving, preprocessors, idMap, rows, ready, missed,
                   allEvents, rowVars, met, crowded>>

\* Its callback add_rows_to_table_store, once per row (of equal timestamps in any
\* order); no preprocessor is registered yet.
FillRow(e) ==
    /\ at = "filling" /\ e \in selected
    /\ selected' = selected \ {e}
    /\ allEvents' = Append(allEvents, Entry(e, TRUE))
    /\ crowded' = IF Active = {} THEN crowded ELSE crowded \cup {e}
    /\ UNCHANGED <<loadVars, turn, rows, ready, missed, rowVars, overlapped, met>>

\* Fault variant of SelectDone: a callback returns non-zero, which ends the SELECT,
\* and nobody looks at the error.
SelectDoneEarly ==
    /\ at = "filling" /\ at' = "columns"
    /\ selected' = {}
    /\ UNCHANGED <<loads, input, turn, serving, preprocessors, idMap, rows, ready, missed,
                   allEvents, rowVars, history>>

SelectDone ==
    /\ at = "filling" /\ selected = {}
    /\ at' = "columns"
    /\ UNCHANGED <<loads, input, turn, serving, preprocessors, idMap, tableVars, allEvents, rowVars,
                   history>>

\* sqlite3_exec returns an error, at once or after some rows, and the constructor
\* throws.  The flag stays set: no later create_preprocessor reads the table.
SelectFails ==
    /\ at \in {"select", "filling"} /\ at' = "idle" /\ input' = 1
    /\ missed' = IF at = "select" THEN rows ELSE selected
    /\ selected' = {}
    /\ UNCHANGED <<loads, turn, serving, preprocessors, idMap, rows, ready, allEvents,
                   rowVars, history>>

\* The columns exist and the new PreProcessor has counted nothing.
CheckColumns ==
    /\ at = "columns" /\ at' = "loop"
    /\ turn' = 1
    /\ overlapped' = overlapped \cup Active /\ met' = met \cup Active
    /\ UNCHANGED <<loads, input, serving, preprocessors, idMap, tableVars, allEvents, rowVars,
                   crowded>>

\* One turn of the loop of TableStore::create_preprocessor.
CountEntry ==
    /\ at = "loop" /\ turn <= Len(allEvents)
    /\ allEvents' = [allEvents EXCEPT ![turn].groups = Append(@, NewId),
                                      ![turn].counted = Append(@, NewId)]
    /\ turn' = turn + 1
    /\ UNCHANGED <<loadVars, tableVars, rowVars, history>>

\* Fault variant of LoopEnd: one short.
LoopEndEarly ==
    /\ at = "loop" /\ turn >= Len(allEvents)
    /\ at' = "map" /\ turn' = 1
    /\ UNCHANGED <<loads, input, serving, preprocessors, idMap, tableVars, allEvents, rowVars,
                   history>>

\* The size of _allEvents is read on every turn.
LoopEnd ==
    /\ at = "loop" /\ turn > Len(allEvents)
    /\ at' = "map" /\ turn' = 1
    /\ UNCHANGED <<loads, input, serving, preprocessors, idMap, tableVars, allEvents, rowVars,
                   history>>

\* Fault variant of MapInput: insert, which keeps the entry of an earlier plan.
MapInputInsert ==
    /\ at = "map" /\ at' = "push"
    /\ idMap' = [idMap EXCEPT ![input] = IF @ = 0 THEN NewId ELSE @]
    /\ UNCHANGED <<loads, input, turn, serving, preprocessors, tableVars, allEvents, rowVars,
                   history>>

MapInput ==
    /\ at = "map" /\ at' = "push"
    /\ idMap' = [idMap EXCEPT ![input] = NewId]
    /\ UNCHANGED <<loads, input, turn, serving, preprocessors, tableVars, allEvents, rowVars,
                   history>>

\* _preprocessors.push_back: from now on add_row feeds the preprocessor.
PushBack ==
    /\ at = "push" /\ at' = "input"
    /\ preprocessors' = Append(preprocessors, [load |-> loads, input |-> input])
    /\ input' = input + 1
    /\ UNCHANGED <<loads, turn, serving, idMap, tableVars, allEvents, rowVars, history>>

\* The constructor throws: the preprocessor JSON or its table, the columns, or the
\* tensors of the dummy run are not valid.  load_plan returns false.
ConstructorThrows ==
    /\ at \in {"input", "columns"} /\ at' = "idle" /\ input' = 1
    /\ UNCHANGED <<loads, turn, serving, preprocessors, idMap, tableVars, allEvents, rowVars,
                   history>>

\* All inputs and the dummy run are through: modelMap has the new object.
ConstructorDone ==
    /\ at = "input" /\ input \notin Inputs
    /\ serving' = loads
    /\ at' = "idle" /\ input' = 1
    /\ UNCHANGED <<loads, turn, preprocessors, idMap, tableVars, allEvents, rowVars,
                   history>>

Constructor ==
    \/ BeginInput \/ Select \/ SelectDone \/ SelectFails
    \/ \E e \in Events : FillRow(e)
    \/ CheckColumns \/ CountEntry \/ LoopEnd \/ MapInput \/ PushBack
    \/ ConstructorThrows \/ ConstructorDone

-----------------------------------------------------------------------------
(* add_event on a thread of the host.                                       *)

\* The INSERT, which waits for a SELECT under way on the same connection.
InsertEvent(e) ==
    /\ call[e] = "new" /\ at # "filling" /\ SizeLeft
    /\ rows' = rows \cup {e}
    /\ call' = [call EXCEPT ![e] = "inserted"]
    /\ UNCHANGED <<loadVars, turn, ready, selected, missed, allEvents, feed, history>>

\* The event does not parse or fit the columns, or the INSERT fails: add_event
\* returns false.
RejectEvent(e) ==
    /\ call[e] = "new"
    /\ call' = [call EXCEPT ![e] = "rejected"]
    /\ UNCHANGED <<loadVars, turn, tableVars, allEvents, feed, history>>

\* add_row does nothing for a table that is not to be filled ...
SkipRow(e) ==
    /\ call[e] = "inserted" /\ ~ready
    /\ call' = [call EXCEPT ![e] = "done"]
    /\ UNCHANGED <<loadVars, turn, tableVars, allEvents, feed, history>>

\* Fault variant of ReadSize: add_row does not look at _isReadyToBeFilled.
ReadSizeAlways(e) ==
    /\ call[e] = "inserted"
    /\ call' = [call EXCEPT ![e] = "sized"]
    /\ feed' = [feed EXCEPT ![e].index = Len(allEvents) + 1]
    /\ overlapped' = overlapped \cup (IF Active = {} /\ ~Creating /\ at # "filling"
                                        THEN {} ELSE Active \cup {e})
    /\ met' = IF Creating THEN met \cup {e} ELSE met
    /\ UNCHANGED <<loadVars, turn, tableVars, allEvents, crowded>>

\* ... else it reads newIndex,
ReadSize(e) ==
    /\ call[e] = "inserted" /\ ready
    /\ call' = [call EXCEPT ![e] = "sized"]
    /\ feed' = [feed EXCEPT ![e].index = Len(allEvents) + 1]
    /\ overlapped' = overlapped \cup (IF Active = {} /\ ~Creating /\ at # "filling"
                                        THEN {} ELSE Active \cup {e})
    /\ met' = IF Creating THEN met \cup {e} ELSE met
    /\ UNCHANGED <<loadVars, turn, tableVars, allEvents, crowded>>

\* Fault variant of PushRow: the event is put at newIndex, over what came there since.
PushRowAtIndex(e) ==
    /\ call[e] = "sized"
    /\ call' = [call EXCEPT ![e] = "pushed"]
    /\ allEvents' = IF feed[e].index \in DOMAIN allEvents
                      THEN [allEvents EXCEPT ![feed[e].index] = Entry(e, FALSE)]
                      ELSE Append(allEvents, Entry(e, FALSE))
    /\ UNCHANGED <<loadVars, turn, tableVars, feed, history>>

\* pushes the event,
PushRow(e) ==
    /\ call[e] = "sized"
    /\ call' = [call EXCEPT ![e] = "pushed"]
    /\ allEvents' = Append(allEvents, Entry(e, FALSE))
    /\ UNCHANGED <<loadVars, turn, tableVars, feed, history>>

\* Fault variant of EnterLoop: the newest preprocessor is not fed.
EnterLoopShort(e) ==
    /\ call[e] = "pushed"
    /\ IF Len(preprocessors) <= 1
         THEN call' = [call EXCEPT ![e] = "done"] /\ feed' = [feed EXCEPT ![e] = NoFeed]
         ELSE /\ call' = [call EXCEPT ![e] = "group"]
              /\ feed' = [feed EXCEPT ![e].turn = 1, ![e].last = Len(preprocessors) - 1]
    /\ UNCHANGED <<loadVars, turn, tableVars, allEvents, history>>

\* enters the loop over the preprocessors there are,
EnterLoop(e) ==
    /\ call[e] = "pushed"
    /\ IF preprocessors = <<>>
         THEN call' = [call EXCEPT ![e] = "done"] /\ feed' = [feed EXCEPT ![e] = NoFeed]
         ELSE /\ call' = [call EXCEPT ![e] = "group"]
              /\ feed' = [feed EXCEPT ![e].turn = 1, ![e].last = Len(preprocessors)]
    /\ UNCHANGED <<loadVars, turn, tableVars, allEvents, history>>

\* Fault variant of GroupRow: the group of the first preprocessor each time.
GroupRowFirst(e) ==
    /\ call[e] = "group"
    /\ call' = [call EXCEPT ![e] = "count"]
    /\ allEvents' = [allEvents EXCEPT ![feed[e].index].groups = Append(@, 1)]
    /\ UNCHANGED <<loadVars, turn, tableVars, feed, history>>

\* where each turn pushes a group to the entry at newIndex, whoever pushed that entry,
GroupRow(e) ==
    /\ call[e] = "group"
    /\ call' = [call EXCEPT ![e] = "count"]
    /\ allEvents' = [allEvents EXCEPT ![feed[e].index].groups = Append(@, feed[e].turn)]
    /\ UNCHANGED <<loadVars, turn, tableVars, feed, history>>

\* and has the preprocessor count the last entry of the vector, whoever pushed that.
CountRow(e) ==
    /\ call[e] = "count"
    /\ allEvents' = [allEvents EXCEPT ![Len(allEvents)].counted = Append(@, feed[e].turn)]
    /\ IF feed[e].turn = feed[e].last
         THEN call' = [call EXCEPT ![e] = "done"] /\ feed' = [feed EXCEPT ![e] = NoFeed]
         ELSE call' = [call EXCEPT ![e] = "group"] /\ feed' = [feed EXCEPT ![e].turn = @ + 1]
    /\ UNCHANGED <<loadVars, turn, tableVars, history>>

AddRow(e) ==
    \/ SkipRow(e) \/ ReadSize(e) \/ PushRow(e) \/ EnterLoop(e) \/ GroupRow(e) \/ CountRow(e)

Next ==
    \/ LoadPlan \/ Constructor
    \/ \E e \in Events : InsertEvent(e) \/ RejectEvent(e) \/ AddRow(e)

Spec == Init /\ [][Next]_vars

\* Threads are scheduled; a call that was started goes on.
FairSpec == Spec /\ WF_vars(Constructor) /\ \A e \in Events : WF_vars(AddRow(e))

-----------------------------------------------------------------------------
(* Properties.                                                              *)

TypeOK ==
    /\ loads \in Nat /\ serving \in Nat /\ input \in Nat /\ turn \in Nat
    /\ at \in {"idle", "input", "select", "filling", "columns", "loop", "map", "push"}
    /\ preprocessors \in Seq([load : Nat, input : Nat])
    /\ idMap \in [Inputs -> Nat]
    /\ ready \in BOOLEAN
    /\ \A S \in {rows, selected, missed, overlapped, met, crowded} : S \subseteq Events
    /\ allEvents \in Seq([event : Events, filled : BOOLEAN, groups : Seq(Nat), counted : Seq(Nat)])
    /\ call \in [Events -> {"new", "inserted", "sized", "pushed", "group", "count", "done",
                            "rejected"}]
    /\ feed \in [Events -> [index : Nat, turn : Nat, last : Nat]]

\* Where an event is in _allEvents.
PlacesOf(e) == {k \in DOMAIN allEvents : allEvents[k].event = e}

\* What of that EventIngest shows: an event is back when its add_row has pushed it, and
\* in memory as often as it has a place, wherever that is.
IngestCall ==
    [e \in Events |-> CASE call[e] = "sized" -> "inserted"
                        [] call[e] \in {"pushed", "group", "count"} -> "done"
                        [] OTHER -> call[e]]

IngestTable ==
    IF ~ready THEN "unread"
    ELSE CASE at = "select" -> "opened" [] at = "filling" -> "reading" [] OTHER -> "read"

IngestCopies == [e \in Events |-> Cardinality(PlacesOf(e))]

Ingest ==
    INSTANCE EventIngest
        WITH call <- IngestCall, table <- IngestTable, owed <- selected, copies <- IngestCopies

\* What happens to the events of the table, whatever constructors fail in between and
\* however the steps of add_rows interleave with them, is what EventIngest promises.
ImplementsIngest == Ingest!IngestSpec

Returned(e) == call[e] = "done"

\* No event falls between the two ways into memory: once the table is filled, an
\* event whose add_event has returned true is in _allEvents, whatever the thread saw
\* of _isReadyToBeFilled.  The exception are the rows of a SELECT that failed.
NoEventLost ==
    ready /\ at \notin {"select", "filling"} =>
        \A e \in Events : Returned(e) => PlacesOf(e) # {} \/ e \in missed

\* An event is in _allEvents at most twice, once by each way, and at most once
\* while its add_row has not pushed it.
CopiesBounded ==
    \A e \in Events :
        Cardinality(PlacesOf(e)) <= (IF call[e] \in {"new", "inserted", "sized", "rejected"}
                                       THEN 1 ELSE 2)

\* Every event in the database reaches memory once a preprocessor wants the table.
EventuallyInMemory ==
    \A e \in Events : (ready /\ e \in rows) ~> (PlacesOf(e) # {} \/ e \in missed)

\* An entry that no add_row and no creation of a preprocessor disturbed, and whose own
\* add_row is over.
Settled(c) == IF c.filled THEN c.event \notin crowded
              ELSE Returned(c.event) /\ c.event \notin overlapped

\* Every registered preprocessor has counted every settled entry once, whether it was
\* made before or after the event came and however other add_rows, which use the size of
\* the vector as the position of their event, run into each other before and after.
CountedOnce ==
    \A k \in DOMAIN allEvents : Settled(allEvents[k]) =>
        \A p \in DOMAIN preprocessors :
            Cardinality({j \in DOMAIN allEvents[k].counted : allEvents[k].counted[j] = p}) = 1

\* What is left of that in the entries that were disturbed: when no add_row is under
\* way, the counts of a preprocessor add up to the number of events, but for one event
\* more or less per add_row that met the creation of a preprocessor.  Two add_rows that
\* only run into each other count one event twice and the other never, not one in all.
TotalsDrift ==
    Active = {} =>
        \A p \in DOMAIN preprocessors :
            LET counts == Cardinality(UNION {{k} \X {j \in DOMAIN allEvents[k].counted :
                                                       allEvents[k].counted[j] = p} :
                                                 k \in DOMAIN allEvents})
            IN  /\ counts <= Len(allEvents) + Cardinality(met)
                /\ Len(allEvents) <= counts + Cardinality(met)

\* event.groups[_preprocessorId], which add_event and remove_events of the columns
\* read unchecked, exists in every settled entry and is the group of that preprocessor.
GroupsInPlace ==
    \A k \in DOMAIN allEvents : Settled(allEvents[k]) =>
        \A p \in DOMAIN preprocessors :
            p \in DOMAIN allEvents[k].groups /\ allEvents[k].groups[p] = p

\* An inference of the model in service finds a preprocessor for every input: one
\* that is registered (but for the moment between the two statements that register
\* it), was made for this input, and by this plan or by a later one.  Of a later
\* plan it is only if that was loaded in part: a model just loaded has its own.
ServedInputs ==
    serving # 0 =>
        \A i \in Inputs :
            /\ idMap[i] \in 1 .. Len(preprocessors) \/ (at = "push" /\ i = input)
            /\ idMap[i] \in 1 .. Len(preprocessors) =>
                 /\ preprocessors[idMap[i]].input = i
                 /\ preprocessors[idMap[i]].load >= serving
            /\ serving = loads => preprocessors[idMap[i]].load = serving
=============================================================================
