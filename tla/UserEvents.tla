----------------------------- MODULE UserEvents -----------------------------
(***************************************************************************)
(* One table of user events with one preprocessor: the SQLite table, the   *)
(* in-memory copy _allEvents, and a TimeBasedRollingWindow with a column   *)
(* of every operator per group.  Calls are taken one at a time here (see   *)
(* ModelInputs for the race of add_event with create_preprocessor), while  *)
(* the wall clock moves between any two steps, also inside the loop of     *)
(* TableStore::create_preprocessor.  The process may end at any step; the  *)
(* rows in the database stay.                                              *)
(***************************************************************************)
EXTENDS AggregateColumn

CONSTANTS
    Groups, Values,         \* what an event may carry
    Window,                 \* rollingWindowsInSecs
    Expiry,                 \* expiryInMins * 60
    Schemas, NoSchema,      \* table schemas a configuration may ask for
    MaxLag,                 \* bound: seconds add_event spends before add_row
    MaxClock, MaxEvents, MaxStops   \* bounds

ASSUME UserEventsAssumption ==
    /\ Window \in Nat /\ Expiry \in Nat /\ MaxLag \in Nat
    /\ NoSchema \notin Schemas
    /\ Values \subseteq Int         \* columns of an integer T

VARIABLES
    clock,          \* time(NULL)
    dbSchema,       \* schema of the table in the database
    rows,           \* its rows, in the order of TIMESTAMP
    open,           \* the table is in _tableStoreMap (implies a running process)
    running,
    ready,          \* _isReadyToBeFilled
    allEvents,      \* _allEvents
    cut, missed,    \* history: a SELECT that failed brought cut rows, and left out the missed
                    \* rows after them
    phase,          \* preprocessor: "none", "filling" (loop of create_preprocessor), "ready"
    fillIdx,        \* next event that loop adds
    win,            \* the rolling window and its columns
    added,          \* history: events accepted so far
    accepted,       \* history: id and time of the events add_event returned true for
    undefined,      \* history: this process read allEvents[-1] or divided by zero
    stops

gapVars == <<cut, missed>>
memVars == <<ready, allEvents, gapVars, phase, fillIdx, win, undefined>>
vars == <<clock, dbSchema, rows, open, running, memVars, added, accepted, stops>>

\* TimeBasedRollingWindow: _oldestIndex (0 for the code's -1), the groups and
\* their columns; history: the events counted since the last removal, and the
\* groups that had an event left out after one that was counted.
NewWindow ==
    [oldest |-> 0, seen |-> {},
     cols |-> [g \in Groups |-> [op \in Operators |-> NewColumn]],
     counted |-> {}, spoiled |-> {}]

InWindow(e) == clock - e.ts <= Window

-----------------------------------------------------------------------------
\* The columns of a group after one more event.
AddToColumns(columns, events, i) ==
    [op \in Operators |-> AddToColumn(op, columns[op], events, i)]

\* PreProcessor::add_event and TimeBasedRollingWindow::add_event.
AddToWindow(w, events, i) ==
    LET g == events[i].group
        known == [w EXCEPT !.seen = @ \cup {g}]
    IN  IF InWindow(events[i])
          THEN [known EXCEPT
                  !.oldest = IF @ = 0 THEN i ELSE @,
                  !.cols[g] = AddToColumns(@, events, i),
                  !.counted = @ \cup {i}]
          ELSE [known EXCEPT
                  !.spoiled = IF \E op \in Operators : w.cols[g][op].oldest # 0
                                THEN @ \cup {g} ELSE @]

AddDividesByZero(w, g, ts) ==
    clock - ts <= Window /\ \E op \in Operators : DividesByZero(op, w.cols[g][op])

\* The first event from _oldestIndex on that is still in the window, if any.
StillValid(w, events) ==
    {i \in 1 .. Len(events) : w.oldest # 0 /\ i >= w.oldest /\ InWindow(events[i])}

\* Fault variant of ValidIndex: the loop stops before the last event.
ValidIndexShort(w, events) == IF w.oldest = 0 THEN 0 ELSE Len(events)

\* _oldestIndex after the loop of update_window (which -1 does not enter).
ValidIndex(w, events) == IF w.oldest = 0 THEN 0 ELSE Len(events) + 1

\* Fault variant of UpdateWindow: the columns are emptied as soon as one expired.
UpdateWindowEager(w, events) ==
    LET valid == ValidIndex(w, events) IN
    [w EXCEPT !.oldest = valid,
              !.cols = [g \in Groups |->
                          IF g \in w.seen
                            THEN [op \in Operators |->
                                    RemoveFromColumn(op, w.cols[g][op], events, g, valid)]
                            ELSE w.cols[g]],
              !.counted = {i \in @ : i >= valid}]

\* update_window: it returns at the first event that is still valid, and reaches
\* remove_events only when every event has expired.
UpdateWindow(w, events) ==
    LET valid == ValidIndex(w, events) IN
    IF StillValid(w, events) # {}
      THEN [w EXCEPT !.oldest = Min(StillValid(w, events))]
      ELSE [w EXCEPT !.oldest = valid,
                     !.cols = [g \in Groups |->
                                 IF g \in w.seen
                                   THEN [op \in Operators |->
                                           RemoveFromColumn(op, w.cols[g][op], events, g, valid)]
                                   ELSE w.cols[g]],
                     !.counted = {i \in @ : i >= valid}]

UpdateReadsOutOfBounds(w, events) ==
    /\ StillValid(w, events) = {}
    /\ \E g \in w.seen, op \in Operators :
          ReadsOutOfBounds(op, w.cols[g][op], ValidIndex(w, events))

-----------------------------------------------------------------------------
Init ==
    /\ clock = 0 /\ dbSchema = NoSchema /\ rows = <<>>
    /\ open = FALSE /\ running = FALSE /\ ready = FALSE /\ allEvents = <<>>
    /\ cut = 0 /\ missed = 0
    /\ phase = "none" /\ fillIdx = 1 /\ win = NewWindow
    /\ added = 0 /\ accepted = {} /\ undefined = FALSE /\ stops = 0

\* Fault variant of DeleteOldRows: minutes taken for seconds, nearly all rows go.
DeleteAllRows(rs) ==
    SubSeq(rs, Min({i \in 1 .. Len(rs) + 1 : i > Len(rs) \/ rs[i].ts > clock}), Len(rs))

\* delete_old_rows_from_table_in_db, which takes rows from the front.
DeleteOldRows(rs) ==
    SubSeq(rs, Min({i \in 1 .. Len(rs) + 1 : i > Len(rs) \/ rs[i].ts >= clock - Expiry}), Len(rs))

\* UserEventsManager for a configuration with schema s and debug flag: create_table_in_db
\* and create_table.
Start(s, debug) ==
    LET differs == dbSchema \notin {NoSchema, s} IN
    /\ ~running
    /\ running' = TRUE
    /\ \/ \* A table of another schema is dropped, in debug mode only, and made anew; in
          \* one of the same schema old rows are deleted, unless DELETE fails.
          /\ differs => debug
          /\ open' = TRUE /\ dbSchema' = s
          /\ IF differs THEN rows' = <<>> /\ accepted' = {}
                        ELSE rows' \in {rows, DeleteOldRows(rows)} /\ UNCHANGED accepted
       \/ \* The other schema is refused, DROP fails, or the schema cannot be read, so that
          \* CREATE meets the table that is there.
          /\ open' = FALSE
          /\ UNCHANGED <<dbSchema, rows, accepted>>
       \/ \* CREATE fails.
          /\ dbSchema # s /\ (differs => debug)
          /\ open' = FALSE /\ dbSchema' = NoSchema /\ rows' = <<>> /\ accepted' = {}
    /\ UNCHANGED <<clock, memVars, added, stops>>

\* add_event: the timestamp of the TableRow is taken first, INSERT writes a later
\* reading of the clock, then add_row copies the event if the table is filled and
\* hands it to the preprocessor if there is one.
AddEvent(g, v, lag) ==
    /\ open /\ phase # "filling"
    /\ added < MaxEvents
    /\ lag <= clock
    /\ LET e == [id |-> added + 1, ts |-> clock - lag, group |-> g, val |-> v]
       IN  /\ rows' = Append(rows, [e EXCEPT !.ts = clock])
           /\ accepted' = accepted \cup {[id |-> e.id, ts |-> e.ts]}
           /\ allEvents' = IF ready THEN Append(allEvents, e) ELSE allEvents
    /\ win' = IF phase = "ready" THEN AddToWindow(win, allEvents', Len(allEvents'))
                                 ELSE win
    /\ undefined' = \/ undefined
                    \/ phase = "ready" /\ AddDividesByZero(win, g, clock - lag)
    /\ added' = added + 1
    /\ UNCHANGED <<clock, dbSchema, open, running, ready, gapVars, phase, fillIdx, stops>>

\* Fault variant of BeginCreate: the table is read for every new preprocessor.
BeginCreateRereads ==
    /\ open /\ phase # "filling"
    /\ ready' = TRUE
    /\ allEvents' = allEvents \o rows
    /\ phase' = "filling" /\ fillIdx' = 1 /\ win' = NewWindow
    /\ UNCHANGED <<clock, dbSchema, rows, open, running, gapVars, added, accepted, undefined, stops>>

\* UserEventsManager::create_preprocessor, for the first model or a newer one:
\* on the first call the rows are read into memory; a new PreProcessor is made.
BeginCreate ==
    /\ open /\ phase # "filling"
    /\ ready' = TRUE
    /\ allEvents' = IF ready THEN allEvents ELSE rows
    /\ phase' = "filling" /\ fillIdx' = 1 /\ win' = NewWindow
    /\ UNCHANGED <<clock, dbSchema, rows, open, running, gapVars, added, accepted, undefined, stops>>

\* The first call fails: the SELECT returns an error after n rows, or, with all of them
\* read, the columns are not those of the table.  No preprocessor is made, but the flag
\* is set for good: no later call reads the table.
FailCreate(n) ==
    /\ open /\ ~ready
    /\ ready' = TRUE
    /\ allEvents' = SubSeq(rows, 1, n)
    /\ cut' = n /\ missed' = Len(rows) - n
    /\ UNCHANGED <<clock, dbSchema, rows, open, running, phase, fillIdx, win, added, accepted,
                   undefined, stops>>

\* One turn of the loop of TableStore::create_preprocessor.
FillStep ==
    /\ phase = "filling" /\ fillIdx <= Len(allEvents)
    /\ win' = AddToWindow(win, allEvents, fillIdx)
    /\ fillIdx' = fillIdx + 1
    /\ UNCHANGED <<clock, dbSchema, rows, open, running, ready, allEvents, gapVars, phase,
                   added, accepted, undefined, stops>>

\* The preprocessor is registered: from now on it is fed and read.
FillDone ==
    /\ phase = "filling" /\ fillIdx > Len(allEvents)
    /\ phase' = "ready"
    /\ UNCHANGED <<clock, dbSchema, rows, open, running, ready, allEvents, gapVars, fillIdx,
                   win, added, accepted, undefined, stops>>

\* get_model_input.  After a read of allEvents[-1] that the process survives, the
\* garbage is taken for an event of another group and the loop goes on.
GetModelInput ==
    /\ phase = "ready"
    /\ win' = UpdateWindow(win, allEvents)
    /\ undefined' = (undefined \/ UpdateReadsOutOfBounds(win, allEvents))
    /\ UNCHANGED <<clock, dbSchema, rows, open, running, ready, allEvents, gapVars, phase,
                   fillIdx, added, accepted, stops>>

\* The process ends, by itself or because of something undefined it just did.
Stop ==
    /\ running /\ stops < MaxStops
    /\ stops' = stops + 1
    /\ running' = FALSE /\ open' = FALSE /\ ready' = FALSE /\ allEvents' = <<>>
    /\ cut' = 0 /\ missed' = 0
    /\ phase' = "none" /\ fillIdx' = 1 /\ win' = NewWindow /\ undefined' = FALSE
    /\ UNCHANGED <<clock, dbSchema, rows, added, accepted>>

Tick ==
    /\ clock < MaxClock
    /\ clock' = clock + 1
    /\ UNCHANGED <<dbSchema, rows, open, running, memVars, added, accepted, stops>>

Next ==
    \/ \E s \in Schemas, debug \in BOOLEAN : Start(s, debug)
    \/ \E g \in Groups, v \in Values, lag \in 0 .. MaxLag : AddEvent(g, v, lag)
    \/ BeginCreate \/ FillStep \/ FillDone
    \/ \E n \in 0 .. Len(rows) : FailCreate(n)
    \/ GetModelInput
    \/ Stop \/ Tick

Spec == Init /\ [][Next]_vars

-----------------------------------------------------------------------------
(* Properties.                                                              *)

OfGroup(g) == {i \in 1 .. Len(allEvents) : allEvents[i].group = g}

\* A row that a failed SELECT did not deliver.
LeftOut(a) == \E j \in cut + 1 .. cut + missed : rows[j].id = a.id

\* No event is lost to inference: every event add_event accepted whose time is
\* inside the window is counted by the preprocessor, however the INSERT, the
\* deletion of old rows, restarts, schema changes outside debug mode, reloading,
\* re-creation, removal of expired events and the clock interleave.  All a failed SELECT
\* takes away are the rows it did not deliver, and those only until the restart.
NoFreshEventMissing ==
    (phase = "ready" /\ Window <= Expiry) =>
        \A a \in accepted :
            InWindow(a) => (\E i \in win.counted : allEvents[i].id = a.id) \/ LeftOut(a)

\* The features a group has are the aggregates of exactly the events counted for
\* it, as long as no event was left out behind a counted one (clock moving in the
\* loop of create_preprocessor, a slow INSERT) and nothing undefined was done.
StoreMatchesCounted ==
    \A g \in win.seen \ win.spoiled, op \in Operators :
        ~undefined => win.cols[g][op].store = Aggregate(op, allEvents, win.counted \cap OfGroup(g))

\* _allEvents mirrors the database once it was filled: the same events, in the
\* same order, so that a restart changes no index; after a SELECT that failed all of
\* them but the rows it left out, which stay one gap however many events follow.
MemoryMirrorsTable ==
    ready => /\ Len(rows) = Len(allEvents) + missed
             /\ \A i \in DOMAIN allEvents :
                    allEvents[i].id = rows[IF i <= cut THEN i ELSE i + missed].id

\* The comment in update_window: when get_model_input returns, no event that has
\* expired is in the aggregates it returns.
ReturnsCurrentWindow ==
    [][GetModelInput /\ ~undefined' /\ win.spoiled = {} =>
         \A g \in win.seen, op \in Operators :
             win'.cols[g][op].store
               = Aggregate(op, allEvents, {i \in OfGroup(g) : InWindow(allEvents[i])})]_vars

\* What remains of that promise: once every event has expired, the next get_model_input
\* returns the default values for the groups of which no event was left out behind a
\* counted one, unless the process has read allEvents[-1] or divided by zero.
ExpiredForgotten ==
    [][GetModelInput /\ ~undefined' /\ (\A i \in DOMAIN allEvents : ~InWindow(allEvents[i])) =>
         \A g \in win.seen \ win.spoiled, op \in Operators : win'.cols[g][op].store = Default]_vars

\* get_model_input reads outside _allEvents, or an average divides by zero, only
\* after every event that was counted for some group had expired at once: until the
\* first event of the table leaves the window nothing undefined happens.
DefinedUntilExpiry ==
    undefined => \E i \in DOMAIN allEvents : ~InWindow(allEvents[i])
=============================================================================
