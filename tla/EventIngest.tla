---------------------------- MODULE EventIngest ----------------------------
(***************************************************************************)
(* What a table of user events promises about the way of an event into     *)
(* memory, whatever models are loaded meanwhile: nothing is in memory      *)
(* until a preprocessor wants the table; then a reading of the table       *)
(* brings the events that are in it, each add_event that returns later     *)
(* brings its own, and only a reading that fails leaves events out.  Where *)
(* in _allEvents an event goes, the steps of an add_row, the constructors  *)
(* that open the table and their preprocessors are not part of it:         *)
(* ModelInputs has them, and implements this specification.                *)
(***************************************************************************)
EXTENDS Integers

CONSTANT Events         \* calls of add_event, on threads of their own

VARIABLES
    call,       \* per event, where its call of add_event is
    table,      \* unread, opened, being read, read
    owed,       \* events a reading under way has still to bring
    copies,     \* how often an event is in memory
    missed      \* events a reading that failed left out

ingestVars == <<call, table, owed, copies, missed>>

InTable == {e \in Events : call[e] \in {"inserted", "done"}}

IngestInit ==
    /\ call = [e \in Events |-> "new"]
    /\ table = "unread" /\ owed = {} /\ missed = {}
    /\ copies = [e \in Events |-> 0]

\* The event is in the table; not while the table is being read.
Accept(e) ==
    /\ call[e] = "new" /\ table # "reading"
    /\ call' = [call EXCEPT ![e] = "inserted"]
    /\ UNCHANGED <<table, owed, copies, missed>>

Refuse(e) ==
    /\ call[e] = "new"
    /\ call' = [call EXCEPT ![e] = "rejected"]
    /\ UNCHANGED <<table, owed, copies, missed>>

\* The event comes into memory unless nobody wants the table yet.
Return(e) ==
    /\ call[e] = "inserted"
    /\ call' = [call EXCEPT ![e] = "done"]
    /\ copies' = IF table = "unread" THEN copies ELSE [copies EXCEPT ![e] = @ + 1]
    /\ UNCHANGED <<table, owed, missed>>

Open ==
    /\ table = "unread" /\ table' = "opened"
    /\ UNCHANGED <<call, owed, copies, missed>>

Read ==
    /\ table = "opened" /\ table' = "reading"
    /\ owed' = InTable
    /\ UNCHANGED <<call, copies, missed>>

Bring(e) ==
    /\ e \in owed
    /\ owed' = owed \ {e}
    /\ copies' = [copies EXCEPT ![e] = @ + 1]
    /\ UNCHANGED <<call, table, missed>>

\* The reading is over.  What it did not bring, if it failed, stays out.
Close ==
    /\ table \in {"opened", "reading"} /\ table' = "read"
    /\ missed' = IF table = "opened" THEN InTable ELSE owed
    /\ owed' = {}
    /\ UNCHANGED <<call, copies>>

IngestNext ==
    \/ Open \/ Read \/ Close
    \/ \E e \in Events : Accept(e) \/ Refuse(e) \/ Return(e) \/ Bring(e)

IngestSpec == IngestInit /\ [][IngestNext]_ingestVars
=============================================================================
