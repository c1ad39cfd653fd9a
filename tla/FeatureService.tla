--------------------------- MODULE FeatureService ---------------------------
(***************************************************************************)
(* What the feature store promises to the inferences of one process: the   *)
(* vector in use and, per inference, the vector it computes on.  An        *)
(* inference computes on one vector from its first input to its end, and   *)
(* on the one in use.  That vector is replaced only between inferences, by *)
(* a complete one of a newer version, and is never withdrawn.  Only the    *)
(* saved copy a process starts with may have bytes of another version.     *)
(***************************************************************************)
EXTENDS Integers

CONSTANTS
    Readers,
    Versions,       \* numbered from 1 in the order of their publication
    Contents        \* what the bytes of a saved copy may be

VARIABLES
    running,
    current,        \* version and bytes of the vector in use
    computing       \* computing[h]: version and bytes of the vector h computes on

serviceVars == <<running, current, computing>>

NoVector == [version |-> 0, bytes |-> 0]
Complete(v) == [version |-> v, bytes |-> v]

Init ==
    /\ running = FALSE
    /\ current = NoVector
    /\ computing = [h \in Readers |-> NoVector]

\* A process starts with the saved copy, if there is one.
Start ==
    /\ ~running
    /\ running' = TRUE
    /\ current' \in {NoVector} \cup [version : Versions, bytes : Contents]
    /\ UNCHANGED computing

\* A newer vector comes in while nobody computes on the one in use.
Replace(v) ==
    /\ running
    /\ v > current.version
    /\ \A h \in Readers : computing[h] = NoVector
    /\ current' = Complete(v)
    /\ UNCHANGED <<running, computing>>

BeginInference(h) ==
    /\ running
    /\ current # NoVector /\ computing[h] = NoVector
    /\ computing' = [computing EXCEPT ![h] = current]
    /\ UNCHANGED <<running, current>>

EndInference(h) ==
    /\ computing[h] # NoVector
    /\ computing' = [computing EXCEPT ![h] = NoVector]
    /\ UNCHANGED <<running, current>>

Stop ==
    /\ running
    /\ running' = FALSE
    /\ current' = NoVector
    /\ computing' = [h \in Readers |-> NoVector]

Next ==
    \/ Start \/ Stop
    \/ \E v \in Versions : Replace(v)
    \/ \E h \in Readers : BeginInference(h) \/ EndInference(h)

Spec == Init /\ [][Next]_serviceVars
=============================================================================
