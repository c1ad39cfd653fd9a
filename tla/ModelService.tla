---------------------------- MODULE ModelService ----------------------------
(***************************************************************************)
(* What the plan machinery of the SDK promises to its users: per model,    *)
(* the version that inferences use.  While the SDK runs, a model that is   *)
(* served is never withdrawn; it is replaced only by the version the       *)
(* server announced last, and only as long as it is not fresh; a fresh     *)
(* model is left alone until the process ends.                             *)
(***************************************************************************)
CONSTANTS Models, Versions, None

VARIABLES running, serving, fresh, announced

serviceVars == <<running, serving, fresh, announced>>

Init ==
    /\ running = FALSE
    /\ serving = [m \in Models |-> None]
    /\ fresh = [m \in Models |-> FALSE]
    /\ announced = [m \in Models |-> None]

\* The SDK starts with whatever plans the device has.
Start ==
    /\ ~running
    /\ running' = TRUE
    /\ serving' \in [Models -> Versions \cup {None}]
    /\ UNCHANGED <<fresh, announced>>

\* The server names the current version of m.
Announce(m, v) ==
    /\ running /\ ~fresh[m]
    /\ announced' = [announced EXCEPT ![m] = v]
    /\ fresh' = [fresh EXCEPT ![m] = (serving[m] = v)]
    /\ UNCHANGED <<running, serving>>

\* The announced version takes the place of what m served.
Replace(m) ==
    /\ running /\ ~fresh[m] /\ announced[m] # None
    /\ serving' = [serving EXCEPT ![m] = announced[m]]
    /\ fresh' = [fresh EXCEPT ![m] = TRUE]
    /\ UNCHANGED <<running, announced>>

Stop ==
    /\ running
    /\ running' = FALSE
    /\ serving' = [m \in Models |-> None]
    /\ fresh' = [m \in Models |-> FALSE]
    /\ announced' = [m \in Models |-> None]

Next ==
    \/ Start \/ Stop
    \/ \E m \in Models : Replace(m) \/ \E v \in Versions : Announce(m, v)

Spec == Init /\ [][Next]_serviceVars
=============================================================================
