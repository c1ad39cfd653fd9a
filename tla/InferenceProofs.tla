-------------------------- MODULE InferenceProofs --------------------------
(***************************************************************************)
(* Proofs about Inference for a host that makes one call at a time, for    *)
(* any numbers of calls and plans and any size of the ring of saved inputs.*)
(***************************************************************************)
EXTENDS Inference, TLAPS

Places == {"idle", "lookup", "clear", "lock", "inputs", "run", "saveInputs", "saveId", "advance",
           "exit", "readLookup", "read", "find", "populate"}

\* The actions, as cases of a proof.
LEMMA StepCases ==
    ASSUME [Next]_vars
    PROVE  \/ LoadPlan \/ UNCHANGED vars
           \/ \E h \in Hosts :
                \/ CheckPlanLoaded(h) \/ AskModel(h) \/ \E c \in Calls : AskInputs(h, c)
                \/ Lookup(h) \/ ClearOutputs(h) \/ LockModel(h)
                \/ InputsFail(h) \/ AllocateOutput(h) \/ Run(h) \/ RunFails(h)
                \/ SaveInputs(h) \/ SaveId(h) \/ Advance(h) \/ SaveNothing(h)
                \/ ExitInference(h) \/ ReadLookup(h) \/ ReadVersion(h)
                \/ FindInputs(h) \/ Populate(h)
BY DEF Next, HostCall, CallStep

-----------------------------------------------------------------------------
(* Types, and the one thread that is in a call.                             *)

ModelTypes ==
    /\ loads \in 0 .. MaxLoads /\ current = loads
    /\ destroyed = {o \in Objects : o < current}
    /\ calls \in 0 .. MaxCalls

ThreadTypes ==
    /\ pc \in [Hosts -> Places]
    /\ call \in [Hosts -> Nat]
    /\ obj \in [Hosts -> Nat]
    /\ failed \in [Hosts -> BOOLEAN]
    /\ filled \in [Hosts -> Nat]
    /\ found \in [Hosts -> Nat]

\* One call at a time, of a number that was given out, in an object that was made.
SerialInv ==
    /\ HostSerialises
    /\ \A g, h \in Hosts : pc[g] # "idle" /\ pc[h] # "idle" => g = h
    /\ \A h \in Hosts :
        /\ obj[h] <= loads
        /\ pc[h] \notin {"idle", "readLookup", "read"} => call[h] \in Calls
        /\ pc[h] = "lookup" => current # 0
        /\ InInference(h) => obj[h] \in Objects

ActiveInv == ModelTypes /\ ThreadTypes /\ SerialInv

\* One call at a time stays one call at a time, in an object that was made.
LEMMA ActiveStep == ActiveInv /\ [Next]_vars => ActiveInv'
<1> SUFFICES ASSUME ActiveInv, [Next]_vars PROVE ActiveInv'
  OBVIOUS
<1> USE InferenceAssumption DEF ActiveInv, ModelTypes, ThreadTypes, SerialInv, Objects, Calls
<1>1. CASE UNCHANGED vars
  BY <1>1 DEF vars, modelVars, resultVars, InInference
<1>2. CASE LoadPlan
  <2>1. destroyed' = {o \in Objects : o < current'}
    BY <1>2 DEF LoadPlan
  <2>2. ModelTypes'
    BY <1>2, <2>1 DEF LoadPlan
  <2>3. UNCHANGED <<pc, call, obj, failed, filled, found>>
    BY <1>2 DEF LoadPlan, resultVars
  <2>4. loads < loads' /\ current' # 0
    BY <1>2 DEF LoadPlan
  <2> QED BY <2>2, <2>3, <2>4 DEF InInference
<1>3. ASSUME NEW h \in Hosts, CheckPlanLoaded(h) \/ AskModel(h) \/ \E c \in Calls : AskInputs(h, c)
      PROVE  ActiveInv'
  <2> USE DEF modelVars, resultVars, InInference, Places, HostCalls
  <2>1. CASE CheckPlanLoaded(h)
    BY <2>1 DEF CheckPlanLoaded
  <2>2. CASE AskModel(h)
    BY <2>2 DEF AskModel, CheckModel
  <2>3. ASSUME NEW c \in Calls, AskInputs(h, c) PROVE ActiveInv'
    BY <2>3 DEF AskInputs
  <2> QED BY <1>3, <2>1, <2>2, <2>3
<1>4. ASSUME NEW h \in Hosts,
             \/ Lookup(h) \/ ClearOutputs(h) \/ LockModel(h) \/ InputsFail(h) \/ AllocateOutput(h)
             \/ Run(h) \/ RunFails(h)
      PROVE  ActiveInv'
  <2> USE DEF modelVars, resultVars, InInference, Places
  <2>1. CASE Lookup(h)
    BY <2>1 DEF Lookup
  <2>2. CASE ClearOutputs(h)
    BY <2>2 DEF ClearOutputs
  <2>3. CASE LockModel(h)
    BY <2>3 DEF LockModel
  <2>4. CASE InputsFail(h)
    BY <2>4 DEF InputsFail
  <2>5. CASE AllocateOutput(h)
    BY <2>5 DEF AllocateOutput
  <2>6. CASE Run(h)
    BY <2>6 DEF Run
  <2>7. CASE RunFails(h)
    BY <2>7 DEF RunFails
  <2> QED BY <1>4, <2>1, <2>2, <2>3, <2>4, <2>5, <2>6, <2>7
<1>5. ASSUME NEW h \in Hosts,
             \/ SaveInputs(h) \/ SaveId(h) \/ Advance(h) \/ SaveNothing(h) \/ ExitInference(h)
             \/ ReadLookup(h) \/ ReadVersion(h) \/ FindInputs(h) \/ Populate(h)
      PROVE  ActiveInv'
  <2> USE DEF modelVars, resultVars, InInference, Places
  <2>1. CASE SaveInputs(h)
    BY <2>1 DEF SaveInputs
  <2>2. CASE SaveId(h)
    BY <2>2 DEF SaveId
  <2>3. CASE Advance(h)
    BY <2>3 DEF Advance, Return
  <2>4. CASE SaveNothing(h)
    BY <2>4 DEF SaveNothing, Return
  <2>5. CASE ExitInference(h)
    BY <2>5 DEF ExitInference, CheckModel
  <2>6. CASE ReadLookup(h)
    BY <2>6 DEF ReadLookup
  <2>7. CASE ReadVersion(h)
    BY <2>7 DEF ReadVersion
  <2>8. CASE FindInputs(h)
    BY <2>8 DEF FindInputs, Slots
  <2>9. CASE Populate(h)
    BY <2>9 DEF Populate
  <2> QED BY <1>5, <2>1, <2>2, <2>3, <2>4, <2>5, <2>6, <2>7, <2>8, <2>9
<1> QED BY StepCases, <1>1, <1>2, <1>3, <1>4, <1>5

\* The host has made no call yet.
LEMMA ActiveInit == Init /\ HostSerialises => ActiveInv
BY InferenceAssumption DEF Init, ActiveInv, ModelTypes, ThreadTypes, SerialInv, Objects, Calls,
   Places, InInference

-----------------------------------------------------------------------------
(* The output of a call.                                                    *)

\* What _outputTensors of the object in use holds at each place, and why only a
\* destroyed object lets Run write elsewhere.
OutputInv ==
    /\ outs \in [Objects -> Seq(Nat)]
    /\ written \in [Calls -> Nat]
    /\ \A h \in Hosts :
        /\ pc[h] \in {"lock", "inputs"} => outs[obj[h]] = <<>>
        /\ pc[h] = "run" => outs[obj[h]] = <<call[h]>>
        /\ InInference(h) /\ obj[h] \in destroyed => call[h] \in overtaken
    /\ \A c \in Calls : written[c] # c => c \in overtaken

\* While a call allocates and runs, _outputTensors holds its memory alone.
LEMMA OutputStep == ActiveInv /\ OutputInv /\ [Next]_vars => OutputInv'
<1> SUFFICES ASSUME ActiveInv, OutputInv, [Next]_vars PROVE OutputInv'
  OBVIOUS
<1> USE InferenceAssumption DEF ActiveInv, ModelTypes, ThreadTypes, SerialInv, OutputInv, Objects, Calls
<1>1. CASE UNCHANGED vars
  BY <1>1 DEF vars, modelVars, resultVars, InInference
<1>2. CASE LoadPlan
  <2>1. /\ UNCHANGED <<pc, call, obj, written>>
        /\ outs' = [outs EXCEPT ![loads + 1] = <<0>>] /\ current' = loads + 1
        /\ destroyed' = IF current = 0 THEN destroyed ELSE destroyed \cup {current}
        /\ overtaken' = overtaken \cup {call[h] : h \in {g \in Hosts : InInference(g) /\ obj[g] = current}}
    BY <1>2 DEF LoadPlan
  <2>2. <<0>> \in Seq(Nat)
    OBVIOUS
  <2>3. outs' \in [Objects -> Seq(Nat)]
    BY <2>1, <2>2
  <2>4. ASSUME NEW h \in Hosts PROVE obj[h] # loads + 1 /\ (InInference(h) => outs'[obj[h]] = outs[obj[h]])
    BY <2>1
  <2>5. ASSUME NEW h \in Hosts, InInference(h), obj[h] \in destroyed' PROVE call[h] \in overtaken'
    BY <2>1, <2>5
  <2>6. ASSUME NEW h \in Hosts PROVE InInference(h)' = InInference(h)
    BY <2>1 DEF InInference
  <2> QED BY <2>1, <2>3, <2>4, <2>5, <2>6 DEF InInference
<1>3. ASSUME NEW h \in Hosts, UNCHANGED <<modelVars, outs, written>>,
             \A g \in Hosts : g # h => pc'[g] = pc[g] /\ obj'[g] = obj[g] /\ call'[g] = call[g],
             ~InInference(h)'
      PROVE  OutputInv'
  BY <1>3 DEF modelVars, InInference
<1>4. ASSUME NEW h \in Hosts, CheckPlanLoaded(h) \/ AskModel(h) \/ \E c \in Calls : AskInputs(h, c)
      PROVE  OutputInv'
  BY <1>3, <1>4 DEF CheckPlanLoaded, AskModel, CheckModel, AskInputs, HostCalls, InInference
<1>5. ASSUME NEW h \in Hosts,
             \/ SaveInputs(h) \/ SaveId(h) \/ Advance(h) \/ SaveNothing(h) \/ ExitInference(h)
             \/ ReadLookup(h) \/ ReadVersion(h) \/ FindInputs(h) \/ Populate(h) \/ InputsFail(h)
      PROVE  OutputInv'
  <2>1. /\ UNCHANGED <<modelVars, outs, written>>
        /\ \A g \in Hosts : g # h => pc'[g] = pc[g] /\ obj'[g] = obj[g] /\ call'[g] = call[g]
    BY <1>5 DEF SaveInputs, SaveId, Advance, SaveNothing, Return, ExitInference, CheckModel,
       ReadLookup, ReadVersion, FindInputs, Populate, InputsFail
  <2>2. pc'[h] \in {"saveInputs", "saveId", "advance", "exit", "idle", "readLookup", "read", "populate"}
    BY <1>5 DEF SaveInputs, SaveId, Advance, SaveNothing, Return, ExitInference, CheckModel,
       ReadLookup, ReadVersion, FindInputs, Populate, InputsFail
  <2>3. ~InInference(h)'
    BY <2>2 DEF InInference
  <2> QED BY <1>3, <2>1, <2>3
<1>6. ASSUME NEW h \in Hosts, Lookup(h) PROVE OutputInv'
  BY <1>6 DEF Lookup, modelVars, InInference
<1>7. ASSUME NEW h \in Hosts, ClearOutputs(h) PROVE OutputInv'
  <2>1. \A g \in Hosts : g # h => pc[g] = "idle" /\ pc'[g] = "idle"
    BY <1>7 DEF ClearOutputs
  <2>2. outs' = [outs EXCEPT ![obj[h]] = <<>>] /\ obj[h] \in Objects /\ <<>> \in Seq(Nat)
    BY <1>7 DEF ClearOutputs, InInference
  <2>3. outs' \in [Objects -> Seq(Nat)] /\ outs'[obj[h]] = <<>>
    BY <2>2
  <2> QED BY <1>7, <2>1, <2>3 DEF ClearOutputs, modelVars, InInference
<1>8. ASSUME NEW h \in Hosts, LockModel(h) PROVE OutputInv'
  BY <1>8 DEF LockModel, modelVars, InInference
<1>9. ASSUME NEW h \in Hosts, AllocateOutput(h) PROVE OutputInv'
  <2>1. \A g \in Hosts : g # h => pc[g] = "idle" /\ pc'[g] = "idle"
    BY <1>9 DEF AllocateOutput
  <2>2. /\ outs' = [outs EXCEPT ![obj[h]] = Append(@, call[h])]
        /\ outs[obj[h]] = <<>> /\ obj[h] \in Objects
    BY <1>9 DEF AllocateOutput, InInference
  <2>3. Append(<<>>, call[h]) = <<call[h]>> /\ <<call[h]>> \in Seq(Nat)
    OBVIOUS
  <2>4. outs' \in [Objects -> Seq(Nat)] /\ outs'[obj[h]] = <<call[h]>>
    BY <2>2, <2>3
  <2> QED BY <1>9, <2>1, <2>4 DEF AllocateOutput, modelVars, InInference
<1>10. ASSUME NEW h \in Hosts, Run(h) PROVE OutputInv'
  <2>1. PICK c \in RunTargets(h) : written' = [written EXCEPT ![call[h]] = c]
    BY <1>10 DEF Run
  <2>2. outs[obj[h]] = <<call[h]>> /\ call[h] \in Calls
    BY <1>10 DEF Run
  <2>3. c = call[h] \/ (c = 0 /\ call[h] \in overtaken)
    <3>1. Head(<<call[h]>>) = call[h] /\ <<call[h]>> # <<>>
      OBVIOUS
    <3> QED BY <1>10, <2>1, <2>2, <3>1 DEF RunTargets, Run, InInference
  <2>4. written' \in [Calls -> Nat] /\ \A d \in Calls : written'[d] # d => d \in overtaken
    BY <2>1, <2>2, <2>3
  <2> QED BY <1>10, <2>4 DEF Run, modelVars, InInference
<1>11. ASSUME NEW h \in Hosts, RunFails(h) PROVE OutputInv'
  BY <1>3, <1>11 DEF RunFails, InInference
<1> QED BY StepCases, <1>1, <1>2, <1>4, <1>5, <1>6, <1>7, <1>8, <1>9, <1>10, <1>11

\* With a host that makes one call at a time, a call's output is computed into its own
\* memory, over any history of errors, failed runs and updates of the plan.
THEOREM OutputSafety == Spec /\ HostSerialises => []OwnOutput
<1>1. Init => OutputInv
  BY InferenceAssumption DEF Init, OutputInv, InInference, Objects, Calls
<1>2. OutputInv => OwnOutput
  BY DEF OutputInv, OwnOutput
<1> QED BY <1>1, <1>2, ActiveInit, ActiveStep, OutputStep, PTL DEF Spec

-----------------------------------------------------------------------------
(* The ring of saved inputs.                                                *)

\* The position in saves of what slot i holds; below 1 for a slot not used yet.
Age(i) == Len(saves) - slot + i + 1 - (IF i < slot THEN 0 ELSE saved)

Saves(h) == pc[h] \in {"saveId", "advance"}
InFlight(h) == InInference(h) \/ pc[h] = "saveInputs" \/ Saves(h)

\* Slot i holds what was saved at Age(i), with pointers into the model in service if
\* that was a call of this model.
Held(i) ==
    /\ slotInputs[i].call = slotIds[i]
    /\ slotIds[i] = IF Age(i) >= 1 THEN saves[Age(i)] ELSE 0
    /\ Age(i) > Len(saves) - fresh => slotInputs[i].obj \in {0, current}

RingTypes ==
    /\ saved \in 0 .. MaxSaved
    /\ slot \in Nat /\ (slot < saved \/ slot = 0) /\ slot <= Len(saves)
    /\ saves \in Seq(Nat)
    /\ fresh \in Nat /\ fresh <= Len(saves)
    /\ slotInputs \in [Slots -> [call : Nat, obj : Nat]]
    /\ slotIds \in [Slots -> Nat]

RingInv ==
    /\ RingTypes
    /\ \A i \in Slots :
        /\ i >= saved => slotIds[i] = 0 /\ slotInputs[i].call = 0 /\ slotInputs[i].obj = 0
        /\ i < saved /\ (i # slot \/ \A h \in Hosts : ~Saves(h)) => Held(i)
    /\ \A h \in Hosts :
        /\ Saves(h) => saved > 0 /\ slotInputs[slot] = [call |-> call[h], obj |-> filled[h]]
        /\ pc[h] = "advance" => slotIds[slot] = call[h]
        /\ InFlight(h) => obj[h] = current \/ fresh = 0
        /\ pc[h] \in {"run", "saveInputs", "saveId", "advance"} => filled[h] \in {0, obj[h]}

\* What add_input_for_inferId computes as the next index.
LEMMA NextSlot ==
    ASSUME NEW n \in Nat, NEW k \in Nat, k < n
    PROVE  (k + 1) % n = IF k + 1 = n THEN 0 ELSE k + 1
<1>1. CASE k + 1 = n
  BY <1>1
<1>2. CASE k + 1 < n
  BY <1>2
<1> QED BY <1>1, <1>2

\* Actions that leave the ring alone.
LEMMA RingFrame ==
    ASSUME ActiveInv, RingInv, NEW h \in Hosts, UNCHANGED <<modelVars, slotVars>>,
           \A g \in Hosts : g # h => /\ pc'[g] = pc[g] /\ obj'[g] = obj[g]
                                     /\ call'[g] = call[g] /\ filled'[g] = filled[g],
           ~Saves(h), ~Saves(h)',
           InFlight(h)' => obj'[h] = current \/ fresh = 0,
           pc'[h] \in {"run", "saveInputs"} => filled'[h] \in {0, obj'[h]}
    PROVE  RingInv'
<1>1. \A g \in Hosts : Saves(g)' = Saves(g)
  BY DEF Saves
<1>2. \A i \in Slots : Held(i)' = Held(i)
  BY DEF Held, Age, modelVars, slotVars
<1>3. RingTypes'
  BY DEF RingInv, RingTypes, slotVars
<1>4. \A g \in Hosts : g # h => InFlight(g)' = InFlight(g)
  BY DEF InFlight, InInference, Saves
<1>5. ASSUME NEW i \in Slots
      PROVE  (/\ i >= saved => slotIds[i] = 0 /\ slotInputs[i].call = 0 /\ slotInputs[i].obj = 0
              /\ i < saved /\ (i # slot \/ \A g \in Hosts : ~Saves(g)) => Held(i))'
  BY <1>1, <1>2 DEF RingInv, slotVars
<1>6. ASSUME NEW g \in Hosts
      PROVE  (/\ Saves(g) => saved > 0 /\ slotInputs[slot] = [call |-> call[g], obj |-> filled[g]]
              /\ pc[g] = "advance" => slotIds[slot] = call[g]
              /\ InFlight(g) => obj[g] = current \/ fresh = 0
              /\ pc[g] \in {"run", "saveInputs", "saveId", "advance"} => filled[g] \in {0, obj[g]})'
  <2>1. CASE g = h
    BY <1>1, <2>1 DEF modelVars, slotVars, Saves
  <2>2. CASE g # h
    BY <1>1, <1>4, <2>2 DEF RingInv, modelVars, slotVars
  <2> QED BY <2>1, <2>2
<1> QED BY <1>3, <1>5, <1>6 DEF RingInv

\* add_input_for_inferId moves the ring on by one call in three assignments, and no other
\* step changes it.
LEMMA RingStep == ActiveInv /\ RingInv /\ [Next]_vars => RingInv'
<1> SUFFICES ASSUME ActiveInv, RingInv, [Next]_vars PROVE RingInv'
  OBVIOUS
<1> USE InferenceAssumption
<1>0. /\ pc \in [Hosts -> Places] /\ call \in [Hosts -> Nat] /\ obj \in [Hosts -> Nat]
      /\ failed \in [Hosts -> BOOLEAN] /\ filled \in [Hosts -> Nat] /\ current \in Nat
  BY DEF ActiveInv, ModelTypes, ThreadTypes
<1>13. /\ saved \in Nat /\ saved <= MaxSaved /\ MaxSaved \in Nat /\ slot \in Nat
       /\ slot < saved \/ slot = 0
       /\ slot <= Len(saves) /\ Len(saves) \in Nat /\ saves \in Seq(Nat)
       /\ fresh \in Nat /\ fresh <= Len(saves)
       /\ \A i \in Slots : i \in Nat
  BY DEF RingInv, RingTypes, Slots
<1>14. ASSUME NEW h \in Hosts, Saves(h) \/ (pc[h] = "saveInputs" /\ saved > 0),
              NEW q, pc' = [pc EXCEPT ![h] = q]
       PROVE  /\ slot < saved /\ slot \in Slots
              /\ \A g \in Hosts : g # h => pc[g] = "idle" /\ pc'[g] = "idle"
  <2>1. saved > 0 /\ pc[h] # "idle"
    BY <1>14 DEF RingInv, Saves
  <2>2. slot < saved /\ slot \in Slots
    BY <1>13, <2>1 DEF Slots
  <2>3. \A g \in Hosts : g # h => pc[g] = "idle"
    BY <2>1 DEF ActiveInv, SerialInv
  <2> QED BY <1>0, <1>14, <2>2, <2>3
<1>1. CASE UNCHANGED vars
  BY <1>1 DEF vars, modelVars, slotVars, resultVars, RingInv, RingTypes, Held, Age, Saves, InFlight,
     InInference
<1>2. CASE LoadPlan
  <2>1. /\ UNCHANGED <<pc, call, obj, filled, slotInputs, slotIds, saved, slot, saves>> /\ fresh' = 0
    BY <1>2 DEF LoadPlan, resultVars
  <2>2. RingTypes'
    BY <2>1 DEF RingInv, RingTypes
  <2>3. ASSUME NEW i \in Slots, i < saved, Held(i) PROVE Held(i)'
    <3>1. Age(i) \in Int /\ Age(i) <= Len(saves) /\ Len(saves) \in Nat
      BY <2>3, <1>13 DEF Age
    <3>2. Age(i)' = Age(i)
      BY <2>1 DEF Age
    <3>3. ~(Age(i) > Len(saves) - 0)
      BY <3>1
    <3> QED BY <2>1, <2>3, <3>2, <3>3 DEF Held
  <2> QED BY <2>1, <2>2, <2>3 DEF RingInv, Saves, InFlight, InInference
<1>3. ASSUME NEW h \in Hosts, CheckPlanLoaded(h) \/ AskModel(h) \/ \E c \in Calls : AskInputs(h, c)
      PROVE  RingInv'
  BY <1>0, <1>3, RingFrame DEF CheckPlanLoaded, AskModel, CheckModel, AskInputs, HostCalls,
     resultVars, Saves, InFlight, InInference
<1>4. ASSUME NEW h \in Hosts,
             ExitInference(h) \/ ReadLookup(h) \/ ReadVersion(h) \/ FindInputs(h) \/ Populate(h)
      PROVE  RingInv'
  BY <1>0, <1>4, RingFrame DEF ExitInference, CheckModel, ReadLookup, ReadVersion, FindInputs,
     Populate, resultVars, Saves, InFlight, InInference
<1>5. ASSUME NEW h \in Hosts, Lookup(h) PROVE RingInv'
  BY <1>0, <1>5, RingFrame DEF Lookup, resultVars, Saves, InFlight, InInference
<1>6. ASSUME NEW h \in Hosts, InInference(h) PROVE obj[h] = current \/ fresh = 0
  BY <1>6 DEF RingInv, InFlight
<1>7. ASSUME NEW h \in Hosts,
             \/ ClearOutputs(h) \/ LockModel(h) \/ InputsFail(h) \/ AllocateOutput(h) \/ Run(h) \/ RunFails(h)
      PROVE  RingInv'
  <2> USE <1>0 DEF resultVars, Saves, InFlight, InInference
  <2>1. CASE ClearOutputs(h)
    BY <1>6, <2>1, RingFrame DEF ClearOutputs
  <2>2. CASE LockModel(h)
    BY <1>6, <2>2, RingFrame DEF LockModel
  <2>3. CASE InputsFail(h)
    <3>1. PICK o \in {0, obj[h]} : filled' = [filled EXCEPT ![h] = o]
      BY <2>3 DEF InputsFail
    <3> QED BY <1>6, <2>3, <3>1, RingFrame DEF InputsFail
  <2>4. CASE AllocateOutput(h)
    <3>1. PICK o \in {0, obj[h]} : filled' = [filled EXCEPT ![h] = o]
      BY <2>4 DEF AllocateOutput
    <3> QED BY <1>6, <2>4, <3>1, RingFrame DEF AllocateOutput
  <2>5. CASE Run(h)
    <3>1. filled[h] \in {0, obj[h]}
      BY <2>5 DEF Run, RingInv
    <3> QED BY <1>6, <2>5, <3>1, RingFrame DEF Run
  <2>6. CASE RunFails(h)
    <3>1. filled[h] \in {0, obj[h]}
      BY <2>6 DEF RunFails, RingInv
    <3> QED BY <1>6, <2>6, <3>1, RingFrame DEF RunFails
  <2> QED BY <1>7, <2>1, <2>2, <2>3, <2>4, <2>5, <2>6
<1>8. ASSUME NEW h \in Hosts, SaveNothing(h) PROVE RingInv'
  BY <1>0, <1>8, RingFrame DEF SaveNothing, Return, resultVars, Saves, InFlight, InInference, RingInv
<1>10. ASSUME NEW h \in Hosts, SaveInputs(h) PROVE RingInv'
  <2>1. /\ pc[h] = "saveInputs" /\ saved > 0 /\ pc' = [pc EXCEPT ![h] = "saveId"]
        /\ slotInputs' = [slotInputs EXCEPT ![slot] = [call |-> call[h], obj |-> filled[h]]]
        /\ UNCHANGED <<current, call, obj, filled, slotIds, saved, slot, saves, fresh>>
    BY <1>10 DEF SaveInputs, modelVars, resultVars
  <2>2. slot \in Slots /\ slot < saved /\ \A g \in Hosts : g # h => pc[g] = "idle" /\ pc'[g] = "idle"
    BY <1>14, <2>1
  <2>3. RingTypes' /\ slotInputs'[slot] = [call |-> call[h], obj |-> filled[h]]
    BY <1>0, <2>1, <2>2 DEF RingInv, RingTypes
  <2>4. \A g \in Hosts : ~Saves(g)
    BY <2>1, <2>2 DEF Saves
  <2>5. \A i \in Slots : i # slot => slotInputs'[i] = slotInputs[i] /\ Age(i)' = Age(i)
    BY <2>1, <2>2 DEF RingInv, RingTypes, Age
  <2>6. \A i \in Slots : i # slot /\ i < saved => Held(i)'
    BY <2>1, <2>4, <2>5 DEF RingInv, Held
  <2>7. Saves(h)' /\ pc'[h] = "saveId"
    BY <1>0, <2>1 DEF Saves
  <2>8. ASSUME NEW i \in Slots
        PROVE  (/\ i >= saved => slotIds[i] = 0 /\ slotInputs[i].call = 0 /\ slotInputs[i].obj = 0
                /\ i < saved /\ (i # slot \/ \A g \in Hosts : ~Saves(g)) => Held(i))'
    <3>1. i \in Nat /\ (i >= saved => i # slot)
      BY <1>13, <2>2
    <3> QED BY <2>1, <2>5, <2>6, <2>7, <3>1 DEF RingInv
  <2>9. ASSUME NEW g \in Hosts
        PROVE  (/\ Saves(g) => saved > 0 /\ slotInputs[slot] = [call |-> call[g], obj |-> filled[g]]
                /\ pc[g] = "advance" => slotIds[slot] = call[g]
                /\ InFlight(g) => obj[g] = current \/ fresh = 0
                /\ pc[g] \in {"run", "saveInputs", "saveId", "advance"} => filled[g] \in {0, obj[g]})'
    <3>1. CASE g # h
      BY <2>2, <3>1 DEF Saves, InFlight, InInference
    <3>2. CASE g = h
      <4>1. (obj[h] = current \/ fresh = 0) /\ filled[h] \in {0, obj[h]} /\ saved > 0
        BY <2>1, <3>2 DEF RingInv, InFlight, Saves
      <4> QED BY <2>1, <2>3, <2>7, <3>2, <4>1
    <3> QED BY <3>1, <3>2
  <2> QED BY <2>3, <2>8, <2>9 DEF RingInv
<1>11. ASSUME NEW h \in Hosts, SaveId(h) PROVE RingInv'
  <2>1. /\ pc[h] = "saveId" /\ pc' = [pc EXCEPT ![h] = "advance"]
        /\ slotIds' = [slotIds EXCEPT ![slot] = call[h]]
        /\ UNCHANGED <<current, call, obj, filled, slotInputs, saved, slot, saves, fresh>>
    BY <1>11 DEF SaveId, modelVars, resultVars
  <2>2. slot \in Slots /\ slot < saved /\ \A g \in Hosts : g # h => pc[g] = "idle" /\ pc'[g] = "idle"
    BY <1>14, <2>1 DEF Saves
  <2>3. RingTypes' /\ slotIds'[slot] = call[h]
    BY <1>0, <2>1, <2>2 DEF RingInv, RingTypes
  <2>5. \A i \in Slots : i # slot => slotIds'[i] = slotIds[i] /\ Age(i)' = Age(i)
    BY <2>1, <2>2 DEF RingInv, RingTypes, Age
  <2>6. \A i \in Slots : i # slot /\ i < saved => Held(i)'
    BY <2>1, <2>5 DEF RingInv, Held
  <2>7. Saves(h)' /\ Saves(h)
    BY <1>0, <2>1 DEF Saves
  <2>8. ASSUME NEW i \in Slots
        PROVE  (/\ i >= saved => slotIds[i] = 0 /\ slotInputs[i].call = 0 /\ slotInputs[i].obj = 0
                /\ i < saved /\ (i # slot \/ \A g \in Hosts : ~Saves(g)) => Held(i))'
    <3>1. i \in Nat /\ (i >= saved => i # slot)
      BY <1>13, <2>2
    <3> QED BY <2>1, <2>5, <2>6, <2>7, <3>1 DEF RingInv
  <2>9. ASSUME NEW g \in Hosts
        PROVE  (/\ Saves(g) => saved > 0 /\ slotInputs[slot] = [call |-> call[g], obj |-> filled[g]]
                /\ pc[g] = "advance" => slotIds[slot] = call[g]
                /\ InFlight(g) => obj[g] = current \/ fresh = 0
                /\ pc[g] \in {"run", "saveInputs", "saveId", "advance"} => filled[g] \in {0, obj[g]})'
    <3>1. CASE g # h
      BY <2>2, <3>1 DEF Saves, InFlight, InInference
    <3>2. CASE g = h
      <4>1. (obj[h] = current \/ fresh = 0) /\ filled[h] \in {0, obj[h]}
            /\ saved > 0 /\ slotInputs[slot] = [call |-> call[h], obj |-> filled[h]]
        BY <2>1, <3>2 DEF RingInv, InFlight, Saves
      <4> QED BY <2>1, <2>3, <2>7, <3>2, <4>1
    <3> QED BY <3>1, <3>2
  <2> QED BY <2>3, <2>8, <2>9 DEF RingInv
<1>12. ASSUME NEW h \in Hosts, Advance(h) PROVE RingInv'
  <2> DEFINE n == Len(saves)
  <2>1. /\ pc[h] = "advance" /\ pc' = [pc EXCEPT ![h] = IF failed[h] THEN "exit" ELSE "idle"]
        /\ slot' = (slot + 1) % saved /\ saves' = Append(saves, call[h])
        /\ fresh' = IF obj[h] = current THEN fresh + 1 ELSE fresh
        /\ UNCHANGED <<current, call, obj, filled, slotInputs, slotIds, saved>>
    BY <1>12 DEF Advance, Return, modelVars, resultVars
  <2>2. slot \in Slots /\ slot < saved /\ \A g \in Hosts : g # h => pc[g] = "idle" /\ pc'[g] = "idle"
    BY <1>14, <2>1 DEF Saves
  <2>3. /\ slot' = IF slot + 1 = saved THEN 0 ELSE slot + 1
        /\ n \in Nat /\ Len(saves') = n + 1 /\ saves' \in Seq(Nat) /\ saves'[n + 1] = call[h]
        /\ \A k \in 1 .. n : saves'[k] = saves[k]
    <3>1. slot' = IF slot + 1 = saved THEN 0 ELSE slot + 1
      BY <1>13, <2>1, <2>2, NextSlot
    <3>2. call[h] \in Nat /\ saves \in Seq(Nat) /\ saves' = Append(saves, call[h])
      BY <1>0, <1>13, <2>1
    <3> QED BY <3>1, <3>2
  <2>4. RingTypes'
    <3>1. fresh' \in Nat /\ fresh' <= Len(saves') /\ slot' \in Nat /\ slot' <= Len(saves')
          /\ (slot' < saved \/ slot' = 0)
      BY <1>13, <2>1, <2>2, <2>3
    <3> QED BY <2>1, <2>3, <3>1 DEF RingInv, RingTypes
  <2>5. ASSUME NEW i \in Slots, i < saved PROVE Age(i)' = IF i = slot THEN n + 1 ELSE Age(i)
    <3>1. i \in Nat /\ n \in Nat /\ slot \in Nat /\ saved \in Nat /\ saved' = saved /\ Len(saves') = n + 1
      BY <1>13, <2>1, <2>3
    <3>2. Age(i)' = (n + 1) - slot' + i + 1 - (IF i < slot' THEN 0 ELSE saved)
      BY <3>1 DEF Age
    <3>3. Age(i) = n - slot + i + 1 - (IF i < slot THEN 0 ELSE saved)
      BY DEF Age
    <3>4. CASE slot + 1 = saved
      <4>1. slot' = 0 /\ ~(i < 0) /\ (i < slot \/ i = slot)
        BY <2>3, <2>5, <3>1, <3>4
      <4> HIDE DEF n
      <4> QED BY <3>1, <3>2, <3>3, <3>4, <4>1
    <3>5. CASE slot + 1 # saved
      <4>1. slot' = slot + 1
        BY <2>3, <3>5
      <4> HIDE DEF n
      <4> QED BY <3>1, <3>2, <3>3, <4>1
    <3> QED BY <3>4, <3>5
  <2>6. \A i \in Slots : i < saved => Age(i) \in Int /\ Age(i) <= n
    BY <1>13, <2>2, <2>3 DEF Age
  <2>7. obj[h] = current \/ (fresh = 0 /\ fresh' = 0)
    BY <2>1 DEF RingInv, InFlight, Saves
  <2>8. ASSUME NEW i \in Slots, i < saved, i # slot PROVE Held(i)'
    <3>1. Held(i) /\ Age(i)' = Age(i) /\ Age(i) \in Int /\ Age(i) <= n
      BY <2>5, <2>6, <2>8 DEF RingInv
    <3>2. Age(i) >= 1 => saves'[Age(i)] = saves[Age(i)]
      BY <2>3, <3>1
    <3>3. Age(i) > (n + 1) - fresh' => Age(i) > n - fresh
      BY <2>1, <2>3, <2>7, <3>1 DEF RingInv, RingTypes
    <3> QED BY <2>1, <2>3, <3>1, <3>2, <3>3 DEF Held
  <2>9. ASSUME NEW i \in Slots, i = slot PROVE Held(i)'
    <3>1. slotInputs[slot] = [call |-> call[h], obj |-> filled[h]] /\ slotIds[slot] = call[h]
          /\ filled[h] \in {0, obj[h]}
      BY <2>1 DEF RingInv, Saves
    <3>2. slotInputs'[i].call = call[h] /\ slotInputs'[i].obj = filled[h] /\ slotIds'[i] = call[h]
      BY <2>1, <2>9, <3>1
    <3>3. Age(i)' = n + 1
      BY <2>2, <2>5, <2>9
    <3>4. fresh' \in Nat /\ (fresh' > 0 => obj[h] = current)
      BY <1>13, <2>1, <2>7
    <3> HIDE DEF n
    <3>5. n + 1 > (n + 1) - fresh' => filled[h] \in {0, current'}
      BY <2>1, <2>3, <3>1, <3>4
    <3>6. n + 1 >= 1
      BY <2>3
    <3> QED BY <2>3, <3>2, <3>3, <3>5, <3>6 DEF Held
  <2>10. ASSUME NEW i \in Slots, i < saved PROVE Held(i)'
    BY <2>8, <2>9, <2>10
  <2>11. \A g \in Hosts : pc'[g] \in {"idle", "exit"}
    BY <1>0, <2>1, <2>2
  <2> QED BY <2>1, <2>4, <2>10, <2>11 DEF RingInv, Saves, InFlight, InInference
<1> QED BY StepCases, <1>1, <1>2, <1>3, <1>4, <1>5, <1>7, <1>8, <1>10, <1>11, <1>12

\* The ring starts empty, at index 0.
LEMMA RingInit == Init => RingInv
<1> SUFFICES ASSUME Init PROVE RingInv
  OBVIOUS
<1>1. Len(<<>>) = 0 /\ <<>> \in Seq(Nat)
  OBVIOUS
<1>2. saved \in Nat /\ saved <= MaxSaved /\ slot = 0 /\ saves = <<>> /\ fresh = 0
  BY InferenceAssumption DEF Init
<1>3. slotInputs = [i \in Slots |-> [call |-> 0, obj |-> 0]] /\ slotIds = [i \in Slots |-> 0]
  BY DEF Init
<1>4. RingTypes
  BY <1>1, <1>2, <1>3 DEF RingTypes, Init
<1>5. ASSUME NEW i \in Slots, i < saved PROVE Held(i)
  <2>1. i \in Nat
    BY InferenceAssumption DEF Slots
  <2>2. Age(i) = i + 1 - saved /\ ~(Age(i) >= 1)
    BY <1>1, <1>2, <1>5, <2>1 DEF Age
  <2> QED BY <1>3, <2>2 DEF Held
<1> QED BY <1>3, <1>4, <1>5 DEF RingInv, Init, Saves, InFlight, InInference

\* The slots in use hold just the last _maxInferencesSaved calls.
LEMMA RingHolds ==
    ASSUME RingInv
    PROVE  /\ \A i \in Slots : i < saved =>
                  Age(i) \in Int /\ Age(i) <= Len(saves) /\ Age(i) > Len(saves) - saved
           /\ \A k \in 1 .. Len(saves) : k > Len(saves) - saved =>
                  \E i \in Slots : i < saved /\ Age(i) = k
<1> DEFINE n == Len(saves)
<1>1. /\ saved \in Nat /\ saved <= MaxSaved /\ MaxSaved \in Nat /\ slot \in Nat
      /\ slot < saved \/ slot = 0
      /\ slot <= n /\ n \in Nat
      /\ \A i \in Slots : i \in Nat
  BY InferenceAssumption DEF RingInv, RingTypes, Slots
<1>2. ASSUME NEW i \in Slots, i < saved PROVE Age(i) \in Int /\ Age(i) <= n /\ Age(i) > n - saved
  <2>1. slot < saved /\ i \in Nat
    BY <1>1, <1>2
  <2>2. Age(i) = n - slot + i + 1 - (IF i < slot THEN 0 ELSE saved)
    BY DEF Age
  <2> HIDE DEF n
  <2> QED BY <1>1, <1>2, <2>1, <2>2
<1>3. ASSUME NEW k \in 1 .. n, k > n - saved PROVE \E i \in Slots : i < saved /\ Age(i) = k
  <2> DEFINE i == k - n + slot - 1 + (IF k > n - slot THEN 0 ELSE saved)
  <2>1. i \in Nat /\ i < saved /\ k = n - slot + i + 1 - (IF i < slot THEN 0 ELSE saved)
    <3> HIDE DEF n
    <3>1. CASE k > n - slot
      <4>1. i = k - n + slot - 1
        BY <1>1, <1>3, <3>1
      <4> HIDE DEF i
      <4> QED BY <1>1, <1>3, <3>1, <4>1
    <3>2. CASE ~(k > n - slot)
      <4>1. i = k - n + slot - 1 + saved
        BY <3>2
      <4> HIDE DEF i
      <4> QED BY <1>1, <1>3, <3>2, <4>1
    <3> QED BY <3>1, <3>2
  <2>2. Age(i) = k
    BY <2>1 DEF Age
  <2> HIDE DEF i
  <2>3. i \in Slots
    BY <1>1, <2>1 DEF Slots
  <2> QED BY <2>1, <2>2, <2>3
<1> QED BY <1>2, <1>3

\* What the position of a slot in saves says about the slots together.
LEMMA RingMeans == ActiveInv /\ RingInv => LatestInputsKept /\ StaleInputsWashOut
<1> SUFFICES ASSUME ActiveInv, RingInv PROVE LatestInputsKept /\ StaleInputsWashOut
  OBVIOUS
<1>1. saved \in Nat /\ fresh \in Nat /\ Len(saves) \in Nat /\ slot \in Nat /\ \A i \in Slots : i \in Nat
  BY InferenceAssumption DEF RingInv, RingTypes, Slots
<1>2. LatestInputsKept
  <2> SUFFICES ASSUME \A h \in Hosts : pc[h] = "idle"
               PROVE  /\ \A i \in Slots : slotInputs[i].call = slotIds[i]
                      /\ \A k \in 1 .. Len(saves) :
                             k > Len(saves) - saved => \E i \in Slots : slotIds[i] = saves[k]
    BY DEF LatestInputsKept
  <2>1. \A i \in Slots : i < saved => Held(i)
    BY DEF RingInv, Saves
  <2>2. ASSUME NEW i \in Slots PROVE slotInputs[i].call = slotIds[i]
    BY <1>1, <2>1 DEF Held, RingInv
  <2>3. ASSUME NEW k \in 1 .. Len(saves), k > Len(saves) - saved
        PROVE  \E i \in Slots : slotIds[i] = saves[k]
    BY <2>1, <2>3, RingHolds DEF Held
  <2> QED BY <2>2, <2>3
<1>3. StaleInputsWashOut
  <2> SUFFICES ASSUME fresh >= saved, NEW i \in Slots PROVE slotInputs[i].obj \in {0, current}
    BY DEF StaleInputsWashOut
  <2>1. CASE i >= saved
    BY <2>1 DEF RingInv
  <2>2. CASE i < saved /\ (i # slot \/ \A h \in Hosts : ~Saves(h))
    <3>1. Held(i)
      BY <2>2 DEF RingInv
    <3>2. Age(i) > Len(saves) - fresh
      <4>1. Age(i) \in Int /\ Age(i) > Len(saves) - saved
        BY <2>2, RingHolds
      <4> QED BY <1>1, <4>1
    <3> QED BY <3>1, <3>2 DEF Held
  <2>3. ASSUME NEW h \in Hosts, Saves(h), i = slot PROVE slotInputs[i].obj \in {0, current}
    <3>1. saved > 0 /\ slotInputs[slot] = [call |-> call[h], obj |-> filled[h]]
      BY <2>3 DEF RingInv
    <3>2. filled[h] \in {0, obj[h]} /\ (obj[h] = current \/ fresh = 0)
      BY <2>3 DEF RingInv, InFlight, Saves
    <3>3. fresh # 0
      BY <1>1, <3>1
    <3> QED BY <2>3, <3>1, <3>2, <3>3
  <2> QED BY <1>1, <2>1, <2>2, <2>3
<1> QED BY <1>2, <1>3

\* With a host that makes one call at a time, the last _maxInferencesSaved calls are in
\* the ring whenever no call is in progress, each under its own id.
THEOREM RingSafety == Spec /\ HostSerialises => []LatestInputsKept
BY ActiveInit, ActiveStep, RingInit, RingStep, RingMeans, PTL DEF Spec

\* With such a host, one round of the ring under the new model removes every pointer into
\* models that an update has destroyed.
THEOREM WashOutSafety == Spec /\ HostSerialises => []StaleInputsWashOut
BY ActiveInit, ActiveStep, RingInit, RingStep, RingMeans, PTL DEF Spec

\* The first slot with an id is the only place its inputs can be, if they are anywhere.
LEMMA FindStep ==
    ASSUME ActiveInv, RingInv, NEW h \in Hosts, FindInputs(h)
    PROVE  IF \E i \in 1 .. Len(saves) : i > Len(saves) - saved /\ saves[i] = call[h]
           THEN pc'[h] = "populate" /\ slotInputs[found'[h]].call = call[h]
           ELSE pc'[h] = "idle"
<1> DEFINE matches == {i \in Slots : i < saved /\ slotIds[i] = call[h]}
<1>1. pc[h] = "find" /\ call[h] # 0 /\ \A g \in Hosts : ~Saves(g)
  BY DEF FindInputs, ActiveInv, SerialInv, Calls, Saves
<1>2. \A i \in Slots : i < saved => Held(i)
  BY <1>1 DEF RingInv
<1>3. pc \in [Hosts -> Places]
  BY DEF ActiveInv, ThreadTypes
<1>4. ASSUME NEW i \in 1 .. Len(saves), i > Len(saves) - saved, saves[i] = call[h]
      PROVE  matches # {}
  BY <1>2, <1>4, RingHolds DEF Held
<1>5. ASSUME NEW i \in matches
      PROVE  \E k \in 1 .. Len(saves) : k > Len(saves) - saved /\ saves[k] = call[h]
  <2>1. Age(i) \in Int /\ Age(i) <= Len(saves) /\ Age(i) > Len(saves) - saved
    BY RingHolds
  <2>2. Age(i) >= 1 /\ saves[Age(i)] = call[h]
    BY <1>1, <1>2 DEF Held
  <2>3. Len(saves) \in Nat
    BY DEF RingInv, RingTypes
  <2>4. Age(i) \in 1 .. Len(saves)
    BY <2>1, <2>2, <2>3
  <2> QED BY <2>1, <2>2, <2>4
<1>6. CASE matches = {}
  <2>1. pc'[h] = "idle"
    BY <1>3, <1>6 DEF FindInputs
  <2> QED BY <1>4, <1>6, <2>1
<1>7. CASE matches # {}
  <2>1. PICK i \in matches : found' = [found EXCEPT ![h] = i] /\ pc' = [pc EXCEPT ![h] = "populate"]
    BY <1>7 DEF FindInputs
  <2>2. slotInputs[i].call = call[h]
    BY <1>2 DEF Held
  <2>3. found'[h] = i
    BY <2>1 DEF ActiveInv, ThreadTypes
  <2> QED BY <1>3, <1>5, <2>1, <2>2, <2>3
<1> QED BY <1>6, <1>7

\* With a host that makes one call at a time, get_inputs_for_inferId answers for the last
\* _maxInferencesSaved calls and for no other, with the inputs of that call.
THEOREM QuerySafety == Spec /\ HostSerialises => QueryAnswers
<1> DEFINE Answers == \A h \in Hosts : FindInputs(h) =>
          IF \E i \in 1 .. Len(saves) : i > Len(saves) - saved /\ saves[i] = call[h]
          THEN pc'[h] = "populate" /\ slotInputs[found'[h]].call = call[h]
          ELSE pc'[h] = "idle"
<1>1. ActiveInv /\ RingInv => Answers
  BY FindStep
<1>2. Spec /\ HostSerialises => [](ActiveInv /\ RingInv)
  BY ActiveInit, ActiveStep, RingInit, RingStep, PTL DEF Spec
<1> HIDE DEF Answers
<1>3. Spec /\ HostSerialises => [][Answers]_vars
  BY <1>1, <1>2, PTL
<1> QED BY <1>3 DEF Answers, QueryAnswers
=============================================================================
