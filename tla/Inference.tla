----------------------------- MODULE Inference -----------------------------
(***************************************************************************)
(* Calls of get_inference for one model, on threads of the host, while     *)
(* _cmdThread replaces the model in modelMap.  Followed step by step: the  *)
(* lookup of the ONNXModel object, the clearing of its _outputTensors,     *)
(* its mutex, the inputs, the allocation of the output memory, the run of  *)
(* the session, saving the inputs of the call, and exit_inference, which a *)
(* failed call makes itself.  The host also asks for saved inputs and for  *)
(* the state of the model.                                                 *)
(*                                                                         *)
(* Sources: ONNXExecutor.cpp, Executor.h.  Objects are numbered in the     *)
(* order load_plan makes them, calls in the order they are made: the       *)
(* number of a call stands for its inferId, its output memory and its      *)
(* preprocessor inputs.                                                    *)
(***************************************************************************)
EXTENDS Integers, Sequences

CONSTANTS
    Hosts,          \* threads of the host application
    HostSerialises, \* does the host make one call at a time?
    MaxSaved,       \* bound on _maxInferencesSaved
    MaxCalls,       \* bound: calls of get_inference
    MaxLoads        \* bound: plans loaded

ASSUME InferenceAssumption ==
    /\ HostSerialises \in BOOLEAN
    /\ MaxSaved \in Nat /\ MaxCalls \in Nat /\ MaxLoads \in Nat

Calls == 1 .. MaxCalls
Objects == 1 .. MaxLoads

VARIABLES
    current,        \* the object in modelMap, 0 for none
    loads,          \* objects made so far
    destroyed,      \* objects whose last shared_ptr is gone
    pc, call, obj,  \* of each thread: where it is, its call, the object it calls
    failed, filled, \* of each thread: inferStatus, preprocessorInputsToFill (the object
                    \* that its TensorInfo pointers lead into, 0 if it is empty)
    found,          \* of each thread: the slot get_inputs_for_inferId found
    owner,          \* _modelMutex: the thread holding it, per object
    outs,           \* _outputTensors: the calls whose memory it points to, per object
    written,        \* per call: the call whose memory its Run wrote to (itself
                    \* before that), 0 for memory that is no call's
    slotInputs,     \* _preprocessorInputsForInferIds: call and object of each slot
    slotIds,        \* _inferIds
    saved,          \* _maxInferencesSaved, from the configuration
    slot,           \* _overWriteInferenceIndex
    calls,          \* calls made
    saves,          \* history: the calls in the order their inputs were saved
    fresh,          \* history: the calls saved since load_plan that used its object
    overtaken       \* history: calls whose object was destroyed while they used it

modelVars == <<current, loads, destroyed, overtaken>>
slotVars == <<slotInputs, slotIds, saved, slot, saves, fresh>>
resultVars == <<failed, filled, found>>
vars == <<modelVars, pc, call, obj, resultVars, owner, outs, written, slotVars, calls>>

Slots == 0 .. MaxSaved - 1
InInference(h) == pc[h] \in {"clear", "lock", "inputs", "run"}
UsesModel(h) == InInference(h) \/ pc[h] = "read"
HostCalls(h) == pc[h] = "idle" /\ (HostSerialises => \A g \in Hosts : pc[g] = "idle")

Init ==
    /\ current = 0 /\ loads = 0 /\ destroyed = {}
    /\ pc = [h \in Hosts |-> "idle"]
    /\ call = [h \in Hosts |-> 0] /\ obj = [h \in Hosts |-> 0]
    /\ owner = [o \in Objects |-> {}]
    /\ outs = [o \in Objects |-> <<>>]
    /\ written = [c \in Calls |-> c]
    /\ failed = [h \in Hosts |-> FALSE] /\ filled = [h \in Hosts |-> 0]
    /\ found = [h \in Hosts |-> 0]
    /\ slotInputs = [i \in Slots |-> [call |-> 0, obj |-> 0]] /\ slotIds = [i \in Slots |-> 0]
    /\ saved \in 0 .. MaxSaved
    /\ slot = 0 /\ calls = 0 /\ saves = <<>> /\ fresh = 0 /\ overtaken = {}

-----------------------------------------------------------------------------
(* _cmdThread.                                                              *)

\* ONNXExecutor::load_plan: the assignment to modelMap drops the shared_ptr to
\* the old object, the only one there is.  The dummy run of the constructor leaves
\* its output tensors behind; 0 stands for their freed memory.
LoadPlan ==
    /\ loads < MaxLoads
    /\ loads' = loads + 1
    /\ current' = loads'
    /\ destroyed' = IF current = 0 THEN destroyed ELSE destroyed \cup {current}
    /\ overtaken' = overtaken \cup {call[h] : h \in {g \in Hosts : InInference(g) /\ obj[g] = current}}
    /\ outs' = [outs EXCEPT ![loads'] = <<0>>]
    /\ fresh' = 0
    /\ UNCHANGED <<pc, call, obj, resultVars, owner, written, slotInputs, slotIds, saved, slot, saves, calls>>

-----------------------------------------------------------------------------
(* get_inference on thread h.                                               *)

\* check_plan_loaded; without a model the call ends with TERMINAL_ERROR.
CheckPlanLoaded(h) ==
    /\ HostCalls(h) /\ calls < MaxCalls
    /\ calls' = calls + 1
    /\ call' = [call EXCEPT ![h] = calls']
    /\ pc' = [pc EXCEPT ![h] = IF current = 0 THEN "exit" ELSE "lookup"]
    /\ UNCHANGED <<modelVars, obj, resultVars, owner, outs, written, slotVars>>

\* modelMap[modelId]->get_inference: a plain pointer, taken without the mutex.
Lookup(h) ==
    /\ pc[h] = "lookup"
    /\ obj' = [obj EXCEPT ![h] = current]
    /\ pc' = [pc EXCEPT ![h] = "clear"]
    /\ UNCHANGED <<modelVars, call, resultVars, owner, outs, written, slotVars, calls>>

\* Fault variant of ClearOutputs: the vector is not cleared.
ClearOutputsNot(h) ==
    /\ pc[h] = "clear"
    /\ pc' = [pc EXCEPT ![h] = "lock"]
    /\ UNCHANGED <<modelVars, call, obj, resultVars, owner, outs, written, slotVars, calls>>

\* _outputTensors.clear(), before the mutex is taken.
ClearOutputs(h) ==
    /\ pc[h] = "clear"
    /\ outs' = [outs EXCEPT ![obj[h]] = <<>>]
    /\ pc' = [pc EXCEPT ![h] = "lock"]
    /\ UNCHANGED <<modelVars, call, obj, resultVars, owner, written, slotVars, calls>>

LockModel(h) ==
    /\ pc[h] = "lock" /\ owner[obj[h]] = {}
    /\ owner' = [owner EXCEPT ![obj[h]] = {h}]
    /\ pc' = [pc EXCEPT ![h] = "inputs"]
    /\ UNCHANGED <<modelVars, call, obj, resultVars, outs, written, slotVars, calls>>

\* Fault variant of InputsFail: the error path keeps the mutex.
InputsFailLocked(h) ==
    /\ pc[h] = "inputs"
    /\ \E o \in {0, obj[h]} : filled' = [filled EXCEPT ![h] = o]
    /\ failed' = [failed EXCEPT ![h] = TRUE]
    /\ pc' = [pc EXCEPT ![h] = "saveInputs"]
    /\ UNCHANGED <<modelVars, call, obj, found, owner, outs, written, slotVars, calls>>

\* An input is missing, of the wrong type or length, or its feature is not loaded;
\* some preprocessor inputs may have been collected before.
InputsFail(h) ==
    /\ pc[h] = "inputs"
    /\ \E o \in {0, obj[h]} : filled' = [filled EXCEPT ![h] = o]
    /\ failed' = [failed EXCEPT ![h] = TRUE]
    /\ owner' = [owner EXCEPT ![obj[h]] = {}]
    /\ pc' = [pc EXCEPT ![h] = "saveInputs"]
    /\ UNCHANGED <<modelVars, call, obj, found, outs, written, slotVars, calls>>

\* All inputs are there: allocate_output_memory, whose push_back adds to whatever
\* is in _outputTensors.
AllocateOutput(h) ==
    /\ pc[h] = "inputs"
    /\ \E o \in {0, obj[h]} : filled' = [filled EXCEPT ![h] = o]
    /\ outs' = [outs EXCEPT ![obj[h]] = Append(@, call[h])]
    /\ pc' = [pc EXCEPT ![h] = "run"]
    /\ UNCHANGED <<modelVars, call, obj, failed, found, owner, written, slotVars, calls>>

\* What Run may write to: the first tensor of _outputTensors.  If another call has
\* cleared the vector meanwhile, or the object is gone, whatever its storage holds.
RunTargets(h) ==
    IF outs[obj[h]] = <<>> \/ obj[h] \in destroyed THEN {0, call[h]} ELSE {Head(outs[obj[h]])}

\* Session::Run, then SUCCESS, which gives the mutex back.
Run(h) ==
    /\ pc[h] = "run"
    /\ \E c \in RunTargets(h) : written' = [written EXCEPT ![call[h]] = c]
    /\ failed' = [failed EXCEPT ![h] = FALSE]
    /\ owner' = [owner EXCEPT ![obj[h]] = {}]
    /\ pc' = [pc EXCEPT ![h] = "saveInputs"]
    /\ UNCHANGED <<modelVars, call, obj, filled, found, outs, slotVars, calls>>

\* Run throws: the memory is freed, its tensors stay in _outputTensors.
RunFails(h) ==
    /\ pc[h] = "run"
    /\ failed' = [failed EXCEPT ![h] = TRUE]
    /\ owner' = [owner EXCEPT ![obj[h]] = {}]
    /\ pc' = [pc EXCEPT ![h] = "saveInputs"]
    /\ UNCHANGED <<modelVars, call, obj, filled, found, outs, written, slotVars, calls>>

\* Fault variant of SaveInputs: nothing is assigned if no input was collected.
SaveInputsIfAny(h) ==
    /\ pc[h] = "saveInputs" /\ saved > 0
    /\ slotInputs' = IF filled[h] = 0 THEN slotInputs
                     ELSE [slotInputs EXCEPT ![slot] = [call |-> call[h], obj |-> filled[h]]]
    /\ pc' = [pc EXCEPT ![h] = "saveId"]
    /\ UNCHANGED <<modelVars, call, obj, resultVars, owner, outs, written, slotIds, saved, slot, saves, fresh, calls>>

\* add_input_for_inferId, after success and failure alike: three assignments, each
\* of which reads _overWriteInferenceIndex anew.
SaveInputs(h) ==
    /\ pc[h] = "saveInputs" /\ saved > 0
    /\ slotInputs' = [slotInputs EXCEPT ![slot] = [call |-> call[h], obj |-> filled[h]]]
    /\ pc' = [pc EXCEPT ![h] = "saveId"]
    /\ UNCHANGED <<modelVars, call, obj, resultVars, owner, outs, written, slotIds, saved, slot, saves, fresh, calls>>

SaveId(h) ==
    /\ pc[h] = "saveId"
    /\ slotIds' = [slotIds EXCEPT ![slot] = call[h]]
    /\ pc' = [pc EXCEPT ![h] = "advance"]
    /\ UNCHANGED <<modelVars, call, obj, resultVars, owner, outs, written, slotInputs, saved, slot, saves, fresh, calls>>

\* get_inference returns to CommandCenter, which logs the failed calls itself.
Return(h) == pc' = [pc EXCEPT ![h] = IF failed[h] THEN "exit" ELSE "idle"]

\* Fault variant of Advance: the index is not taken modulo its bound.
AdvanceStops(h) ==
    /\ pc[h] = "advance"
    /\ slot' = IF slot + 1 < saved THEN slot + 1 ELSE slot
    /\ saves' = Append(saves, call[h])
    /\ fresh' = IF obj[h] = current THEN fresh + 1 ELSE fresh
    /\ Return(h)
    /\ UNCHANGED <<modelVars, call, obj, resultVars, owner, outs, written, slotInputs, slotIds, saved, calls>>

Advance(h) ==
    /\ pc[h] = "advance"
    /\ slot' = (slot + 1) % saved
    /\ saves' = Append(saves, call[h])
    /\ fresh' = IF obj[h] = current THEN fresh + 1 ELSE fresh
    /\ Return(h)
    /\ UNCHANGED <<modelVars, call, obj, resultVars, owner, outs, written, slotInputs, slotIds, saved, calls>>

\* _maxInferencesSaved = 0: nothing is saved.
SaveNothing(h) ==
    /\ pc[h] = "saveInputs" /\ saved = 0
    /\ Return(h)
    /\ UNCHANGED <<modelVars, call, obj, resultVars, owner, outs, written, slotVars, calls>>

-----------------------------------------------------------------------------
(* Reading the version of the model: exit_inference and get_model_status.   *)

\* check_plan_loaded, which releases _modelMapMutex when it returns.
CheckModel(h) ==
    /\ pc' = [pc EXCEPT ![h] = IF current = 0 THEN "idle" ELSE "readLookup"]
    /\ UNCHANGED <<modelVars, call, obj, resultVars, owner, outs, written, slotVars, calls>>

\* exit_inference of a failed call.
ExitInference(h) == pc[h] = "exit" /\ CheckModel(h)

\* exit_inference or get_model_status, called by the host.
AskModel(h) == HostCalls(h) /\ CheckModel(h)

ReadLookup(h) ==
    /\ pc[h] = "readLookup"
    /\ obj' = [obj EXCEPT ![h] = current]
    /\ pc' = [pc EXCEPT ![h] = "read"]
    /\ UNCHANGED <<modelVars, call, resultVars, owner, outs, written, slotVars, calls>>

ReadVersion(h) ==
    /\ pc[h] = "read"
    /\ pc' = [pc EXCEPT ![h] = "idle"]
    /\ UNCHANGED <<modelVars, call, obj, resultVars, owner, outs, written, slotVars, calls>>

-----------------------------------------------------------------------------
(* get_inputs_for_inferId, for the call c made earlier.                     *)

AskInputs(h, c) ==
    /\ HostCalls(h) /\ c \in 1 .. calls
    /\ call' = [call EXCEPT ![h] = c]
    /\ pc' = [pc EXCEPT ![h] = "find"]
    /\ UNCHANGED <<modelVars, obj, resultVars, owner, outs, written, slotVars, calls>>

\* Fault variant of FindInputs: slots behind the index count as unused.
FindInputsBelow(h) ==
    LET matches == {i \in Slots : i < slot /\ slotIds[i] = call[h]} IN
    /\ pc[h] = "find"
    /\ \/ \E i \in matches :
              /\ \A j \in matches : i <= j
              /\ found' = [found EXCEPT ![h] = i]
              /\ pc' = [pc EXCEPT ![h] = "populate"]
       \/ matches = {} /\ pc' = [pc EXCEPT ![h] = "idle"] /\ UNCHANGED found
    /\ UNCHANGED <<modelVars, call, obj, failed, filled, owner, outs, written, slotVars, calls>>

\* The first slot with this id; without one the call returns false.
FindInputs(h) ==
    LET matches == {i \in Slots : i < saved /\ slotIds[i] = call[h]} IN
    /\ pc[h] = "find"
    /\ \/ \E i \in matches :
              /\ \A j \in matches : i <= j
              /\ found' = [found EXCEPT ![h] = i]
              /\ pc' = [pc EXCEPT ![h] = "populate"]
       \/ matches = {} /\ pc' = [pc EXCEPT ![h] = "idle"] /\ UNCHANGED found
    /\ UNCHANGED <<modelVars, call, obj, failed, filled, owner, outs, written, slotVars, calls>>

\* populate_preprocessors_input_in_return_object copies the inputs, whose shape it
\* reads through the saved TensorInfo pointers.
Populate(h) ==
    /\ pc[h] = "populate"
    /\ pc' = [pc EXCEPT ![h] = "idle"]
    /\ UNCHANGED <<modelVars, call, obj, resultVars, owner, outs, written, slotVars, calls>>

-----------------------------------------------------------------------------
\* What a thread does in a call it has made.
CallStep(h) ==
    \/ Lookup(h) \/ ClearOutputs(h) \/ LockModel(h)
    \/ InputsFail(h) \/ AllocateOutput(h) \/ Run(h) \/ RunFails(h)
    \/ SaveInputs(h) \/ SaveId(h) \/ Advance(h) \/ SaveNothing(h)
    \/ ExitInference(h) \/ ReadLookup(h) \/ ReadVersion(h)
    \/ FindInputs(h) \/ Populate(h)

HostCall(h) == CheckPlanLoaded(h) \/ AskModel(h) \/ \E c \in Calls : AskInputs(h, c)

Next == LoadPlan \/ \E h \in Hosts : HostCall(h) \/ CallStep(h)

Spec == Init /\ [][Next]_vars

\* A call that was made goes on.
FairSpec == Spec /\ \A h \in Hosts : WF_vars(CallStep(h))

-----------------------------------------------------------------------------
(* Properties.                                                              *)

\* What a call returns was computed into its own output memory and into no other
\* call's, over errors, failed runs and plan updates before it (and unless its model
\* object was destroyed under it).
OwnOutput == \A c \in Calls \ overtaken : written[c] = c

\* A later inference does not overwrite the output of an earlier one
\* (NimbleSDKWiki.md, considerations): no run writes to the memory of another call.
OutputNotOverwritten == \A c \in Calls \ overtaken : written[c] \in {0, c}

\* The inputs of the last _maxInferencesSaved calls are kept, each under its own id.
LatestInputsKept ==
    (\A h \in Hosts : pc[h] = "idle") =>
        /\ \A i \in Slots : slotInputs[i].call = slotIds[i]
        /\ \A i \in 1 .. Len(saves) :
               i > Len(saves) - saved => \E s \in Slots : slotIds[s] = saves[i]

\* get_inputs_for_inferId answers for exactly these calls, and with the inputs of
\* the call it is asked for.
QueryAnswers ==
    [][\A h \in Hosts : FindInputs(h) =>
          IF \E i \in 1 .. Len(saves) : i > Len(saves) - saved /\ saves[i] = call[h]
          THEN pc'[h] = "populate" /\ slotInputs[found'[h]].call = call[h]
          ELSE pc'[h] = "idle"]_vars

\* An update of the plan leaves the TensorInfo pointers of saved inputs dangling, in
\* all slots.  Once the ring has gone round with calls of the new model, no slot has
\* such a pointer any more, whether these calls collected inputs, failed or threw.
StaleInputsWashOut == fresh >= saved => \A i \in Slots : slotInputs[i].obj \in {0, current}

\* Every call returns: no path leaves _modelMutex locked.
CallsReturn == \A h \in Hosts : pc[h] # "idle" ~> pc[h] = "idle"

\* No race between the tasks (NimbleSDKWiki.md, control flow 2): the object a call
\* is in is not destroyed by an update of the plan.
ModelAlive == \A h \in Hosts : UsesModel(h) => obj[h] \notin destroyed
=============================================================================
