--------------------------- MODULE PlanLifecycle ---------------------------
(***************************************************************************)
(* The life of the inference plans ("models") on one device: loading the   *)
(* saved plans when the SDK is initialised, the version check and part by  *)
(* part download of _cmdThread, saving a plan in two files, loading it in  *)
(* the executor, the retry budget and its reset by internet_switched_on.   *)
(*                                                                         *)
(* Sources: ResourceManager.cpp, ONNXExecutor.cpp (bookkeeping part),      *)
(* CommandCenter.cpp, NativeInterface.cpp.  The process may die at any     *)
(* step; only the two files of each model survive.                         *)
(***************************************************************************)
EXTENDS Integers

CONSTANTS
    NumModels,      \* length of _config.modelIds
    Versions,       \* versions the server may announce
    None,           \* "no version": empty version string, absent file
    Garbled,        \* content of a metadata file that is not JSON
    PlanLength,     \* bytes of the plan of a version
    FileParts,      \* parts the plan of a version is served in
    BadPlans,       \* versions whose plan the executor rejects
    MaxRetries,     \* DEFAULT_LOAD_MODEL_RETRIES
    MaxCrashes,     \* bound: process deaths
    MaxPublishes    \* bound: version changes on the server

ASSUME NumModelsAssumption == NumModels \in Nat \ {0}
ASSUME VersionsAssumption == None \notin Versions /\ Garbled \notin Versions /\ None # Garbled
ASSUME PlanAssumption == /\ PlanLength \in [Versions -> Nat]
                         /\ FileParts \in [Versions -> Nat]
                         /\ BadPlans \subseteq Versions
ASSUME RetriesAssumption == MaxRetries \in Nat \ {0}
ASSUME BoundsAssumption == MaxCrashes \in Nat /\ MaxPublishes \in Nat

Models == 1 .. NumModels                  \* positions in _config.modelIds

VARIABLES
    proc,           \* "down", "starting" (cmdThread runs), "ready" (_initializeSuccess)
    pc,             \* where _cmdThread is in update_plan_if_required
    idx,            \* the model its loop is at
    target,         \* version in the VersionCheckResponse being acted on
    part,           \* next part to ask for
    readRetries,    \* value update_model_retries has read and not yet written
    netIdx,         \* model internet_switched_on resets next, 0 when not running
    loaded,         \* modelMap: version and plan bytes of each model
    updated,        \* _isModelUpdated
    retries,        \* _loadModelRetries
    metaFile,       \* <model>INFERENCEMETADATAFILENAME: a version, None or Garbled
    planFile,       \* <model>INFERENCEFILENAME: a prefix of the plan of a version
    serverVersion,  \* what the server announces
    online,         \* requests are answered
    attempts,       \* history: update attempts since start or the last reset
    announced,      \* history: last version announced to this process
    refused,        \* history: versions this process could not read or load, kept
                    \* until it has loaded one
    crashes, publishes

memVars  == <<loaded, updated>>
cmdVars  == <<pc, idx, target, part, readRetries>>
diskVars == <<metaFile, planFile>>
envVars  == <<serverVersion, online, publishes>>
histVars == <<announced, refused>>
vars == <<proc, cmdVars, netIdx, memVars, retries, diskVars, envVars, attempts,
          histVars, crashes>>

NoPlan  == [of |-> None, len |-> 0]
NoModel == [version |-> None, of |-> None]

\* The complete plan of version v, and every state of a file that should hold it.
FullPlan(v) == [of |-> v, len |-> PlanLength[v]]
Prefixes(v) == [of : {v}, len : 0 .. PlanLength[v]]

\* Can the executor build a model from metadata of version v and these bytes?
\* Never from a bad plan; from any other either way, since the constructor also
\* throws when a preprocessor cannot be created (no table, a failing SELECT).
LoadOutcomes(v, plan) ==
    IF v \in BadPlans /\ plan = FullPlan(v) THEN {FALSE} ELSE BOOLEAN

Model(v, plan) == [version |-> v, of |-> plan.of]

-----------------------------------------------------------------------------
(* Starting the SDK.                                                        *)

\* get_inference_plan_data_from_device: both files are there, the metadata
\* parses, and the plan has the length the metadata says.
DeviceDataValid(m) ==
    /\ metaFile[m] \in Versions
    /\ planFile[m].of # None
    /\ planFile[m].len = PlanLength[metaFile[m]]

\* load_plan_from_device: what modelMap may hold for m afterwards.  Reading a
\* file that is there may fail (get_file_from_device), and so may the executor.
LoadFromDevice(m) ==
    {NoModel} \cup
    {Model(v, planFile[m]) : v \in {w \in {metaFile[m]} :
         DeviceDataValid(m) /\ TRUE \in LoadOutcomes(w, planFile[m])}}

Init ==
    /\ proc = "down" /\ pc = "pick" /\ idx = 1 /\ part = 1
    /\ target = None /\ readRetries = 0 /\ netIdx = 0
    /\ loaded = [m \in Models |-> NoModel]
    /\ updated = [m \in Models |-> FALSE]
    /\ retries = [m \in Models |-> MaxRetries]
    /\ metaFile = [m \in Models |-> None]
    /\ planFile = [m \in Models |-> NoPlan]
    /\ serverVersion \in [Models -> Versions]
    /\ online \in BOOLEAN
    /\ attempts = [m \in Models |-> 0]
    /\ announced = [m \in Models |-> None]
    /\ refused = [m \in Models |-> {}]
    /\ crashes = 0 /\ publishes = 0

\* CommandCenter::initialize up to the creation of _cmdThread.
Initialize ==
    /\ proc = "down"
    /\ proc' = "starting"
    /\ loaded' \in {f \in [Models -> UNION {LoadFromDevice(m) : m \in Models}] :
                        \A m \in Models : f[m] \in LoadFromDevice(m)}
    /\ refused' = [m \in Models |->
           IF DeviceDataValid(m) /\ loaded'[m] = NoModel THEN {metaFile[m]} ELSE {}]
    /\ UNCHANGED <<cmdVars, netIdx, updated, retries, diskVars, envVars, attempts,
                   announced, crashes>>

\* _initializeSuccess = true: only now other calls get past their guard.
InitializeSuccess ==
    /\ proc = "starting"
    /\ proc' = "ready"
    /\ UNCHANGED <<cmdVars, netIdx, memVars, retries, diskVars, envVars, attempts,
                   histVars, crashes>>

-----------------------------------------------------------------------------
(* _cmdThread.                                                              *)

\* Fault variants of CanModelRetry: off by one; _isModelUpdated not looked at.
CanModelRetryAtZero(m) == ~(loaded[m] # NoModel /\ updated[m]) /\ retries[m] >= 0
CanModelRetryFresh(m) == retries[m] > 0

CanModelRetry(m) == ~(loaded[m] # NoModel /\ updated[m]) /\ retries[m] > 0

\* Fault variant of NextModel: the outer loop does not start over.
NextModelOnce(i) == IF i = NumModels THEN i ELSE i + 1

NextModel(i) == IF i = NumModels THEN 1 ELSE i + 1

\* update_plan_if_required with retries left: load_plan starts.
BeginUpdate ==
    /\ proc # "down" /\ pc = "pick"
    /\ CanModelRetry(idx)
    /\ pc' = "version"
    /\ attempts' = [attempts EXCEPT ![idx] = @ + 1]
    /\ UNCHANGED <<proc, idx, target, part, readRetries, netIdx, memVars, retries,
                   diskVars, envVars, histVars, crashes>>

\* update_plan_if_required with none left: the loop goes to the next model.
SkipModel ==
    /\ proc # "down" /\ pc = "pick"
    /\ ~CanModelRetry(idx)
    /\ idx' = NextModel(idx)
    /\ UNCHANGED <<proc, pc, target, part, readRetries, netIdx, memVars, retries,
                   diskVars, envVars, attempts, histVars, crashes>>

\* load_plan returns an error before anything was changed.
VersionCheckFails ==
    /\ proc # "down" /\ pc = "version" /\ ~online
    /\ pc' = "decRead"
    /\ UNCHANGED <<proc, idx, target, part, readRetries, netIdx, memVars, retries,
                   diskVars, envVars, attempts, histVars, crashes>>

\* The announced version is the loaded one: plan_updated(true).
VersionCheckSame ==
    /\ proc # "down" /\ pc = "version" /\ online
    /\ loaded[idx].version = serverVersion[idx]
    /\ updated' = [updated EXCEPT ![idx] = TRUE]
    /\ announced' = [announced EXCEPT ![idx] = serverVersion[idx]]
    /\ pc' = "decRead"
    /\ UNCHANGED <<proc, idx, target, part, readRetries, netIdx, loaded, retries,
                   diskVars, envVars, attempts, refused, crashes>>

\* Fault variant of VersionCheckNew: the loaded version is not compared.
VersionCheckUncompared ==
    /\ proc # "down" /\ pc = "version" /\ online
    /\ announced' = [announced EXCEPT ![idx] = serverVersion[idx]]
    /\ target' = serverVersion[idx]
    /\ part' = 1
    /\ pc' = "download"
    /\ UNCHANGED <<proc, idx, readRetries, netIdx, memVars, retries, diskVars,
                   envVars, attempts, refused, crashes>>

\* The announced version is another one: download it, starting with part 1.
VersionCheckNew ==
    /\ proc # "down" /\ pc = "version" /\ online
    /\ loaded[idx].version # serverVersion[idx]
    /\ announced' = [announced EXCEPT ![idx] = serverVersion[idx]]
    /\ target' = serverVersion[idx]
    /\ part' = 1
    /\ pc' = "download"
    /\ UNCHANGED <<proc, idx, readRetries, netIdx, memVars, retries, diskVars,
                   envVars, attempts, refused, crashes>>

GetPlanPart ==
    /\ proc # "down" /\ pc = "download" /\ online
    /\ part <= FileParts[target]
    /\ part' = part + 1
    /\ UNCHANGED <<proc, pc, idx, target, readRetries, netIdx, memVars, retries,
                   diskVars, envVars, attempts, histVars, crashes>>

\* Fault variant of GetPlanFails: the error path reports the plan as updated.
GetPlanFailsUpdated ==
    /\ proc # "down" /\ pc = "download" /\ ~online
    /\ part <= FileParts[target]
    /\ updated' = [updated EXCEPT ![idx] = TRUE]
    /\ pc' = "decRead"
    /\ UNCHANGED <<proc, idx, target, part, readRetries, netIdx, loaded, retries,
                   diskVars, envVars, attempts, histVars, crashes>>

\* A part could not be fetched: plan_updated(false), the parts so far are dropped.
GetPlanFails ==
    /\ proc # "down" /\ pc = "download" /\ ~online
    /\ part <= FileParts[target]
    /\ updated' = [updated EXCEPT ![idx] = FALSE]
    /\ pc' = "decRead"
    /\ UNCHANGED <<proc, idx, target, part, readRetries, netIdx, loaded, retries,
                   diskVars, envVars, attempts, histVars, crashes>>

\* save_inference_plan_data_on_device, first file.  save_file_on_device reports
\* success whatever happens: written, cut short, or not opened at all.
SaveMetadata ==
    /\ proc # "down" /\ pc = "download"
    /\ part > FileParts[target]
    /\ \E content \in {target, Garbled, metaFile[idx]} :
           metaFile' = [metaFile EXCEPT ![idx] = content]
    /\ pc' = "savePlan"
    /\ UNCHANGED <<proc, idx, target, part, readRetries, netIdx, memVars, retries,
                   planFile, envVars, attempts, histVars, crashes>>

\* Second file, with the same three outcomes.
SavePlan ==
    /\ proc # "down" /\ pc = "savePlan"
    /\ \E content \in Prefixes(target) \cup {planFile[idx]} :
           planFile' = [planFile EXCEPT ![idx] = content]
    /\ pc' = "load"
    /\ UNCHANGED <<proc, idx, target, part, readRetries, netIdx, memVars, retries,
                   metaFile, envVars, attempts, histVars, crashes>>

\* ONNXExecutor::load_plan replaces the model in modelMap, then plan_updated(true).
LoadPlan ==
    /\ proc # "down" /\ pc = "load"
    /\ TRUE \in LoadOutcomes(target, FullPlan(target))
    /\ loaded' = [loaded EXCEPT ![idx] = Model(target, FullPlan(target))]
    /\ updated' = [updated EXCEPT ![idx] = TRUE]
    /\ refused' = [refused EXCEPT ![idx] = {}]
    /\ pc' = "decRead"
    /\ UNCHANGED <<proc, idx, target, part, readRetries, netIdx, retries, diskVars,
                   envVars, attempts, announced, crashes>>

\* The executor rejects the plan: plan_updated(false), EXECUTOR_LOAD_MODEL_ERR.
LoadPlanFails ==
    /\ proc # "down" /\ pc = "load"
    /\ FALSE \in LoadOutcomes(target, FullPlan(target))
    /\ updated' = [updated EXCEPT ![idx] = FALSE]
    /\ refused' = [refused EXCEPT ![idx] = @ \cup {target}]
    /\ pc' = "decRead"
    /\ UNCHANGED <<proc, idx, target, part, readRetries, netIdx, loaded, retries,
                   diskVars, envVars, attempts, announced, crashes>>

\* update_model_retries, whatever load_plan returned: `_loadModelRetries[id]--`
\* on an int that internet_switched_on writes from another thread.
ReadRetries ==
    /\ proc # "down" /\ pc = "decRead"
    /\ readRetries' = retries[idx]
    /\ target' = None /\ part' = 1          \* the locals of load_plan are gone
    /\ pc' = "decWrite"
    /\ UNCHANGED <<proc, idx, netIdx, memVars, retries, diskVars,
                   envVars, attempts, histVars, crashes>>

\* Fault variant of WriteRetries: the counter is not decremented.
WriteRetriesUnchanged ==
    /\ proc # "down" /\ pc = "decWrite"
    /\ readRetries' = 0
    /\ pc' = "pick"
    /\ idx' = NextModel(idx)
    /\ UNCHANGED <<proc, target, part, netIdx, memVars, retries, diskVars, envVars,
                   attempts, histVars, crashes>>

WriteRetries ==
    /\ proc # "down" /\ pc = "decWrite"
    /\ retries' = [retries EXCEPT ![idx] = readRetries - 1]
    /\ readRetries' = 0
    /\ pc' = "pick"
    /\ idx' = NextModel(idx)
    /\ UNCHANGED <<proc, target, part, netIdx, memVars, diskVars, envVars, attempts,
                   histVars, crashes>>

-----------------------------------------------------------------------------
(* A host thread, the server, the network and the operating system.         *)

\* internet_switched_on passes its _initializeSuccess guard.
InternetSwitchedOn ==
    /\ proc = "ready" /\ netIdx = 0
    /\ netIdx' = 1
    /\ UNCHANGED <<proc, cmdVars, memVars, retries, diskVars, envVars, attempts,
                   histVars, crashes>>

\* Fault variant of ResetModelRetries: the loop leaves the counters alone.
ResetModelRetriesNot ==
    /\ netIdx # 0
    /\ attempts' = [attempts EXCEPT ![netIdx] = 0]
    /\ netIdx' = IF netIdx = NumModels THEN 0 ELSE netIdx + 1
    /\ UNCHANGED <<proc, cmdVars, memVars, retries, diskVars, envVars, histVars, crashes>>

\* One turn of its loop: reset_model_retries.
ResetModelRetries ==
    /\ netIdx # 0
    /\ retries' = [retries EXCEPT ![netIdx] = MaxRetries]
    /\ attempts' = [attempts EXCEPT ![netIdx] = 0]
    /\ netIdx' = IF netIdx = NumModels THEN 0 ELSE netIdx + 1
    /\ UNCHANGED <<proc, cmdVars, memVars, diskVars, envVars, histVars, crashes>>

Publish(m, v) ==
    /\ publishes < MaxPublishes
    /\ v # serverVersion[m]
    /\ serverVersion' = [serverVersion EXCEPT ![m] = v]
    /\ publishes' = publishes + 1
    /\ UNCHANGED <<proc, cmdVars, netIdx, memVars, retries, diskVars, online,
                   attempts, histVars, crashes>>

NetworkChange ==
    /\ online' = ~online
    /\ UNCHANGED <<proc, cmdVars, netIdx, memVars, retries, diskVars, serverVersion,
                   publishes, attempts, histVars, crashes>>

\* The process ends, between any two steps.  The files stay as they are.
Crash ==
    /\ proc # "down"
    /\ crashes < MaxCrashes
    /\ crashes' = crashes + 1
    /\ proc' = "down" /\ pc' = "pick" /\ idx' = 1 /\ part' = 1
    /\ target' = None /\ readRetries' = 0 /\ netIdx' = 0
    /\ loaded' = [m \in Models |-> NoModel]
    /\ updated' = [m \in Models |-> FALSE]
    /\ retries' = [m \in Models |-> MaxRetries]
    /\ attempts' = [m \in Models |-> 0]
    /\ announced' = [m \in Models |-> None]
    /\ refused' = [m \in Models |-> {}]
    /\ UNCHANGED <<diskVars, envVars>>

-----------------------------------------------------------------------------
CmdThread ==
    \/ BeginUpdate \/ SkipModel
    \/ VersionCheckFails \/ VersionCheckSame \/ VersionCheckNew
    \/ GetPlanPart \/ GetPlanFails
    \/ SaveMetadata \/ SavePlan
    \/ LoadPlan \/ LoadPlanFails
    \/ ReadRetries \/ WriteRetries

Next ==
    \/ Initialize \/ InitializeSuccess
    \/ CmdThread
    \/ InternetSwitchedOn \/ ResetModelRetries
    \/ \E m \in Models, v \in Versions : Publish(m, v)
    \/ NetworkChange
    \/ Crash

Spec == Init /\ [][Next]_vars

\* _cmdThread is an OS thread in an endless loop, the host starts the SDK, and a
\* call of initialize or internet_switched_on that was made returns.
FairSpec ==
    Spec /\ WF_vars(CmdThread) /\ WF_vars(Initialize) /\ WF_vars(InitializeSuccess)
         /\ WF_vars(ResetModelRetries)

\* The host moreover goes on reporting that the device is online.
ReportingSpec == FairSpec /\ WF_vars(InternetSwitchedOn)

-----------------------------------------------------------------------------
(* Properties.                                                              *)

InFlight(m) == proc # "down" /\ pc # "pick" /\ idx = m

\* The type invariant.  Retries in 0..MaxRetries also says that the counter
\* can_model_retry tested is still positive when update_model_retries gets to it.
TypeOK ==
    /\ proc \in {"down", "starting", "ready"}
    /\ pc \in {"pick", "version", "download", "savePlan", "load", "decRead", "decWrite"}
    /\ idx \in Models
    /\ target \in Versions \cup {None}
    /\ part \in Nat
    /\ readRetries \in 0 .. MaxRetries
    /\ netIdx \in 0 .. NumModels
    /\ loaded \in [Models -> [version : Versions \cup {None}, of : Versions \cup {None}]]
    /\ updated \in [Models -> BOOLEAN]
    /\ retries \in [Models -> 0 .. MaxRetries]
    /\ metaFile \in [Models -> Versions \cup {None, Garbled}]
    /\ planFile \in [Models -> [of : Versions \cup {None}, len : Nat]]
    /\ serverVersion \in [Models -> Versions]
    /\ online \in BOOLEAN
    /\ attempts \in [Models -> Nat]
    /\ announced \in [Models -> Versions \cup {None}]
    /\ refused \in [Models -> SUBSET Versions]
    /\ crashes \in Nat /\ publishes \in Nat

\* _isModelUpdated is set only for a model that is in modelMap with the version
\* the server announced to this process, so can_model_retry may trust it.
UpdatedMeansAnnounced ==
    \A m \in Models : updated[m] =>
        loaded[m] # NoModel /\ loaded[m].version = announced[m]

\* Between two calls of internet_switched_on a model is tried at most
\* DEFAULT_LOAD_MODEL_RETRIES times, in spite of the unlocked counter.
AttemptsBounded == \A m \in Models : attempts[m] <= MaxRetries

\* The device holds the whole plan of version metaFile[m].
DeviceHoldsPlan(m) ==
    /\ metaFile[m] \in Versions
    /\ planFile[m] = FullPlan(metaFile[m])

\* A plan that is intact on the device is downloaded (and its files overwritten
\* with themselves) again only when this process has tried it and could not read
\* or load it, whatever crashes and failed saves came before: load_plan compares
\* the announced version with the one initialize took from the device.
NoRedundantDownload ==
    (pc = "download" /\ DeviceHoldsPlan(idx) /\ target = metaFile[idx])
        => target \in refused[idx]

\* What is in memory is a plan that was saved or downloaded as a whole: version
\* and bytes belong together (NimbleSDKWiki.md, control flow 4).
LoadedIsOnePlan ==
    \A m \in Models : loaded[m].of = loaded[m].version

\* Requests succeed, and the server announces a plan the executor can load.
ServerHealthy(m) == online /\ serverVersion[m] \notin BadPlans

\* The executor does not refuse m for ever: tried without end, it loads at times.
NotRefusedForEver(m) ==
    []<>(pc = "load" /\ idx = m) => []<><<LoadPlan /\ idx = m>>_vars

\* Once requests succeed for good, a model ends up in memory in the version the
\* server announces, and stays, however many attempts the executor refused, and
\* whatever becomes of the other models it shares _cmdThread with: one that the
\* executor refuses for ever does not keep this one from its turn.
EventuallyUpdated ==
    \A m \in Models :
        (<>[]ServerHealthy(m) /\ NotRefusedForEver(m)) => <>[]updated[m]

\* The abstract service, with the versions in modelMap as what is served.
Service == INSTANCE ModelService WITH
    running <- proc # "down",
    serving <- [m \in Models |-> loaded[m].version],
    fresh <- updated

\* Every behaviour of the plan machinery is one of ModelService: no failure,
\* reset or interleaving withdraws a model or touches a fresh one.
ImplementsService == Service!Spec

=============================================================================
