------------------------ MODULE PlanLifecycleProofs ------------------------
(***************************************************************************)
(* Proofs about PlanLifecycle, for any number of models, versions, parts,  *)
(* retries, crashes and publications.                                      *)
(***************************************************************************)
EXTENDS PlanLifecycle, TLAPS

Downloading == {"download", "savePlan", "load"}

\* What a process that is not running has in memory: nothing.
DownInv ==
    proc = "down" =>
        /\ pc = "pick" /\ netIdx = 0
        /\ \A m \in Models : ~updated[m] /\ announced[m] = None

\* The attempt under way is for a model that is not updated, and for the version
\* that was announced and that is not the loaded one.
AttemptInv ==
    /\ pc \in Downloading \cup {"version"} => ~updated[idx]
    /\ pc \in Downloading =>
         target \in Versions /\ announced[idx] = target /\ loaded[idx].version # target

\* The counter stays positive until the decrement; attempts made plus attempts
\* left fit in the budget, the one under way being counted on both sides.
BudgetInv ==
    /\ pc # "pick" => retries[idx] >= 1
    /\ pc = "decWrite" => readRetries >= 1 /\ attempts[idx] + readRetries <= MaxRetries + 1
    /\ \A m \in Models :
         attempts[m] + retries[m] <= MaxRetries + (IF pc # "pick" /\ idx = m THEN 1 ELSE 0)

\* An intact plan on the device is the loaded one or was refused, unless the model
\* was updated since (and a save failed) or this very plan is being saved and
\* loaded.
DeviceInv ==
    \A m \in Models :
        /\ proc # "down" /\ DeviceHoldsPlan(m) /\ ~updated[m]
        /\ ~(idx = m /\ pc \in {"savePlan", "load"} /\ metaFile[m] = target)
        => loaded[m].version = metaFile[m] \/ metaFile[m] \in refused[m]

IndInv ==
    /\ TypeOK /\ DownInv /\ AttemptInv /\ BudgetInv /\ DeviceInv
    /\ UpdatedMeansAnnounced

USE NumModelsAssumption, VersionsAssumption, PlanAssumption, RetriesAssumption,
    BoundsAssumption

\* Before initialize is called the first time, nothing is in memory or on the device.
LEMMA InitIndInv == Init => IndInv
BY DEF Init, IndInv, TypeOK, DownInv, AttemptInv, BudgetInv, DeviceInv, Downloading, UpdatedMeansAnnounced, Models, NoModel, NoPlan,
       DeviceHoldsPlan, FullPlan

\* What modelMap holds for a model.
ModelType == [version : Versions \cup {None}, of : Versions \cup {None}]

\* The loop of perform_long_running_tasks stays inside _config.modelIds.
LEMMA NextModelType == \A i \in Models : NextModel(i) \in Models
BY DEF NextModel, Models

\* The model built from the whole plan of v.
LEMMA FullModel ==
    ASSUME NEW v \in Versions
    PROVE  /\ Model(v, FullPlan(v)) \in ModelType
           /\ Model(v, FullPlan(v)) # NoModel
           /\ Model(v, FullPlan(v)).version = v
BY DEF Model, FullPlan, ModelType, NoModel

\* Whatever load_plan_from_device leaves in modelMap has the version of the
\* device, or is nothing; and where the device holds a whole plan, it is valid data.
LEMMA LoadedFromDevice ==
    ASSUME TypeOK, NEW m \in Models, NEW x \in LoadFromDevice(m)
    PROVE  /\ x \in ModelType
           /\ x # NoModel => x.version = metaFile[m]
           /\ DeviceHoldsPlan(m) => DeviceDataValid(m)
<1> USE DEF TypeOK, ModelType, NoModel, Model
<1>1. x = NoModel \/ (DeviceDataValid(m) /\ x = Model(metaFile[m], planFile[m]))
  BY DEF LoadFromDevice
<1>2. DeviceHoldsPlan(m) => DeviceDataValid(m)
  BY DEF DeviceHoldsPlan, DeviceDataValid, FullPlan
<1>3. x \in ModelType
  BY <1>1 DEF DeviceDataValid
<1>4. x # NoModel => x.version = metaFile[m]
  BY <1>1
<1> QED BY <1>2, <1>3, <1>4

\* initialize keeps the invariant: what it finds on the device is checked.
LEMMA InitializeStep ==
    ASSUME IndInv, Initialize
    PROVE  IndInv'
<1> USE DEF Initialize, cmdVars, diskVars, envVars, histVars
<1>1. /\ loaded' \in [Models -> UNION {LoadFromDevice(m) : m \in Models}]
      /\ \A m \in Models : loaded'[m] \in LoadFromDevice(m)
  OBVIOUS
<1>2. \A m \in Models :
        /\ loaded'[m] \in ModelType
        /\ loaded'[m] # NoModel => loaded'[m].version = metaFile[m]
        /\ DeviceHoldsPlan(m) => DeviceDataValid(m)
  BY <1>1, LoadedFromDevice DEF IndInv
<1>3. loaded' \in [Models -> ModelType]
  BY <1>1, <1>2, Zenon
<1>4. TypeOK'
  <2>1. \A m \in Models : DeviceDataValid(m) => metaFile[m] \in Versions
    BY DEF DeviceDataValid
  <2>2. refused' \in [Models -> SUBSET Versions]
    BY <2>1
  <2> QED BY <1>3, <2>2 DEF IndInv, TypeOK, ModelType
<1>5. (DownInv /\ AttemptInv /\ BudgetInv)'
  BY DEF IndInv, TypeOK, DownInv, AttemptInv, BudgetInv, Downloading
<1>6. DeviceInv'
  <2> SUFFICES ASSUME NEW m \in Models, DeviceHoldsPlan(m)
               PROVE  loaded'[m].version = metaFile[m] \/ metaFile[m] \in refused'[m]
    BY DEF DeviceInv, DeviceHoldsPlan
  <2>1. DeviceDataValid(m)
    BY <1>2
  <2>2. CASE loaded'[m] = NoModel
    BY <2>1, <2>2
  <2>3. CASE loaded'[m] # NoModel
    BY <1>2, <2>3
  <2> QED BY <2>2, <2>3
<1>8. UpdatedMeansAnnounced'
  BY DEF IndInv, UpdatedMeansAnnounced, DownInv
<1> QED BY <1>4, <1>5, <1>6, <1>8 DEF IndInv

\* Setting _initializeSuccess disturbs nothing.
LEMMA InitializeSuccessStep ==
    ASSUME IndInv, InitializeSuccess
    PROVE  IndInv'
<1> USE DEF InitializeSuccess, cmdVars, memVars, diskVars, envVars, histVars
<1>1. DownInv'
  BY DEF IndInv, TypeOK, DownInv
<1>2. DeviceInv'
  BY DEF IndInv, TypeOK, DeviceInv, DeviceHoldsPlan
<1>3. (TypeOK /\ AttemptInv /\ BudgetInv /\ UpdatedMeansAnnounced)'
  BY DEF IndInv, TypeOK, AttemptInv, Downloading, BudgetInv, UpdatedMeansAnnounced
<1> QED BY <1>1, <1>2, <1>3 DEF IndInv

\* can_model_retry lets an attempt start only with budget and for a model not updated.
LEMMA BeginUpdateStep ==
    ASSUME IndInv, BeginUpdate
    PROVE  IndInv'
<1> USE DEF BeginUpdate, cmdVars, memVars, diskVars, envVars, histVars
<1>1. TypeOK'
  BY DEF IndInv, TypeOK
<1>2. DownInv'
  BY DEF IndInv, TypeOK, DownInv
<1>3. AttemptInv'
  BY DEF IndInv, TypeOK, AttemptInv, Downloading, UpdatedMeansAnnounced,
      CanModelRetry
<1>4. BudgetInv'
  BY DEF IndInv, TypeOK, BudgetInv, CanModelRetry
<1>5. DeviceInv'
  BY DEF IndInv, TypeOK, DeviceInv, DeviceHoldsPlan
<1>6. UpdatedMeansAnnounced'
  BY DEF IndInv, TypeOK, UpdatedMeansAnnounced
<1> QED BY <1>1, <1>2, <1>3, <1>4, <1>5, <1>6 DEF IndInv

\* A model that is not tried is left alone.
LEMMA SkipModelStep ==
    ASSUME IndInv, SkipModel
    PROVE  IndInv'
<1> USE DEF SkipModel, cmdVars, memVars, diskVars, envVars, histVars
<1>1. TypeOK'
  BY NextModelType DEF IndInv, TypeOK
<1>2. DownInv'
  BY DEF IndInv, TypeOK, DownInv
<1>3. AttemptInv'
  BY DEF IndInv, TypeOK, AttemptInv, Downloading
<1>4. BudgetInv'
  BY DEF IndInv, TypeOK, BudgetInv
<1>5. DeviceInv'
  BY DEF IndInv, TypeOK, DeviceInv, DeviceHoldsPlan
<1>6. UpdatedMeansAnnounced'
  BY DEF IndInv, TypeOK, UpdatedMeansAnnounced
<1> QED BY <1>1, <1>2, <1>3, <1>4, <1>5, <1>6 DEF IndInv

\* load_plan returning after a failed version check has changed nothing.
LEMMA VersionCheckFailsStep ==
    ASSUME IndInv, VersionCheckFails
    PROVE  IndInv'
<1> USE DEF VersionCheckFails, cmdVars, memVars, diskVars, envVars, histVars
<1>1. DownInv'
  BY DEF IndInv, TypeOK, DownInv
<1>2. AttemptInv'
  BY DEF IndInv, TypeOK, AttemptInv, Downloading
<1>3. BudgetInv'
  BY DEF IndInv, TypeOK, BudgetInv
<1>4. DeviceInv'
  BY DEF IndInv, TypeOK, DeviceInv, DeviceHoldsPlan
<1>5. (TypeOK /\ UpdatedMeansAnnounced)'
  BY DEF IndInv, TypeOK, UpdatedMeansAnnounced
<1> QED BY <1>1, <1>2, <1>3, <1>4, <1>5 DEF IndInv

\* plan_updated(true) for the version that is loaded.
LEMMA VersionCheckSameStep ==
    ASSUME IndInv, VersionCheckSame
    PROVE  IndInv'
<1> USE DEF VersionCheckSame, cmdVars, memVars, diskVars, envVars, histVars
<1>1. DownInv'
  BY DEF IndInv, TypeOK, DownInv
<1>2. AttemptInv'
  BY DEF IndInv, TypeOK, AttemptInv, Downloading
<1>3. BudgetInv'
  BY DEF IndInv, TypeOK, BudgetInv
<1>4. DeviceInv'
  BY DEF IndInv, TypeOK, DeviceInv, DeviceHoldsPlan
<1>5. UpdatedMeansAnnounced'
  BY DEF IndInv, TypeOK, UpdatedMeansAnnounced, NoModel
<1>6. TypeOK'
  BY DEF IndInv, TypeOK
<1> QED BY <1>1, <1>2, <1>3, <1>4, <1>5, <1>6 DEF IndInv

\* A download starts for a version other than the loaded one.
LEMMA VersionCheckNewStep ==
    ASSUME IndInv, VersionCheckNew
    PROVE  IndInv'
<1> USE DEF VersionCheckNew, cmdVars, memVars, diskVars, envVars, histVars
<1>1. TypeOK'
  BY DEF IndInv, TypeOK
<1>2. DownInv'
  BY DEF IndInv, TypeOK, DownInv
<1>3. AttemptInv'
  BY DEF IndInv, TypeOK, AttemptInv, Downloading
<1>4. BudgetInv'
  BY DEF IndInv, TypeOK, BudgetInv
<1>5. DeviceInv'
  BY DEF IndInv, TypeOK, DeviceInv, DeviceHoldsPlan
<1>6. UpdatedMeansAnnounced'
  BY DEF IndInv, TypeOK, UpdatedMeansAnnounced, AttemptInv
<1> QED BY <1>1, <1>2, <1>3, <1>4, <1>5, <1>6 DEF IndInv

\* Fetching a part changes only the part counter.
LEMMA GetPlanPartStep ==
    ASSUME IndInv, GetPlanPart
    PROVE  IndInv'
<1> USE DEF GetPlanPart, cmdVars, memVars, diskVars, envVars, histVars
<1>1. TypeOK'
  BY DEF IndInv, TypeOK
<1>2. (DownInv /\ AttemptInv /\ BudgetInv /\ DeviceInv /\ UpdatedMeansAnnounced)'
  BY DEF IndInv, TypeOK, DownInv, AttemptInv, Downloading, BudgetInv,
      DeviceInv, DeviceHoldsPlan,
      UpdatedMeansAnnounced
<1> QED BY <1>1, <1>2 DEF IndInv

\* A failed get_plan leaves the model not updated, as it was.
LEMMA GetPlanFailsStep ==
    ASSUME IndInv, GetPlanFails
    PROVE  IndInv'
<1> USE DEF GetPlanFails, cmdVars, memVars, diskVars, envVars, histVars
<1>1. DownInv'
  BY DEF IndInv, TypeOK, DownInv
<1>2. AttemptInv'
  BY DEF IndInv, TypeOK, AttemptInv, Downloading
<1>3. BudgetInv'
  BY DEF IndInv, TypeOK, BudgetInv
<1>4. DeviceInv'
  BY DEF IndInv, TypeOK, DeviceInv, DeviceHoldsPlan, AttemptInv,
      Downloading
<1>5. UpdatedMeansAnnounced'
  BY DEF IndInv, TypeOK, UpdatedMeansAnnounced
<1>6. TypeOK'
  BY DEF IndInv, TypeOK
<1> QED BY <1>1, <1>2, <1>3, <1>4, <1>5, <1>6 DEF IndInv

\* However the write of the metadata ends, an intact plan on the device is loaded or was refused.
LEMMA SaveMetadataStep ==
    ASSUME IndInv, SaveMetadata
    PROVE  IndInv'
<1> USE DEF SaveMetadata, cmdVars, memVars, diskVars, envVars, histVars
<1>1. TypeOK'
  BY DEF IndInv, TypeOK
<1>2. DownInv'
  BY DEF IndInv, TypeOK, DownInv
<1>3. AttemptInv'
  BY DEF IndInv, TypeOK, AttemptInv, Downloading
<1>4. BudgetInv'
  BY DEF IndInv, TypeOK, BudgetInv
<1>5. DeviceInv'
  BY DEF IndInv, TypeOK, DeviceInv, DeviceHoldsPlan, AttemptInv,
      Downloading
<1>6. UpdatedMeansAnnounced'
  BY DEF IndInv, TypeOK, UpdatedMeansAnnounced
<1> QED BY <1>1, <1>2, <1>3, <1>4, <1>5, <1>6 DEF IndInv

\* However the write of the plan ends, an intact plan on the device is loaded or was refused.
LEMMA SavePlanStep ==
    ASSUME IndInv, SavePlan
    PROVE  IndInv'
<1> USE DEF SavePlan, cmdVars, memVars, diskVars, envVars, histVars
<1>0. PICK content \in Prefixes(target) \cup {planFile[idx]} :
          planFile' = [planFile EXCEPT ![idx] = content]
  OBVIOUS
<1>1. TypeOK'
  <2>1. content \in [of : Versions \cup {None}, len : Nat]
    BY DEF IndInv, TypeOK, AttemptInv, Downloading, Prefixes
  <2> QED BY <1>0, <2>1 DEF IndInv, TypeOK
<1>2. DownInv'
  BY DEF IndInv, TypeOK, DownInv
<1>3. AttemptInv'
  BY DEF IndInv, TypeOK, AttemptInv, Downloading
<1>4. BudgetInv'
  BY DEF IndInv, TypeOK, BudgetInv
<1>5. DeviceInv'
  <2>1. content.of = target \/ content = planFile[idx]
    BY DEF Prefixes
  <2> SUFFICES ASSUME NEW m \in Models, DeviceHoldsPlan(m)', ~updated[m],
                      ~(idx = m /\ metaFile[m] = target)
               PROVE  loaded[m].version = metaFile[m] \/ metaFile[m] \in refused[m]
    BY DEF DeviceInv
  <2>2. DeviceHoldsPlan(m)
    BY <1>0, <2>1 DEF DeviceHoldsPlan, FullPlan, IndInv, TypeOK
  <2> QED BY <2>2 DEF IndInv, DeviceInv
<1>6. UpdatedMeansAnnounced'
  BY DEF IndInv, TypeOK, UpdatedMeansAnnounced
<1> QED BY <1>1, <1>2, <1>3, <1>4, <1>5, <1>6 DEF IndInv

\* Swapping in the downloaded model.
LEMMA LoadPlanStep ==
    ASSUME IndInv, LoadPlan
    PROVE  IndInv'
<1> USE DEF LoadPlan, cmdVars, memVars, diskVars, envVars, histVars
<1>0. target \in Versions /\ announced[idx] = target
  BY DEF IndInv, AttemptInv, Downloading
<1>1. TypeOK'
  BY <1>0, FullModel DEF IndInv, TypeOK, ModelType
<1>2. DownInv'
  BY DEF IndInv, TypeOK, DownInv
<1>3. AttemptInv'
  BY DEF IndInv, TypeOK, AttemptInv, Downloading
<1>4. BudgetInv'
  BY DEF IndInv, TypeOK, BudgetInv
<1>5. DeviceInv'
  BY DEF IndInv, TypeOK, DeviceInv, DeviceHoldsPlan
<1>7. UpdatedMeansAnnounced'
  BY <1>0, FullModel DEF IndInv, TypeOK, UpdatedMeansAnnounced
<1> QED BY <1>1, <1>2, <1>3, <1>4, <1>5, <1>7 DEF IndInv

\* A plan the executor refused is noted as such, so the device claims nothing new.
LEMMA LoadPlanFailsStep ==
    ASSUME IndInv, LoadPlanFails
    PROVE  IndInv'
<1> USE DEF LoadPlanFails, cmdVars, memVars, diskVars, envVars, histVars
<1>1. DownInv'
  BY DEF IndInv, TypeOK, DownInv
<1>2. AttemptInv'
  BY DEF IndInv, TypeOK, AttemptInv, Downloading
<1>3. BudgetInv'
  BY DEF IndInv, TypeOK, BudgetInv
<1>4. DeviceInv'
  BY DEF IndInv, TypeOK, DeviceInv, DeviceHoldsPlan, AttemptInv,
      Downloading, LoadOutcomes
<1>5. UpdatedMeansAnnounced'
  BY DEF IndInv, TypeOK, UpdatedMeansAnnounced
<1>6. TypeOK'
  BY DEF IndInv, TypeOK, AttemptInv, Downloading
<1> QED BY <1>1, <1>2, <1>3, <1>4, <1>5, <1>6 DEF IndInv

\* The first half of update_model_retries reads a positive counter.
LEMMA ReadRetriesStep ==
    ASSUME IndInv, ReadRetries
    PROVE  IndInv'
<1> USE DEF ReadRetries, cmdVars, memVars, diskVars, envVars, histVars
<1>1. TypeOK'
  BY DEF IndInv, TypeOK
<1>2. DownInv'
  BY DEF IndInv, TypeOK, DownInv
<1>3. AttemptInv'
  BY DEF IndInv, TypeOK, AttemptInv, Downloading
<1>4. BudgetInv'
  BY DEF IndInv, TypeOK, BudgetInv
<1>5. DeviceInv'
  BY DEF IndInv, TypeOK, DeviceInv, DeviceHoldsPlan
<1>6. UpdatedMeansAnnounced'
  BY DEF IndInv, TypeOK, UpdatedMeansAnnounced
<1> QED BY <1>1, <1>2, <1>3, <1>4, <1>5, <1>6 DEF IndInv

\* The second half writes a counter that is not negative and pays for the attempt.
LEMMA WriteRetriesStep ==
    ASSUME IndInv, WriteRetries
    PROVE  IndInv'
<1> USE DEF WriteRetries, cmdVars, memVars, diskVars, envVars, histVars
<1>0. readRetries - 1 \in 0 .. MaxRetries
  BY DEF IndInv, TypeOK, BudgetInv
<1>1. TypeOK'
  BY <1>0, NextModelType DEF IndInv, TypeOK
<1>2. DownInv'
  BY DEF IndInv, TypeOK, DownInv
<1>3. AttemptInv'
  BY DEF IndInv, TypeOK, AttemptInv, Downloading
<1>4. BudgetInv'
  BY <1>0 DEF IndInv, TypeOK, BudgetInv
<1>5. DeviceInv'
  BY DEF IndInv, TypeOK, DeviceInv, DeviceHoldsPlan, NextModel, Models
<1>6. UpdatedMeansAnnounced'
  BY DEF IndInv, TypeOK, UpdatedMeansAnnounced
<1> QED BY <1>1, <1>2, <1>3, <1>4, <1>5, <1>6 DEF IndInv

\* Entering internet_switched_on disturbs nothing.
LEMMA InternetSwitchedOnStep ==
    ASSUME IndInv, InternetSwitchedOn
    PROVE  IndInv'
<1> USE DEF InternetSwitchedOn, cmdVars, memVars, diskVars, envVars, histVars
<1>1. TypeOK'
  BY DEF IndInv, TypeOK, Models
<1>2. DownInv'
  BY DEF IndInv, TypeOK, DownInv
<1>3. (AttemptInv /\ BudgetInv /\ DeviceInv /\ UpdatedMeansAnnounced)'
  BY DEF IndInv, TypeOK, AttemptInv, Downloading, BudgetInv, DeviceInv,
      DeviceHoldsPlan, UpdatedMeansAnnounced
<1> QED BY <1>1, <1>2, <1>3 DEF IndInv

\* A reset, even between the two halves of a decrement, keeps the budget sound.
LEMMA ResetModelRetriesStep ==
    ASSUME IndInv, ResetModelRetries
    PROVE  IndInv'
<1> USE DEF ResetModelRetries, cmdVars, memVars, diskVars, envVars, histVars
<1>0. netIdx \in Models /\ netIdx' \in 0 .. NumModels
  BY DEF IndInv, TypeOK, Models
<1>1. TypeOK'
  BY <1>0 DEF IndInv, TypeOK
<1>2. DownInv'
  BY DEF IndInv, TypeOK, DownInv
<1>3. BudgetInv'
  BY DEF IndInv, TypeOK, BudgetInv
<1>4. (AttemptInv /\ DeviceInv /\ UpdatedMeansAnnounced)'
  BY DEF IndInv, TypeOK, AttemptInv, Downloading, DeviceInv,
      DeviceHoldsPlan, UpdatedMeansAnnounced
<1> QED BY <1>1, <1>2, <1>3, <1>4 DEF IndInv

\* A new version on the server touches nothing on the device.
LEMMA PublishStep ==
    ASSUME IndInv, NEW m \in Models, NEW v \in Versions, Publish(m, v)
    PROVE  IndInv'
<1> USE DEF Publish, cmdVars, memVars, diskVars, envVars, histVars
<1>1. TypeOK'
  BY DEF IndInv, TypeOK
<1>2. (DownInv /\ AttemptInv /\ BudgetInv /\ DeviceInv /\ UpdatedMeansAnnounced)'
  BY DEF IndInv, TypeOK, DownInv, AttemptInv, Downloading, BudgetInv,
      DeviceInv, DeviceHoldsPlan,
      UpdatedMeansAnnounced
<1> QED BY <1>1, <1>2 DEF IndInv

\* Neither does the network.
LEMMA NetworkChangeStep ==
    ASSUME IndInv, NetworkChange
    PROVE  IndInv'
<1> USE DEF NetworkChange, cmdVars, memVars, diskVars, envVars, histVars
<1>1. TypeOK'
  BY DEF IndInv, TypeOK
<1>2. (DownInv /\ AttemptInv /\ BudgetInv /\ DeviceInv /\ UpdatedMeansAnnounced)'
  BY DEF IndInv, TypeOK, DownInv, AttemptInv, Downloading, BudgetInv,
      DeviceInv, DeviceHoldsPlan,
      UpdatedMeansAnnounced
<1> QED BY <1>1, <1>2 DEF IndInv

\* The end of the process empties the memory and keeps the files.
LEMMA CrashStep ==
    ASSUME IndInv, Crash
    PROVE  IndInv'
<1> USE DEF Crash, cmdVars, memVars, diskVars, envVars, histVars
<1>1. TypeOK'
  <2>1. NoModel \in [version : Versions \cup {None}, of : Versions \cup {None}]
    BY DEF NoModel
  <2>2. 1 \in Models
    BY DEF Models
  <2> QED BY <2>1, <2>2 DEF IndInv, TypeOK
<1>2. DownInv'
  BY DEF IndInv, TypeOK, DownInv
<1>3. AttemptInv'
  BY DEF IndInv, TypeOK, AttemptInv, Downloading
<1>4. BudgetInv'
  BY DEF IndInv, TypeOK, BudgetInv
<1>5. DeviceInv'
  BY DEF IndInv, TypeOK, DeviceInv, DeviceHoldsPlan
<1>7. UpdatedMeansAnnounced'
  BY DEF IndInv, TypeOK, UpdatedMeansAnnounced
<1> QED BY <1>1, <1>2, <1>3, <1>4, <1>5, <1>7 DEF IndInv

\* The inductive step, action by action.
LEMMA NextIndInv == IndInv /\ [Next]_vars => IndInv'
<1> SUFFICES ASSUME IndInv, [Next]_vars PROVE IndInv'
  OBVIOUS
<1>1. CASE Initialize \/ InitializeSuccess
  BY <1>1, InitializeStep, InitializeSuccessStep
<1>2. CASE CmdThread
  BY <1>2, BeginUpdateStep, SkipModelStep, VersionCheckFailsStep, VersionCheckSameStep,
     VersionCheckNewStep, GetPlanPartStep, GetPlanFailsStep, SaveMetadataStep,
     SavePlanStep, LoadPlanStep, LoadPlanFailsStep, ReadRetriesStep, WriteRetriesStep
     DEF CmdThread
<1>3. CASE InternetSwitchedOn \/ ResetModelRetries
  BY <1>3, InternetSwitchedOnStep, ResetModelRetriesStep
<1>4. CASE \E m \in Models, v \in Versions : Publish(m, v)
  BY <1>4, PublishStep
<1>5. CASE NetworkChange \/ Crash
  BY <1>5, NetworkChangeStep, CrashStep
<1>6. CASE UNCHANGED vars
  BY <1>6 DEF vars, cmdVars, memVars, diskVars, envVars, histVars, IndInv, TypeOK, DownInv,
     AttemptInv, BudgetInv, DeviceInv, Downloading,
     UpdatedMeansAnnounced, DeviceHoldsPlan
<1> QED BY <1>1, <1>2, <1>3, <1>4, <1>5, <1>6 DEF Next

\* IndInv is an invariant of the plan machinery.
LEMMA IndInvHolds == Spec => []IndInv
BY InitIndInv, NextIndInv, PTL DEF Spec

-----------------------------------------------------------------------------
\* Every variable keeps its type; in particular the retry counter, which two
\* threads write without a lock, never leaves 0 .. MaxRetries.
THEOREM TypeCorrect == Spec => []TypeOK
<1>1. IndInv => TypeOK
  BY DEF IndInv
<1> QED BY <1>1, IndInvHolds, PTL

\* can_model_retry may stop polling for a model that is marked as updated.
THEOREM UpdatedSafety == Spec => []UpdatedMeansAnnounced
<1>1. IndInv => UpdatedMeansAnnounced
  BY DEF IndInv
<1> QED BY <1>1, IndInvHolds, PTL

\* The retry budget bounds the attempts between two resets.
THEOREM BudgetSafety == Spec => []AttemptsBounded
<1>1. IndInv => AttemptsBounded
  BY DEF IndInv, TypeOK, BudgetInv, AttemptsBounded
<1> QED BY <1>1, IndInvHolds, PTL

\* An intact plan on the device is downloaded again only after it was refused.
THEOREM DownloadSafety == Spec => []NoRedundantDownload
<1>1. IndInv => NoRedundantDownload
  BY DEF IndInv, TypeOK, DownInv, AttemptInv, DeviceInv, Downloading, NoRedundantDownload
<1> QED BY <1>1, IndInvHolds, PTL

-----------------------------------------------------------------------------
(* Refinement of ModelService.                                              *)

\* The initial states are those of the abstract service.
LEMMA RefinementInit == Init => Service!Init
BY DEF Init, Service!Init, NoModel

\* Every step of the plan machinery is a step of the abstract service or none.
LEMMA RefinementStep == IndInv /\ [Next]_vars => [Service!Next]_(Service!serviceVars)
<1> SUFFICES ASSUME IndInv, [Next]_vars
             PROVE  Service!Next \/ UNCHANGED Service!serviceVars
  OBVIOUS
<1> USE DEF cmdVars, memVars, diskVars, envVars, histVars
<1>1. CASE Initialize
  <2>1. \A m \in Models : loaded'[m] \in LoadFromDevice(m)
    BY <1>1 DEF Initialize
  <2>2. \A m \in Models : loaded'[m].version \in Versions \cup {None}
    BY <2>1, LoadedFromDevice DEF IndInv, ModelType
  <2>3. Service!Start
    BY <1>1, <2>2 DEF Initialize, Service!Start
  <2> QED BY <2>3 DEF Service!Next
<1>2. CASE VersionCheckSame \/ VersionCheckNew
  <2>1. ~updated[idx] /\ idx \in Models /\ serverVersion[idx] \in Versions
    BY <1>2 DEF IndInv, TypeOK, AttemptInv, VersionCheckSame, VersionCheckNew
  <2>2. updated' = [updated EXCEPT ![idx] = (loaded[idx].version = serverVersion[idx])]
    <3>1. CASE VersionCheckSame
      <4>1. loaded[idx].version = serverVersion[idx]
        BY <3>1 DEF VersionCheckSame
      <4>2. (loaded[idx].version = serverVersion[idx]) = TRUE
        BY <4>1
      <4> QED BY <3>1, <4>2, Zenon DEF VersionCheckSame
    <3>2. CASE VersionCheckNew
      <4>1. (loaded[idx].version = serverVersion[idx]) = FALSE
        BY <3>2 DEF VersionCheckNew
      <4>2. updated = [updated EXCEPT ![idx] = FALSE]
        BY <2>1 DEF IndInv, TypeOK
      <4>3. updated' = updated
        BY <3>2 DEF VersionCheckNew
      <4> QED BY <4>1, <4>2, <4>3, Zenon
    <3> QED BY <1>2, <3>1, <3>2
  <2>3. [m \in Models |-> loaded[m].version][idx] = loaded[idx].version
    BY <2>1
  <2>4. /\ proc # "down" /\ loaded' = loaded /\ (proc # "down")' = (proc # "down")
        /\ announced' = [announced EXCEPT ![idx] = serverVersion[idx]]
    BY <1>2 DEF VersionCheckSame, VersionCheckNew
  <2>5. Service!Announce(idx, serverVersion[idx])
    BY <2>1, <2>2, <2>3, <2>4, Zenon DEF Service!Announce
  <2> QED BY <2>1, <2>5, Zenon DEF Service!Next
<1>3. CASE LoadPlan
  <2>1. /\ ~updated[idx] /\ idx \in Models
        /\ target \in Versions /\ announced[idx] = target
    BY <1>3 DEF IndInv, TypeOK, AttemptInv, Downloading, LoadPlan
  <2>2. PICK i \in Models : i = idx
    BY <2>1
  <2>3. [m \in Models |-> loaded[m].version]'
          = [[m \in Models |-> loaded[m].version] EXCEPT ![i] = target]
    BY <1>3, <2>1, <2>2, FullModel DEF LoadPlan, IndInv, TypeOK
  <2>4. Service!Replace(i)
    BY <1>3, <2>1, <2>2, <2>3 DEF LoadPlan, Service!Replace
  <2> QED BY <2>4 DEF Service!Next
<1>4. CASE Crash
  BY <1>4 DEF Crash, Service!Stop, Service!Next, NoModel
<1>5. CASE GetPlanFails \/ LoadPlanFails
  <2>1. ~updated[idx] /\ idx \in Models
    BY <1>5 DEF GetPlanFails, LoadPlanFails, IndInv, TypeOK, AttemptInv, Downloading
  <2>2. updated' = [updated EXCEPT ![idx] = FALSE] /\ UNCHANGED <<proc, loaded, announced>>
    BY <1>5 DEF GetPlanFails, LoadPlanFails
  <2>3. updated = [m \in Models |-> updated[m]] /\ updated[idx] = FALSE
    BY <2>1 DEF IndInv, TypeOK
  <2>4. updated' = updated
    BY <2>1, <2>2, <2>3
  <2> QED BY <2>2, <2>4 DEF Service!serviceVars
<1>6. CASE \/ InitializeSuccess \/ BeginUpdate \/ SkipModel \/ VersionCheckFails
           \/ GetPlanPart \/ SaveMetadata \/ SavePlan \/ ReadRetries \/ WriteRetries
           \/ InternetSwitchedOn \/ ResetModelRetries \/ NetworkChange
           \/ \E m \in Models, v \in Versions : Publish(m, v)
  BY <1>6 DEF InitializeSuccess, BeginUpdate, SkipModel, VersionCheckFails, GetPlanPart,
     SaveMetadata, SavePlan, ReadRetries, WriteRetries, InternetSwitchedOn,
     ResetModelRetries, NetworkChange, Publish, Service!serviceVars
<1>7. CASE UNCHANGED vars
  BY <1>7 DEF vars, Service!serviceVars
<1> QED BY <1>1, <1>2, <1>3, <1>4, <1>5, <1>6, <1>7 DEF Next, CmdThread

\* The plan machinery implements the abstract model service.
THEOREM Refinement == Spec => ImplementsService
BY RefinementInit, RefinementStep, IndInvHolds, PTL
   DEF Spec, ImplementsService, Service!Spec
=============================================================================
