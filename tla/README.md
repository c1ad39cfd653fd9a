# nimbleSDK in TLA+

nimbleSDK runs machine-learning inference on a phone. It keeps models
("inference plans") and feature vectors up to date from a server, survives
restarts with what it saved on the device, aggregates user events into model
inputs, and answers inference calls of the host application. This directory
holds TLA+ models of that machinery, the TLC configurations that check them, and
TLAPS proofs about them. All paths below are relative to the repository; the
code modelled is under `nimblenet/`.

## 1. Inventory

| Component | State | Operations | Interacts with |
|---|---|---|---|
| C API (`nimblenet.cpp`) | one `CommandCenter` | forwards each call | called by host threads |
| `CommandCenter` | `_initializeSuccess`, config, counters | `initialize`, endless loop of `_cmdThread`, `internet_switched_on`, `get_inference`, `exit_inference`, `get_model_status`, `get_inputs_for_inferId`, `add_user_event` | owns all others; host threads and `_cmdThread` meet here without a lock |
| `ResourceManager` | none of its own; two files per model and per feature on the device | load from device, version check, download in parts, save, load | ServerAPI, NativeInterface, executor, feature store |
| ONNX executor | `modelMap`, `_isModelUpdated`, `_loadModelRetries`; per model a session, tensors and a mutex; ring of saved inputs | `load_plan` (whose `ONNXModel` constructor registers the preprocessors), `can_model_retry`, `get_inference`, `get_inputs_for_inferId`, reading the version | used by host threads and by `_cmdThread` |
| `FeatureStore` | vector, version, expiry, shared mutex per feature | `load_feature_store`, `get_read_lock`, `should_download` | written by `_cmdThread`, read by inferences |
| User events (`UserEventsManager`, `TableStore`, `PreProcessor`, `RollingWindow`, columns) | SQLite table, `_allEvents`, windows and aggregates per group | `create_table`, `add_event`, `create_preprocessor`, `get_model_input` | `add_event` on host threads, `create_preprocessor` on `_cmdThread`, `get_model_input` inside inferences |
| `ServerAPI` | token, register retries | requests with authentication retries | network |
| `Logger` | current log file, files to send | write, rotate, upload | host threads and `_cmdThread` |
| `NativeInterface`, platform clients | files | whole-file read and write, HTTP | operating system |
| `ConfigManager`, JSON, base64, PyTorch trainer | - | parsing, encoding; the trainer is not in the default build | - |

What is hard in this system:

* **Threads without locks.** Host threads and `_cmdThread` share the retry
  counters, `modelMap`, the event tables and the ring of saved inputs.
* **Restarts.** A plan and a feature are saved in two files each, neither
  atomically; `save_file_on_device` reports success whatever happened.
* **Retries and liveness.** A budget of attempts per model is refilled only by a
  call of the host; one thread serves all models, features and logs.
* **Time.** Event windows and feature expiry read the wall clock at several
  places of one operation.
* **Index arithmetic.** The windows keep indices into a vector, with -1 for "none".

`PROJECT.json` lists these hazards line by line, with the properties aimed at them.

What makes each component correct: a model that is served has
the version that was announced, is never withdrawn and eventually is the announced one;
the attempts spent stay within the budget; an inference computes on live objects
and returns its own output; a feature read is never freed under the reader; the
aggregates are those of the events in the window, each event once.

## 2. Modules

| Module | Models | Role |
|---|---|---|
| `ModelService` | what the host may rely on: versions served and whether they are fresh | abstract specification |
| `PlanLifecycle` | `ResourceManager` (plans), bookkeeping of the executor, `CommandCenter` loop, files, crashes | core; refines `ModelService` |
| `MCPlanLifecycle` | lengths and parts of three versions | TLC instance |
| `PlanLifecycleProofs` | | proofs |
| `FeatureService` | what an inference may rely on: it computes on one vector, the one in use, and vectors only get newer | abstract specification |
| `FeatureStore` | one feature: poll, swap under lock, readers, files, crashes | component; refines `FeatureService` |
| `FeatureStoreProofs` | | proofs |
| `ServerAPI` | token in memory and in AuthInfo.txt, registration, requests with authentication retries, the server | component, composed by `CommandLoop` |
| `Logger` | `write_log` on any thread, rotation, upload, removal; `LoggerSpec` runs it in any environment | component, composed by `CommandLoop` |
| `LoggerProofs` | | proofs |
| `CommandLoop` | the turn of `_cmdThread`: `ServerAPI::init`, cloud configuration, requests, logs; starts, crashes, connectivity | composition of `ServerAPI` and `Logger` |
| `CommandLoopProofs` | | proofs |
| `Inference` | `get_inference`, `exit_inference`, `get_model_status` and `get_inputs_for_inferId` on several threads against `load_plan` | component |
| `InferenceProofs` | | proofs |
| `AggregateColumn` | Sum, Count, Average, Min, Max: `add_event`, `remove_events`; the aggregate computed from scratch | pure operators and their reference |
| `AggregateColumnProofs` | | proofs about the columns, used by `UserEventsProofs` |
| `UserEvents` | one table and preprocessor with database, memory, window, clock, restarts | component, uses `AggregateColumn` |
| `MCUserEvents` | symmetry of the groups | TLC instance |
| `UserEventsProofs` | | proofs |
| `EventIngest` | what the table promises about the way of an event into memory: brought by the reading, or by its own `add_event`, once each | abstract specification |
| `ModelInputs` | calls of `add_event` step by step against each other, the SELECT, and the constructor of `ONNXModel`, which makes a preprocessor per input and may throw | composition of executor and event tables; refines `EventIngest` |
| `ModelInputsProofs` | | proofs |

### PlanLifecycle

Variables are named after the fields they stand for: `loaded` is `modelMap`,
`updated` is `_isModelUpdated`, `retries` is `_loadModelRetries`, `metaFile` and
`planFile` are the two files of a model. A plan is abstracted to the version its
bytes are of and their number, which is what the length check of
`get_inference_plan_data_from_device` sees. `pc` follows `_cmdThread` through
`update_plan_if_required` and `load_plan`: version check, one action per part,
the two writes, the load, and the decrement of the counter as a read and a write,
because `internet_switched_on` (`netIdx`) writes the same plain `int` from
another thread. A write ends in one of three ways: done, cut short, not opened at
all. `Crash` may happen at any step and keeps only the files. Requests are
answered while `online`; the tail of retries inside `ServerAPI` is part of one
answer.

`LoadOutcomes` is what the constructor of `ONNXModel` may do. It never accepts a plan
of `BadPlans` that is complete; with all other bytes, a complete good plan included, it
may succeed or throw each time, because it also creates preprocessors
(`ONNXExecutor.cpp:451-480`), which fails when a table is not open or a SELECT returns
an error. A file that exists may still not be read (`NativeInterface.cpp:23`):
`LoadFromDevice` can always end without a model. The length of the plan is all that is
compared, so the model also has the load of a truncated plan whose length happens to be
that of the metadata next to it. `refused` is history: the versions that this process
could not read or load since it last loaded one.

### FeatureStore

`pc` follows `update_feature_if_required` and `load_feature_store`. The section
under the write lock is one action whose guard is that no reader holds the shared
lock; the new buffer is allocated and the old pointer taken before it, the delete
comes after it, as in the code. Buffers are numbered, and `freed` is never reused,
so that a use after free cannot hide. `twice` says that the model has two inputs from
the feature: `get_inference` then takes the shared lock a second time on the same
thread (`ReadLockAgain`). `writerFirst` is what the standard leaves to the library:
with libc++ a waiting writer keeps new readers out, with glibc it does not by
default. Both are chosen at the start and stay. A file is opened (which truncates it) and
written in two steps. `lost` records that a write failed unnoticed. The server
never goes back to an older version; if it did, a torn copy could carry the
version that is announced again.

`FeatureService` knows neither locks nor buffers nor files. The mapping takes what a
reader's tensor points to: the vector in use if it points to that buffer and the buffer is
not freed, and otherwise garbage, with which the service has no step.

### ServerAPI, Logger, CommandLoop

These and `PlanLifecycle` look at one thread from two sides. `PlanLifecycle` follows
`_cmdThread` through plans and takes a request as answered or not; `CommandLoop`
follows it through what surrounds the plans and takes the updates as requests.
`call` in `ServerAPI` is the request in progress with the `retries` argument of the
recursion that follows an authentication error (`left`). `server` is up, down, or
"skewed": it issues tokens that it rejects, as a server with a wrong clock does.
`reason` is history: since the last good token was saved, tokens have expired, the
server has rejected one, or AuthInfo.txt could not be written or read. `InitRegister` is
possible with any AuthInfo.txt, since reading one that exists may fail
(`ServerAPI.cpp:29-36`).

`Logger` has a file as the set of its lines. `Rotate` leaves open what `rename` and
`fopen` return, because the code does not look. The check of `_writeFilePtr` and the
section under `_logMutex` are two steps, and a call that finds a null pointer behind
the check takes the process down (`WriteToNull`). `send_pending_logs` does the same: it looks at
the directory and at the pointer without the mutex (`FindLatest`) and rotates under it
(`SendLatest`), where a `write_log` may have rotated in between, or left a null pointer
behind (`RotateNull`). `Read` is `send_logs` up to the
upload: a file that cannot be opened gives no lines and is removed as an empty one
(`unread` records it). `faults` counts the events that excuse a second copy.

`CommandLoop` runs one logger; the metrics agent is a second object of the same
class on other files. Logs go to a host of their own (`ServerAPI.cpp:132`), so
`SendLogs` lets an upload succeed or fail whatever `server` is.

### Inference

Each line of `get_inference` that touches shared state is an action, in the order
of the code: the check under `_modelMapMutex`, the lookup without it,
`_outputTensors.clear()`, the model mutex, inputs or an early return,
`allocate_output_memory`, `Run` or its exception, and the three assignments that
save the inputs. What happens on an object that was destroyed, or with a vector
cleared by another thread, is a choice over the outcomes. `HostSerialises` says
whether the host makes one call at a time.

A failed call goes on to `exit_inference`, which like `get_model_status` looks the
model up again without the mutex and reads its version. `get_inputs_for_inferId`
looks for the slot of an id (`FindInputs`) and then reads it (`Populate`). A slot
holds the call whose inputs it has and the object into which their `TensorInfo`
pointers lead; `fresh` counts the calls saved since the last `load_plan` that used
its object. `saved` is `_maxInferencesSaved` of the configuration and may be 0.

### UserEvents, AggregateColumn, EventIngest, ModelInputs

`AggregateColumn` has the incremental `add_event` and `remove_events` of the five
columns and the reference `Aggregate`. `UserEvents` builds a window from them:
`UpdateWindow` is `update_window` with its early return, `FillStep` one turn of
the loop in `TableStore::create_preprocessor`, with the clock free to move in
between; `Start` covers table creation with equal, different and absent schemas
and the debug flag, with each SQL statement failing: the table then stays closed, but
for a failed DELETE, which is only logged. `DeleteOldRows` takes rows
from the front, since rows are in the order of their TIMESTAMP. The first
`create_preprocessor` may fail after any number of rows (`FailCreate`): the flag
`_isReadyToBeFilled` is set by then, no later call reads the table, and the rest of the
rows stays out of memory until the process restarts. `cut` and `missed` say where that
gap is. Integer division in
averages is the code's for integer columns.

`ModelInputs` drops values and time and keeps the threads. `at` follows
the constructor through `create_preprocessor` for each input: the SELECT if the table
is not in memory, row by row and possibly failing, the columns, the loop over
`_allEvents`, the entry in `_modelInputPreprocessorIdMap`, and
`_preprocessors.push_back`. It may throw at every input and in the dummy run, after
which the old model goes on with the names that now lead to preprocessors of the new
plan. SQLite serialises statements on one connection, so an INSERT waits for a SELECT
whose callback is running.

Nothing in the code locks these vectors, and `add_row` is written for one caller. Its
steps are those of the source: `newIndex` is read (`ReadSize`), the event is pushed
(`PushRow`), the loop over the preprocessors is entered (`EnterLoop`), and each turn
pushes a group to the entry at `newIndex` (`GroupRow`) and lets the preprocessor count
the last entry of the vector (`CountRow`). When two calls run into each other these are
not the entry the call pushed. The histories say what a call met: `overlapped`
another `add_row`, the SELECT, or the creation of a preprocessor; `met` the last of
these; `crowded` is for rows which the SELECT brought while an `add_row` was under way.
A push and a read of a size are one step each.

`EventIngest` knows no vector, position or preprocessor: an event is in memory so many
times. The mapping takes an event as returned when its `add_row` has pushed it, the
table as unread, opened, being read or read from `ready` and `at`, and the copies of an
event from where it is in `_allEvents`. All else of `ModelInputs` is stuttering, which is
to be shown: a push to the wrong place or an `add_row` that ignores the flag breaks it.

## 3. Runs

Passing runs:

| Run | Instance | What it shows |
|---|---|---|
| `plan_safety` | 1 model, 3 versions (2 of equal length, 1 always rejected by the executor, the others at times), 2 crashes, 2 publications, 3 retries | the updated flag means what it says; the racy budget holds; an intact plan is downloaded again only if this process has found it unusable; refinement of `ModelService` |
| `plan_liveness` | 2 models, 1 crash, 1 retry, refusals by the executor | once requests succeed, each model ends up loaded in the announced version, though the other may be refused for ever |
| `events_window` | 2 groups (symmetric), 3 events, 2 schemas, 1 restart, a failing SELECT, clock 0..3 | no fresh event is missing but for the rows a failed SELECT left out; features equal the reference aggregates; memory mirrors the table but for that gap; nothing undefined is done before an event has left the window; once all events have expired the features are the defaults |
| `ingest` | 2 concurrent `add_event` calls, 2 loads of a model with 2 inputs; a row or a preprocessor is begun only while there are fewer than 3 of both together | no event lost but the rows of a failed SELECT, none in memory more than twice, all arrive; an entry nothing ran into is counted once by each preprocessor and has its groups in place; totals drift by no more than one per `add_row` that met a creation; the model in service finds its inputs; refinement of `EventIngest` |
| `feature_store` | 2 readers, 2 versions, 1 crash, 1 publication, both kinds of `shared_mutex`, one or two inputs from the feature | no reader sees a freed buffer; no leak; torn copies are replaced; the feature is refreshed; inferences return; refinement of `FeatureService` |
| `inference` | a host that makes one call at a time, 5 calls, 3 plans, ring of 0 to 2 | own output; latest inputs kept and found by their id; no dangling pointer outlives a round of the ring; every call returns |
| `logger` | 4 lines, files of 2, 2 faults, rotation by size against rotation by the sender | a written line stays on the device until the log server has it; every further copy has a cause |
| `command_loop` | 1 line, each retry counter 1, 1 fault; the API server may fail, expire and reject at any step, the log host fails by itself | a device registers only for a reason; requests, cloud configuration and log upload recover |

Runs that end in a counterexample, each for a statement of the documentation or
of a comment that the code does not meet (see `findings` in `PROJECT.json`):

| Run | Statement | What happens |
|---|---|---|
| `plan_torn` | saved objects are loaded at start | new metadata with old bytes of the same length, after a crash or a failed write between the two files |
| `events_expired_stay` | the return in `update_window` is for "none ... have expired" | some have expired, and stay in the features |
| `inference_overwrites` | an output must not be overwritten by another inference | `clear()` before the lock; the second run writes to the first call's memory |
| `inference_update` | no race between tasks | `load_plan` destroys the object an inference is in |

More facts the models show without a run of their own. After a window has run
empty, the next `get_model_input` reads `allEvents[-1]` (`SumColumn.cpp:26`), and an
average may be divided by a count of zero: `DefinedUntilExpiry` marks where that
begins. After a SELECT that failed once the rows it left out are never loaded in that
process, since the flag is already set (`UserEventsManager.cpp:71-81`); the exceptions
for them in `NoFreshEventMissing`, `MemoryMirrorsTable` and `NoEventLost` are needed.
Two calls of `add_event` in the order "A pushes, B pushes, A feeds, B feeds" make a
preprocessor count B twice and A never, because `TableStore.cpp:43` passes the last
position of the vector; and with "A and B read `newIndex`" first both push their groups
to one entry (`TableStore.cpp:42`), so that the other has none and
`groups[_preprocessorId]` is read past its end. An event whose INSERT comes before the
SELECT of `create_preprocessor` and whose `add_row` comes after the flag is set is in
memory twice (`CopiesBounded` says not more often). A constructor that throws leaves the model in service with some
inputs served by preprocessors of the plan that failed (`ServedInputs` allows it). A
model with two inputs from one feature can hang with a writer between its two locks.
A feature whose expiry the server extends without a new version is asked for again and
again, and the new expiry never taken over (`ResourceManager.cpp:209`): for
`EventuallyRefreshed` the same version counts as refreshed. `QueryAnswers` takes the
ids of inferences to be unique; with equal ids the code returns the first match
(`ONNXExecutor.cpp:127-131`).
After an update of the plan `get_inputs_for_inferId` reads through pointers into the
destroyed model, until the ring has gone round (`StaleInputsWashOut`).

Each passing property also has a mutant, a named fault variant next to the
definition it replaces (`...Uncompared`, `...Unlocked`, `...Rereads`), which TLC
must refute. This shows that the property depends on the code it is about.

**Bounds.** Two publications and two crashes let a torn or truncated save of one
version meet the files of another and be read back twice; three retries are the
code's default. One retry in the liveness run is the hardest case: every failure uses
the budget up, and only a reset, which may be lost, brings the next attempt. For a feature one crash in a save of the published version leaves a torn
copy for the next process; its safety properties are proved without bounds. Two versions of equal length are needed for the length check to be
fooled, one of another length for it to work. Three events and a window of one
second give every order of counted, expired and left-out events of a group;
clock 0..3 lets rows pass the table's expiry, and one restart brings them back
into memory, with or without a gap; the theorems have no such bounds. Two readers are needed for
overlapping shared locks, two hosts for one call to clear the output of another. One host
thread is enough for `inference`, since with `HostSerialises` at most one thread is in
a call; five calls go round a ring of two twice, over two updates. Two events are
the least for two `add_row`s to run into each other, and two loads of two inputs for a
constructor that throws while an earlier model serves. `MaxSize` bounds the rows and the
preprocessors together, looked at when one of them is begun: two events meet one
preprocessor and the creation of a second, and a load that registered one or two
preprocessors is followed by another that registers two or one more. Two loads that both
go through need four; for them there are the theorems only. Four lines in files of two
give two rotated files and a third begun; two faults let a lost reply, a failed
removal and a death in between meet for one line. In `command_loop` a retry counter
of one has its three cases (left, used up, refilled), and one line is enough because
`logger` has the interplay of several; the bound on faults limits what happens to
that line only.

**Fairness.** `_cmdThread` is an OS thread in an endless loop: weak fairness of
its steps. A call that was made goes on: weak fairness of the rest of the call.
Nothing obliges the host to call, with one exception: in `plan_liveness` and
`command_loop` the host goes on calling `internet_switched_on`. Without this
`EventuallyUpdated` fails, because
`can_model_retry` gives a model up for good after three attempts, and since
`internet_switched_on` resets an unsynchronised counter a single call may be lost.
The wiki's "keeps on trying to download" holds with that proviso only. The write
lock of a feature is granted if no shared lock is held again and again (strong
fairness of `Swap`). If the library lets readers pass a waiting writer,
`EventuallyRefreshed` assumes that inferences do not overlap for ever, since otherwise
`_cmdThread` starves; if the writer goes first it needs no such premise, unless the
model locks twice. In that case an inference that holds the lock once and the writer
wait for each other, so `InferencesReturn` excludes it. In `ingest` the
constructor, once begun, and each `add_event` behind its INSERT go on; `load_plan` and
new events need not come. In `command_loop` the same thread, the elapsed log
interval, the restart of the application and the host's reports are weakly fair; the
properties have premises: the server is up for good, tokens no longer expire, or the
process stays up. `EventuallyUploaded` asks nothing of the API server; it needs that
the log host, if uploads are tried without end, accepts some of them
(`LogHostRecovers`). In the same way `EventuallyUpdated` needs that an executor which is
tried without end accepts some attempts for this model (`NotRefusedForEver`), and
nothing of the other models. Network, server, clock and crashes are not fair.

Deadlock checking is on for the plan, feature, logger and command loop runs. It is off where
bounds on calls, loads and events end the behaviour.

## 4. Proofs

Proved with TLAPS for every value of the constants that satisfies the assumptions
named in the modules (no bound on models, versions, crashes, threads):

| Theorem | Says |
|---|---|
| `TypeCorrect` | types; in particular the racy counter stays in 0..MaxRetries |
| `UpdatedSafety` | an updated model is loaded in the announced version |
| `BudgetSafety` | at most MaxRetries attempts between resets |
| `DownloadSafety` | an intact plan on the device is downloaded again only after this process could not read or load it |
| `Refinement` | `PlanLifecycle` implements `ModelService` |
| `IngestRefinement` | `ModelInputs` implements `EventIngest` |
| `LoadsLoseNothing`, `LoadsCopyAtMostTwice` | an accepted event is in memory, but for the rows of a failed SELECT; never more than twice |
| `CountsSafety` | every preprocessor counts an event exactly once whose `add_row` met no other `add_row`, no SELECT and no creation of a preprocessor |
| `GroupsSafety` | in such an event every preprocessor finds its own group |
| `ServedSafety` | the model in service finds a preprocessor made for each of its inputs |
| `MirrorSafety` | `_allEvents` mirrors the table, but for the one gap a failed SELECT leaves |
| `FreshSafety` | no accepted event inside the window is missing from the features, but for the rows in that gap |
| `AggregateSafety` | the incremental columns hold the aggregates of exactly the events counted |
| `ForgetSafety` | a query after every event has expired returns the defaults for the groups that lost no event in between, as long as nothing undefined was done |
| `DefinedSafety` | nothing undefined is done before an event of the table leaves the window |
| `OutputSafety` | a call writes its own output memory, with a serial host |
| `RingSafety`, `QuerySafety` | the latest inputs are kept, and found by exactly their ids, with a serial host |
| `WashOutSafety` | dangling pointers are gone after one round of the ring, with a serial host |
| `ReaderSafety` | no inference reads a deleted feature vector |
| `BufferSafety` | outside a swap exactly the vector in use is allocated |
| `FeatureRefinement` | `FeatureStore` implements `FeatureService` |
| `TornSafety` | a torn copy of a feature never has the announced version |
| `LinesKept` | no written log line is lost |
| `CopiesSafety` | copies of a line are bounded by the faults |
| `RegistrationSafety` | the device registers only if it has no good token saved, or could not read it |

The invariants are not inductive by themselves. For the budget, `attempts + retries`
must be bounded by `MaxRetries` plus the attempt in flight, with the value
`update_model_retries` has read and not yet written in the place of `retries`: a
reset in that gap is overwritten by a smaller value, never by a larger one. For
`UpdatedMeansAnnounced` one needs that the target of a download is the announced
version until the load. `NoRedundantDownload` needs that good files on the device
imply the same version in memory, or a version in `refused`, while no save is under way
(`DeviceInv`). That holds because loading from the device is the first thing a process
does, and because `refused` forgets a version only when another attempt has loaded
one. The refinement follows
from these by one case per action; all of `_cmdThread` except `LoadPlan`,
`VersionCheckSame` and the error paths that clear the flag are stuttering steps.
The `Inference` theorems have `HostSerialises` as a premise, as the counterexample of
`inference_overwrites` demands.

For the ways of an event into memory (`WaysInv`) an event whose `add_row` skipped
it is still to be delivered by the SELECT, or in memory, or one the SELECT failed to
bring, and each of the two ways has at most one copy left to give. This needs where the
threads are (`BaseInv`): the flag is set before the SELECT runs and before any
`add_row` pushes, and no preprocessor is registered before its end. `IngestRefinement`
takes these for the mapping, which counts the places of an event in `_allEvents`: a push
adds one place of one event, and groups and counts move none (`PlacesStep`).
For `FeatureStore` it lists, at each `pc`, which buffers are
not freed (`BufferInv`), and says that a reading inference holds the one in use
(`ReaderInv`); for torn files it relates the vector file, the metadata file and the
announced versions at each step of a save (`DiskInv`). `FeatureRefinement` needs of these
that a download is newer than what is in memory, and that whoever is past
`get_read_lock` has a vector (`ServedInv`); then `Swap` is the only step that replaces a
vector, `ReadLock` and `Release` are the ends of an inference, and a second lock
(`ReadLockAgain`) changes nothing the inference sees. For `Logger` a line is in at
most one file, the file being sent stays among the pending ones until it is removed,
and a line still on the device was received at most once per fault, the upload whose
removal comes next excepted. For `CommandLoop` (`TokenInv`), without a reason to
register the saved token is good, and so is the one in memory unless this process has
still to read the file, which it does before any request.

For `CountedOnce` and `GroupsInPlace` (`GroupsInv`) an entry is settled if its `add_row`
is over and met nobody, or if the SELECT brought it with no `add_row` under way. A settled
entry has the groups and the counts 1 to n in order, n being the number of
preprocessors, or one more once the loop of the new one is past it (`SettledInv`). What
is hard is that later calls may do whatever they like to each other: they must not reach
a settled entry. So the invariant also says that an `add_row` which has met nobody is
the only one, with its own entry last (`SoloInv`), and that every `add_row` under way
works at a later position than any settled entry. For `ServedInputs` (`ServedInv`) an
entry of the map leads to a preprocessor of the serving load or of a later one, and
every input the current load is through with leads to its own. For `Inference` at
most one thread is in a call (`SerialInv`); slot i of the ring holds the call saved
`Age(i)` saves ago (`RingInv`), with the slot being written as the only exception.

For `UserEvents` there are four invariants. `TablesInv`: the event at a place in memory
has the id of the row at that place, or `missed` rows further on behind the gap. `AcceptedInv`: an accepted event inside the
window still has its row, because the deletion at start takes rows older than the
expiry, and its copy in memory unless it is in the gap, neither with an earlier time
than the call had.
`WindowInv`: an event the preprocessor has gone through and that is inside the window
is counted, and `_oldestIndex` has not passed it. `DefinedInv`: as long as no event
has expired, counts are not negative and `_oldestIndex` is inside `_allEvents`.

For `StoreMatchesCounted` (`AggregateInv`), every column of a group that is not spoiled is
the aggregate of the group's counted events (`ColumnHolds`), and every event of the group
from the column's `_oldestIndex` on is counted. So what `remove_events` subtracts, which
it finds by walking from that index, is exactly what was added. `AggregateColumnProofs`
has the step of each operator: adding an event to a column (`ColumnAdd`), passing over one
(`ColumnPass`), a longer `_allEvents` (`ColumnAppend`), and removing all (`RemoveAll`)
or nothing (`RemoveNothing`). `ForgetSafety` follows: a removal leaves no event counted,
and the aggregate of none is the default. The sum over a set of indices is a recursive function of
the running index, so that its recursion can be proved (`SumsRecursion`, `SumsAt`), and
the inductions over indices (`TotalType`, `TotalAdd`, `TotalAppend`) go by the least
counterexample, with the statement given as a set (`IndexInduction`). The theorem
assumes values in `Int`, columns of an integer `T`: addition of floats neither
associates nor cancels, and the code's features then differ from the reference by rounding.

Only model-checked: liveness under fairness (`EventuallyUpdated`,
`EventuallyInMemory`, `EventuallyRefreshed`, `InferencesReturn`, `CallsReturn`,
`RequestsRecover`, `EventuallyConfigured`, `EventuallyUploaded`), which needs ENABLED.
Of the safety properties of the passing runs all
but `TotalsDrift` have a theorem.

## 5. Not modelled

* The content of metrics and the interval of their collection; two rotated log
  files whose names collide in the same millisecond; a second
  `initialize_nimblenet` in one process, which would open latest.txt again.
* Values of the cloud configuration (log URL, key, intervals): set or not.
* `get_model` of `ServerAPI`, which nothing calls.
* Tensor shapes, types and lengths: an input is accepted or not.
* SQL texts, JSON and base64: a parse fails or not.
* `get_inputs_for_inferId` before `initialize` has made the executor; the release of
  returned memory by the host.
* A plan that moves an input to another table, and several tables or features: they
  share no state beyond the database connection and the thread.
* Two pushes to one vector inside each other, and a reader during its reallocation.
* What `remove_events` does with an entry that another `add_row` has given its groups;
  `UserEvents` takes calls of `add_event` one at a time.
* Platform clients, PyTorch trainer, third-party code.

## 6. Plan

1. Done: plan life cycle with abstract service and proofs; user events with
   aggregates and proofs; ingestion race composed with the constructor of models, with
   proofs; feature store with both lock policies and proofs; inference with its queries
   and proofs; `ServerAPI` and `Logger` composed by `CommandLoop`, with proofs.
2. Next: `PlanLifecycle` composed with `ModelInputs`, so that a rejected download is the
   constructor that throws; a second table for an input that moves; the names of
   rotated log files.
3. Proofs: `UserEvents` as an implementation of an abstract
   window that holds the accepted events of the last seconds.
