---------------------------- MODULE FeatureStore ----------------------------
(***************************************************************************)
(* One feature vector of the feature store: loading the saved copy when    *)
(* the SDK starts, the poll of _cmdThread (version check, download, swap   *)
(* under the write lock, delete of the old buffer, saving in two files),   *)
(* and the inferences that read the vector under the shared lock.          *)
(*                                                                         *)
(* Sources: FeatureStore.cpp, ResourceManager.cpp (feature part).  A file  *)
(* is written in two steps, the truncating open and the write; the process *)
(* may die between any two steps.  The server never announces an older     *)
(* version than before.                                                    *)
(***************************************************************************)
EXTENDS Integers

CONSTANTS
    Readers,        \* threads running get_inference with this feature as an input
    MaxVersion,     \* bound: versions 1 .. MaxVersion are published
    MaxClock,       \* bound on time(NULL)
    MaxPublishes,   \* bound: announcements changed on the server
    MaxCrashes      \* bound: process deaths

ASSUME FeatureAssumption ==
    /\ MaxVersion \in Nat \ {0} /\ MaxClock \in Nat
    /\ MaxPublishes \in Nat /\ MaxCrashes \in Nat

Versions == 1 .. MaxVersion
NoVersion == 0      \* empty version string, absent file
Cut == -1           \* content of a file whose write did not finish

VARIABLES
    up,             \* the process runs (initialize has loaded the saved copy)
    pc,             \* where _cmdThread is in update_feature_if_required
    resp,           \* the FeatureVersionCheckResponse being acted on
    toDelete,       \* bufferToDelete, 0 for nullptr
    valid,          \* _valid
    feature,        \* _feature: version, bytes (version they are of), buffer; _expiry
    upToDate,       \* _isUptoDate
    allocs, freed,  \* buffers 1 .. allocs were allocated; those in freed deleted
    writerFirst,    \* does a waiting writer of std::shared_mutex keep new readers out?
    twice,          \* does the model have two inputs from the feature?
    rd, held,       \* where each reader is, and the buffer its tensor points to
    vectorFile,     \* <feature>FEATURESTOREFILENAME: version of its bytes
    metaFile,       \* <feature>FEATURESTOREMETADATAFILENAME: version and expiry
    server,         \* what the server announces: version and expiry
    online, clock, publishes, crashes,
    lost            \* history: a write failed and save_file_on_device returned true

memVars  == <<valid, feature, upToDate, allocs, freed>>
cmdVars  == <<pc, resp, toDelete>>
lockVars == <<writerFirst, twice>>
rdVars   == <<lockVars, rd, held>>
diskVars == <<vectorFile, metaFile, lost>>
envVars  == <<server, online, clock, publishes>>
vars == <<up, cmdVars, memVars, rdVars, diskVars, envVars, crashes>>

Announcements == [version : Versions, expiry : 0 .. MaxClock]
NoMeta == [version |-> NoVersion, expiry |-> 0]
NoFeature == [version |-> NoVersion, bytes |-> NoVersion, expiry |-> 0, buf |-> 0]

Init ==
    /\ up = FALSE /\ pc = "poll" /\ resp = NoMeta /\ toDelete = 0
    /\ valid = FALSE /\ feature = NoFeature /\ upToDate = FALSE
    /\ allocs = 0 /\ freed = {}
    /\ writerFirst \in BOOLEAN /\ twice \in BOOLEAN
    /\ rd = [h \in Readers |-> "idle"] /\ held = [h \in Readers |-> 0]
    /\ vectorFile = NoVersion /\ metaFile = NoMeta /\ lost = FALSE
    /\ server \in {a \in Announcements : a.version = 1}
    /\ online \in BOOLEAN /\ clock = 0 /\ publishes = 0 /\ crashes = 0

\* The shared locks of an inference.
HoldsLock(h) == rd[h] \in {"again", "reading"}

-----------------------------------------------------------------------------
(* Starting: load_feature_from_device.                                      *)

\* get_feature_data_from_device: the metadata parses and has not expired, and
\* there is a vector file, of whatever length.
DeviceDataValid ==
    /\ metaFile.version \in Versions
    /\ metaFile.expiry >= clock
    /\ vectorFile # NoVersion

Start ==
    /\ ~up
    /\ up' = TRUE
    /\ IF DeviceDataValid
         THEN /\ valid' = TRUE
              /\ allocs' = allocs + 1
              /\ feature' = [version |-> metaFile.version, bytes |-> vectorFile,
                             expiry |-> metaFile.expiry, buf |-> allocs + 1]
         ELSE UNCHANGED <<valid, feature, allocs>>
    /\ UNCHANGED <<cmdVars, upToDate, freed, rdVars, diskVars, envVars, crashes>>

-----------------------------------------------------------------------------
(* update_feature_if_required on _cmdThread.                                *)

\* Fault variant of ShouldDownload: the expiry is not looked at.
ShouldDownloadOnce == ~upToDate

ShouldDownload == ~upToDate \/ feature.expiry < clock

\* The version check fails: the error is logged, the next loop polls again.
GetVersionFails ==
    /\ up /\ pc = "poll" /\ ShouldDownload /\ ~online
    /\ UNCHANGED vars

\* The announced version is in memory: set_upto_date.  The new expiry in the
\* response is not taken over.
GetVersionSame ==
    /\ up /\ pc = "poll" /\ ShouldDownload /\ online
    /\ feature.version = server.version
    /\ upToDate' = TRUE
    /\ UNCHANGED <<up, cmdVars, valid, feature, allocs, freed, rdVars, diskVars,
                   envVars, crashes>>

GetVersionNew ==
    /\ up /\ pc = "poll" /\ ShouldDownload /\ online
    /\ feature.version # server.version
    /\ resp' = server
    /\ pc' = "fetch"
    /\ UNCHANGED <<up, toDelete, memVars, rdVars, diskVars, envVars, crashes>>

GetFeatureFails ==
    /\ up /\ pc = "fetch" /\ ~online
    /\ pc' = "poll"
    /\ UNCHANGED <<up, resp, toDelete, memVars, rdVars, diskVars, envVars, crashes>>

\* The download, then load_feature_store up to the write lock: the new buffer is
\* filled and the old one remembered.
GetFeature ==
    /\ up /\ pc = "fetch" /\ online
    /\ allocs' = allocs + 1
    /\ toDelete' = feature.buf
    /\ pc' = "lock"
    /\ UNCHANGED <<up, resp, valid, feature, upToDate, freed, rdVars, diskVars, envVars,
                   crashes>>

\* Fault variant of Swap: the write lock is not taken.
SwapUnlocked ==
    /\ up /\ pc = "lock"
    /\ feature' = [version |-> resp.version, bytes |-> resp.version,
                   expiry |-> resp.expiry, buf |-> allocs]
    /\ valid' = TRUE
    /\ pc' = "delete"
    /\ UNCHANGED <<up, resp, toDelete, upToDate, allocs, freed, rdVars, diskVars, envVars,
                   crashes>>

\* The section under the write lock, which waits for every shared lock.
Swap ==
    /\ up /\ pc = "lock"
    /\ \A h \in Readers : ~HoldsLock(h)
    /\ feature' = [version |-> resp.version, bytes |-> resp.version,
                   expiry |-> resp.expiry, buf |-> allocs]
    /\ valid' = TRUE
    /\ pc' = "delete"
    /\ UNCHANGED <<up, resp, toDelete, upToDate, allocs, freed, rdVars, diskVars, envVars,
                   crashes>>

\* Fault variant of DeleteOld: _feature.data is read again after the swap.
DeleteOldRereads ==
    /\ up /\ pc = "delete"
    /\ freed' = freed \cup {feature.buf}
    /\ pc' = "openVector"
    /\ UNCHANGED <<up, resp, toDelete, valid, feature, upToDate, allocs, rdVars, diskVars,
                   envVars, crashes>>

DeleteOld ==
    /\ up /\ pc = "delete"
    /\ freed' = IF toDelete = 0 THEN freed ELSE freed \cup {toDelete}
    /\ pc' = "openVector"
    /\ UNCHANGED <<up, resp, toDelete, valid, feature, upToDate, allocs, rdVars, diskVars,
                   envVars, crashes>>

\* Fault variant of OpenVector: the metadata is written before the vector.
OpenVectorLast ==
    /\ up /\ pc = "openVector"
    /\ metaFile' = resp
    /\ pc' = "writeVector"
    /\ UNCHANGED <<up, resp, toDelete, memVars, rdVars, vectorFile, lost, envVars, crashes>>

\* save_feature_data_on_device.  save_file_on_device reports success whatever
\* happens, so a file that could not be opened or written stops nothing.
OpenVector ==
    /\ up /\ pc = "openVector"
    /\ \/ vectorFile' = Cut /\ pc' = "writeVector" /\ UNCHANGED lost
       \/ vectorFile' = vectorFile /\ pc' = "openMeta" /\ lost' = TRUE
    /\ UNCHANGED <<up, resp, toDelete, memVars, rdVars, metaFile, envVars, crashes>>

WriteVector ==
    /\ up /\ pc = "writeVector"
    /\ \/ vectorFile' = resp.version /\ UNCHANGED lost
       \/ vectorFile' = Cut /\ lost' = TRUE
    /\ pc' = "openMeta"
    /\ UNCHANGED <<up, resp, toDelete, memVars, rdVars, metaFile, envVars, crashes>>

\* Then the metadata, in the same way.
OpenMeta ==
    /\ up /\ pc = "openMeta"
    /\ \/ metaFile' = [version |-> Cut, expiry |-> 0] /\ pc' = "writeMeta" /\ UNCHANGED lost
       \/ metaFile' = metaFile /\ pc' = "settle" /\ lost' = TRUE
    /\ UNCHANGED <<up, resp, toDelete, memVars, rdVars, vectorFile, envVars, crashes>>

WriteMeta ==
    /\ up /\ pc = "writeMeta"
    /\ \/ metaFile' = resp /\ UNCHANGED lost
       \/ metaFile' = metaFile /\ lost' = TRUE
    /\ pc' = "settle"
    /\ UNCHANGED <<up, resp, toDelete, memVars, rdVars, vectorFile, envVars, crashes>>

\* set_upto_date, whatever became of the save.
SetUptoDate ==
    /\ up /\ pc = "settle"
    /\ upToDate' = TRUE
    /\ pc' = "poll"
    /\ UNCHANGED <<up, resp, toDelete, valid, feature, allocs, freed, rdVars, diskVars,
                   envVars, crashes>>

-----------------------------------------------------------------------------
(* An inference that has the feature as an input.                           *)

\* get_read_lock looks at _valid before it takes the lock.
CheckValid(h) ==
    /\ up /\ rd[h] = "idle" /\ valid
    /\ rd' = [rd EXCEPT ![h] = "locking"]
    /\ UNCHANGED <<up, cmdVars, memVars, lockVars, held, diskVars, envVars, crashes>>

\* std::shared_lock waits for the writer inside the lock; whether also for one that waits
\* before it depends on the library: in libc++ it does, in glibc it does not.
LockFree == ~(writerFirst /\ pc = "lock")

\* The shared lock is taken and get_feature copies the pointer into a tensor.  A
\* second input from the feature comes to get_read_lock again, unless an input
\* before it is rejected.
ReadLock(h) ==
    /\ up /\ rd[h] = "locking" /\ LockFree
    /\ \E p \in IF twice THEN {"again", "reading"} ELSE {"reading"} : rd' = [rd EXCEPT ![h] = p]
    /\ held' = [held EXCEPT ![h] = feature.buf]
    /\ UNCHANGED <<up, cmdVars, memVars, lockVars, diskVars, envVars, crashes>>

\* The second input takes the shared lock once more.
ReadLockAgain(h) ==
    /\ up /\ rd[h] = "again" /\ LockFree
    /\ rd' = [rd EXCEPT ![h] = "reading"]
    /\ held' = [held EXCEPT ![h] = feature.buf]
    /\ UNCHANGED <<up, cmdVars, memVars, lockVars, diskVars, envVars, crashes>>

\* Fault variant of Release: of two locks one is kept.
ReleaseOne(h) ==
    /\ up /\ rd[h] = "reading"
    /\ rd' = [rd EXCEPT ![h] = IF twice THEN "again" ELSE "idle"]
    /\ held' = [held EXCEPT ![h] = 0]
    /\ UNCHANGED <<up, cmdVars, memVars, lockVars, diskVars, envVars, crashes>>

\* get_inference returns: readLocks go out of scope.
Release(h) ==
    /\ up /\ rd[h] = "reading"
    /\ rd' = [rd EXCEPT ![h] = "idle"]
    /\ held' = [held EXCEPT ![h] = 0]
    /\ UNCHANGED <<up, cmdVars, memVars, lockVars, diskVars, envVars, crashes>>

-----------------------------------------------------------------------------
(* The server, the network, the clock and the operating system.             *)

Publish(a) ==
    /\ publishes < MaxPublishes
    /\ a # server /\ a.version >= server.version
    /\ server' = a
    /\ publishes' = publishes + 1
    /\ UNCHANGED <<up, cmdVars, memVars, rdVars, diskVars, online, clock, crashes>>

NetworkChange ==
    /\ online' = ~online
    /\ UNCHANGED <<up, cmdVars, memVars, rdVars, diskVars, server, clock, publishes, crashes>>

Tick ==
    /\ clock < MaxClock
    /\ clock' = clock + 1
    /\ UNCHANGED <<up, cmdVars, memVars, rdVars, diskVars, server, online, publishes, crashes>>

Crash ==
    /\ up /\ crashes < MaxCrashes
    /\ crashes' = crashes + 1
    /\ up' = FALSE /\ pc' = "poll" /\ resp' = NoMeta /\ toDelete' = 0
    /\ valid' = FALSE /\ feature' = NoFeature /\ upToDate' = FALSE
    /\ allocs' = 0 /\ freed' = {}
    /\ rd' = [h \in Readers |-> "idle"] /\ held' = [h \in Readers |-> 0]
    /\ UNCHANGED <<lockVars, diskVars, envVars>>

-----------------------------------------------------------------------------
UpdateFeatureIfRequired ==
    \/ GetVersionSame \/ GetVersionNew \/ GetVersionFails
    \/ GetFeature \/ GetFeatureFails
    \/ Swap \/ DeleteOld
    \/ OpenVector \/ WriteVector \/ OpenMeta \/ WriteMeta \/ SetUptoDate

Next ==
    \/ Start \/ UpdateFeatureIfRequired
    \/ \E h \in Readers : CheckValid(h) \/ ReadLock(h) \/ ReadLockAgain(h) \/ Release(h)
    \/ \E a \in Announcements : Publish(a)
    \/ NetworkChange \/ Tick \/ Crash

Spec == Init /\ [][Next]_vars

\* _cmdThread runs on and calls of get_inference return.  Strong fairness of Swap:
\* the write lock is granted if no shared lock is held again and again.
FairSpec ==
    /\ Spec
    /\ WF_vars(Start) /\ WF_vars(UpdateFeatureIfRequired) /\ SF_vars(Swap)
    /\ \A h \in Readers : WF_vars(ReadLock(h) \/ ReadLockAgain(h) \/ Release(h))

-----------------------------------------------------------------------------
(* Properties.                                                              *)

TypeOK ==
    /\ up \in BOOLEAN /\ valid \in BOOLEAN /\ upToDate \in BOOLEAN
    /\ pc \in {"poll", "fetch", "lock", "delete", "openVector", "writeVector", "openMeta",
               "writeMeta", "settle"}
    /\ resp \in [version : Versions \cup {NoVersion}, expiry : Nat]
    /\ feature \in [version : Versions \cup {NoVersion}, bytes : Versions \cup {NoVersion, Cut},
                    expiry : Nat, buf : Nat]
    /\ allocs \in Nat /\ toDelete \in Nat /\ freed \subseteq Nat
    /\ writerFirst \in BOOLEAN /\ twice \in BOOLEAN
    /\ rd \in [Readers -> {"idle", "locking", "again", "reading"}]
    /\ held \in [Readers -> Nat]
    /\ vectorFile \in Versions \cup {NoVersion, Cut}
    /\ metaFile \in [version : Versions \cup {NoVersion, Cut}, expiry : Nat]
    /\ server \in Announcements /\ online \in BOOLEAN /\ clock \in Nat
    /\ publishes \in Nat /\ crashes \in Nat /\ lost \in BOOLEAN

\* An inference never computes on a vector that load_feature_store has deleted,
\* although the delete happens outside the lock and the pointer to it was taken
\* before the lock: what a reader holds is the buffer in use, which is not freed.
ReaderBufferAlive ==
    \A h \in Readers : HoldsLock(h) => held[h] = feature.buf /\ held[h] \notin freed

\* Between two updates exactly one buffer is allocated (none before the first):
\* an update neither leaks the old vector nor deletes the new one, and none is
\* deleted twice.
OneBufferAtRest ==
    pc = "poll" => (1 .. allocs) \ freed = IF feature.buf = 0 THEN {} ELSE {feature.buf}

\* A vector in memory whose bytes are not those of its version (a crash inside
\* save_feature_data_on_device) never has the version the server announces, so
\* the next poll replaces it: the metadata is written last.  This needs a disk on
\* which writes succeed, since a failed one is not noticed.
TornIsReplaced ==
    (~lost /\ valid /\ feature.bytes # feature.version) => feature.version < server.version

\* If requests are answered from some time on, the feature ends up in memory with the
\* right bytes (if the disk works), in the announced version or in one that has not
\* expired.  The writer gets the lock if new readers wait for it and no inference locks
\* twice; otherwise only if the inferences do not overlap for ever.
EventuallyRefreshed ==
    (<>[]online /\ []<>((writerFirst /\ ~twice) \/ \A h \in Readers : ~HoldsLock(h))) =>
                  <>[](/\ valid /\ (lost \/ feature.bytes = feature.version)
                       /\ feature.version = server.version \/ clock <= feature.expiry)

\* Every inference returns: its shared locks and the write lock of _cmdThread are never
\* waited for in a circle, except that a model with two inputs from one feature locks
\* twice, which hangs if a writer that came in between goes first.
InferencesReturn ==
    \A h \in Readers : (rd[h] # "idle" /\ ~(writerFirst /\ twice)) ~> rd[h] = "idle"

\* The version and the bytes of the vector a reader's tensor points to; a buffer that
\* was replaced or deleted has none that can be relied on.
Garbage == [version |-> Cut, bytes |-> Cut]
InUse == [version |-> feature.version, bytes |-> feature.bytes]
Computing(h) ==
    IF ~HoldsLock(h) THEN [version |-> NoVersion, bytes |-> NoVersion]
    ELSE IF held[h] = feature.buf /\ held[h] \notin freed THEN InUse
    ELSE Garbage

Service == INSTANCE FeatureService WITH
    Contents <- Versions \cup {Cut},
    running <- up,
    current <- InUse,
    computing <- [h \in Readers |-> Computing(h)]

\* An inference computes on one and the same vector, the one in use, also if it takes the
\* lock for a second input; vectors of a process only get newer, an update comes as a
\* whole, and no failure or expiry takes a vector away that inferences use.
ImplementsFeatureService == Service!Spec
=============================================================================
