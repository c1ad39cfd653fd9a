------------------------- MODULE FeatureStoreProofs -------------------------
(***************************************************************************)
(* Proofs about FeatureStore, for any set of readers and any number of     *)
(* versions, publications and crashes.                                     *)
(***************************************************************************)
EXTENDS FeatureStore, TLAPS

\* A process that is not running has nothing in memory.
DownInv ==
    ~up => /\ pc = "poll" /\ ~valid /\ feature = NoFeature
           /\ allocs = 0 /\ freed = {} /\ \A h \in Readers : rd[h] = "idle"

\* The buffers that are not freed: the one in use, and during an update the one
\* that comes next or went before.
BufferInv ==
    /\ freed \subseteq 1 .. allocs
    /\ feature.buf \in 0 .. allocs /\ feature.buf \notin freed
    /\ pc \notin {"lock", "delete"} => \A b \in 1 .. allocs : b \in freed \/ b = feature.buf
    /\ pc = "lock" => /\ toDelete = feature.buf /\ feature.buf < allocs
                      /\ allocs \notin freed
                      /\ \A b \in 1 .. allocs : b \in freed \/ b \in {toDelete, allocs}
    /\ pc = "delete" => /\ feature.buf = allocs /\ toDelete \in 0 .. allocs - 1
                        /\ \A b \in 1 .. allocs : b \in freed \/ b \in {toDelete, allocs}

\* A reader holds the buffer in use: Swap, which changes it, waits for readers.
ReaderInv == \A h \in Readers : HoldsLock(h) => held[h] = feature.buf

MemInv == TypeOK /\ DownInv /\ BufferInv /\ ReaderInv

\* At first nothing is allocated and nobody reads.
LEMMA InitMemInv == Init => MemInv
<1> SUFFICES ASSUME Init PROVE MemInv
  OBVIOUS
<1>1. TypeOK
  BY FeatureAssumption DEF Init, TypeOK, NoMeta, NoFeature, NoVersion
<1>2. DownInv /\ BufferInv /\ ReaderInv
  BY DEF Init, DownInv, BufferInv, ReaderInv, HoldsLock, NoFeature
<1> QED BY <1>1, <1>2 DEF MemInv

\* The inductive step for types, buffers and readers.
LEMMA NextMemInv == MemInv /\ [Next]_vars => MemInv'
<1> SUFFICES ASSUME MemInv, [Next]_vars PROVE MemInv'
  OBVIOUS
<1> USE FeatureAssumption DEF MemInv, TypeOK, memVars, cmdVars, rdVars, lockVars, diskVars, envVars
<1>1. CASE Start
  <2> USE <1>1 DEF Start
  <2>1. TypeOK'
    <3>1. feature' \in [version : Versions \cup {NoVersion}, bytes : Versions \cup {NoVersion, Cut},
                     expiry : Nat, buf : Nat] /\ allocs' \in Nat
      <4>1. CASE DeviceDataValid
        BY <4>1 DEF DeviceDataValid
      <4>2. CASE ~DeviceDataValid
        BY <4>2
      <4> QED BY <4>1, <4>2
    <3>2. valid' \in BOOLEAN
      BY Zenon
    <3> QED BY <3>1, <3>2
  <2>2. DownInv'
    BY DEF DownInv
  <2>3. BufferInv'
    BY DEF BufferInv, DownInv, NoFeature
  <2>4. ReaderInv'
    BY DEF ReaderInv, HoldsLock, DownInv
  <2> QED BY <2>1, <2>2, <2>3, <2>4
<1>2. CASE GetVersionFails \/ GetVersionSame \/ GetFeatureFails
  <2> USE <1>2 DEF GetVersionFails, GetVersionSame, GetFeatureFails, vars
  <2>1. TypeOK'
    OBVIOUS
  <2>2. DownInv'
    BY DEF DownInv
  <2>3. BufferInv'
    BY DEF BufferInv
  <2>4. ReaderInv'
    BY DEF ReaderInv, HoldsLock
  <2> QED BY <2>1, <2>2, <2>3, <2>4
<1>3. CASE GetVersionNew
  <2> USE <1>3 DEF GetVersionNew
  <2>1. TypeOK'
    BY DEF Announcements
  <2>2. DownInv'
    BY DEF DownInv
  <2>3. BufferInv'
    BY DEF BufferInv
  <2>4. ReaderInv'
    BY DEF ReaderInv, HoldsLock
  <2> QED BY <2>1, <2>2, <2>3, <2>4
<1>4. CASE GetFeature
  <2> USE <1>4 DEF GetFeature
  <2>1. TypeOK'
    OBVIOUS
  <2>2. DownInv'
    BY DEF DownInv
  <2>3. BufferInv'
    BY DEF BufferInv
  <2>4. ReaderInv'
    BY DEF ReaderInv, HoldsLock
  <2> QED BY <2>1, <2>2, <2>3, <2>4
<1>5. CASE Swap
  <2> USE <1>5 DEF Swap
  <2>1. TypeOK'
    OBVIOUS
  <2>2. DownInv'
    BY DEF DownInv
  <2>3. BufferInv'
    BY DEF BufferInv
  <2>4. ReaderInv'
    BY DEF ReaderInv, HoldsLock
  <2> QED BY <2>1, <2>2, <2>3, <2>4
<1>6. CASE DeleteOld
  <2> USE <1>6 DEF DeleteOld
  <2>1. TypeOK'
    OBVIOUS
  <2>2. DownInv'
    BY DEF DownInv
  <2>3. BufferInv'
    BY DEF BufferInv
  <2>4. ReaderInv'
    BY DEF ReaderInv, HoldsLock
  <2> QED BY <2>1, <2>2, <2>3, <2>4
<1>7. CASE OpenVector
  <2> USE <1>7 DEF OpenVector
  <2>1. TypeOK'
    <3>1. UNCHANGED <<up, valid, upToDate, resp, feature, allocs, toDelete, freed, writerFirst, twice, rd,
                      held, server, online, clock, publishes, crashes, metaFile>>
      OBVIOUS
    <3>2. vectorFile' \in Versions \cup {NoVersion, Cut}
      OBVIOUS
    <3>3. lost' \in BOOLEAN /\ pc' \in {"writeVector", "openMeta", "writeMeta", "settle"}
      OBVIOUS
    <3> HIDE DEF OpenVector
    <3> QED BY <3>1, <3>2, <3>3
  <2>2. DownInv'
    BY DEF DownInv
  <2>3. BufferInv'
    BY DEF BufferInv
  <2>4. ReaderInv'
    BY DEF ReaderInv, HoldsLock
  <2> QED BY <2>1, <2>2, <2>3, <2>4
<1>8. CASE WriteVector
  <2> USE <1>8 DEF WriteVector
  <2>1. TypeOK'
    <3>1. UNCHANGED <<up, valid, upToDate, resp, feature, allocs, toDelete, freed, writerFirst, twice, rd,
                      held, server, online, clock, publishes, crashes, metaFile>>
      OBVIOUS
    <3>2. vectorFile' \in Versions \cup {NoVersion, Cut}
      OBVIOUS
    <3>3. lost' \in BOOLEAN /\ pc' \in {"writeVector", "openMeta", "writeMeta", "settle"}
      OBVIOUS
    <3> HIDE DEF WriteVector
    <3> QED BY <3>1, <3>2, <3>3
  <2>2. DownInv'
    BY DEF DownInv
  <2>3. BufferInv'
    BY DEF BufferInv
  <2>4. ReaderInv'
    BY DEF ReaderInv, HoldsLock
  <2> QED BY <2>1, <2>2, <2>3, <2>4
<1>9. CASE OpenMeta
  <2> USE <1>9 DEF OpenMeta
  <2>1. TypeOK'
    <3>1. UNCHANGED <<up, valid, upToDate, resp, feature, allocs, toDelete, freed, writerFirst, twice, rd,
                      held, server, online, clock, publishes, crashes, vectorFile>>
      OBVIOUS
    <3>2. metaFile' \in [version : Versions \cup {NoVersion, Cut}, expiry : Nat]
      OBVIOUS
    <3>3. lost' \in BOOLEAN /\ pc' \in {"writeVector", "openMeta", "writeMeta", "settle"}
      OBVIOUS
    <3> HIDE DEF OpenMeta
    <3> QED BY <3>1, <3>2, <3>3
  <2>2. DownInv'
    BY DEF DownInv
  <2>3. BufferInv'
    BY DEF BufferInv
  <2>4. ReaderInv'
    BY DEF ReaderInv, HoldsLock
  <2> QED BY <2>1, <2>2, <2>3, <2>4
<1>10. CASE WriteMeta
  <2> USE <1>10 DEF WriteMeta
  <2>1. TypeOK'
    <3>1. UNCHANGED <<up, valid, upToDate, resp, feature, allocs, toDelete, freed, writerFirst, twice, rd,
                      held, server, online, clock, publishes, crashes, vectorFile>>
      OBVIOUS
    <3>2. metaFile' \in [version : Versions \cup {NoVersion, Cut}, expiry : Nat]
      OBVIOUS
    <3>3. lost' \in BOOLEAN /\ pc' \in {"writeVector", "openMeta", "writeMeta", "settle"}
      OBVIOUS
    <3> HIDE DEF WriteMeta
    <3> QED BY <3>1, <3>2, <3>3
  <2>2. DownInv'
    BY DEF DownInv
  <2>3. BufferInv'
    BY DEF BufferInv
  <2>4. ReaderInv'
    BY DEF ReaderInv, HoldsLock
  <2> QED BY <2>1, <2>2, <2>3, <2>4
<1>11. CASE SetUptoDate
  <2> USE <1>11 DEF SetUptoDate
  <2>1. TypeOK'
    OBVIOUS
  <2>2. DownInv'
    BY DEF DownInv
  <2>3. BufferInv'
    BY DEF BufferInv
  <2>4. ReaderInv'
    BY DEF ReaderInv, HoldsLock
  <2> QED BY <2>1, <2>2, <2>3, <2>4
<1>12. ASSUME NEW h \in Readers, CheckValid(h) PROVE MemInv'
  <2> USE <1>12 DEF CheckValid
  <2>1. TypeOK'
    OBVIOUS
  <2>2. DownInv'
    BY DEF DownInv
  <2>3. BufferInv'
    BY DEF BufferInv
  <2>4. ReaderInv'
    BY DEF ReaderInv, HoldsLock
  <2> QED BY <2>1, <2>2, <2>3, <2>4
<1>13. ASSUME NEW h \in Readers, ReadLock(h) PROVE MemInv'
  <2> USE <1>13 DEF ReadLock
  <2>1. TypeOK'
    OBVIOUS
  <2>2. DownInv'
    BY DEF DownInv
  <2>3. BufferInv'
    BY DEF BufferInv
  <2>4. ReaderInv'
    BY DEF ReaderInv, HoldsLock
  <2> QED BY <2>1, <2>2, <2>3, <2>4
<1>20. ASSUME NEW h \in Readers, ReadLockAgain(h) PROVE MemInv'
  <2> USE <1>20 DEF ReadLockAgain
  <2>1. TypeOK'
    OBVIOUS
  <2>2. DownInv'
    BY DEF DownInv
  <2>3. BufferInv'
    BY DEF BufferInv
  <2>4. ReaderInv'
    BY DEF ReaderInv, HoldsLock
  <2> QED BY <2>1, <2>2, <2>3, <2>4
<1>14. ASSUME NEW h \in Readers, Release(h) PROVE MemInv'
  <2> USE <1>14 DEF Release
  <2>1. TypeOK'
    OBVIOUS
  <2>2. DownInv'
    BY DEF DownInv
  <2>3. BufferInv'
    BY DEF BufferInv
  <2>4. ReaderInv'
    BY DEF ReaderInv, HoldsLock
  <2> QED BY <2>1, <2>2, <2>3, <2>4
<1>15. ASSUME NEW a \in Announcements, Publish(a) PROVE MemInv'
  <2> USE <1>15 DEF Publish
  <2>1. TypeOK'
    OBVIOUS
  <2>2. DownInv'
    BY DEF DownInv
  <2>3. BufferInv'
    BY DEF BufferInv
  <2>4. ReaderInv'
    BY DEF ReaderInv, HoldsLock
  <2> QED BY <2>1, <2>2, <2>3, <2>4
<1>16. CASE NetworkChange
  <2> USE <1>16 DEF NetworkChange
  <2>1. TypeOK'
    OBVIOUS
  <2>2. DownInv'
    BY DEF DownInv
  <2>3. BufferInv'
    BY DEF BufferInv
  <2>4. ReaderInv'
    BY DEF ReaderInv, HoldsLock
  <2> QED BY <2>1, <2>2, <2>3, <2>4
<1>17. CASE Tick
  <2> USE <1>17 DEF Tick
  <2>1. TypeOK'
    OBVIOUS
  <2>2. DownInv'
    BY DEF DownInv
  <2>3. BufferInv'
    BY DEF BufferInv
  <2>4. ReaderInv'
    BY DEF ReaderInv, HoldsLock
  <2> QED BY <2>1, <2>2, <2>3, <2>4
<1>18. CASE Crash
  <2> USE <1>18 DEF Crash
  <2>1. TypeOK'
    <3>1. feature' \in [version : Versions \cup {NoVersion}, bytes : Versions \cup {NoVersion, Cut},
                     expiry : Nat, buf : Nat]
      BY DEF NoFeature, NoVersion
    <3>2. resp' \in [version : Versions \cup {NoVersion}, expiry : Nat]
      BY DEF NoMeta, NoVersion
    <3>3. rd' \in [Readers -> {"idle", "locking", "reading"}] /\ held' \in [Readers -> Nat]
      OBVIOUS
    <3>4. allocs' \in Nat /\ toDelete' \in Nat /\ freed' \subseteq Nat /\ crashes' \in Nat
      OBVIOUS
    <3>5. up' \in BOOLEAN /\ valid' \in BOOLEAN /\ upToDate' \in BOOLEAN /\ pc' = "poll"
      OBVIOUS
    <3>6. UNCHANGED <<vectorFile, metaFile, lost, server, online, clock, publishes>>
      OBVIOUS
    <3> QED BY <3>1, <3>2, <3>3, <3>4, <3>5, <3>6
  <2>2. DownInv'
    BY DEF DownInv
  <2>3. BufferInv'
    BY DEF BufferInv, NoFeature
  <2>4. ReaderInv'
    BY DEF ReaderInv, HoldsLock
  <2> QED BY <2>1, <2>2, <2>3, <2>4
<1>19. CASE UNCHANGED vars
  <2> USE <1>19 DEF vars
  <2>1. TypeOK'
    OBVIOUS
  <2>2. DownInv'
    BY DEF DownInv
  <2>3. BufferInv'
    BY DEF BufferInv
  <2>4. ReaderInv'
    BY DEF ReaderInv, HoldsLock
  <2> QED BY <2>1, <2>2, <2>3, <2>4
<1> QED
  BY <1>1, <1>2, <1>3, <1>4, <1>5, <1>6, <1>7, <1>8, <1>9, <1>10, <1>11, <1>12, <1>13,
     <1>14, <1>15, <1>16, <1>17, <1>18, <1>19, <1>20 DEF Next, UpdateFeatureIfRequired

\* No inference computes on a vector that load_feature_store has deleted.
THEOREM ReaderSafety == Spec => []ReaderBufferAlive
<1>1. MemInv => ReaderBufferAlive
  BY DEF MemInv, TypeOK, BufferInv, ReaderInv, ReaderBufferAlive
<1> QED
  BY <1>1, InitMemInv, NextMemInv, PTL DEF Spec

\* Updates neither leak a vector nor delete the one in use.
THEOREM BufferSafety == Spec => []OneBufferAtRest
<1>1. MemInv => OneBufferAtRest
  BY DEF MemInv, TypeOK, BufferInv, OneBufferAtRest
<1> QED
  BY <1>1, InitMemInv, NextMemInv, PTL DEF Spec

-----------------------------------------------------------------------------
\* The metadata on the device parses and has not expired.
MetaGood == metaFile.version \in Versions /\ metaFile.expiry >= clock

\* Nothing is newer than what the server announces, and a download is newer than
\* what is in memory.
VersionInv ==
    /\ feature.version <= server.version
    /\ resp.version <= server.version
    /\ metaFile.version <= server.version
    /\ pc # "poll" => resp.version \in Versions
    /\ pc \in {"fetch", "lock"} => feature.version < resp.version
    /\ pc \in {"delete", "openVector", "writeVector", "openMeta", "writeMeta", "settle"} =>
           feature.version = resp.version

\* Good metadata has its own vector next to it or is out of date.  While it is
\* good, memory has its version, until a newer one is being saved over it.
DiskInv ==
    /\ MetaGood => /\ vectorFile # NoVersion
                   /\ vectorFile = metaFile.version \/ metaFile.version < server.version
    /\ (up /\ pc \in {"poll", "fetch", "lock", "settle"} /\ MetaGood) =>
           feature.version = metaFile.version
    /\ (pc \in {"delete", "openVector", "writeVector", "openMeta"} /\ MetaGood) =>
           metaFile.version < resp.version
    /\ pc \in {"openMeta", "writeMeta"} => vectorFile = resp.version
    /\ pc = "writeMeta" => metaFile.version = Cut

TornInv == VersionInv /\ (~lost => DiskInv /\ TornIsReplaced)

\* At first there are no files.
LEMMA InitTornInv == Init => TornInv
BY FeatureAssumption DEF Init, TornInv, VersionInv, DiskInv, TornIsReplaced, MetaGood, NoMeta,
   NoFeature, Announcements, Versions, NoVersion, Cut

\* The inductive step for versions and files.
LEMMA NextTornInv == MemInv /\ TornInv /\ [Next]_vars => TornInv'
<1> SUFFICES ASSUME MemInv, TornInv, [Next]_vars PROVE TornInv'
  OBVIOUS
<1> USE FeatureAssumption DEF MemInv, TypeOK, TornInv, VersionInv, DiskInv, TornIsReplaced,
        MetaGood, Versions, NoVersion, Cut, memVars, cmdVars, rdVars, lockVars, diskVars, envVars
<1>1. CASE Start
  BY <1>1 DEF Start, DownInv, DeviceDataValid, NoFeature
<1>2. CASE GetVersionFails \/ GetVersionSame \/ GetFeatureFails
  BY <1>2 DEF GetVersionFails, GetVersionSame, GetFeatureFails, vars
<1>3. CASE GetVersionNew
  BY <1>3 DEF GetVersionNew, Announcements
<1>4. CASE GetFeature
  BY <1>4 DEF GetFeature
<1>5. CASE Swap
  BY <1>5 DEF Swap, DownInv
<1>6. CASE DeleteOld
  BY <1>6 DEF DeleteOld
<1>7. CASE OpenVector
  <2> USE <1>7 DEF OpenVector
  <2>1. VersionInv'
    OBVIOUS
  <2>2. ASSUME ~lost' PROVE DiskInv'
    <3>1. ~lost /\ vectorFile' = Cut /\ pc' = "writeVector"
      BY <2>2
    <3>2. UNCHANGED <<up, resp, feature, metaFile, server, clock>>
      OBVIOUS
    <3>3. ASSUME MetaGood' PROVE metaFile.version < resp.version
      <4>1. MetaGood
        BY <3>2, <3>3
      <4> QED BY <4>1, <3>1
    <3>4. resp.version <= server.version
      OBVIOUS
    <3>5. ASSUME MetaGood'
          PROVE  vectorFile' # NoVersion /\ metaFile'.version < server'.version
      <4>1. metaFile.version \in Int /\ resp.version \in Int /\ server.version \in Int
        BY DEF Announcements
      <4>2. metaFile.version < server.version
        <5> HIDE DEF MetaGood, TypeOK, VersionInv, TornInv, MemInv, DiskInv
        <5> QED BY <4>1, <3>3, <3>4, <3>5
      <4>3. vectorFile' # NoVersion
        BY <3>1, <3>4
      <4> QED BY <3>2, <4>2, <4>3
    <3> HIDE <1>7 DEF OpenVector, MetaGood, TypeOK, VersionInv, TornInv, MemInv
    <3> QED BY <3>1, <3>2, <3>3, <3>5
  <2>3. ASSUME ~lost' PROVE TornIsReplaced'
    BY <2>3
  <2> QED BY <2>1, <2>2, <2>3
<1>8. CASE WriteVector
  <2> USE <1>8 DEF WriteVector
  <2>1. VersionInv'
    OBVIOUS
  <2>2. ASSUME ~lost' PROVE DiskInv'
    <3>1. ~lost /\ vectorFile' = resp.version /\ pc' = "openMeta"
      BY <2>2
    <3>2. UNCHANGED <<up, resp, feature, metaFile, server, clock>>
      OBVIOUS
    <3>3. ASSUME MetaGood' PROVE metaFile.version < resp.version
      <4>1. MetaGood
        BY <3>2, <3>3
      <4> QED BY <4>1, <3>1
    <3>4. resp.version <= server.version /\ resp.version \in Versions
      OBVIOUS
    <3>5. ASSUME MetaGood'
          PROVE  vectorFile' # NoVersion /\ metaFile'.version < server'.version
      <4>1. metaFile.version \in Int /\ resp.version \in Int /\ server.version \in Int
        BY DEF Announcements
      <4>2. metaFile.version < server.version
        <5> HIDE DEF MetaGood, TypeOK, VersionInv, TornInv, MemInv, DiskInv
        <5> QED BY <4>1, <3>3, <3>4, <3>5
      <4>3. vectorFile' # NoVersion
        BY <3>1, <3>4
      <4> QED BY <3>2, <4>2, <4>3
    <3> HIDE <1>8 DEF WriteVector, MetaGood, TypeOK, VersionInv, TornInv, MemInv
    <3> QED BY <3>1, <3>2, <3>3, <3>5
  <2>3. ASSUME ~lost' PROVE TornIsReplaced'
    BY <2>3
  <2> QED BY <2>1, <2>2, <2>3
<1>9. CASE OpenMeta
  <2> USE <1>9 DEF OpenMeta
  <2>1. VersionInv'
    <3>1. UNCHANGED <<resp, feature, server>> /\ pc' \in {"writeMeta", "settle"}
      OBVIOUS
    <3>2. metaFile'.version = Cut \/ metaFile' = metaFile
      OBVIOUS
    <3>3. metaFile'.version <= server'.version
      BY <3>1, <3>2 DEF Announcements
    <3> HIDE <1>9 DEF OpenMeta
    <3> QED BY <1>9, <3>1, <3>3 DEF OpenMeta
  <2>2. ASSUME ~lost' PROVE DiskInv'
    BY <2>2
  <2>3. ASSUME ~lost' PROVE TornIsReplaced'
    BY <2>3
  <2> QED BY <2>1, <2>2, <2>3
<1>10. CASE WriteMeta
  BY <1>10 DEF WriteMeta
<1>11. CASE SetUptoDate
  BY <1>11 DEF SetUptoDate
<1>12. ASSUME NEW h \in Readers, CheckValid(h) \/ ReadLock(h) \/ ReadLockAgain(h) \/ Release(h)
       PROVE  TornInv'
  BY <1>12 DEF CheckValid, ReadLock, ReadLockAgain, Release
<1>13. ASSUME NEW a \in Announcements, Publish(a) PROVE TornInv'
  BY <1>13 DEF Publish, Announcements
<1>14. CASE NetworkChange \/ Tick
  BY <1>14 DEF NetworkChange, Tick
<1>15. CASE Crash
  BY <1>15 DEF Crash, NoFeature, NoMeta, Announcements
<1>16. CASE UNCHANGED vars
  BY <1>16 DEF vars
<1> QED
  BY <1>1, <1>2, <1>3, <1>4, <1>5, <1>6, <1>7, <1>8, <1>9, <1>10, <1>11, <1>12, <1>13,
     <1>14, <1>15, <1>16 DEF Next, UpdateFeatureIfRequired

\* A vector that does not belong to its version, left by a crash inside a save,
\* never has the announced version: the next poll replaces it.
THEOREM TornSafety == Spec => []TornIsReplaced
<1>1. TornInv => TornIsReplaced
  BY DEF TornInv, TornIsReplaced
<1> QED
  BY <1>1, InitMemInv, NextMemInv, InitTornInv, NextTornInv, PTL DEF Spec

-----------------------------------------------------------------------------
\* Whoever is past get_read_lock has a vector to read.
ServedInv ==
    /\ valid => feature.version \in Versions
    /\ \A h \in Readers : rd[h] # "idle" => valid

\* At first nobody is.
LEMMA InitServedInv == Init => ServedInv
BY DEF Init, ServedInv

\* The vector is only ever replaced by another one while the process runs.
LEMMA NextServedInv == MemInv /\ VersionInv /\ ServedInv /\ [Next]_vars => ServedInv'
<1> SUFFICES ASSUME MemInv, VersionInv, ServedInv, [Next]_vars PROVE ServedInv'
  OBVIOUS
<1> USE DEF ServedInv, memVars, cmdVars, rdVars, lockVars, diskVars, envVars
<1> USE DEF MemInv, TypeOK
<1>1. CASE Start
  BY <1>1 DEF Start, DownInv, DeviceDataValid
<1>2. CASE Swap
  BY <1>2 DEF Swap, VersionInv
<1>3. CASE Crash
  BY <1>3 DEF Crash
<1>4. CASE UpdateFeatureIfRequired /\ ~Swap
  <2>1. UNCHANGED <<valid, feature, rd>>
    BY <1>4 DEF UpdateFeatureIfRequired, GetVersionFails, GetVersionSame, GetVersionNew,
       GetFeatureFails, GetFeature, DeleteOld, OpenVector, WriteVector, OpenMeta, WriteMeta,
       SetUptoDate, vars
  <2> QED BY <2>1
<1>5. ASSUME NEW h \in Readers, CheckValid(h) \/ ReadLock(h) \/ ReadLockAgain(h) \/ Release(h)
      PROVE  ServedInv'
  <2>1. valid /\ UNCHANGED <<valid, feature>>
    BY <1>5 DEF CheckValid, ReadLock, ReadLockAgain, Release
  <2> QED BY <2>1
<1>6. CASE (\E a \in Announcements : Publish(a)) \/ NetworkChange \/ Tick \/ UNCHANGED vars
  <2>1. UNCHANGED <<valid, feature, rd>>
    BY <1>6 DEF Publish, NetworkChange, Tick, vars
  <2> QED BY <2>1
<1> QED
  BY <1>1, <1>2, <1>3, <1>4, <1>5, <1>6 DEF Next

\* What all three invariants say holds throughout.
LEMMA RefinementInvariants == Spec => [](MemInv /\ VersionInv /\ ServedInv)
<1>1. TornInv => VersionInv
  BY DEF TornInv
<1> QED
  BY <1>1, InitMemInv, NextMemInv, InitTornInv, NextTornInv, InitServedInv, NextServedInv, PTL
     DEF Spec

\* A reader computes on the vector in use, and there is one.
LEMMA ComputesOnCurrent ==
    ASSUME MemInv, ServedInv, NEW h \in Readers
    PROVE  /\ Computing(h) = IF HoldsLock(h) THEN InUse ELSE Service!NoVector
           /\ HoldsLock(h) => InUse # Service!NoVector
<1>1. HoldsLock(h) => held[h] = feature.buf /\ held[h] \notin freed
  BY DEF MemInv, ReaderInv, BufferInv
<1>2. HoldsLock(h) => InUse.version # 0
  BY DEF ServedInv, HoldsLock, InUse, Versions
<1> QED
  BY <1>1, <1>2 DEF Computing, Service!NoVector, NoVersion

\* Initial states map to initial states.
LEMMA RefinementInit == Init => Service!Init
BY DEF Init, Service!Init, Service!NoVector, InUse, NoFeature, Computing, HoldsLock, NoVersion

\* Every step maps to a step of the service or changes nothing there.
LEMMA RefinementStep ==
    /\ MemInv /\ VersionInv /\ ServedInv
    /\ (MemInv /\ ServedInv)'
    /\ [Next]_vars
    => [Service!Next]_(Service!serviceVars)
<1> DEFINE C == [h \in Readers |-> Computing(h)]
<1> SUFFICES ASSUME MemInv, VersionInv, ServedInv, MemInv', ServedInv', [Next]_vars
             PROVE  Service!Next \/ UNCHANGED <<up, InUse, C>>
  BY DEF Service!serviceVars
<1>now. \A h \in Readers : /\ Computing(h) = IF HoldsLock(h) THEN InUse ELSE Service!NoVector
                           /\ HoldsLock(h) => InUse # Service!NoVector
  BY ComputesOnCurrent
<1>next. \A h \in Readers :
           Computing(h)' = IF HoldsLock(h)' THEN InUse' ELSE Service!NoVector
  <2>1. SUFFICES ASSUME NEW h \in Readers
                 PROVE  Computing(h)' = IF HoldsLock(h)' THEN InUse' ELSE Service!NoVector
    OBVIOUS
  <2>2. HoldsLock(h)' => held'[h] = feature'.buf /\ held'[h] \notin freed'
    BY DEF MemInv, ReaderInv, BufferInv
  <2> QED BY <2>2 DEF Computing, Service!NoVector, NoVersion
<1> HIDE DEF C
<1>same. ASSUME UNCHANGED <<up, feature, rd>> PROVE UNCHANGED <<up, InUse, C>>
  <2>1. InUse' = InUse /\ \A h \in Readers : HoldsLock(h)' = HoldsLock(h)
    BY <1>same DEF InUse, HoldsLock
  <2>2. \A h \in Readers : Computing(h)' = Computing(h)
    BY <2>1, <1>now, <1>next
  <2> QED BY <1>same, <2>1, <2>2 DEF C
<1>1. CASE Start
  <2>1. \A h \in Readers : ~HoldsLock(h) /\ ~HoldsLock(h)'
    BY <1>1 DEF Start, rdVars, MemInv, DownInv, HoldsLock
  <2>2. C' = C
    BY <2>1, <1>now, <1>next DEF C
  <2>3. InUse' \in {Service!NoVector} \cup [version : Versions, bytes : Versions \cup {Cut}]
    <3>1. CASE DeviceDataValid
      BY <1>1, <3>1 DEF Start, DeviceDataValid, InUse, MemInv, TypeOK, NoVersion
    <3>2. CASE ~DeviceDataValid
      BY <1>1, <3>2 DEF Start, MemInv, DownInv, NoFeature, InUse, Service!NoVector, NoVersion
    <3> QED BY <3>1, <3>2
  <2>4. Service!Start
    BY <1>1, <2>2, <2>3 DEF Service!Start, Start, C
  <2> QED BY <2>4 DEF Service!Next
<1>2. CASE Swap
  <2>1. \A h \in Readers : ~HoldsLock(h) /\ ~HoldsLock(h)'
    BY <1>2 DEF Swap, rdVars, HoldsLock
  <2>2. C' = C /\ \A h \in Readers : C[h] = Service!NoVector
    BY <2>1, <1>now, <1>next DEF C
  <2>3. resp.version \in Versions /\ resp.version > InUse.version
    BY <1>2 DEF Swap, VersionInv, InUse, MemInv, TypeOK, Versions, NoVersion
  <2>4. InUse' = Service!Complete(resp.version)
    BY <1>2 DEF Swap, InUse, Service!Complete
  <2>5. Service!Replace(resp.version)
    BY <1>2, <2>2, <2>3, <2>4 DEF Service!Replace, Swap, C
  <2> QED BY <2>3, <2>5 DEF Service!Next
<1>3. ASSUME NEW h \in Readers, ReadLock(h) PROVE Service!Next
  <2>1. /\ up /\ UNCHANGED up /\ InUse' = InUse
        /\ HoldsLock(h)' /\ ~HoldsLock(h)
        /\ \A k \in Readers \ {h} : HoldsLock(k)' = HoldsLock(k)
    BY <1>3 DEF ReadLock, memVars, InUse, HoldsLock, MemInv, TypeOK
  <2>2. InUse # Service!NoVector
    <3>1. feature.version # 0
      BY <1>3 DEF ReadLock, ServedInv, Versions
    <3> QED BY <3>1 DEF InUse, Service!NoVector
  <2>3. C' = [C EXCEPT ![h] = InUse] /\ C[h] = Service!NoVector
    BY <2>1, <1>now, <1>next DEF C
  <2>4. Service!BeginInference(h)
    BY <2>1, <2>2, <2>3 DEF Service!BeginInference, C
  <2> QED BY <2>4 DEF Service!Next
<1>4. ASSUME NEW h \in Readers, Release(h) PROVE Service!Next
  <2>1. /\ UNCHANGED up /\ InUse' = InUse
        /\ ~HoldsLock(h)' /\ HoldsLock(h)
        /\ \A k \in Readers \ {h} : HoldsLock(k)' = HoldsLock(k)
    BY <1>4 DEF Release, memVars, InUse, HoldsLock, MemInv, TypeOK
  <2>2. C' = [C EXCEPT ![h] = Service!NoVector] /\ C[h] # Service!NoVector
    BY <2>1, <1>now, <1>next DEF C
  <2>3. Service!EndInference(h)
    BY <2>1, <2>2 DEF Service!EndInference, C
  <2> QED BY <2>3 DEF Service!Next
<1>5. ASSUME NEW h \in Readers, CheckValid(h) \/ ReadLockAgain(h) PROVE UNCHANGED <<up, InUse, C>>
  <2>1. /\ UNCHANGED up /\ InUse' = InUse
        /\ \A k \in Readers : HoldsLock(k)' = HoldsLock(k)
    BY <1>5 DEF CheckValid, ReadLockAgain, memVars, InUse, HoldsLock, MemInv, TypeOK
  <2>2. C' = C
    BY <2>1, <1>now, <1>next DEF C
  <2> QED BY <2>1, <2>2
<1>6. CASE Crash
  <2>1. C' = [h \in Readers |-> Service!NoVector] /\ InUse' = Service!NoVector
    BY <1>6, <1>next DEF Crash, C, HoldsLock, InUse, NoFeature, NoVersion, Service!NoVector
  <2>2. Service!Stop
    BY <1>6, <2>1 DEF Service!Stop, Crash, C
  <2> QED BY <2>2 DEF Service!Next
<1>7. CASE UpdateFeatureIfRequired /\ ~Swap
  <2>1. UNCHANGED <<up, feature, rd>>
    BY <1>7 DEF UpdateFeatureIfRequired, GetVersionFails, GetVersionSame, GetVersionNew,
       GetFeatureFails, GetFeature, DeleteOld, OpenVector, WriteVector, OpenMeta, WriteMeta,
       SetUptoDate, vars, memVars, rdVars
  <2> QED BY <2>1, <1>same
<1>8. CASE (\E a \in Announcements : Publish(a)) \/ NetworkChange \/ Tick \/ UNCHANGED vars
  <2>1. UNCHANGED <<up, feature, rd>>
    BY <1>8 DEF Publish, NetworkChange, Tick, vars, memVars, rdVars
  <2> QED BY <2>1, <1>same
<1> QED
  BY <1>1, <1>2, <1>3, <1>4, <1>5, <1>6, <1>7, <1>8 DEF Next

\* Inferences and updates of a feature behave as the FeatureService: whatever fails,
\* expires or crashes, an inference computes on one vector, the one in use.
THEOREM FeatureRefinement == Spec => ImplementsFeatureService
BY RefinementInit, RefinementStep, RefinementInvariants, PTL
   DEF Spec, ImplementsFeatureService, Service!Spec
=============================================================================
