---------------------------- MODULE LoggerProofs ----------------------------
(***************************************************************************)
(* Proofs about Logger, for any set of lines, any sizes and any number of  *)
(* crashes.                                                                *)
(***************************************************************************)
EXTENDS Logger, TLAPS

\* The file being sent is on the device until RemoveFile.
SendInv ==
    /\ send.st \in {"upload", "remove"} => send.file \in pending
    /\ send.st = "remove" => \A l \in send.file : received[l] > 0

\* A line that was not written is nowhere; a line is in one file at most.
PlaceInv ==
    /\ \A l \in Lines : wr[l] # "written" => ~OnDevice(l) /\ received[l] = 0
    /\ \A f \in pending : f \cap latest = {}
    /\ \A f, g \in pending : f # g => f \cap g = {}

\* A line still on the device was received at most once per fault, except by the
\* upload whose removal is next.
CopyInv ==
    \A l \in Lines :
        /\ received[l] <= 1 + faults
        /\ OnDevice(l) => received[l] <= faults \/ (send.st = "remove" /\ l \in send.file)

LogInv == LoggerTypeOK /\ SendInv /\ PlaceInv /\ CopyInv /\ NoLineLost

\* At first there are no lines.
LEMMA InitLogInv == LoggerInit => LogInv
<1> SUFFICES ASSUME LoggerInit PROVE LogInv
  OBVIOUS
<1> USE LoggerAssumption DEF LoggerInit, Idle
<1>1. LoggerTypeOK
  BY DEF LoggerTypeOK
<1>2. SendInv /\ PlaceInv /\ CopyInv /\ NoLineLost
  BY DEF SendInv, PlaceInv, CopyInv, NoLineLost, OnDevice
<1> QED BY <1>1, <1>2 DEF LogInv

\* Every step of the host, the logger and the uploader keeps the invariant.
LEMMA NextLogInv == LogInv /\ [LoggerNext]_loggerVars => LogInv'
<1> SUFFICES ASSUME LogInv, [LoggerNext]_loggerVars PROVE LogInv'
  OBVIOUS
<1> USE LoggerAssumption DEF LogInv, LoggerTypeOK, fileVars, sendVars, logHistory, OnDevice
<1>1. CASE InitLogger \/ Elapse
  <2> USE <1>1 DEF InitLogger, Elapse
  <2>1. LoggerTypeOK'
    OBVIOUS
  <2>2. SendInv'
    BY DEF SendInv
  <2>3. PlaceInv'
    BY DEF PlaceInv
  <2>4. CopyInv'
    BY DEF CopyInv
  <2>5. NoLineLost'
    BY DEF NoLineLost
  <2> QED BY <2>1, <2>2, <2>3, <2>4, <2>5
<1>2. ASSUME NEW l \in Lines, CheckFile(l) PROVE LogInv'
  <2> USE <1>2 DEF CheckFile
  <2>1. LoggerTypeOK'
    OBVIOUS
  <2>2. SendInv'
    BY DEF SendInv
  <2>3. PlaceInv'
    BY DEF PlaceInv
  <2>4. CopyInv'
    BY DEF CopyInv
  <2>5. NoLineLost'
    BY DEF NoLineLost
  <2> QED BY <2>1, <2>2, <2>3, <2>4, <2>5
<1>3. ASSUME NEW l \in Lines, WriteLog(l) PROVE LogInv'
  <2> USE <1>3 DEF WriteLog, Rotate
  <2>1. LoggerTypeOK'
    OBVIOUS
  <2>2. SendInv'
    BY DEF SendInv
  <2>3. PlaceInv'
    <3>1. ~OnDevice(l) /\ received[l] = 0 /\ wr'[l] = "written"
      BY DEF PlaceInv
    <3>2. CASE UNCHANGED pending
      BY <3>1, <3>2 DEF PlaceInv
    <3>3. CASE latest' = {} /\ pending' = pending \cup {latest \cup {l}}
      <4>1. \A f \in pending : f \cap (latest \cup {l}) = {}
        BY <3>1 DEF PlaceInv
      <4>2. \A f, g \in pending' : f # g => f \cap g = {}
        BY <3>3, <4>1 DEF PlaceInv
      <4>3. \A k \in Lines : wr'[k] # "written" => k # l /\ wr[k] # "written"
        OBVIOUS
      <4>4. \A k \in Lines : wr'[k] # "written" => ~OnDevice(k)' /\ received'[k] = 0
        BY <3>3, <4>3 DEF PlaceInv
      <4> QED BY <3>3, <4>2, <4>4 DEF PlaceInv
    <3> QED BY <3>2, <3>3
  <2>4. CopyInv'
    BY DEF CopyInv, PlaceInv
  <2>5. NoLineLost'
    BY DEF NoLineLost
  <2> QED BY <2>1, <2>2, <2>3, <2>4, <2>5
<1>4. CASE LoggerCrash
  <2> USE <1>4 DEF LoggerCrash, Idle
  <2>1. LoggerTypeOK'
    <3>1. wr' \in [Lines -> {"new", "checked", "written", "dropped"}]
      OBVIOUS
    <3>2. send' \in [st : {"idle", "rotate", "upload", "remove"}, file : SUBSET Lines]
      OBVIOUS
    <3>3. faults' \in Nat
      OBVIOUS
    <3> QED BY <3>1, <3>2, <3>3
  <2>2. SendInv'
    BY DEF SendInv
  <2>3. PlaceInv'
    BY DEF PlaceInv
  <2>4. CopyInv'
    BY DEF CopyInv
  <2>5. NoLineLost'
    BY DEF NoLineLost
  <2> QED BY <2>1, <2>2, <2>3, <2>4, <2>5
<1>5. ASSUME NEW files \in {pending, pending \cup {latest}}, NEW file \in files, Read(file, files),
             (files = pending /\ UNCHANGED latest)
               \/ (files = pending \cup {latest} /\ latest' = {}),
             filePtr' \in {"open", "null"}, send.st \in {"idle", "rotate"},
             UNCHANGED <<wr, received>>
      PROVE  LogInv'
  <2> USE <1>5 DEF Idle
  <2>1. CASE file # {} /\ send' = [st |-> "upload", file |-> file] /\ pending' = files
             /\ UNCHANGED <<due, faults, unread>>
    <3>1. \A l \in Lines : OnDevice(l)' <=> OnDevice(l)
      BY <2>1
    <3>2. file \in SUBSET Lines /\ file \in pending'
      BY <2>1
    <3>3. LoggerTypeOK'
      BY <2>1, <3>2
    <3>4. SendInv'
      BY <2>1, <3>2 DEF SendInv
    <3>5. PlaceInv'
      BY <2>1, <3>1 DEF PlaceInv
    <3>6. CopyInv' /\ NoLineLost'
      BY <2>1, <3>1 DEF CopyInv, NoLineLost
    <3> QED BY <3>3, <3>4, <3>5, <3>6
  <2>2. CASE send' = Idle /\ Remove(file, files) /\ due' = FALSE
             /\ unread' = (unread \/ file # {})
    <3>1. pending' \subseteq files /\ files \subseteq SUBSET Lines /\ faults' \in Nat /\ faults <= faults'
      BY <2>2 DEF Remove
    <3>2. \A l \in Lines : OnDevice(l)' => OnDevice(l)
      BY <3>1
    <3>3. LoggerTypeOK'
      BY <2>2, <3>1
    <3>4. SendInv'
      BY <2>2 DEF SendInv
    <3>5. PlaceInv'
      BY <3>1, <3>2 DEF PlaceInv
    <3>6. CopyInv'
      BY <2>2, <3>1, <3>2 DEF CopyInv
    <3>7. NoLineLost'
      <4>1. CASE file # {}
        BY <2>2, <4>1 DEF NoLineLost
      <4>2. CASE file = {}
        <5>1. \A l \in Lines : OnDevice(l) => OnDevice(l)'
          BY <2>2, <4>2 DEF Remove
        <5> QED BY <2>2, <5>1 DEF NoLineLost
      <4> QED BY <4>1, <4>2
    <3> QED BY <3>3, <3>4, <3>5, <3>6, <3>7
  <2> QED BY <2>1, <2>2 DEF Read
<1>6. CASE SendPending \/ \E ic \in BOOLEAN : SendLatest(ic)
  <2>1. CASE SendPending
    <3>1. PICK file \in pending : Read(file, pending)
      BY <2>1 DEF SendPending
    <3> QED BY <1>5, <2>1, <3>1 DEF SendPending
  <2>2. ASSUME NEW ic \in BOOLEAN, SendLatest(ic) PROVE LogInv'
    <3>1. CASE latest' = {} /\ Read(latest, pending \cup {latest})
      BY <1>5, <2>2, <3>1 DEF SendLatest
    <3>2. CASE send' = Idle /\ due' = FALSE /\ UNCHANGED <<latest, pending, faults, unread>>
      <4> USE <2>2, <3>2 DEF SendLatest, Idle
      <4>1. LoggerTypeOK'
        OBVIOUS
      <4>2. SendInv' /\ PlaceInv'
        BY DEF SendInv, PlaceInv
      <4>3. CopyInv' /\ NoLineLost'
        BY DEF CopyInv, NoLineLost
      <4> QED BY <4>1, <4>2, <4>3
    <3> QED BY <2>2, <3>1, <3>2 DEF SendLatest
  <2> QED BY <1>6, <2>1, <2>2
<1>7. ASSUME NEW on \in BOOLEAN, UploadOk(on) \/ UploadReplyLost(on) PROVE LogInv'
  <2> USE <1>7 DEF UploadOk, UploadReplyLost, Deliver, Idle
  <2>1. LoggerTypeOK'
    <3>1. received' \in [Lines -> Nat]
      OBVIOUS
    <3>2. send' \in [st : {"idle", "rotate", "upload", "remove"}, file : SUBSET Lines]
      OBVIOUS
    <3>3. faults' \in Nat /\ UNCHANGED <<latest, pending, filePtr, wr>>
      OBVIOUS
    <3>4. due' \in BOOLEAN /\ unread' \in BOOLEAN
      <4>1. (due' = due \/ due' = FALSE) /\ unread' = unread
        BY Zenon
      <4> QED BY <4>1
    <3> QED BY <3>1, <3>2, <3>3, <3>4
  <2>2. SendInv'
    BY DEF SendInv, PlaceInv
  <2>3. PlaceInv'
    BY DEF PlaceInv, SendInv
  <2>4. CopyInv'
    <3>1. ASSUME NEW l \in Lines
          PROVE  received'[l] <= received[l] + 1 /\ (l \notin send.file => received'[l] = received[l])
      OBVIOUS
    <3>2. ASSUME NEW l \in Lines
          PROVE  (OnDevice(l)' <=> OnDevice(l)) /\ (l \in send.file => OnDevice(l))
      BY DEF SendInv
    <3>3. CASE UploadOk(on)
      BY <3>1, <3>2, <3>3 DEF CopyInv
    <3>4. CASE UploadReplyLost(on)
      BY <3>1, <3>2, <3>4 DEF CopyInv
    <3> QED BY <3>3, <3>4
  <2>5. NoLineLost'
    BY DEF NoLineLost
  <2> QED BY <2>1, <2>2, <2>3, <2>4, <2>5
<1>8. ASSUME NEW on \in BOOLEAN, UploadFails(on) PROVE LogInv'
  <2> USE <1>8 DEF UploadFails, Idle
  <2>1. LoggerTypeOK'
    OBVIOUS
  <2>2. SendInv'
    BY DEF SendInv
  <2>3. PlaceInv'
    BY DEF PlaceInv
  <2>4. CopyInv'
    BY DEF CopyInv
  <2>5. NoLineLost'
    BY DEF NoLineLost
  <2> QED BY <2>1, <2>2, <2>3, <2>4, <2>5
<1>9. CASE RemoveFile
  <2> USE <1>9 DEF RemoveFile, Remove, Idle
  <2>1. LoggerTypeOK'
    <3>1. faults' \in Nat /\ pending' \subseteq pending
      OBVIOUS
    <3> QED BY <3>1
  <2>2. SendInv'
    BY DEF SendInv
  <2>3. PlaceInv'
    BY DEF PlaceInv
  <2>4. CopyInv'
    BY DEF CopyInv, PlaceInv, SendInv
  <2>5. NoLineLost'
    BY DEF NoLineLost, SendInv
  <2> QED BY <2>1, <2>2, <2>3, <2>4, <2>5
<1>10. CASE UNCHANGED loggerVars
  BY <1>10 DEF loggerVars, SendInv, PlaceInv, CopyInv, NoLineLost
<1>11. CASE NothingToSend
  BY <1>10, <1>11 DEF NothingToSend
<1>12. CASE FindLatest \/ \E ic \in BOOLEAN : TooLittle(ic)
  <2> USE <1>12 DEF FindLatest, TooLittle, Idle
  <2>1. LoggerTypeOK'
    OBVIOUS
  <2>2. SendInv'
    BY DEF SendInv
  <2>3. PlaceInv'
    BY DEF PlaceInv
  <2>4. CopyInv'
    BY DEF CopyInv
  <2>5. NoLineLost'
    BY DEF NoLineLost
  <2> QED BY <2>1, <2>2, <2>3, <2>4, <2>5
<1> QED
  BY <1>1, <1>2, <1>3, <1>4, <1>5, <1>6, <1>7, <1>8, <1>9, <1>10, <1>11, <1>12
     DEF LoggerNext, SendPendingLogs, Killed, WriteToNull, RotateNull

\* No line is lost on its way to the log server.
THEOREM LinesKept == LoggerSpec => []NoLineLost
<1>1. LogInv => NoLineLost
  BY DEF LogInv
<1> QED
  BY <1>1, InitLogInv, NextLogInv, PTL DEF LoggerSpec

\* The log server gets no copy of a line without a fault.
THEOREM CopiesSafety == LoggerSpec => []CopiesExplained
<1>1. LogInv => CopiesExplained
  BY DEF LogInv, CopyInv, CopiesExplained
<1> QED
  BY <1>1, InitLogInv, NextLogInv, PTL DEF LoggerSpec
=============================================================================
