------------------------------- MODULE Logger -------------------------------
(***************************************************************************)
(* The log files: lines written by any thread to latest.txt, rotation to   *)
(* files of their own, and the upload of these by _cmdThread, which        *)
(* removes a file once the log server has accepted it.  The SDK has two    *)
(* such objects, for logs and for metrics.                                 *)
(*                                                                         *)
(* Source: Logger.cpp.  A line is a model value, written by one call of    *)
(* write_log; a file is the set of its lines; sizes are numbers of lines.  *)
(* Names of rotated files are taken to differ.  LoggerSpec runs the logger *)
(* in any environment; CommandLoop calls its actions from the SDK's loop.  *)
(***************************************************************************)
EXTENDS Integers, FiniteSets

CONSTANTS
    Lines,
    MaxFileLines,       \* MAX_LOG_FILE_SIZE_IN_KB, in lines
    MinFileLines,       \* MIN_LOG_FILE_SIZE_BYTES, in lines
    MaxFaults           \* bound: lost replies and files that stay after an upload

ASSUME LoggerAssumption ==
    MaxFileLines \in Nat /\ MinFileLines \in Nat /\ MaxFaults \in Nat

VARIABLES
    latest,             \* the lines in latest.txt
    pending,            \* the other files of the directory
    filePtr,            \* _writeFilePtr: "open" or "null"
    wr,                 \* per line: where its call of write_log is
    send,               \* send_pending_logs: its stage and the file it sends
    due,                \* the interval since _lastLogTime has elapsed
    received,           \* how often the log server got each line
    faults,             \* history: times a file may have stayed although it was accepted
    unread              \* history: a file could not be opened for reading

fileVars == <<latest, pending, filePtr>>
sendVars == <<send, due>>
logHistory == <<received, faults, unread>>
loggerVars == <<fileVars, wr, sendVars, logHistory>>

Idle == [st |-> "idle", file |-> {}]

LoggerInit ==
    /\ latest = {} /\ pending = {} /\ filePtr = "null"
    /\ wr = [l \in Lines |-> "new"]
    /\ send = Idle /\ due = TRUE
    /\ received = [l \in Lines |-> 0] /\ faults = 0 /\ unread = FALSE

\* fclose, rename, fopen: each of the last two may fail, and the results are not
\* looked at.  Afterwards content is what latest.txt would hold.
Rotate(content) ==
    /\ \/ latest' = {} /\ pending' = pending \cup {content}
       \/ latest' = content /\ pending' = pending
    /\ filePtr' \in {"open", "null"}

-----------------------------------------------------------------------------
\* init_logger opens latest.txt for appending; the first send is due at once.
InitLogger ==
    /\ filePtr = "null"
    /\ filePtr' = "open"
    /\ due' = TRUE
    /\ UNCHANGED <<latest, pending, wr, send, logHistory>>

\* write_log looks at _writeFilePtr before it takes the mutex.
CheckFile(l) ==
    /\ wr[l] = "new"
    /\ wr' = [wr EXCEPT ![l] = IF filePtr = "open" THEN "checked" ELSE "dropped"]
    /\ UNCHANGED <<fileVars, sendVars, logHistory>>

\* The section under the mutex.
WriteLog(l) ==
    /\ wr[l] = "checked" /\ filePtr = "open"
    /\ wr' = [wr EXCEPT ![l] = "written"]
    /\ IF Cardinality(latest \cup {l}) > MaxFileLines
         THEN Rotate(latest \cup {l})
         ELSE latest' = latest \cup {l} /\ UNCHANGED <<pending, filePtr>>
    /\ UNCHANGED <<sendVars, logHistory>>

-----------------------------------------------------------------------------
(* send_pending_logs on _cmdThread, when the interval has elapsed.          *)

\* remove, which may fail: the file is found again later.
Remove(file, files) ==
    \/ pending' = files \ {file} /\ UNCHANGED faults
    \/ pending' = files /\ faults < MaxFaults /\ faults' = faults + 1

\* The file is read and its lines are uploaded next.  If there are none, because the
\* file is empty or could not be opened, send_logs removes it without an upload.
Read(file, files) ==
    \/ /\ file # {}
       /\ send' = [st |-> "upload", file |-> file]
       /\ pending' = files
       /\ UNCHANGED <<due, faults, unread>>
    \/ /\ send' = Idle
       /\ Remove(file, files)
       /\ due' = FALSE
       /\ unread' = (unread \/ file # {})

\* getNewFileToSendLog found a file.
SendPending ==
    /\ send.st = "idle" /\ due
    /\ \E file \in pending : Read(file, pending)
    /\ UNCHANGED <<latest, filePtr, wr, received>>

\* There is none, and _writeFilePtr is not NULL, which is looked at before the mutex
\* is taken: until then a write_log may rotate the file and change both.
FindLatest ==
    /\ send.st = "idle" /\ due
    /\ pending = {} /\ filePtr = "open"
    /\ send' = [st |-> "rotate", file |-> {}]
    /\ UNCHANGED <<fileVars, wr, due, logHistory>>

\* Under the mutex latest.txt is rotated: on the first turn of the loop always,
\* later if it is long enough.  If the rename fails there is nothing to read.
SendLatest(initComplete) ==
    /\ send.st = "rotate" /\ filePtr = "open"
    /\ ~initComplete \/ Cardinality(latest) > MinFileLines
    /\ \/ latest' = {} /\ Read(latest, pending \cup {latest})
       \/ send' = Idle /\ due' = FALSE /\ UNCHANGED <<latest, pending, faults, unread>>
    /\ filePtr' \in {"open", "null"}
    /\ UNCHANGED <<wr, received>>

\* Too little to send: back to the loop.  Until the first write after fopen with
\* "a+" ftell may tell 0, whatever the file holds.
TooLittle(initComplete) ==
    /\ send.st = "rotate" /\ filePtr = "open" /\ initComplete
    /\ send' = Idle
    /\ UNCHANGED <<fileVars, wr, due, logHistory>>

\* Too early, or no file pointer.
NothingToSend ==
    /\ send.st = "idle"
    /\ due => pending = {} /\ filePtr = "null"
    /\ UNCHANGED loggerVars

Deliver(file) == [l \in Lines |-> IF l \in file THEN received[l] + 1 ELSE received[l]]

\* 202: the file is removed next.
UploadOk(online) ==
    /\ send.st = "upload" /\ online
    /\ received' = Deliver(send.file)
    /\ send' = [send EXCEPT !.st = "remove"]
    /\ UNCHANGED <<fileVars, wr, due, faults, unread>>

\* The log server takes the lines and the reply is lost: the file stays.
UploadReplyLost(online) ==
    /\ send.st = "upload" /\ online /\ faults < MaxFaults
    /\ received' = Deliver(send.file)
    /\ faults' = faults + 1
    /\ send' = Idle /\ due' = FALSE
    /\ UNCHANGED <<fileVars, wr, unread>>

\* Fault variant of UploadFails: the file is removed all the same.
UploadFailsRemoves(online) ==
    /\ send.st = "upload" /\ ~online
    /\ send' = [send EXCEPT !.st = "remove"]
    /\ UNCHANGED <<fileVars, wr, due, logHistory>>

UploadFails(online) ==
    /\ send.st = "upload" /\ ~online
    /\ send' = Idle /\ due' = FALSE
    /\ UNCHANGED <<fileVars, wr, logHistory>>

\* Fault variant of RemoveFile: it is not removed.
RemoveFileNot ==
    /\ send.st = "remove"
    /\ send' = Idle /\ due' = FALSE
    /\ UNCHANGED <<fileVars, wr, logHistory>>

RemoveFile ==
    /\ send.st = "remove"
    /\ Remove(send.file, pending)
    /\ send' = Idle /\ due' = FALSE
    /\ UNCHANGED <<latest, filePtr, wr, received, unread>>

SendPendingLogs(initComplete, online) ==
    \/ SendPending \/ NothingToSend
    \/ FindLatest \/ SendLatest(initComplete) \/ TooLittle(initComplete)
    \/ UploadOk(online) \/ UploadReplyLost(online) \/ UploadFails(online) \/ RemoveFile

Elapse ==
    /\ ~due
    /\ due' = TRUE
    /\ UNCHANGED <<fileVars, wr, send, logHistory>>

\* The process dies.  What was written is in the files; a call of write_log that has
\* not written yet ends here.
LoggerCrash ==
    /\ faults' = IF send.st = "remove" THEN faults + 1 ELSE faults
    /\ filePtr' = "null"
    /\ wr' = [l \in Lines |-> IF wr[l] = "checked" THEN "dropped" ELSE wr[l]]
    /\ send' = Idle /\ due' = TRUE
    /\ UNCHANGED <<latest, pending, received, unread>>

\* fprintf on a null pointer: after the check the file was rotated and could not be
\* opened again.
WriteToNull(l) ==
    /\ wr[l] = "checked" /\ filePtr = "null"
    /\ LoggerCrash

\* ftell or fclose on a null pointer: a write_log rotated after FindLatest and could
\* not open the file again.
RotateNull ==
    /\ send.st = "rotate" /\ filePtr = "null"
    /\ LoggerCrash

Killed == (send.st = "remove" => faults < MaxFaults) /\ LoggerCrash

-----------------------------------------------------------------------------
\* Any environment: the network and the turn of the loop are as they may be.
LoggerNext ==
    \/ InitLogger \/ Elapse \/ Killed \/ RotateNull
    \/ \E initComplete, online \in BOOLEAN : SendPendingLogs(initComplete, online)
    \/ \E l \in Lines : CheckFile(l) \/ WriteLog(l) \/ WriteToNull(l)

LoggerSpec == LoggerInit /\ [][LoggerNext]_loggerVars

LoggerTypeOK ==
    /\ latest \subseteq Lines /\ pending \subseteq SUBSET Lines
    /\ filePtr \in {"open", "null"}
    /\ wr \in [Lines -> {"new", "checked", "written", "dropped"}]
    /\ send \in [st : {"idle", "rotate", "upload", "remove"}, file : SUBSET Lines]
    /\ due \in BOOLEAN /\ unread \in BOOLEAN
    /\ received \in [Lines -> Nat] /\ faults \in Nat

OnDevice(l) == l \in latest \/ \E f \in pending : l \in f

\* A line that was written is on the device until the log server has it, over
\* rotations by two threads, failed renames, failed uploads and crashes.  The
\* exception is a file that could not be opened for reading: send_logs takes it
\* for empty and removes it.
NoLineLost ==
    \A l \in Lines : wr[l] = "written" => OnDevice(l) \/ received[l] > 0 \/ unread

\* The log server gets a line again only if a reply was lost, a file could not be
\* removed or the process died: no line is in two files, no file is sent twice.
CopiesExplained == \A l \in Lines : received[l] <= 1 + faults
=============================================================================
