----------------------------- MODULE CommandLoop -----------------------------
(***************************************************************************)
(* ServerAPI and Logger composed by the loop of _cmdThread: ServerAPI::    *)
(* init, set_cloud_config, the requests of plan and feature updates, then  *)
(* the upload of logs, while host threads write lines and report           *)
(* connectivity and the process may die.                                   *)
(*                                                                         *)
(* Source: CommandCenter.cpp, nimblenet.cpp.  One request per turn stands  *)
(* for those of the updates (none, one, or in the next turn more).  The    *)
(* decrements of the retry counters are one step: a reset that falls       *)
(* between the read and the write of one is lost, as if not called.        *)
(***************************************************************************)
EXTENDS ServerAPI, Logger

CONSTANT ConfigRetries      \* DEFAULT_FETCH_CLOUD_CONFIG_RETRIES

ASSUME ConfigAssumption == ConfigRetries \in Nat

VARIABLES
    up,                     \* initialize_nimblenet has succeeded
    pc,                     \* where the loop is: init, config, request or logs
    initComplete,           \* the local of perform_long_running_tasks
    cloudConfigSet, cloudConfigFetchRetries

loopVars == <<pc, initComplete, cloudConfigSet, cloudConfigFetchRetries>>
vars == <<authVars, server, loggerVars, up, loopVars>>

Init ==
    /\ ServerInit /\ LoggerInit
    /\ up = FALSE /\ pc = "init" /\ initComplete = FALSE
    /\ cloudConfigSet = FALSE /\ cloudConfigFetchRetries = ConfigRetries

\* initialize_nimblenet succeeds (it does not if latest.txt cannot be opened).
Start ==
    /\ ~up
    /\ InitLogger
    /\ up' = TRUE
    /\ UNCHANGED <<authVars, server, loopVars>>

-----------------------------------------------------------------------------
(* perform_long_running_tasks.                                              *)

\* ServerAPI::init returns at once, or goes on to register.  Its result is not used.
InitServerAPI ==
    /\ up /\ pc = "init"
    /\ \/ (InitSkip \/ InitFromFile) /\ pc' = "config"
       \/ InitRegister /\ pc' = pc
    /\ UNCHANGED <<server, loggerVars, up, initComplete, cloudConfigSet,
                   cloudConfigFetchRetries>>

\* A call of ServerAPI takes a step.
CallStep ==
    /\ up
    /\ ServerAPICall
    /\ UNCHANGED <<server, loggerVars, up, loopVars>>

InitReturns ==
    /\ pc = "init" /\ call.st = "done"
    /\ call' = NoCall /\ pc' = "config"
    /\ UNCHANGED <<header, authFile, registerDone, registerRetries, reason, server, loggerVars,
                   up, initComplete, cloudConfigSet, cloudConfigFetchRetries>>

SkipCloudConfig ==
    /\ up /\ pc = "config" /\ call.st = "idle"
    /\ cloudConfigSet \/ cloudConfigFetchRetries = 0
    /\ pc' = "request"
    /\ UNCHANGED <<authVars, server, loggerVars, up, initComplete, cloudConfigSet,
                   cloudConfigFetchRetries>>

GetCloudConfig ==
    /\ up /\ pc = "config"
    /\ ~cloudConfigSet /\ cloudConfigFetchRetries # 0
    /\ BeginRequest("config")
    /\ cloudConfigFetchRetries' = cloudConfigFetchRetries - 1
    /\ UNCHANGED <<server, loggerVars, up, pc, initComplete, cloudConfigSet>>

SetCloudConfig ==
    /\ pc = "config" /\ call.st = "done"
    /\ cloudConfigSet' = call.ok
    /\ call' = NoCall /\ pc' = "request"
    /\ UNCHANGED <<header, authFile, registerDone, registerRetries, reason, server, loggerVars,
                   up, initComplete, cloudConfigFetchRetries>>

\* update_plan_if_required and update_feature_if_required have something to ask.
UpdateRequest ==
    /\ up /\ pc = "request"
    /\ BeginRequest("request")
    /\ UNCHANGED <<server, loggerVars, up, loopVars>>

\* The updates are through, or there was nothing to update.
UpdatesDone ==
    /\ up /\ pc = "request" /\ call.st \in {"idle", "done"}
    /\ call' = NoCall /\ pc' = "logs"
    /\ UNCHANGED <<header, authFile, registerDone, registerRetries, reason, server, loggerVars,
                   up, initComplete, cloudConfigSet, cloudConfigFetchRetries>>

\* send_pending_logs; when it returns the turn ends.  The log server is another
\* host than the API server: an upload succeeds or fails whatever server is.
SendLogs ==
    /\ up /\ pc = "logs"
    /\ \E logHostAccepts \in BOOLEAN : SendPendingLogs(initComplete, logHostAccepts)
    /\ IF send' = Idle
         THEN pc' = "init" /\ initComplete' = TRUE
         ELSE UNCHANGED <<pc, initComplete>>
    /\ UNCHANGED <<authVars, server, up, cloudConfigSet, cloudConfigFetchRetries>>

\* The end of the process.
ProcessEnds ==
    /\ ServerAPICrash
    /\ up' = FALSE /\ pc' = "init" /\ initComplete' = FALSE
    /\ cloudConfigSet' = FALSE /\ cloudConfigFetchRetries' = ConfigRetries
    /\ UNCHANGED server

\* send_pending_logs runs into ftell or fclose on a null pointer.
SendLogsNull ==
    /\ up /\ pc = "logs"
    /\ RotateNull
    /\ ProcessEnds

CmdThread ==
    \/ InitServerAPI \/ CallStep \/ InitReturns
    \/ SkipCloudConfig \/ GetCloudConfig \/ SetCloudConfig
    \/ UpdateRequest \/ UpdatesDone
    \/ SendLogs \/ SendLogsNull

-----------------------------------------------------------------------------
(* Host threads and the environment.                                        *)

\* Fault variant of InternetSwitchedOn: the second counter is left out.
InternetSwitchedOnRegister ==
    /\ up
    /\ registerRetries' = RegisterRetries
    /\ UNCHANGED <<header, authFile, registerDone, call, reason, server, loggerVars, up, loopVars>>

InternetSwitchedOn ==
    /\ up
    /\ registerRetries' = RegisterRetries
    /\ cloudConfigFetchRetries' = ConfigRetries
    /\ UNCHANGED <<header, authFile, registerDone, call, reason, server, loggerVars, up, pc,
                   initComplete, cloudConfigSet>>

Write(l) ==
    /\ up
    /\ CheckFile(l) \/ WriteLog(l)
    /\ UNCHANGED <<authVars, server, up, loopVars>>

\* The process is killed or runs into fprintf on a null pointer.
Crash ==
    /\ up
    /\ Killed \/ \E l \in Lines : WriteToNull(l)
    /\ ProcessEnds

Environment ==
    \/ Expire /\ UNCHANGED <<loggerVars, up, loopVars>>
    \/ ServerChange /\ UNCHANGED <<loggerVars, up, loopVars>>

TimePasses ==
    /\ up
    /\ Elapse
    /\ UNCHANGED <<authVars, server, up, loopVars>>

Next ==
    \/ Start \/ CmdThread \/ InternetSwitchedOn \/ TimePasses
    \/ \E l \in Lines : Write(l)
    \/ Environment \/ Crash

Spec == Init /\ [][Next]_vars

\* _cmdThread runs, time passes, the application starts again and goes on
\* reporting connectivity.
FairSpec ==
    /\ Spec
    /\ WF_vars(Start) /\ WF_vars(CmdThread) /\ WF_vars(TimePasses)
    /\ WF_vars(InternetSwitchedOn)

-----------------------------------------------------------------------------
\* Once the server is up for good and its tokens no longer expire, every request is
\* answered: a device that used up its registration retries, holds an expired token
\* or loaded one from a stale AuthInfo.txt registers in the course of a request.
RequestsRecover ==
    (<>[](server = "up") /\ <>[][~Expire]_vars) =>
        <>[](call.st = "done" /\ call.op # "init" => call.ok)

\* The cloud configuration is then fetched, if the process stays up and the host
\* goes on reporting connectivity.
EventuallyConfigured ==
    (<>[](server = "up") /\ <>[][~Expire]_vars /\ <>[]up) => <>[]cloudConfigSet

\* The log host does not refuse for ever: of uploads without end some are accepted.
LogHostRecovers == []<>(send.st = "upload") => []<><<UploadOk(TRUE)>>_vars

\* A rotated file reaches the log server, in a process that stays up: whatever the
\* API server does to the requests of the same thread (errors of authentication
\* without end, no answer), and however many uploads failed before.
EventuallyUploaded ==
    (LogHostRecovers /\ <>[]up) =>
        \A l \in Lines : (\E f \in pending : l \in f) ~> (received[l] > 0 \/ unread)
=============================================================================
