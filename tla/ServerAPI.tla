------------------------------ MODULE ServerAPI ------------------------------
(***************************************************************************)
(* The authentication of the SDK: the token in HEADER, its copy in         *)
(* AuthInfo.txt, the registration of the device, and the requests that     *)
(* register again when the server rejects the token.  All of it runs on    *)
(* _cmdThread, one call at a time; CommandLoop calls the actions.          *)
(*                                                                         *)
(* Source: ServerAPI.cpp.  version_check, get_plan, get_feature,           *)
(* get_feature_version and get_cloud_config have the same shape and are    *)
(* one kind of call here.  A token is good or is rejected by the server.   *)
(***************************************************************************)
EXTENDS Integers

CONSTANTS
    RegisterRetries,    \* DEFAULT_REGISTER_RETRIES
    AuthRetries         \* DEFAULT_AUTH_ERROR_RETRIES

ASSUME ServerAssumption == RegisterRetries \in Nat \ {0} /\ AuthRetries \in Nat

VARIABLES
    header,             \* HEADER: the token in memory
    authFile,           \* AuthInfo.txt: the token saved ("none": absent or cut short)
    registerDone, registerRetries,
    call,               \* the call of ServerAPI in progress
    server,             \* "up", "down", or "skewed": it rejects the tokens it issues
    reason              \* history: the device has lost, never had, or could not read a
                        \* good saved token

authVars == <<header, authFile, registerDone, registerRetries, call, reason>>

NoCall == [op |-> "none", st |-> "idle", left |-> 0, ok |-> FALSE]
Returned(ok) == [call EXCEPT !.st = "done", !.ok = ok]

ServerInit ==
    /\ header = "none" /\ authFile = "none"
    /\ registerDone = FALSE /\ registerRetries = RegisterRetries
    /\ call = NoCall
    /\ server \in {"up", "down", "skewed"} /\ reason = TRUE

-----------------------------------------------------------------------------
(* ServerAPI::init.                                                         *)

\* Registered already, or given up.
InitSkip ==
    /\ call.st = "idle"
    /\ registerDone \/ registerRetries = 0
    /\ UNCHANGED authVars

\* The saved token is taken without asking the server.
InitFromFile ==
    /\ call.st = "idle"
    /\ ~registerDone /\ registerRetries # 0
    /\ authFile # "none"
    /\ registerRetries' = registerRetries - 1
    /\ header' = authFile
    /\ registerDone' = TRUE
    /\ reason' = (authFile # "good")
    /\ UNCHANGED <<authFile, call>>

\* There is none, it does not parse, or the file is there and cannot be read.
InitRegister ==
    /\ call.st = "idle"
    /\ ~registerDone /\ registerRetries # 0
    /\ registerRetries' = registerRetries - 1
    /\ call' = [NoCall EXCEPT !.op = "init", !.st = "register"]
    /\ reason' = (reason \/ authFile # "none")
    /\ UNCHANGED <<header, authFile, registerDone>>

-----------------------------------------------------------------------------
(* A request, with its retries after an authentication error.               *)

BeginRequest(op) ==
    /\ call.st = "idle"
    /\ call' = [NoCall EXCEPT !.op = op, !.st = "send", !.left = AuthRetries]
    /\ UNCHANGED <<header, authFile, registerDone, registerRetries, reason>>

SendOk ==
    /\ call.st = "send" /\ server # "down" /\ header = "good"
    /\ call' = Returned(TRUE)
    /\ UNCHANGED <<header, authFile, registerDone, registerRetries, reason>>

\* Fault variant of SendAuthErr: the error is returned without a new registration.
SendAuthErrReturns ==
    /\ call.st = "send" /\ server # "down" /\ header # "good"
    /\ call' = Returned(FALSE)
    /\ UNCHANGED <<header, authFile, registerDone, registerRetries, reason>>

SendAuthErr ==
    /\ call.st = "send" /\ server # "down" /\ header # "good"
    /\ call' = IF call.left > 0 THEN [call EXCEPT !.st = "register"] ELSE Returned(FALSE)
    /\ UNCHANGED <<header, authFile, registerDone, registerRetries, reason>>

\* No answer, or an error that is none of authentication.
SendFails ==
    /\ call.st = "send" /\ server = "down"
    /\ call' = Returned(FALSE)
    /\ UNCHANGED <<header, authFile, registerDone, registerRetries, reason>>

-----------------------------------------------------------------------------
(* device_register.                                                         *)

\* Fault variant of AfterRegister: the retries are not counted.
AfterRegisterUncounted ==
    IF call.op = "init" THEN Returned(TRUE)
    ELSE [call EXCEPT !.st = "send"]

\* After a successful registration init is done; a request is sent again.
AfterRegister ==
    IF call.op = "init" THEN Returned(TRUE)
    ELSE [call EXCEPT !.st = "send", !.left = call.left - 1]

\* The answers the server gives and what becomes of AuthInfo.txt: written, left as
\* it was, or cut short.  The result of the write is not looked at.  A token that
\* is rejected or not saved is a reason to register once more.
IssuedToken == IF server = "skewed" THEN "rejected" ELSE "good"

\* Fault variant of DeviceRegister: the token is not saved.
DeviceRegisterUnsaved ==
    /\ call.st = "register" /\ server # "down"
    /\ header' = IssuedToken
    /\ reason' = (IssuedToken = "rejected")
    /\ registerDone' = (registerDone \/ call.op = "init")
    /\ call' = AfterRegister
    /\ UNCHANGED <<authFile, registerRetries>>

DeviceRegister ==
    /\ call.st = "register" /\ server # "down"
    /\ header' = IssuedToken
    /\ \E saved \in BOOLEAN :
          /\ IF saved THEN authFile' = IssuedToken ELSE authFile' \in {authFile, "none"}
          /\ reason' = ~(saved /\ IssuedToken = "good")
    /\ registerDone' = (registerDone \/ call.op = "init")
    /\ call' = AfterRegister
    /\ UNCHANGED registerRetries

DeviceRegisterFails ==
    /\ call.st = "register" /\ server = "down"
    /\ call' = Returned(FALSE)
    /\ UNCHANGED <<header, authFile, registerDone, registerRetries, reason>>

ServerAPICall ==
    \/ SendOk \/ SendAuthErr \/ SendFails
    \/ DeviceRegister \/ DeviceRegisterFails

-----------------------------------------------------------------------------
\* The process dies: only the file stays.
ServerAPICrash ==
    /\ header' = "none" /\ registerDone' = FALSE /\ registerRetries' = RegisterRetries
    /\ call' = NoCall
    /\ UNCHANGED <<authFile, reason>>

(* The server.                                                              *)

Rejected(token) == IF token = "good" THEN "rejected" ELSE token

\* All tokens issued so far expire.
Expire ==
    /\ header = "good" \/ authFile = "good"
    /\ header' = Rejected(header) /\ authFile' = Rejected(authFile)
    /\ reason' = TRUE
    /\ UNCHANGED <<registerDone, registerRetries, call, server>>

ServerChange ==
    /\ server' \in {"up", "down", "skewed"} \ {server}
    /\ UNCHANGED authVars

-----------------------------------------------------------------------------
Tokens == {"none", "good", "rejected"}

ServerTypeOK ==
    /\ header \in Tokens /\ authFile \in Tokens
    /\ registerDone \in BOOLEAN /\ registerRetries \in 0 .. RegisterRetries
    /\ call \in [op : {"none", "init", "config", "request"}, st : {"idle", "send", "register", "done"},
                 left : 0 .. AuthRetries, ok : BOOLEAN]
    /\ server \in {"up", "down", "skewed"} /\ reason \in BOOLEAN

\* A device registers once, and again only for a token that expired, that the
\* server rejects or that could not be saved: not on every start (the wiki: "We do
\* NOT call Device Register on every app start"), and not because the retries of
\* init are used up or reset.
RegistrationsHaveReason == call.st = "register" => reason
=============================================================================
