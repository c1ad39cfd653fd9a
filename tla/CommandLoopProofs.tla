------------------------- MODULE CommandLoopProofs -------------------------
(***************************************************************************)
(* Proofs about CommandLoop: registrations have a reason, for any numbers  *)
(* of retries and any log lines.                                           *)
(***************************************************************************)
EXTENDS CommandLoop, TLAPS

\* Without a reason to register the saved token is good, and so is the one in
\* memory unless this process has not yet read the file, which it then does first.
TokenInv ==
    ~reason => /\ authFile = "good"
               /\ header = "good" \/ (pc = "init" /\ call = NoCall /\ ~registerDone /\ registerRetries > 0)

\* A request that registers has retries left; every registration has a reason.
AuthInv ==
    /\ ServerTypeOK
    /\ call.st = "register" /\ call.op # "init" => call.left > 0
    /\ TokenInv
    /\ RegistrationsHaveReason

\* Before _cmdThread starts nobody has authenticated.
LEMMA InitAuthInv == Init => AuthInv
<1> SUFFICES ASSUME Init PROVE AuthInv
  OBVIOUS
<1> USE ServerAssumption DEF Init, ServerInit, NoCall
<1>1. ServerTypeOK
  <2>1. (header \in Tokens /\ authFile \in Tokens /\ server \in {"up", "down", "skewed"})
    BY DEF ServerTypeOK, Tokens
  <2>2. (registerDone \in BOOLEAN)
    BY DEF ServerTypeOK
  <2>3. (reason \in BOOLEAN)
    BY DEF ServerTypeOK
  <2>4. (registerRetries \in 0 .. RegisterRetries)
    BY DEF ServerTypeOK
  <2>5. (call \in [op : {"none", "init", "config", "request"}, st : {"idle", "send", "register", "done"},
                     left : 0 .. AuthRetries, ok : BOOLEAN])
    BY DEF ServerTypeOK
  <2> QED BY <2>1, <2>2, <2>3, <2>4, <2>5 DEF ServerTypeOK
<1>2. TokenInv /\ RegistrationsHaveReason /\ call.st # "register"
  BY DEF TokenInv, RegistrationsHaveReason
<1> QED BY <1>1, <1>2 DEF AuthInv

\* A step that leaves the variables of the invariant alone.
LEMMA AuthStutter == AuthInv /\ UNCHANGED <<authVars, server, pc>> => AuthInv'
BY DEF AuthInv, ServerTypeOK, TokenInv, RegistrationsHaveReason, authVars

\* No step of the loop uses a token it does not have.
LEMMA NextAuthInv == AuthInv /\ [Next]_vars => AuthInv'
<1> SUFFICES ASSUME AuthInv, [Next]_vars PROVE AuthInv'
  OBVIOUS
<1> USE ServerAssumption DEF AuthInv, NoCall, Returned, loopVars, authVars
<1>1. CASE Start \/ TimePasses \/ \E l \in Lines : Write(l)
  BY <1>1, AuthStutter DEF Start, TimePasses, Write
<1>2. CASE InitSkip /\ InitServerAPI
  <2> USE <1>2 DEF InitServerAPI, InitSkip
  <2>1. ServerTypeOK'
    BY DEF ServerTypeOK, Tokens
  <2>2. (call.st = "register" /\ call.op # "init" => call.left > 0)'
    BY DEF ServerTypeOK
  <2>3. TokenInv'
    BY DEF TokenInv, RegistrationsHaveReason, ServerTypeOK
  <2>4. RegistrationsHaveReason'
    BY DEF RegistrationsHaveReason, TokenInv
  <2> QED BY <2>1, <2>2, <2>3, <2>4
<1>3. CASE InitFromFile /\ InitServerAPI
  <2> USE <1>3 DEF InitServerAPI, InitFromFile
  <2>1. ServerTypeOK'
    BY DEF ServerTypeOK, Tokens
  <2>2. (call.st = "register" /\ call.op # "init" => call.left > 0)'
    BY DEF ServerTypeOK
  <2>3. TokenInv'
    BY DEF TokenInv, RegistrationsHaveReason, ServerTypeOK
  <2>4. RegistrationsHaveReason'
    BY DEF RegistrationsHaveReason, TokenInv
  <2> QED BY <2>1, <2>2, <2>3, <2>4
<1>4. CASE InitRegister /\ InitServerAPI
  <2> USE <1>4 DEF InitServerAPI, InitRegister
  <2>1. ServerTypeOK'
    <3>1. (header \in Tokens /\ authFile \in Tokens /\ server \in {"up", "down", "skewed"})'
      BY DEF ServerTypeOK, Tokens
    <3>2. (registerDone \in BOOLEAN)'
      BY DEF ServerTypeOK
    <3>3. (reason \in BOOLEAN)'
      BY DEF ServerTypeOK
    <3>4. (registerRetries \in 0 .. RegisterRetries)'
      BY DEF ServerTypeOK
    <3>5. (call \in [op : {"none", "init", "config", "request"}, st : {"idle", "send", "register", "done"},
                     left : 0 .. AuthRetries, ok : BOOLEAN])'
      <4>1. call' = [op |-> "init", st |-> "register", left |-> 0, ok |-> FALSE]
        OBVIOUS
      <4>2. 0 \in 0 .. AuthRetries
        OBVIOUS
      <4> QED BY ONLY <4>1, <4>2
    <3> QED BY <3>1, <3>2, <3>3, <3>4, <3>5 DEF ServerTypeOK
  <2>2. (call.st = "register" /\ call.op # "init" => call.left > 0)'
    BY DEF ServerTypeOK
  <2>3. TokenInv'
    BY DEF TokenInv, RegistrationsHaveReason, ServerTypeOK
  <2>4. RegistrationsHaveReason'
    BY DEF RegistrationsHaveReason, TokenInv
  <2> QED BY <2>1, <2>2, <2>3, <2>4
<1>5. CASE SkipCloudConfig
  <2> USE <1>5 DEF SkipCloudConfig
  <2>1. ServerTypeOK'
    BY DEF ServerTypeOK, Tokens
  <2>2. (call.st = "register" /\ call.op # "init" => call.left > 0)'
    BY DEF ServerTypeOK
  <2>3. TokenInv'
    BY DEF TokenInv, RegistrationsHaveReason, ServerTypeOK
  <2>4. RegistrationsHaveReason'
    BY DEF RegistrationsHaveReason, TokenInv
  <2> QED BY <2>1, <2>2, <2>3, <2>4
<1>6. CASE SendLogs
  <2> USE <1>6 DEF SendLogs
  <2>1. ServerTypeOK'
    <3>1. (header \in Tokens /\ authFile \in Tokens /\ server \in {"up", "down", "skewed"})'
      BY DEF ServerTypeOK, Tokens
    <3>2. (registerDone \in BOOLEAN)'
      BY DEF ServerTypeOK
    <3>3. (reason \in BOOLEAN)'
      BY DEF ServerTypeOK
    <3>4. (registerRetries \in 0 .. RegisterRetries)'
      BY DEF ServerTypeOK
    <3>5. (call \in [op : {"none", "init", "config", "request"}, st : {"idle", "send", "register", "done"},
                     left : 0 .. AuthRetries, ok : BOOLEAN])'
      BY DEF ServerTypeOK
    <3> QED BY <3>1, <3>2, <3>3, <3>4, <3>5 DEF ServerTypeOK
  <2>2. (call.st = "register" /\ call.op # "init" => call.left > 0)'
    BY DEF ServerTypeOK
  <2>3. TokenInv'
    BY DEF TokenInv, RegistrationsHaveReason, ServerTypeOK
  <2>4. RegistrationsHaveReason'
    BY DEF RegistrationsHaveReason, TokenInv
  <2> QED BY <2>1, <2>2, <2>3, <2>4
<1>7. CASE (SendOk \/ SendFails \/ DeviceRegisterFails) /\ CallStep
  <2> USE <1>7 DEF CallStep, SendOk, SendFails, DeviceRegisterFails
  <2>1. ServerTypeOK'
    BY DEF ServerTypeOK, Tokens
  <2>2. (call.st = "register" /\ call.op # "init" => call.left > 0)'
    BY DEF ServerTypeOK
  <2>3. TokenInv'
    BY DEF TokenInv, RegistrationsHaveReason, ServerTypeOK
  <2>4. RegistrationsHaveReason'
    BY DEF RegistrationsHaveReason, TokenInv, ServerTypeOK
  <2> QED BY <2>1, <2>2, <2>3, <2>4
<1>8. CASE SendAuthErr /\ CallStep
  <2> USE <1>8 DEF CallStep, SendAuthErr
  <2>1. ServerTypeOK'
    BY DEF ServerTypeOK, Tokens
  <2>2. (call.st = "register" /\ call.op # "init" => call.left > 0)'
    BY DEF ServerTypeOK
  <2>3. TokenInv'
    BY DEF TokenInv, RegistrationsHaveReason, ServerTypeOK
  <2>4. RegistrationsHaveReason'
    BY DEF RegistrationsHaveReason, TokenInv
  <2> QED BY <2>1, <2>2, <2>3, <2>4
<1>9. CASE DeviceRegister /\ CallStep
  <2> USE <1>9 DEF CallStep, DeviceRegister, AfterRegister, IssuedToken
  <2>1. ServerTypeOK'
    <3>1. (header \in Tokens /\ authFile \in Tokens /\ server \in {"up", "down", "skewed"})'
      BY DEF ServerTypeOK, Tokens
    <3>2. (registerDone \in BOOLEAN)'
      BY DEF ServerTypeOK
    <3>3. (reason \in BOOLEAN)'
      BY DEF ServerTypeOK
    <3>4. (registerRetries \in 0 .. RegisterRetries)'
      BY DEF ServerTypeOK
    <3>5. (call \in [op : {"none", "init", "config", "request"}, st : {"idle", "send", "register", "done"},
                     left : 0 .. AuthRetries, ok : BOOLEAN])'
      <4>1. CASE call.op = "init"
        BY <4>1 DEF ServerTypeOK
      <4>2. CASE call.op # "init"
        <5>1. call.left - 1 \in 0 .. AuthRetries
          BY <4>2 DEF ServerTypeOK
        <5>2. call' = [call EXCEPT !.st = "send", !.left = call.left - 1]
          BY <4>2
        <5> QED BY <5>1, <5>2 DEF ServerTypeOK
      <4> QED BY <4>1, <4>2
    <3> QED BY <3>1, <3>2, <3>3, <3>4, <3>5 DEF ServerTypeOK
  <2>2. (call.st = "register" /\ call.op # "init" => call.left > 0)'
    BY DEF ServerTypeOK
  <2>3. TokenInv'
    BY DEF TokenInv, RegistrationsHaveReason, ServerTypeOK
  <2>4. RegistrationsHaveReason'
    BY DEF RegistrationsHaveReason, TokenInv
  <2> QED BY <2>1, <2>2, <2>3, <2>4
<1>10. CASE InitReturns
  <2> USE <1>10 DEF InitReturns
  <2>1. ServerTypeOK'
    BY DEF ServerTypeOK, Tokens
  <2>2. (call.st = "register" /\ call.op # "init" => call.left > 0)'
    BY DEF ServerTypeOK
  <2>3. TokenInv'
    BY DEF TokenInv, RegistrationsHaveReason, ServerTypeOK
  <2>4. RegistrationsHaveReason'
    BY DEF RegistrationsHaveReason, TokenInv
  <2> QED BY <2>1, <2>2, <2>3, <2>4
<1>11. CASE SetCloudConfig
  <2> USE <1>11 DEF SetCloudConfig
  <2>1. ServerTypeOK'
    BY DEF ServerTypeOK, Tokens
  <2>2. (call.st = "register" /\ call.op # "init" => call.left > 0)'
    BY DEF ServerTypeOK
  <2>3. TokenInv'
    BY DEF TokenInv, RegistrationsHaveReason, ServerTypeOK
  <2>4. RegistrationsHaveReason'
    BY DEF RegistrationsHaveReason, TokenInv
  <2> QED BY <2>1, <2>2, <2>3, <2>4
<1>12. CASE UpdatesDone
  <2> USE <1>12 DEF UpdatesDone
  <2>1. ServerTypeOK'
    BY DEF ServerTypeOK, Tokens
  <2>2. (call.st = "register" /\ call.op # "init" => call.left > 0)'
    BY DEF ServerTypeOK
  <2>3. TokenInv'
    BY DEF TokenInv, RegistrationsHaveReason, ServerTypeOK
  <2>4. RegistrationsHaveReason'
    BY DEF RegistrationsHaveReason, TokenInv
  <2> QED BY <2>1, <2>2, <2>3, <2>4
<1>13. CASE GetCloudConfig \/ UpdateRequest
  <2> USE <1>13 DEF GetCloudConfig, UpdateRequest, BeginRequest
  <2>1. ServerTypeOK'
    <3>1. (header \in Tokens /\ authFile \in Tokens /\ server \in {"up", "down", "skewed"})'
      BY DEF ServerTypeOK, Tokens
    <3>2. (registerDone \in BOOLEAN)'
      BY DEF ServerTypeOK
    <3>3. (reason \in BOOLEAN)'
      BY DEF ServerTypeOK
    <3>4. (registerRetries \in 0 .. RegisterRetries)'
      BY DEF ServerTypeOK
    <3>5. (call \in [op : {"none", "init", "config", "request"}, st : {"idle", "send", "register", "done"},
                     left : 0 .. AuthRetries, ok : BOOLEAN])'
      <4>1. PICK op \in {"config", "request"} : call' = [op |-> op, st |-> "send", left |-> AuthRetries, ok |-> FALSE]
        OBVIOUS
      <4>2. AuthRetries \in 0 .. AuthRetries
        OBVIOUS
      <4> QED BY <4>1, <4>2, SMT
    <3> QED BY <3>1, <3>2, <3>3, <3>4, <3>5 DEF ServerTypeOK
  <2>2. (call.st = "register" /\ call.op # "init" => call.left > 0)'
    BY DEF ServerTypeOK
  <2>3. TokenInv'
    BY DEF TokenInv, RegistrationsHaveReason, ServerTypeOK
  <2>4. RegistrationsHaveReason'
    BY DEF RegistrationsHaveReason, TokenInv
  <2> QED BY <2>1, <2>2, <2>3, <2>4
<1>14. CASE InternetSwitchedOn
  <2> USE <1>14 DEF InternetSwitchedOn
  <2>1. ServerTypeOK'
    BY DEF ServerTypeOK, Tokens
  <2>2. (call.st = "register" /\ call.op # "init" => call.left > 0)'
    BY DEF ServerTypeOK
  <2>3. TokenInv'
    BY DEF TokenInv, RegistrationsHaveReason, ServerTypeOK
  <2>4. RegistrationsHaveReason'
    BY DEF RegistrationsHaveReason, TokenInv
  <2> QED BY <2>1, <2>2, <2>3, <2>4
<1>15. CASE Environment
  <2> USE <1>15 DEF Environment, Expire, Rejected, ServerChange
  <2>1. ServerTypeOK'
    BY DEF ServerTypeOK, Tokens
  <2>2. (call.st = "register" /\ call.op # "init" => call.left > 0)'
    BY DEF ServerTypeOK
  <2>3. TokenInv'
    BY DEF TokenInv, RegistrationsHaveReason, ServerTypeOK
  <2>4. RegistrationsHaveReason'
    BY DEF RegistrationsHaveReason, TokenInv
  <2> QED BY <2>1, <2>2, <2>3, <2>4
<1>16. CASE Crash \/ SendLogsNull
  <2> USE <1>16 DEF Crash, SendLogsNull, ProcessEnds, ServerAPICrash
  <2>1. ServerTypeOK'
    <3>1. (header \in Tokens /\ authFile \in Tokens /\ server \in {"up", "down", "skewed"})'
      BY DEF ServerTypeOK, Tokens
    <3>2. (registerDone \in BOOLEAN)'
      BY DEF ServerTypeOK
    <3>3. (reason \in BOOLEAN)'
      BY DEF ServerTypeOK
    <3>4. (registerRetries \in 0 .. RegisterRetries)'
      BY DEF ServerTypeOK
    <3>5. (call \in [op : {"none", "init", "config", "request"}, st : {"idle", "send", "register", "done"},
                     left : 0 .. AuthRetries, ok : BOOLEAN])'
      <4>1. call' = [op |-> "none", st |-> "idle", left |-> 0, ok |-> FALSE]
        BY Zenon
      <4>2. 0 \in 0 .. AuthRetries
        OBVIOUS
      <4> QED BY ONLY <4>1, <4>2
    <3> QED BY <3>1, <3>2, <3>3, <3>4, <3>5 DEF ServerTypeOK
  <2>2. (call.st = "register" /\ call.op # "init" => call.left > 0)'
    BY DEF ServerTypeOK
  <2>3. TokenInv'
    BY DEF TokenInv, RegistrationsHaveReason, ServerTypeOK
  <2>4. RegistrationsHaveReason'
    BY DEF RegistrationsHaveReason, TokenInv
  <2> QED BY <2>1, <2>2, <2>3, <2>4
<1>17. CASE UNCHANGED vars
  BY <1>17, AuthStutter DEF vars
<1> QED
  BY <1>1, <1>2, <1>3, <1>4, <1>5, <1>6, <1>7, <1>8, <1>9, <1>10, <1>11, <1>12, <1>13, <1>14, <1>15, <1>16, <1>17
     DEF Next, CmdThread, InitServerAPI, CallStep, ServerAPICall

\* The device registers only for a reason, whatever the retries, crashes, failed
\* writes and expiries.
THEOREM RegistrationSafety == Spec => []RegistrationsHaveReason
<1>1. AuthInv => RegistrationsHaveReason
  BY DEF AuthInv
<1> QED
  BY <1>1, InitAuthInv, NextAuthInv, PTL DEF Spec
=============================================================================
