---------------------------- MODULE ControlCalls ----------------------------
(***************************************************************************)
(* The nineteen methods of IRemoteControl and IARMBusCall, by which all but*)
(* one of them reach control manager.                                      *)
(*                                                                         *)
(* A method checks its parameters, sends one call over the bus, waits, and *)
(* fills its response from the JSON answer.  It always returns ERROR_NONE, *)
(* so the response is all a client learns.  Values are abstracted to where *)
(* they come from: a field of a response holds what control manager        *)
(* answered ("reply"), a constant of the code ("default", "empty" or       *)
(* "unset"), the value the client asked about ("echo"), or still what it   *)
(* held when the method was called ("before").                             *)
(*                                                                         *)
(* Each call has a buffer of its own and blocks its thread, so the answer  *)
(* it gets is the answer to it: that is the bus's affair and is not modelled*)
(* (nor what becomes of a call that was given up).  Control manager and the*)
(* bus are external: they answer when they get to it, if ever.             *)
(***************************************************************************)
CONSTANTS
    Clients,      \* threads on which methods are called
    Methods       \* the methods they call

\* The methods that pass a timeout to IARMBusCall (IARM_IRDB_CALLS_TIMEOUT or
\* IARM_FACTORY_RESET_TIMEOUT); the others wait for as long as it takes.
TimedMethods ==
    {"GetIRDBManufacturers", "GetIRDBModels", "GetIRCodesByAutoLookup",
     "GetIRCodesByNames", "InitializeIRDB", "FactoryReset"}

\* Methods whose response is `success` and nothing else.
PairingMethods == {"StartPairing", "StopPairing"}

IRCodeMethods == {"SetIRCode", "ClearIRCodes"}

SettingMethods ==
    {"ConfigureWakeupKeys", "InitializeIRDB", "FindMyRemote", "FactoryReset",
     "Unpair"}

PlainMethods ==
    PairingMethods \cup IRCodeMethods \cup SettingMethods
        \cup {"CancelFirmwareUpdate"}

AllMethods ==
    PlainMethods \cup TimedMethods \cup
    {"GetApiVersionNumber", "GetNetStatus", "GetLastKeypressSource",
     "StartFirmwareUpdate", "StatusFirmwareUpdate"}

ASSUME MethodsAssumption == Methods \subseteq AllMethods

\* The parameters a method refuses to go on without.
Required(m) ==
    CASE m = "GetIRDBManufacturers" -> {"avDevType", "manufacturer"}
      [] m \in {"GetIRDBModels", "GetIRCodesByNames"} -> {"avDevType"}
      [] m = "FindMyRemote" -> {"level"}
      [] OTHER -> {}

\* The fields of a response beside `success`, each with what the method puts
\* there when the answer does not have it.
NetStatus ==
    [netType |-> "echo", pairingState |-> "default", irProgState |-> "default",
     netTypesSupported |-> "empty", remoteData |-> "empty"]

IRDBManufacturers == [avDevType |-> "unset", manufacturers |-> "empty"]

IRDBModels ==
    [avDevType |-> "unset", manufacturer |-> "unset", models |-> "empty"]

IRCodesByAutoLookup ==
    [f \in {"tvManufacturer", "tvModel", "avrManufacturer", "avrModel",
            "tvCodes", "avrCodes"} |-> "empty"]

IRCodesByNames ==
    [avDevType |-> "unset", manufacturer |-> "unset", model |-> "unset",
     codes |-> "empty"]

LastKeypressSource ==
    [controllerId |-> "default", timestamp |-> "default", sourceName |-> "empty",
     sourceType |-> "empty", sourceKeyCode |-> "default",
     bIsScreenBindMode |-> "default", remoteKeypadConfig |-> "default"]

FirmwareUpdateStarted == [sessionIdList |-> "empty"]

FirmwareUpdateStatus ==
    [upgradeSessionId |-> "echo", macAddress |-> "empty",
     upgradeState |-> "default", percentComplete |-> "default",
     errorString |-> "unset"]

Absent(m) ==
    CASE m = "GetNetStatus"           -> NetStatus
      [] m = "GetIRDBManufacturers"   -> IRDBManufacturers
      [] m = "GetIRDBModels"          -> IRDBModels
      [] m = "GetIRCodesByAutoLookup" -> IRCodesByAutoLookup
      [] m = "GetIRCodesByNames"      -> IRCodesByNames
      [] m = "GetLastKeypressSource"  -> LastKeypressSource
      [] m = "StartFirmwareUpdate"    -> FirmwareUpdateStarted
      [] m = "StatusFirmwareUpdate"   -> FirmwareUpdateStatus
      [] OTHER                        -> [f \in {} |-> "default"]

Fields(m) == DOMAIN Absent(m)

\* What the response holds when the method is called.  StartFirmwareUpdate
\* clears its list first.
Before(m) ==
    IF m = "StartFirmwareUpdate" THEN Absent(m)
    ELSE [f \in Fields(m) |-> "before"]

\* Faulty variant of Failed: the early return fills nothing in.
FailedUnfilled(m) == Before(m)

\* What is left in it when the call to control manager fails or is not made.
\* Every method fills in the absent values but GetLastKeypressSource, which
\* sets `success` alone.
Failed(m) ==
    IF m = "GetLastKeypressSource" THEN Before(m) ELSE Absent(m)

\* What an answer that has the fields `labels`, in a form that can be read,
\* makes of it.
Filled(m, labels) ==
    [f \in Fields(m) |-> IF f \in labels THEN "reply" ELSE Absent(m)[f]]

VARIABLES
    pc,          \* pc[c]: where client c's method is
    method,      \* method[c]: the method it called last
    success,     \* success[c]: the `success` of the response
    response     \* response[c]: the other fields

vars == <<pc, method, success, response>>

Init ==
    /\ pc = [c \in Clients |-> "idle"]
    /\ method = [c \in Clients |-> CHOOSE m \in Methods : TRUE]
    /\ success = [c \in Clients |-> FALSE]
    /\ response = [c \in Clients |-> Before(method[c])]

\* The method of client c returns.
Return(c, ok, fields) ==
    /\ pc' = [pc EXCEPT ![c] = "returned"]
    /\ success' = [success EXCEPT ![c] = ok]
    /\ response' = [response EXCEPT ![c] = fields]

-----------------------------------------------------------------------------
\* A client calls a method with some of the parameters set.

Enter(c, m) ==
    /\ pc[c] \in {"idle", "returned"}
    /\ method' = [method EXCEPT ![c] = m]

\* The one method that asks nobody.
GetApiVersionNumber(c) ==
    /\ "GetApiVersionNumber" \in Methods
    /\ Enter(c, "GetApiVersionNumber")
    /\ Return(c, TRUE, Before("GetApiVersionNumber"))

\* A parameter the method requires is not set: it answers for itself.
Reject(c, m, params) ==
    /\ ~(Required(m) \subseteq params)
    /\ Enter(c, m)
    /\ Return(c, FALSE, Failed(m))

Accept(c, m, params) ==
    /\ m # "GetApiVersionNumber"
    /\ Required(m) \subseteq params
    /\ Enter(c, m)
    /\ pc' = [pc EXCEPT ![c] = "allocate"]
    /\ success' = [success EXCEPT ![c] = FALSE]
    /\ response' = [response EXCEPT ![c] = Before(m)]

-----------------------------------------------------------------------------
\* IARMBusCall, and what the method makes of its result.

CallFails(c) == Return(c, FALSE, Failed(method[c])) /\ UNCHANGED method

\* calloc returns null.
AllocationFails(c) == pc[c] = "allocate" /\ CallFails(c)

\* The call goes out, with a timeout or without.
Send(c) ==
    /\ pc[c] = "allocate"
    /\ pc' = [pc EXCEPT ![c] = "waiting"]
    /\ UNCHANGED <<method, success, response>>

\* The bus reports an error: control manager is not there, or the message did
\* not get to it, or its answer did not come back.
BusError(c) == pc[c] = "waiting" /\ CallFails(c)

\* IARM_Bus_Call_with_IPCTimeout gives up.
Timeout(c) ==
    /\ pc[c] = "waiting"
    /\ method[c] \in TimedMethods
    /\ CallFails(c)

\* Control manager answers, with the fields in `labels`.
Answer(c, ok, labels) ==
    /\ pc[c] = "waiting"
    /\ Return(c, ok, Filled(method[c], labels))
    /\ UNCHANGED method

-----------------------------------------------------------------------------
Call(c) ==
    \/ GetApiVersionNumber(c)
    \/ \E m \in Methods : \E params \in SUBSET Required(m) :
          Reject(c, m, params) \/ Accept(c, m, params)

Step(c) == AllocationFails(c) \/ Send(c)

Next ==
    \E c \in Clients :
        \/ Call(c) \/ Step(c) \/ BusError(c) \/ Timeout(c)
        \/ \E ok \in BOOLEAN : \E labels \in SUBSET Fields(method[c]) :
              Answer(c, ok, labels)

Spec == Init /\ [][Next]_vars

\* The calling thread runs and its timer fires.  Nothing is assumed of control
\* manager or of the bus: they may never answer and never report an error.
Fairness == \A c \in Clients : WF_vars(Step(c)) /\ WF_vars(Timeout(c))

FairSpec == Spec /\ Fairness

-----------------------------------------------------------------------------
\* No response shows a client what it held before the call as if it were the
\* answer, on any of the early returns and failures of the methods.  One case
\* does: GetLastKeypressSource when the call fails (:988-991).
ResponseIsDefined ==
    \A c \in Clients : pc[c] = "returned" =>
        \A f \in Fields(method[c]) : response[c][f] = "before" =>
            method[c] = "GetLastKeypressSource" /\ ~success[c]

\* "Timeout protection against hanging system calls" (ARCHITECTURE.md:119):
\* every method returns.  Twelve of them wait without a timeout.
EveryCallReturns ==
    \A c \in Clients : (pc[c] = "waiting") ~> (pc[c] = "returned")

=============================================================================
