---------------------------- MODULE StatusCodec ----------------------------
(***************************************************************************)
(* What an observer and a caller see of control manager's state.  The same *)
(* JSON status reaches clients on two ways, each with its own copy of the  *)
(* parsing code: as an event (NotifyStatus, NotifyFirmwareUpdateProgress)  *)
(* and as the answer to a query (GetNetStatus, StatusFirmwareUpdate).      *)
(* NotifyValidation has no query beside it.                                *)
(*                                                                         *)
(* A JSON label that may be missing is a set with at most one element: {}  *)
(* is "no such label".  Of the nineteen strings and numbers of a paired    *)
(* remote, the model keeps one of each conversion.                         *)
(***************************************************************************)
EXTENDS Numbers, Sequences

CONSTANTS
    Networks,       \* the RCU_STATUS payloads control manager may send
    Firmwares,      \* its FIRMWARE_UPDATE_PROGRESS payloads
    Validations,    \* its VALIDATION_STATUS payloads
    NetTypes,       \* the netType values clients ask about
    Sessions,       \* the session identifiers clients ask about
    NetTypesLimit, RemoteLimit, CodeLimit, CustomLimit   \* @restrict limits

ASSUME LimitsAssumption ==
    {NetTypesLimit, RemoteLimit, CodeLimit, CustomLimit} \subseteq Nat

-----------------------------------------------------------------------------
\* Labels and the enumerations behind strings.

\* A label that is missing or holds a member of S.
Label(S) == {label \in SUBSET S : \A x, y \in label : x = y}

Present(label) == label # {}

OrElse(label, default) ==
    IF Present(label) THEN CHOOSE value \in label : TRUE ELSE default

\* stringToEnum: exact, case-sensitive match, or the default.
StringToEnum(names, str, default) ==
    IF str \in DOMAIN names THEN names[str] ELSE default

PairingStates ==
    [INITIALIZING |-> "INITIALISING", INITIALISING |-> "INITIALISING",
     IDLE |-> "IDLE", SEARCHING |-> "SEARCHING", PAIRING |-> "PAIRING",
     COMPLETE |-> "COMPLETE", FAILED |-> "FAILED"]

IRProgStates ==
    [IDLE |-> "IDLE", WAITING |-> "WAITING", COMPLETE |-> "COMPLETE",
     FAILED |-> "FAILED"]

FirmwareUpdateStates ==
    [success |-> "SUCCESS", idle |-> "IDLE", pending |-> "PENDING",
     canceled |-> "CANCELED", retrying |-> "RETRYING", error |-> "ERROR",
     invalid |-> "INVALID"]

ValidationStatuses ==
    [s \in {"SUCCESS", "PENDING", "TIMEOUT", "COLLISION", "FAILURE", "ABORT",
            "FULL_ABORT", "FAILED", "BIND_TABLE_FULL", "IN_PROGRESS",
            "CTRLM_RESTART"} |-> s]

WakeupConfigs == [all |-> "ALL", none |-> "NONE", custom |-> "CUSTOM"]

\* Faulty variant of WakeupConfigToString: another spelling than is read back.
WakeupConfigToUpper(config) ==
    CASE config = "ALL"    -> "all"
      [] config = "NONE"   -> "none"
      [] config = "CUSTOM" -> "CUSTOM"

\* enumToString<WakeupConfig>
WakeupConfigToString(config) ==
    CASE config = "ALL"    -> "all"
      [] config = "NONE"   -> "none"
      [] config = "CUSTOM" -> "custom"

-----------------------------------------------------------------------------
\* Arrays and remotes.

Capped(array, limit) ==
    SubSeq(array, 1, IF Len(array) < limit THEN Len(array) ELSE limit)

ParseUint32Array(array, limit) ==
    LET kept == Capped(array, limit) IN [i \in DOMAIN kept |-> Clamp(kept[i])]

ParseRemoteInfo(obj) ==
    [remoteId |-> Wrap(OrElse(obj.remoteId, 0)),
     wakeupConfig |-> StringToEnum(WakeupConfigs,
                                   OrElse(obj.wakeupConfig, "none"), "NONE"),
     wakeupCustomList |->
        ParseUint32Array(OrElse(obj.wakeupCustomList, <<>>), CustomLimit)]

ParseRemoteDataArray(array, limit) ==
    LET kept == Capped(array, limit)
    IN  [i \in DOMAIN kept |-> ParseRemoteInfo(kept[i])]

-----------------------------------------------------------------------------
\* The status of the network.

NoStatus == [netType |-> {}, pairingState |-> {}, irProgState |-> {},
             netTypesSupported |-> {}, remoteData |-> {}]

\* Faulty variant of NotifyStatus: the netType inside the status is not looked at.
NotifyStatusOuter(params) ==
    LET status == OrElse(params.status, NoStatus) IN
    [netType |-> Wrap(OrElse(params.netType, 0)),
     pairingState |-> StringToEnum(PairingStates,
                                   OrElse(status.pairingState, "IDLE"), "IDLE"),
     irProgState |-> StringToEnum(IRProgStates,
                                  OrElse(status.irProgState, "IDLE"), "IDLE"),
     netTypesSupported |->
        ParseUint32Array(OrElse(status.netTypesSupported, <<>>), NetTypesLimit),
     remoteData |->
        ParseRemoteDataArray(OrElse(status.remoteData, <<>>), RemoteLimit)]

\* NotifyStatus: the event may carry the netType beside the status as well.
NotifyStatus(params) ==
    LET status == OrElse(params.status, NoStatus) IN
    [netType |-> IF Present(status.netType) THEN Wrap(OrElse(status.netType, 0))
                 ELSE Wrap(OrElse(params.netType, 0)),
     pairingState |-> StringToEnum(PairingStates,
                                   OrElse(status.pairingState, "IDLE"), "IDLE"),
     irProgState |-> StringToEnum(IRProgStates,
                                  OrElse(status.irProgState, "IDLE"), "IDLE"),
     netTypesSupported |->
        ParseUint32Array(OrElse(status.netTypesSupported, <<>>), NetTypesLimit),
     remoteData |->
        ParseRemoteDataArray(OrElse(status.remoteData, <<>>), RemoteLimit)]

\* GetNetStatus, given an answer: the netType asked about is the one assumed.
GetNetStatus(answer, netType) ==
    LET status == OrElse(answer.status, NoStatus) IN
    [success |-> OrElse(answer.success, FALSE),
     status |->
        [netType |-> IF Present(status.netType)
                     THEN Wrap(OrElse(status.netType, 0)) ELSE netType,
         pairingState |-> StringToEnum(PairingStates,
                              OrElse(status.pairingState, "IDLE"), "IDLE"),
         irProgState |-> StringToEnum(IRProgStates,
                             OrElse(status.irProgState, "IDLE"), "IDLE"),
         netTypesSupported |->
            ParseUint32Array(OrElse(status.netTypesSupported, <<>>), NetTypesLimit),
         remoteData |->
            ParseRemoteDataArray(OrElse(status.remoteData, <<>>), RemoteLimit)]]

\* GetNetStatus when the call fails.
GetNetStatusFailed(netType) ==
    [success |-> FALSE,
     status |-> [netType |-> netType, pairingState |-> "IDLE",
                 irProgState |-> "IDLE", netTypesSupported |-> <<>>,
                 remoteData |-> <<>>]]

-----------------------------------------------------------------------------
\* The progress of a firmware update.

NoFirmware == [upgradeSessionId |-> {}, macAddress |-> {}, upgradeState |-> {},
               percentComplete |-> {}, errorString |-> {}]

\* What is known of an update nobody reports on.
UnknownUpdate(session) ==
    [upgradeSessionId |-> session, macAddress |-> "", upgradeState |-> "INVALID",
     percentComplete |-> 0, errorString |-> {}]

\* Faulty variant of FirmwareState: a word nobody knows is the first enumerator.
FirmwareStateFirst(label) ==
    StringToEnum(FirmwareUpdateStates, OrElse(label, "invalid"), "SUCCESS")

FirmwareState(label) ==
    StringToEnum(FirmwareUpdateStates, OrElse(label, "invalid"), "INVALID")

\* Faulty variant of NotifyFirmwareUpdateProgress: a report without a session is
\* taken for no report.
NotifyFirmwareNeedsSession(params) ==
    LET status == OrElse(params.status, NoFirmware) IN
    IF Present(status.upgradeSessionId)
    THEN [upgradeSessionId |-> OrElse(status.upgradeSessionId, ""),
          macAddress |-> OrElse(status.macAddress, ""),
          upgradeState |-> FirmwareState(status.upgradeState),
          percentComplete |-> Wrap(OrElse(status.percentComplete, 0)),
          errorString |-> status.errorString]
    ELSE UnknownUpdate("")

NotifyFirmwareUpdateProgress(params) ==
    LET status == OrElse(params.status, NoFirmware) IN
    IF Present(params.status)
    THEN [upgradeSessionId |-> OrElse(status.upgradeSessionId, ""),
          macAddress |-> OrElse(status.macAddress, ""),
          upgradeState |-> FirmwareState(status.upgradeState),
          percentComplete |-> Wrap(OrElse(status.percentComplete, 0)),
          errorString |-> status.errorString]
    ELSE UnknownUpdate("")

StatusFirmwareUpdate(answer, session) ==
    LET status == OrElse(answer.status, NoFirmware) IN
    [success |-> OrElse(answer.success, FALSE),
     status |-> [upgradeSessionId |-> OrElse(status.upgradeSessionId, session),
                 macAddress |-> OrElse(status.macAddress, ""),
                 upgradeState |-> FirmwareState(status.upgradeState),
                 percentComplete |-> Wrap(OrElse(status.percentComplete, 0)),
                 errorString |-> status.errorString]]

StatusFirmwareUpdateFailed(session) ==
    [success |-> FALSE, status |-> UnknownUpdate(session)]

-----------------------------------------------------------------------------
\* The validation of a remote: params is the object under the label `status`, one
\* without labels if that is missing.

NotifyValidation(params) ==
    [status |-> StringToEnum(ValidationStatuses,
                             OrElse(params.status, "FAILED"), "FAILED"),
     code |-> ParseUint32Array(OrElse(params.code, <<>>), CodeLimit),
     key |-> {Wrap(k) : k \in params.key}]

-----------------------------------------------------------------------------
\* Every payload is an object with the labels that are read from it.

Remotes ==
    [remoteId : Label(Int), wakeupConfig : Label(STRING),
     wakeupCustomList : Label(Seq(Int))]

NetStatuses ==
    [netType : Label(Int), pairingState : Label(STRING), irProgState : Label(STRING),
     netTypesSupported : Label(Seq(Int)), remoteData : Label(Seq(Remotes))]

FirmwareStatuses ==
    [upgradeSessionId : Label(STRING), macAddress : Label(STRING),
     upgradeState : Label(STRING), percentComplete : Label(Int),
     errorString : Label(STRING)]

ASSUME PayloadsAssumption ==
    /\ Networks \subseteq [status : Label(NetStatuses), netType : Label(Int)]
    /\ Firmwares \subseteq [status : Label(FirmwareStatuses)]
    /\ Validations \subseteq
          [status : Label(STRING), code : Label(Seq(Int)), key : Label(Int)]

-----------------------------------------------------------------------------
VARIABLES
    network, firmware, validation,           \* control manager's latest payloads
    wakeup,                                  \* the wakeup keys it has stored
    netView, firmwareView, validationView,   \* what observers were told last
    netAnswer, firmwareAnswer,               \* answers given since: {} or one
    wakeupAsked                              \* the wakeup keys last asked for

ctrlmVars == <<network, firmware, validation, wakeup>>
viewVars == <<netView, firmwareView, validationView>>
vars == <<ctrlmVars, viewVars, netAnswer, firmwareAnswer, wakeupAsked>>

Answer(success, params) == [success |-> success, status |-> params.status]

\* The wakeup configuration of every remote is the one last written.
Reporting(params, config) ==
    [params EXCEPT !.status =
        {[s EXCEPT !.remoteData =
            {[i \in DOMAIN a |-> [a[i] EXCEPT !.wakeupConfig = {config}]] : a \in @}]
         : s \in @}]

Init ==
    /\ network \in Networks
    /\ firmware \in Firmwares
    /\ validation \in Validations
    /\ wakeup = "none"
    /\ wakeupAsked = "NONE"
    /\ netView = NotifyStatus(Reporting(network, "none"))
    /\ firmwareView = NotifyFirmwareUpdateProgress(firmware)
    /\ validationView = NotifyValidation(validation)
    /\ netAnswer = {}
    /\ firmwareAnswer = {}

\* The network changes, and an event says so; what callers were told is old.
NetworkChanges(params) ==
    /\ network' = params
    /\ netView' = NotifyStatus(Reporting(params, wakeup))
    /\ netAnswer' = {}
    /\ UNCHANGED <<firmware, validation, wakeup, firmwareView, validationView,
                   firmwareAnswer, wakeupAsked>>

FirmwareProgresses(params) ==
    /\ firmware' = params
    /\ firmwareView' = NotifyFirmwareUpdateProgress(params)
    /\ firmwareAnswer' = {}
    /\ UNCHANGED <<network, validation, wakeup, netView, validationView,
                   netAnswer, wakeupAsked>>

ValidationProgresses(params) ==
    /\ validation' = params
    /\ validationView' = NotifyValidation(params)
    /\ UNCHANGED <<network, firmware, wakeup, netView, firmwareView, netAnswer,
                   firmwareAnswer, wakeupAsked>>

\* A caller asks, and is answered or not.
AskNetStatus(netType) ==
    /\ \E told \in {GetNetStatusFailed(netType)} \cup
                   {GetNetStatus(Answer(ok, Reporting(network, wakeup)), netType) :
                        ok \in {{}, {TRUE}, {FALSE}}} :
          netAnswer' = {[asked |-> netType, told |-> told]}
    /\ UNCHANGED <<ctrlmVars, viewVars, firmwareAnswer, wakeupAsked>>

AskFirmwareStatus(session) ==
    /\ \E told \in {StatusFirmwareUpdateFailed(session)} \cup
                   {StatusFirmwareUpdate(Answer(ok, firmware), session) :
                        ok \in {{}, {TRUE}, {FALSE}}} :
          firmwareAnswer' = {[asked |-> session, told |-> told]}
    /\ UNCHANGED <<ctrlmVars, viewVars, netAnswer, wakeupAsked>>

\* ConfigureWakeupKeys is executed, and an event reports the remotes anew.
ConfigureWakeupKeys(config) ==
    /\ wakeupAsked' = config
    /\ wakeup' = WakeupConfigToString(config)
    /\ netView' = NotifyStatus(Reporting(network, wakeup'))
    /\ netAnswer' = {}
    /\ UNCHANGED <<network, firmware, validation, firmwareView, validationView,
                   firmwareAnswer>>

Next ==
    \/ \E params \in Networks : NetworkChanges(params)
    \/ \E params \in Firmwares : FirmwareProgresses(params)
    \/ \E params \in Validations : ValidationProgresses(params)
    \/ \E netType \in NetTypes : AskNetStatus(netType)
    \/ \E session \in Sessions : AskFirmwareStatus(session)
    \/ \E config \in {"ALL", "NONE", "CUSTOM"} : ConfigureWakeupKeys(config)

Spec == Init /\ [][Next]_vars

-----------------------------------------------------------------------------
\* A caller that asks after the last event, and is answered, is told what the
\* observers were told: the two parsers agree on every field.  The netType is
\* the exception when control manager leaves it out of the status: the caller
\* is told the one it asked about.
QueryAgreesWithEvent ==
    \A answer \in netAnswer :
        LET told == answer.told
            named == \E s \in network.status : Present(s.netType)
        IN  told.success =>
                told.status = IF named THEN netView
                              ELSE [netView EXCEPT !.netType = answer.asked]

\* The same for the progress of a firmware update and its session.
FirmwareAgreesWithEvent ==
    \A answer \in firmwareAnswer :
        LET told == answer.told
            named == \E s \in firmware.status : Present(s.upgradeSessionId)
        IN  told.success =>
                told.status = IF named THEN firmwareView
                              ELSE [firmwareView EXCEPT !.upgradeSessionId = answer.asked]

\* A word control manager did not say, or one the plugin does not know, never
\* shows as an operation that is over: pairing, the programming of a remote,
\* an update and a validation end only with the word for it.
NoFalseCompletion ==
    /\ netView.pairingState = "COMPLETE" =>
          \E s \in network.status : s.pairingState = {"COMPLETE"}
    /\ netView.irProgState = "COMPLETE" =>
          \E s \in network.status : s.irProgState = {"COMPLETE"}
    /\ firmwareView.upgradeState = "SUCCESS" =>
          \E s \in firmware.status : s.upgradeState = {"success"}
    /\ validationView.status = "SUCCESS" => validation.status = {"SUCCESS"}

\* The wakeup keys a client configured are the ones every remote is reported
\* with: writing and reading use the same words.
WakeupRoundTrip ==
    \A i \in DOMAIN netView.remoteData :
        netView.remoteData[i].wakeupConfig = wakeupAsked

=============================================================================
