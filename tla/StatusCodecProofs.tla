------------------------- MODULE StatusCodecProofs -------------------------
(***************************************************************************)
(* StatusCodec for all payloads that control manager may send and any      *)
(* width of uint32_t: the two parsers of a status agree, no operation is   *)
(* shown as over without the word for it, and wakeup keys are read back as *)
(* they were written.                                                      *)
(*                                                                         *)
(* The invariant is that every view and every answer is what the code      *)
(* makes of control manager's latest payload; the theorems are then about  *)
(* the parsers alone.                                                      *)
(***************************************************************************)
EXTENDS StatusCodec, SequenceTheorems, TLAPS

Configs == {"ALL", "NONE", "CUSTOM"}

Reported == Reporting(network, wakeup)

Payloads ==
    /\ network \in Networks
    /\ firmware \in Firmwares
    /\ validation \in Validations
    /\ wakeupAsked \in Configs
    /\ wakeup = WakeupConfigToString(wakeupAsked)

Views ==
    /\ netView = NotifyStatus(Reported)
    /\ firmwareView = NotifyFirmwareUpdateProgress(firmware)
    /\ validationView = NotifyValidation(validation)

NetAnswers ==
    \A a \in netAnswer :
        \/ a.told = GetNetStatusFailed(a.asked)
        \/ \E ok \in {{}, {TRUE}, {FALSE}} :
              a.told = GetNetStatus(Answer(ok, Reported), a.asked)

FirmwareAnswers ==
    \A a \in firmwareAnswer :
        \/ a.told = StatusFirmwareUpdateFailed(a.asked)
        \/ \E ok \in {{}, {TRUE}, {FALSE}} :
              a.told = StatusFirmwareUpdate(Answer(ok, firmware), a.asked)

IInv == Payloads /\ Views /\ NetAnswers /\ FirmwareAnswers

LEMMA Induction == Spec => []IInv
<1>1. Init => IInv
    BY DEF Init, IInv, Payloads, Views, NetAnswers, FirmwareAnswers, Configs,
           Reported, WakeupConfigToString
<1>2. IInv /\ [Next]_vars => IInv'
  <2> SUFFICES ASSUME IInv, [Next]_vars PROVE IInv'
      OBVIOUS
  <2> USE DEF IInv, Payloads, Views, NetAnswers, FirmwareAnswers, Reported,
              ctrlmVars, viewVars
  <2>1. ASSUME NEW params \in Networks, NetworkChanges(params) PROVE IInv'
      BY <2>1 DEF NetworkChanges
  <2>2. ASSUME NEW params \in Firmwares, FirmwareProgresses(params) PROVE IInv'
      BY <2>2 DEF FirmwareProgresses
  <2>3. ASSUME NEW params \in Validations, ValidationProgresses(params) PROVE IInv'
      BY <2>3 DEF ValidationProgresses
  <2>4. ASSUME NEW netType \in NetTypes, AskNetStatus(netType) PROVE IInv'
      BY <2>4 DEF AskNetStatus
  <2>5. ASSUME NEW session \in Sessions, AskFirmwareStatus(session) PROVE IInv'
      BY <2>5 DEF AskFirmwareStatus
  <2>6. ASSUME NEW config \in Configs, ConfigureWakeupKeys(config) PROVE IInv'
      BY <2>6 DEF ConfigureWakeupKeys
  <2>7. CASE UNCHANGED vars
      BY <2>7 DEF vars
  <2> QED
      BY <2>1, <2>2, <2>3, <2>4, <2>5, <2>6, <2>7 DEF Next, Configs
<1> QED
    BY <1>1, <1>2, PTL DEF Spec

-----------------------------------------------------------------------------
\* Labels.

LEMMA OneLabel ==
    ASSUME NEW S, NEW label \in Label(S), NEW value \in label, NEW default
    PROVE  /\ label = {value}
           /\ Present(label)
           /\ OrElse(label, default) = value
BY DEF Label, Present, OrElse

LEMMA NoLabel ==
    ASSUME NEW default
    PROVE  ~Present({}) /\ OrElse({}, default) = default
BY DEF Present, OrElse

\* The status the parsers read: that of the payload, with the wakeup configuration
\* of the remotes put in, or one without labels.
Status == OrElse(Reported.status, NoStatus)

Configured(array, config) ==
    [i \in DOMAIN array |-> [array[i] EXCEPT !.wakeupConfig = {config}]]

LEMMA StatusIs ==
    ASSUME Payloads
    PROVE  \/ network.status = {} /\ Status = NoStatus
           \/ \E s \in NetStatuses :
                 /\ network.status = {s}
                 /\ Status = [s EXCEPT !.remoteData =
                                 {Configured(a, wakeup) : a \in s.remoteData}]
<1>1. network \in [status : Label(NetStatuses), netType : Label(Int)]
    BY PayloadsAssumption DEF Payloads
<1> DEFINE With(s) == [s EXCEPT !.remoteData = {Configured(a, wakeup) : a \in @}]
<1>2. Reported.status = {With(s) : s \in network.status}
    BY <1>1 DEF Reported, Reporting, Configured
<1>3. CASE network.status = {}
    BY <1>2, <1>3, NoLabel DEF Status
<1>4. ASSUME NEW s \in network.status
      PROVE  /\ s \in NetStatuses /\ network.status = {s}
             /\ Status = With(s)
  <2>1. network.status = {s}
      BY <1>1, <1>4, OneLabel
  <2>2. s \in NetStatuses
      BY <1>1 DEF Label
  <2>3. Reported.status = {With(s)}
      BY <1>2, <2>1
  <2> HIDE DEF With
  <2>4. Status = With(s)
      BY <2>3 DEF Status, OrElse, Present
  <2> QED
      BY <2>1, <2>2, <2>4
<1> QED
    BY <1>3, <1>4

-----------------------------------------------------------------------------
\* The two parsers of the network's status read the same labels the same way.

LEMMA ParsersAgree ==
    ASSUME Payloads, NEW ok, NEW netType
    PROVE  LET told == GetNetStatus(Answer(ok, Reported), netType)
               view == NotifyStatus(Reported)
           IN  told.status = IF Present(Status.netType) THEN view
                             ELSE [view EXCEPT !.netType = netType]
<1>1. Answer(ok, Reported).status = Reported.status
    BY DEF Answer
<1> QED
    BY <1>1 DEF GetNetStatus, NotifyStatus, Status

\* A caller that asks and is answered is told what observers were told, but for a
\* netType that control manager left out, for which it is told its own.
THEOREM NetStatusAgrees == Spec => []QueryAgreesWithEvent
<1>1. IInv => QueryAgreesWithEvent
  <2> SUFFICES ASSUME IInv, NEW a \in netAnswer, a.told.success
               PROVE  a.told.status =
                         IF \E s \in network.status : Present(s.netType) THEN netView
                         ELSE [netView EXCEPT !.netType = a.asked]
      BY DEF QueryAgreesWithEvent
  <2>1. PICK ok \in {{}, {TRUE}, {FALSE}} :
            a.told = GetNetStatus(Answer(ok, Reported), a.asked)
    <3>1. GetNetStatusFailed(a.asked).success = FALSE
        BY DEF GetNetStatusFailed
    <3> QED
        BY <3>1 DEF IInv, NetAnswers
  <2>2. Present(Status.netType) <=> \E s \in network.status : Present(s.netType)
    <3>1. CASE network.status = {} /\ Status = NoStatus
        BY <3>1, NoLabel DEF NoStatus
    <3>2. ASSUME NEW s \in NetStatuses, network.status = {s},
                 Status = [s EXCEPT !.remoteData =
                             {Configured(b, wakeup) : b \in s.remoteData}]
          PROVE  Present(Status.netType) <=>
                    \E u \in network.status : Present(u.netType)
      <4>1. Status.netType = s.netType
          BY <3>2 DEF NetStatuses
      <4> QED
          BY <3>2, <4>1
    <3> QED
        BY <3>1, <3>2, StatusIs DEF IInv
  <2> QED
      BY <2>1, <2>2, ParsersAgree DEF IInv, Views
<1> QED
    BY <1>1, Induction, PTL

FirmwareRecord(session, s) ==
    [upgradeSessionId |-> session,
     macAddress |-> OrElse(s.macAddress, ""),
     upgradeState |-> FirmwareState(s.upgradeState),
     percentComplete |-> Wrap(OrElse(s.percentComplete, 0)),
     errorString |-> s.errorString]

LEMMA OtherSession ==
    ASSUME NEW session, NEW asked, NEW s
    PROVE  FirmwareRecord(asked, s) =
              [FirmwareRecord(session, s) EXCEPT !.upgradeSessionId = asked]
<1>1. PICK m, u, p, e, view, told :
        /\ m = OrElse(s.macAddress, "") /\ u = FirmwareState(s.upgradeState)
        /\ p = Wrap(OrElse(s.percentComplete, 0)) /\ e = s.errorString
        /\ view = FirmwareRecord(session, s) /\ told = FirmwareRecord(asked, s)
    OBVIOUS
<1>2. view = [upgradeSessionId |-> session, macAddress |-> m, upgradeState |-> u,
              percentComplete |-> p, errorString |-> e]
    BY <1>1 DEF FirmwareRecord
<1>3. told = [upgradeSessionId |-> asked, macAddress |-> m, upgradeState |-> u,
              percentComplete |-> p, errorString |-> e]
    BY <1>1 DEF FirmwareRecord
<1>4. told = [view EXCEPT !.upgradeSessionId = asked]
    BY <1>2, <1>3
<1> QED
    BY <1>1, <1>4

\* A report without a status is read like one without labels.
LEMMA UnknownRecord ==
    ASSUME NEW session
    PROVE  UnknownUpdate(session) = FirmwareRecord(session, NoFirmware)
<1>1. /\ NoFirmware.macAddress = {} /\ NoFirmware.upgradeState = {}
      /\ NoFirmware.percentComplete = {} /\ NoFirmware.errorString = {}
    BY DEF NoFirmware
<1>2. FirmwareState({}) = "INVALID"
    BY NoLabel DEF FirmwareState, StringToEnum, FirmwareUpdateStates
<1>3. OrElse({}, 0) = 0 /\ OrElse({}, "") = ""
    BY NoLabel
<1>4. Wrap(0) = 0
    BY UintMaxAssumption DEF Wrap
<1> QED
    BY <1>1, <1>2, <1>3, <1>4 DEF UnknownUpdate, FirmwareRecord

\* The same for the progress of a firmware update, whose missing label is the
\* session.
THEOREM FirmwareStatusAgrees == Spec => []FirmwareAgreesWithEvent
<1>1. IInv => FirmwareAgreesWithEvent
  <2> SUFFICES ASSUME IInv, NEW a \in firmwareAnswer, a.told.success
               PROVE  a.told.status =
                         IF \E s \in firmware.status : Present(s.upgradeSessionId)
                         THEN firmwareView
                         ELSE [firmwareView EXCEPT !.upgradeSessionId = a.asked]
      BY DEF FirmwareAgreesWithEvent
  <2>1. PICK ok \in {{}, {TRUE}, {FALSE}} :
            a.told = StatusFirmwareUpdate(Answer(ok, firmware), a.asked)
    <3>1. StatusFirmwareUpdateFailed(a.asked).success = FALSE
        BY DEF StatusFirmwareUpdateFailed
    <3> QED
        BY <3>1 DEF IInv, FirmwareAnswers
  <2> DEFINE s == OrElse(firmware.status, NoFirmware)
             session == OrElse(s.upgradeSessionId, "")
             told == OrElse(s.upgradeSessionId, a.asked)
  <2>2. \/ firmware.status = {} /\ s = NoFirmware
        \/ firmware.status = {s}
    <3>1. firmware.status \in Label(FirmwareStatuses)
        BY PayloadsAssumption DEF IInv, Payloads
    <3> QED
        BY <3>1, NoLabel, OneLabel
  <2>3. a.told.status = FirmwareRecord(told, s)
    <3>1. Answer(ok, firmware).status = firmware.status
        BY DEF Answer
    <3>2. StatusFirmwareUpdate(Answer(ok, firmware), a.asked).status
             = FirmwareRecord(told, s)
        BY <3>1 DEF StatusFirmwareUpdate, FirmwareRecord
    <3> QED
        BY <2>1, <3>2
  <2>4. firmwareView = FirmwareRecord(session, s)
    <3>1. firmwareView = NotifyFirmwareUpdateProgress(firmware)
        BY DEF IInv, Views
    <3>2. CASE firmware.status = {}
      <4>1. s = NoFirmware
          BY <3>2, NoLabel
      <4>2. NoFirmware.upgradeSessionId = {}
          BY DEF NoFirmware
      <4>3. session = ""
          BY <4>1, <4>2, NoLabel
      <4> QED
          BY <3>1, <3>2, <4>1, <4>3, UnknownRecord DEF NotifyFirmwareUpdateProgress, Present
    <3>3. CASE firmware.status # {}
        BY <3>1, <3>3 DEF NotifyFirmwareUpdateProgress, FirmwareRecord, Present
    <3> QED
        BY <3>2, <3>3
  <2> HIDE DEF s, session, told
  <2>5. CASE Present(s.upgradeSessionId)
    <3>1. firmware.status = {s}
        BY <2>2, <2>5, NoLabel DEF NoFirmware
    <3>2. told = session
        BY <2>5 DEF OrElse, told, session
    <3> QED
        BY <2>3, <2>4, <2>5, <3>1, <3>2
  <2>6. CASE ~Present(s.upgradeSessionId)
    <3>1. ~\E u \in firmware.status : Present(u.upgradeSessionId)
        BY <2>2, <2>6
    <3>2. told = a.asked
        BY <2>6 DEF OrElse, told
    <3>3. a.told.status = FirmwareRecord(a.asked, s)
        BY <2>3, <3>2
    <3>4. FirmwareRecord(a.asked, s) = [firmwareView EXCEPT !.upgradeSessionId = a.asked]
        BY <2>4, OtherSession, Zenon
    <3> QED
        BY <3>1, <3>3, <3>4, Zenon
  <2> QED
      BY <2>5, <2>6
<1> QED
    BY <1>1, Induction, PTL

-----------------------------------------------------------------------------
\* The words for something that is over.

LEMMA OverOnlyByWord ==
    ASSUME NEW str
    PROVE  /\ StringToEnum(PairingStates, str, "IDLE") = "COMPLETE" => str = "COMPLETE"
           /\ StringToEnum(IRProgStates, str, "IDLE") = "COMPLETE" => str = "COMPLETE"
           /\ StringToEnum(FirmwareUpdateStates, str, "INVALID") = "SUCCESS"
                 => str = "success"
           /\ StringToEnum(ValidationStatuses, str, "FAILED") = "SUCCESS"
                 => str = "SUCCESS"
BY DEF StringToEnum, PairingStates, IRProgStates, FirmwareUpdateStates,
       ValidationStatuses

\* A label that reads as something else than the default is there.
LEMMA LabelIsRead ==
    ASSUME NEW S, NEW label \in Label(S), NEW default, NEW word,
           OrElse(label, default) = word, default # word
    PROVE  label = {word}
BY DEF Label, OrElse, Present

\* An operation shows as over only if control manager said so, in the word the
\* plugin knows for it.
THEOREM NothingOverEarly == Spec => []NoFalseCompletion
<1>1. IInv => NoFalseCompletion
  <2> SUFFICES ASSUME IInv PROVE NoFalseCompletion
      OBVIOUS
  <2>1. /\ netView.pairingState = StringToEnum(PairingStates,
                                     OrElse(Status.pairingState, "IDLE"), "IDLE")
        /\ netView.irProgState = StringToEnum(IRProgStates,
                                     OrElse(Status.irProgState, "IDLE"), "IDLE")
      BY DEF IInv, Views, NotifyStatus, Status
  <2>2. /\ netView.pairingState = "COMPLETE" =>
              \E s \in network.status : s.pairingState = {"COMPLETE"}
        /\ netView.irProgState = "COMPLETE" =>
              \E s \in network.status : s.irProgState = {"COMPLETE"}
    <3>1. CASE network.status = {} /\ Status = NoStatus
      <4>1. Status.pairingState = {} /\ Status.irProgState = {}
          BY <3>1 DEF NoStatus
      <4>2. OrElse(Status.pairingState, "IDLE") # "COMPLETE"
          BY <4>1, NoLabel
      <4>3. OrElse(Status.irProgState, "IDLE") # "COMPLETE"
          BY <4>1, NoLabel
      <4> QED
          BY <2>1, <4>2, <4>3, OverOnlyByWord
    <3>2. ASSUME NEW s \in NetStatuses, network.status = {s},
                 Status = [s EXCEPT !.remoteData =
                             {Configured(b, wakeup) : b \in s.remoteData}]
          PROVE  /\ netView.pairingState = "COMPLETE" => s.pairingState = {"COMPLETE"}
                 /\ netView.irProgState = "COMPLETE" => s.irProgState = {"COMPLETE"}
      <4>1. /\ Status.pairingState = s.pairingState
            /\ Status.irProgState = s.irProgState
            /\ s.pairingState \in Label(STRING) /\ s.irProgState \in Label(STRING)
          BY <3>2 DEF NetStatuses
      <4>2. OrElse(s.pairingState, "IDLE") = "COMPLETE" => s.pairingState = {"COMPLETE"}
          BY <4>1, LabelIsRead
      <4>3. OrElse(s.irProgState, "IDLE") = "COMPLETE" => s.irProgState = {"COMPLETE"}
          BY <4>1, LabelIsRead
      <4> QED
          BY <2>1, <4>1, <4>2, <4>3, OverOnlyByWord
    <3> QED
        BY <3>1, <3>2, StatusIs DEF IInv
  <2>3. firmwareView.upgradeState = "SUCCESS" =>
            \E s \in firmware.status : s.upgradeState = {"success"}
    <3> DEFINE s == OrElse(firmware.status, NoFirmware)
    <3>1. firmware.status \in Label(FirmwareStatuses)
        BY PayloadsAssumption DEF IInv, Payloads
    <3>2. firmwareView = NotifyFirmwareUpdateProgress(firmware)
        BY DEF IInv, Views
    <3>3. CASE firmware.status = {}
        BY <3>2, <3>3 DEF NotifyFirmwareUpdateProgress, Present, UnknownUpdate
    <3>4. ASSUME NEW f \in firmware.status, firmwareView.upgradeState = "SUCCESS"
          PROVE  f.upgradeState = {"success"}
      <4>1. OrElse(firmware.status, NoFirmware) = f /\ Present(firmware.status)
          BY <3>1, OneLabel
      <4>2. firmwareView.upgradeState = FirmwareState(f.upgradeState)
          BY <3>2, <4>1 DEF NotifyFirmwareUpdateProgress
      <4>3. OrElse(f.upgradeState, "invalid") = "success"
          BY <3>4, <4>2, OverOnlyByWord DEF FirmwareState
      <4>4. f.upgradeState \in Label(STRING)
          BY <3>1 DEF Label, FirmwareStatuses
      <4> QED
          BY <4>3, <4>4, LabelIsRead
    <3> QED
        BY <3>3, <3>4
  <2>4. validationView.status = "SUCCESS" => validation.status = {"SUCCESS"}
    <3>1. validation.status \in Label(STRING)
        BY PayloadsAssumption DEF IInv, Payloads
    <3>2. validationView.status =
             StringToEnum(ValidationStatuses, OrElse(validation.status, "FAILED"), "FAILED")
        BY DEF IInv, Views, NotifyValidation
    <3>3. OrElse(validation.status, "FAILED") = "SUCCESS" => validation.status = {"SUCCESS"}
        BY <3>1, LabelIsRead
    <3> QED
        BY <3>2, <3>3, OverOnlyByWord
  <2> QED
      BY <2>2, <2>3, <2>4 DEF NoFalseCompletion
<1> QED
    BY <1>1, Induction, PTL

-----------------------------------------------------------------------------
\* Wakeup keys.

LEMMA WordsAgree ==
    ASSUME NEW config \in Configs
    PROVE  StringToEnum(WakeupConfigs, WakeupConfigToString(config), "NONE") = config
BY DEF Configs, StringToEnum, WakeupConfigs, WakeupConfigToString

LEMMA CappedIs ==
    ASSUME NEW S, NEW array \in Seq(S), NEW limit \in Nat
    PROVE  /\ DOMAIN Capped(array, limit) \subseteq DOMAIN array
           /\ \A i \in DOMAIN Capped(array, limit) : Capped(array, limit)[i] = array[i]
<1> DEFINE n == IF Len(array) < limit THEN Len(array) ELSE limit
<1>1. n \in Nat /\ n <= Len(array) /\ DOMAIN array = 1 .. Len(array)
    BY LenProperties
<1>2. \A i \in 1 .. n : array[i] \in S
    BY <1>1
<1>3. /\ Capped(array, limit) = SubSeq(array, 1, n)
      /\ Capped(array, limit) \in Seq(S)
      /\ Len(Capped(array, limit)) = n
      /\ \A i \in 1 .. n : Capped(array, limit)[i] = array[i]
    BY <1>1, <1>2, SubSeqProperties DEF Capped
<1>4. DOMAIN Capped(array, limit) = 1 .. n
    BY <1>3, LenProperties
<1> QED
    BY <1>1, <1>3, <1>4

\* A remote that is reported with this configuration.
RemotesWith(config) ==
    [remoteId : Label(Int), wakeupConfig : {{config}},
     wakeupCustomList : Label(Seq(Int))]

LEMMA ConfiguredHave ==
    ASSUME NEW array \in Seq(Remotes), NEW config
    PROVE  Configured(array, config) \in Seq(RemotesWith(config))
<1>1. Len(array) \in Nat /\ DOMAIN array = 1 .. Len(array)
    BY LenProperties
<1>2. ASSUME NEW r \in Remotes
      PROVE  [r EXCEPT !.wakeupConfig = {config}] \in RemotesWith(config)
    BY DEF Remotes, RemotesWith
<1>3. \A j \in 1 .. Len(array) : array[j] \in Remotes
    BY <1>1
<1>4. Configured(array, config) \in [1 .. Len(array) -> RemotesWith(config)]
    BY <1>1, <1>2, <1>3 DEF Configured
<1> QED
    BY <1>1, <1>4, SeqDef

\* Every remote is reported with the wakeup keys that were asked for last.
THEOREM WakeupIsReadBack == Spec => []WakeupRoundTrip
<1>1. IInv => WakeupRoundTrip
  <2> SUFFICES ASSUME IInv, NEW i \in DOMAIN netView.remoteData
               PROVE  netView.remoteData[i].wakeupConfig = wakeupAsked
      BY DEF WakeupRoundTrip
  <2>1. netView.remoteData =
           ParseRemoteDataArray(OrElse(Status.remoteData, <<>>), RemoteLimit)
      BY DEF IInv, Views, NotifyStatus, Status
  <2> DEFINE array == OrElse(Status.remoteData, <<>>)
             kept == Capped(array, RemoteLimit)
  <2>2. array \in Seq(RemotesWith(wakeup))
    <3>1. CASE network.status = {} /\ Status = NoStatus
      <4>1. Status.remoteData = {}
          BY <3>1 DEF NoStatus
      <4>2. array = <<>>
          BY <4>1, NoLabel
      <4> HIDE DEF array
      <4> QED
          BY <4>2, EmptySeq
    <3>2. ASSUME NEW s \in NetStatuses,
                 Status = [s EXCEPT !.remoteData =
                             {Configured(b, wakeup) : b \in s.remoteData}]
          PROVE  array \in Seq(RemotesWith(wakeup))
      <4>1. /\ Status.remoteData = {Configured(b, wakeup) : b \in s.remoteData}
            /\ s.remoteData \in Label(Seq(Remotes))
          BY <3>2 DEF NetStatuses
      <4>2. CASE s.remoteData = {}
        <5>1. array = <<>>
            BY <4>1, <4>2, NoLabel
        <5> HIDE DEF array
        <5> QED
            BY <5>1, EmptySeq
      <4>3. ASSUME NEW b \in s.remoteData
            PROVE  array \in Seq(RemotesWith(wakeup))
        <5>1. s.remoteData = {b} /\ b \in Seq(Remotes)
            BY <4>1, OneLabel DEF Label
        <5>2. Status.remoteData = {Configured(b, wakeup)}
            BY <4>1, <5>1
        <5>3. array = Configured(b, wakeup)
            BY <5>2 DEF OrElse, Present
        <5> QED
            BY <5>1, <5>3, ConfiguredHave
      <4> QED
          BY <4>2, <4>3
    <3> QED
        BY <3>1, <3>2, StatusIs DEF IInv
  <2>3. RemoteLimit \in Nat
      BY LimitsAssumption
  <2>4. /\ i \in DOMAIN kept
        /\ netView.remoteData[i].wakeupConfig =
              StringToEnum(WakeupConfigs, OrElse(kept[i].wakeupConfig, "none"), "NONE")
      BY <2>1 DEF ParseRemoteDataArray, ParseRemoteInfo
  <2>5. kept[i].wakeupConfig = {wakeup}
    <3>1. kept[i] = array[i] /\ i \in DOMAIN array
        BY <2>2, <2>3, <2>4, CappedIs
    <3> HIDE DEF array, kept
    <3>2. array[i] \in RemotesWith(wakeup)
        BY <2>2, <3>1
    <3> QED
        BY <3>1, <3>2 DEF RemotesWith
  <2>6. OrElse(kept[i].wakeupConfig, "none") = wakeup
      BY <2>5 DEF OrElse, Present
  <2> QED
      BY <2>4, <2>6, WordsAgree DEF IInv, Payloads
<1> QED
    BY <1>1, Induction, PTL

=============================================================================
