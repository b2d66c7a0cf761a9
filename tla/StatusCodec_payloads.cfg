SPECIFICATION Spec
CONSTANTS
    UintMax = 3
    Networks <- MCNetworks
    Firmwares <- MCFirmwares
    Validations <- MCValidations
    NetTypes = {1, 3}
    Sessions = {"a", "b"}
    NetTypesLimit = 2
    RemoteLimit = 2
    CodeLimit = 3
    CustomLimit = 2
INVARIANTS QueryAgreesWithEvent FirmwareAgreesWithEvent NoFalseCompletion WakeupRoundTrip
