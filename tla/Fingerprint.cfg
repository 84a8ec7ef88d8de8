\* Two clients, a restart, modules that fail in every way.
CONSTANTS
    Clients = {"c1", "c2"}
    DeviceResults <- SomeResults
    DeviceCodes <- SomeCodes
    MaxStarts = 3
CHECK_DEADLOCK FALSE
SPECIFICATION Spec
INVARIANTS
    TypeOK
    TokenOfSender
    PropertyNamesDevice
    OneDeviceTalks
    CodesSurvive
