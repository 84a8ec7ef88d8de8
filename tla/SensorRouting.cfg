\* Two frameworks one after the other, sub-HALs that fail and refuse.
CONSTANTS
    HalsConf <- SomeConfs
    DynamicSensors <- TwoDynamic
    MaxInits = 2
    MaxCalls = 3
    MaxPlugs = 2
CHECK_DEADLOCK FALSE
SPECIFICATION Spec
INVARIANTS
    TypeOK
    SensorsMatchRequests
    CallsReachOwner
    ModesAgree
    DynamicView
    
