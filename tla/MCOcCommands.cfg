CONSTANTS
    MaxInterrupts = 2
    o1 = o1
    o2 = o2
    o3 = o3
SPECIFICATION Spec
CHECK_DEADLOCK FALSE
INVARIANT PortForwardCleanExit
INVARIANT SubjectReviewExit
INVARIANT SubjectReviewHeader
INVARIANT ImportedOrReported
INVARIANT ExposeSwitchesAgree
INVARIANT DiscoveryComplete
PROPERTY PortForwardInterruptEnds
PROPERTY ImportEventuallySucceeds
PROPERTY DiscoveryEventuallySucceeds
