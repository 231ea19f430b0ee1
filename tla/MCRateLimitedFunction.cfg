CONSTANTS
    k1 = k1
    k2 = k2
    Keys <- MCKeys
SPECIFICATION Spec
INVARIANT TypeOK
INVARIANT BurstBound
INVARIANT AtMostOneRunAfterStop
PROPERTY InvokeServed
PROPERTY TriggerRefined
PROPERTY StopLeavesOnlyIdlePop
