CONSTANTS
    QuotaPods = 2
    InitReplicas = 3
    ScaledReplicas = 2
SPECIFICATION Spec
PROPERTY ClearSeenForScaledSpec
PROPERTY TestPasses
