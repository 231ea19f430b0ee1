CONSTANTS
    k1 = k1
    k2 = k2
    Keys <- MCKeys
SPECIFICATION Spec
PROPERTY HandlerRateLimited
