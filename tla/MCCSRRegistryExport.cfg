CONSTANTS
    u1 = u1
    u2 = u2
    r1 = r1
    r2 = r2
    NoUser = NoUser
    Users <- MCUsers
    Requests <- MCRequests
    Conditions <- MCConditions
    MaxWrites = 2
SPECIFICATION Spec

PROPERTY ExactExportKeepsStatus
