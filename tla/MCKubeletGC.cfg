CONSTANTS
    p1 = p1
    n1 = n1
    Pods = {p1}
    Names <- MCNames
    MaxSandboxAttempts = 2
    MaxContainerAttempts = 2
    MaxRestarts = 1
    Policy <- MCPolicy
SPECIFICATION Spec
INVARIANT TypeOK
INVARIANT LiveLogsKept
PROPERTY OrphanSandboxRemoved
PROPERTY DeletedPodLogsRemoved
