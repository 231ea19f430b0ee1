SPECIFICATION DeletedPodSpec
INVARIANT TestOutcome
