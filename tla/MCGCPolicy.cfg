SPECIFICATION Spec
INVARIANT CapsRespected
INVARIANT FairRetention
INVARIANT NewestRetained
INVARIANT GCTestsPass
