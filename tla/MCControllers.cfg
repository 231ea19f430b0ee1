CONSTANTS
    ns1 = ns1
    ns2 = ns2
    c1 = c1
    c2 = c2
SPECIFICATION Spec
INVARIANT RetriesBounded
INVARIANT InformerShared
PROPERTY NamespaceHandled
