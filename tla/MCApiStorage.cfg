CONSTANTS
    c1 = c1
    c2 = c2
    ns1 = ns1
    ns2 = ns2
    n1 = n1
    u1 = u1
    v1 = v1
    v2 = v2
    a1 = a1
    a2 = a2
    r1 = r1
    r2 = r2
    NoUser = NoUser
    q1 = q1
    q2 = q2
    s1 = s1
    s2 = s2
    k1 = k1
    k2 = k2
    Clients <- MCClients
    Namespaces <- MCNamespaces
    Names <- MCNames
    Users <- MCUsers
    Values <- MCValues
    MaxRev = 3
    MaxUUIDs = 1
SPECIFICATION ApiSpec
CHECK_DEADLOCK FALSE
INVARIANT CSRIdentityBound
INVARIANT SignaturesUnique
INVARIANT NoLostSignature
 
PROPERTY ObjectsIsolated
PROPERTY CSRSpecImmutable
PROPERTY CSRSubresourceSeparation
