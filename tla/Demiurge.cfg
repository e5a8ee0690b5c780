SPECIFICATION Spec
CONSTANTS
    Session = {s1}
    NoSession = NoSession
    Request = {r1, r2}
    TTL = 1
INVARIANT PrivateStaysLocal
PROPERTY GatedComesHome
PROPERTY CalmBringsHome
