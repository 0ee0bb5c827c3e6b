SPECIFICATION Spec
CONSTANTS
    Human = {m1, m2}
    Issuer = {k1}
    Capability = {cap}
    Content = {x, y}
    PolicyOf <- MCPolicyOf
    Change = {c1, c2, c3}
    Handler = {h1, h2}
    None = None
    MaxDeploys = 1
    MaxEnvelopes = 1
CONSTRAINT Scope
SYMMETRY Symmetry
CHECK_DEADLOCK FALSE
INVARIANTS
    ApprovedByAnother
    OneActive
    RevokedKeyRefused
    ReleaseToLiveEndpoint
