CONSTANTS
    Req = {r1}
    Copy = {"a", "b"}
    Skew <- MCSkew
    Minute = 1
    Name = {"uid", "src", "ref"}
    Decl <- MCDecl
    Profiles <- MCProfiles
    List = {"clients", "revoked", "referred"}
    Static <- MCStatic
    Shapes <- MCShapes
    Made = {"made"}
    Width <- MCWidth
    Digits = 2
    MarkerMax = 3
    MaxTime = 3
    MaxSent = 2
SPECIFICATION Spec
INVARIANT FaultIsTold
CHECK_DEADLOCK FALSE
