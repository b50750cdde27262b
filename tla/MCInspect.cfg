CONSTANTS
    Req = {r1}
    Copy = {"a", "b"}
    Skew <- MCSkew
    Minute = 1
    Name = {"uid", "src", "ref"}
    Decl <- MCDecl
    Profiles <- MCProfiles
    List = {"clients", "revoked", "referred"}
    Static <- MCStatic
    Shapes <- MCShapes
    Made = {"made"}
    Width <- MCWidth
    Digits = 2
    MarkerMax = 3
    MaxTime = 3
    MaxSent = 2
SPECIFICATION Spec
INVARIANTS TypeOK IssuedReadsBack ForgedIsRefused DropWins MarkersFilled ForgedNeverListed
CHECK_DEADLOCK FALSE
