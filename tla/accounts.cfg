SPECIFICATION FoundedSpec
CONSTANTS
    t1 = t1  u1 = u1  s1 = s1  ann = ann  lower = lower
    Tenant = {t1, t2}
    User = {u1, u2, u3}
    Scale = {s1}
    Token = {k1}
    Address = {ann, bob}
    Spelling = {lower, upper}
    NULL = NULL
    Slot = {r1, r2}
    Op = {"register", "accept", "login", "invite", "add", "remove",
          "createScale", "deleteScale", "expire"}
    FkModes = {TRUE, FALSE}
SYMMETRY Requests
INVARIANTS
    TypeOK
    CollaboratorsInTenant
    NoUninvitedMembers

    
