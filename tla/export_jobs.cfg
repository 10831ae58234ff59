SPECIFICATION Spec
CONSTANTS
    Tenant = {acme, bolt}
    Scale = {s1, s2, s3}
    Ip = {home}
    Slot = {r1, r2}
    NULL = NULL
    Owner <- Owners
    TTL = 6
    Reuse = 5
    Interval = 4
    Patience = 1
    MaxTime = 8
SYMMETRY Symmetry
INVARIANTS
    TypeOK
    JobsBounded
    OneJobPerRequester
    LinkWorks
    LinkLasts
