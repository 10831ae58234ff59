\* Two tabs, a respondent who sends again, two re-wraps and lost replies; ids run out.
SPECIFICATION Spec
CONSTANTS
    Scale = {s1}
    Key = {k1, k2, k3}
    BadKey = {k3}
    Id = {i1}
    Dek = {d1, d2}
    Tab = {t1, t2}
    Form = {f1}
    Rewrap = {w1, w2}
    NULL = NULL
SYMMETRY Symmetry
CONSTRAINT Load
INVARIANTS
    TypeOK
    EnvelopesKept
    AnnouncedIsUsable
CHECK_DEADLOCK FALSE
