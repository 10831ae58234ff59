\* One page with two requests under way, over three items: rows outside a
\* saved pair, with positions a reorder has given away.
SPECIFICATION Spec
CONSTANTS
    Item = {1, 2, 3}
    Editor = {e1}
    Imported = {2}
    MaxPosition = 4
    MaxCalls = 2
    NULL = NULL
CONSTRAINTS Beside Short
INVARIANTS
    TypeOK
    OrderKept
CHECK_DEADLOCK FALSE
