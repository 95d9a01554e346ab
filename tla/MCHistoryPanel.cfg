SPECIFICATION PanelFairSpec
CONSTANTS
    Calls = {c1, c2}
    PageSize = 1
    MaxRows = 4
    MaxChanges = 2
    MaxPager = 10
INVARIANTS
    PanelInv
    PagerIsComplete
PROPERTY
    RefreshEnds
CHECK_DEADLOCK FALSE
