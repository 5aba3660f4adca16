\* Every shape up to 3 by 3, single entries between the extremes, masks in
\* quarters.
SPECIFICATION Spec
CONSTANTS
    Heights = {1, 2, 3}
    Widths = {1, 2, 3}
    Frames = {1, 2}
    Values = {0, 1, 127, 254, 255}
    Side = 4
    Depth = 4
    NaN = NaN
INVARIANTS
    SizeKept
    ColourServed
    Whitened
CHECK_DEADLOCK FALSE
