\* The same images.
SPECIFICATION Spec
CONSTANTS
    Heights = {1, 2, 3}
    Widths = {1, 2, 3}
    Frames = {1, 2}
    Values = {0, 1, 127, 254, 255}
    Side = 4
    Depth = 4
    NaN = NaN
INVARIANTS
    GrayIsServed
CHECK_DEADLOCK FALSE
