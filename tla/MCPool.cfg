CONSTANTS
    i1 = i1  i2 = i2  i3 = i3  c1 = c1  c2 = c2
    Items <- MCItems
    Ids <- MCIds
    MaxSize = 2
    Eager = FALSE
    POI_INVALID = POI_INVALID
    Free = Free
SPECIFICATION ClientSpec
INVARIANT TypeOK
INVARIANT ItemsPartitioned
INVARIANT InFlightAccounting
INVARIANT CapacityBound
PROPERTY Refinement
