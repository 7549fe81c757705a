CONSTANTS
    i1 = i1  i2 = i2  i3 = i3  c1 = c1  c2 = c2
    Items <- MCItems
    Ids <- MCIds
    MaxSize = 2
    POI_INVALID = POI_INVALID
    Free = Free
    Eager = FALSE
SPECIFICATION ClientSpec
INVARIANT TagsMatchHolders
