SPECIFICATION Spec
CONSTANTS
    Item = {i1, i2, i3, i4, i5}
    List = {ready, wait}
    NULL = NULL
INVARIANT RingsClosed
PROPERTY ImplementsLists
