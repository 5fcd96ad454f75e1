\* Three processes, up to four segments under one name, any process may die.
CONSTANTS
    Procs = {p1, p2, p3}
    Segs = {s1, s2, s3, s4}
    NoSeg = NoSeg
    MaxSize = 2
    MayFail = TRUE
SPECIFICATION AreaSpec
SYMMETRY Symmetry
\* the segments are used up
CHECK_DEADLOCK FALSE
INVARIANTS
    SegmentsAreSound
    NamesStayWithCreators
