SPECIFICATION Spec
CONSTANTS
    Vals = {a, b}
    Readers = {r1}
    MaxSeq = 4
    Target = 2
    MaxSegment = 2
    MaxSegments = 3
SYMMETRY Symmetry
INVARIANT
    AckedDurable
