SPECIFICATION Spec
CONSTANTS
    i1 = i1
    i2 = i2
    i3 = i3
    i4 = i4
    Inode = {i1, i2, i3, i4}
    Gone = Gone
    MaxContent = 3
INVARIANTS
    AckedSurvives
