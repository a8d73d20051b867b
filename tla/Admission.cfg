SPECIFICATION Spec
CONSTANTS
    r1 = r1
    r2 = r2
    r3 = r3
    r4 = r4
    k1 = k1
    k2 = k2
    Request = {r1, r2, r3, r4}
    Key = {k1, k2}
    KeyOf <- Keys
    Window = 1
    Limit = 2
    Minute = 2
    QueueMayFail = TRUE
SYMMETRY Alike
INVARIANTS
    AlmostTwice
    RepeatsCounted
    RefusalsCounted
PROPERTIES
    OncePerWindow
