SPECIFICATION RegistrySpec
CONSTANTS
    f1 = f1
    f2 = f2
    i1 = i1
    i2 = i2
    m1 = m1
    m1old = m1old
    m2 = m2
    Files = {f1, f2}
    Ids = {m1, m1old, m2}
    Idents = {i1, i2}
    PathOf <- MCPathOf
    IdOf <- MCIdOf
    IdentOf <- MCIdentOf
    Actors = {a, b}
    MaxOps = 3
INVARIANTS RegistryIsSaved ProjectorIsAttached RestoredIsHeld StaleIsMarked
SYMMETRY Symmetry
CHECK_DEADLOCK FALSE
