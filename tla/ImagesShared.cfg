CONSTANTS
    a1 = a1
    a2 = a2
    u1 = u1
    u2 = u2
    Article = {a1, a2}
    Url = {u1, u2}
    Image = {i1, i2}
    Origin = Origin
    Root = Root
    Pixel = Pixel
    Missing = Missing
    Nobody = Nobody
    Uses <- MCUses
    MaxActs = 3
    MaxFaults = 1
SYMMETRY Contents
SPECIFICATION Spec
INVARIANT TypeOK
INVARIANT ShownImageIsStored
INVARIANT AskedOnce
CHECK_DEADLOCK FALSE
