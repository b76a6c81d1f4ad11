CONSTANTS
    name = name
    phone = phone
    v0 = v0
    v1 = v1
    v2 = v2
    r1 = r1
    r2 = r2
    r3 = r3
    Absent = Absent
    Reqs = {r1, r2, r3}
    Fields = {name, phone}
    Values = {v0, v1, v2}
    Blank = v0
    Patches <- MCPatches
    MaxFaults = 2
SPECIFICATION Spec
CHECK_DEADLOCK FALSE
INVARIANTS NoPatchUndone AnswerIsCurrent EventsTellProfile
SYMMETRY Symm
