CONSTANTS
    u1 = u1
    u2 = u2
    u3 = u3
    small = small
    large = large
    other = other
    huge = huge
    Urls = {u1, u2, u3}
    Contents = {small, large, other, huge}
    None = None
    Size <- MCSize
    MaxBytes = 2
    MaxCache = 3
    MaxHeld = 3
    MaxChanges = 2
SPECIFICATION Spec
INVARIANTS
    HeldIsKept
