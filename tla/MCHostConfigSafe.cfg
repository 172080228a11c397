\* Three overlapping saves, a hand edit, and the UI killed at any point.
SPECIFICATION ConfigSpec
CONSTANTS
    s1 = s1
    s2 = s2
    s3 = s3
    p = p
    q = q
    Blank = Blank
    MaxEdits = 1
    Saves = {s1, s2, s3}
    Passwords = {p, q}
SYMMETRY Symmetry
INVARIANTS
    ConfigSound
