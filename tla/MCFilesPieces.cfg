\* The multipart body is larger than the receive buffer and comes in pieces.
CONSTANTS
    s1 = s1  s2 = s2  m1 = m1  d1 = d1  d2 = d2  n1 = n1  n2 = n2
    Names = {n1, n2}
    Streams = {s1, s2}
    Multiparts = {m1}
    Downloads = {d1, d2}
    NameOf <- MCNameOf
    SizeOf <- TwoPieces
    PieceMax = 1
    Old = Old
    OldSize = 2
    Missing = {n2}
    NoFile = NoFile
SPECIFICATION Spec
INVARIANTS BlocksInPlace
CHECK_DEADLOCK FALSE
