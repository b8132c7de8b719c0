\* Two streams and a multipart form upload the same file, which is downloaded
\* meanwhile; the other download asks for a file that does not exist.
CONSTANTS
    s1 = s1  s2 = s2  m1 = m1  d1 = d1  d2 = d2  n1 = n1  n2 = n2
    Names = {n1, n2}
    Streams = {s1, s2}
    Multiparts = {m1}
    Downloads = {d1, d2}
    NameOf <- MCNameOf
    SizeOf <- OnePiece
    PieceMax = 1
    Old = Old
    OldSize = 2
    Missing = {n2}
    NoFile = NoFile
SPECIFICATION FairSpec
INVARIANTS TypeOK BlocksInPlace StreamIsStored DownloadInOrder
PROPERTIES DownloadEnds
CHECK_DEADLOCK FALSE
