--------------------------- MODULE MCHttpFileHandle ---------------------------
EXTENDS HttpFileHandle, TLC

CONSTANTS s1, s2, m1, d1, d2, n1, n2

MCNameOf == (s1 :> n1) @@ (s2 :> n1) @@ (m1 :> n1) @@ (d1 :> n1) @@ (d2 :> n2)

\* The multipart body fits in one piece, or has to be cut.
OnePiece == (s1 :> 2) @@ (s2 :> 1) @@ (m1 :> 1)
TwoPieces == (s1 :> 2) @@ (s2 :> 1) @@ (m1 :> 2)
=============================================================================
