--------------------------- MODULE MCSocketStream ---------------------------
EXTENDS SocketStream

CONSTANTS p1, p2, p3, p4

\* p2 is a header alone; p3 does not fit next to anything.
Sizes == (p1 :> 3) @@ (p2 :> 2) @@ (p3 :> 4) @@ (p4 :> 2)

Sorting == (p1 :> "single") @@ (p2 :> "multi") @@ (p3 :> "single") @@ (p4 :> "multi")
=============================================================================
