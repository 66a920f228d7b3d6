------------------------------- MODULE MCStore -------------------------------
\* Two processes over one directory; the first runs two goroutines.  Version 1
\* of k1 takes the store past its bound beside k2, and that of k2 is above the
\* ceiling.
EXTENDS Store, TLC

CONSTANTS p1, p2, t1, t2, t3, k1, k2, r1

MCProcOf == (t1 :> p1) @@ (t2 :> p1) @@ (t3 :> p2)
MCRepoOf == [k \in {k1, k2} |-> r1]
MCSize   == (k1 :> [v \in 0..1 |-> 1 + v]) @@ (k2 :> [v \in 0..1 |-> 1 + 2 * v])
MCLeft   == (k1 :> [ver |-> 0, at |-> 0]) @@ (k2 :> Junk)
===============================================================================
