------------------------------ MODULE MCISBridge ------------------------------
(* Small configurations of connectors for module ISBridge. *)
EXTENDS ISBridge, TLC

CONSTANTS b1, b2, r1, r2, r3, w1, w2, w3, n1, n2, fA, fB

Conn(b, r, w, fn) == [bridge |-> b, reader |-> r, writer |-> w, fname |-> fn]

\* Two readers of one name.
MCNames == [r \in Reader |-> IF r = r3 THEN n2 ELSE n1]

\* Two readers of one name that feed one writer, one of them with a transformation
\* whose symbol is missing; a third one, of dynamic data, in two connectors of its
\* bridge, with a transformation and without one, which takes over the writer.
MCShared == {Conn(b1, r1, w1, fA), Conn(b1, r2, w1, fB),
             Conn(b2, r3, w1, NoFunction), Conn(b2, r3, w3, fA)}

\* Two connectors that mix kinds: a static reader (r3) with a transformation to
\* a dynamic writer (w1), and a dynamic reader (r1) with one to a static writer.
MCMixed == {Conn(b1, r3, w1, fA), Conn(b2, r1, w2, fB)}
===============================================================================
