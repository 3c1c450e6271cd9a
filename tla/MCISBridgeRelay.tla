--------------------------- MODULE MCISBridgeRelay ---------------------------
(* Small well-formed configurations of connectors for module ISBridgeRelay. *)
EXTENDS ISBridgeRelay

CONSTANTS b1, b2, r1, r2, r3, w1, w2, fA, fB, n1, n2

Conn(b, r, w, fn) == [bridge |-> b, reader |-> r, writer |-> w, fname |-> fn]

MCNames == [r \in Reader |-> IF r = r3 THEN n2 ELSE n1]

\* Two readers of one name whose connectors have a bridge each, and a third
\* reader that feeds both a dynamic writer, through a bridge of its own, and a
\* static one, through the second bridge.
MCConnectors == {Conn(b1, r1, w1, fA), Conn(b2, r2, w2, fB), Conn(b2, r3, w2, NoFunction), Conn(b1, r3, w1, NoFunction)}
===============================================================================
