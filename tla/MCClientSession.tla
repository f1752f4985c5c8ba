---------------------------- MODULE MCClientSession ----------------------------
EXTENDS ClientSession, TLC

CONSTANTS k1, k2, c1, c2

\* A document with and without a session id, and another one.
MCPlain == [k \in {k1, k2} |-> k1]

\* No step tells one connection from another: they may as well be made in
\* this order.
InTurn == keyOf[c2] # None => keyOf[c1] # None
================================================================================
