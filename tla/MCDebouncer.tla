------------------------------ MODULE MCDebouncer ------------------------------
EXTENDS Debouncer, TLC

CONSTANTS c1, c2, c3, c4

\* No step tells one call from another: they may as well begin in this order.
InTurn ==
    \A p \in {<<c1, c2>>, <<c2, c3>>, <<c3, c4>>} : pc[p[2]] # "idle" => pc[p[1]] # "idle"
================================================================================
