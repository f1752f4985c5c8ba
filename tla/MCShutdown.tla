------------------------------- MODULE MCShutdown -------------------------------
EXTENDS Shutdown, TLC

CONSTANTS edited, untouched,
          Most,      \* bound: tasks under way at once
          MostStores \* bound: and those of them that store

Busy == {t \in Tasks : pc[t] \notin {"idle", "ended"}}
Few ==
    /\ Cardinality(Busy) <= Most
    /\ Cardinality({t \in Busy : pc[t] \in Storing}) <= MostStores

\* A bound: one document is edited and left, the other is only opened, and
\* loads.
OneEdited ==
    /\ \A kind \in {"update", "close"} : pc[<<kind, untouched>>] = "idle"
    /\ pc[<<"open", untouched>>] # "abandoning"

\* The queue of a lock, with the readers that follow one another in one set:
\* no two of them conflict, so that nothing depends on their order.
Unordered(q) ==
    LET Readers(i) ==
          {j \in DOMAIN q : \A k \in (i..j) \cup (j..i) : q[k].mode = "read"}
    IN [i \in DOMAIN q |-> IF q[i].mode = "read" THEN {q[j].task : j \in Readers(i)}
                                                 ELSE {q[i]}]

\* What tells two states apart.  The lock objects of the debouncer are told
\* apart by their queues only: each holds the tasks that refer to it.
View == <<[l \in Locks \ Executions |-> Unordered(queue[l])],
          {queue[o] : o \in Executions},
          [d \in Documents |-> IF running[d] = "none" THEN <<>> ELSE queue[running[d]]],
          pc, docVars, armed, endVars>>
================================================================================
