---------------------------- MODULE MCStorePipeline ----------------------------
EXTENDS StorePipeline, TLC

\* Edits, clients and direct connections are interchangeable.
Symmetry == Permutations(Edits) \cup Permutations(Clients) \cup Permutations(Directs)

\* A state constraint for EveryEditStored and FlushedIsStored: once every edit
\* is stored or in a rejected store, both hold for good, because neither set
\* ever loses an edit (StoresInOrder); nothing after such a state can violate
\* them.
SomeEditUnstored == ~ Edits \subseteq stored \cup erred

\* A bound: of the client, the direct connection and the flush two take part.
TwoAtMost ==
    Cardinality({u \in Users : user[u] # "out"} \cup {f \in Flushes : flush[f] # "out"}) <= 2
================================================================================
