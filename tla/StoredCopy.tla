------------------------------- MODULE StoredCopy -------------------------------
(***************************************************************************)
(* What storing a document promises, whoever stores it and however many    *)
(* stores are under way: the stored copy contains nothing but edits of the *)
(* document and never loses one, and a refusal touches neither of them.    *)
(* StorePipeline is shown to implement it.                                 *)
(***************************************************************************)
CONSTANT Edits

VARIABLES applied, \* the edits the document contains
          stored,  \* the edits the stored copy contains
          erred    \* the edits in a store that was refused

vars == <<applied, stored, erred>>

Init == applied = {} /\ stored = {} /\ erred = {}

Apply == \E e \in Edits \ applied :
    /\ applied' = applied \cup {e}
    /\ UNCHANGED <<stored, erred>>

\* A store replaces the copy by one that lacks nothing of it.
Write == \E s \in SUBSET applied :
    /\ stored \subseteq s
    /\ stored' = s
    /\ UNCHANGED <<applied, erred>>

Refuse == \E s \in SUBSET applied :
    /\ erred' = erred \cup s
    /\ UNCHANGED <<applied, stored>>

Next == Apply \/ Write \/ Refuse

Spec == Init /\ [][Next]_vars
================================================================================
