---------------------------- MODULE OrderedDelivery ----------------------------
(***************************************************************************)
(* What a queue between many producers and one consumer promises: every    *)
(* item is dealt with exactly once, in the order of arrival.  MessageQueue *)
(* (connection.rs) and WsWriter (server.rs) are shown to implement it.     *)
(***************************************************************************)
EXTENDS Naturals, Sequences

CONSTANT Items

VARIABLES arrived, \* the items in their order of arrival
          dealt    \* the items that were dealt with, in that order

vars == <<arrived, dealt>>

Init == arrived = <<>> /\ dealt = <<>>

Arrive == \E i \in Items :
    /\ arrived' = Append(arrived, i)
    /\ UNCHANGED dealt

Deal ==
    /\ Len(dealt) < Len(arrived)
    /\ dealt' = Append(dealt, arrived[Len(dealt) + 1])
    /\ UNCHANGED arrived

Next == Arrive \/ Deal

\* The order alone, for a consumer that may stop ...
SafeSpec == Init /\ [][Next]_vars

\* ... and for one that goes on as long as there is something to do.
Spec == SafeSpec /\ WF_vars(Deal)
================================================================================
