------------------------------ MODULE MessageQueue ------------------------------
(***************************************************************************)
(* The message queue of a Connection (connection.rs): handle_message       *)
(* pushes, and the caller that finds the queue empty processes messages    *)
(* until it is empty again.  A message stays at the front while it is      *)
(* processed.  Meanwhile the connection may be closed, by a message or     *)
(* from outside; the close callback waits for the processing mutex.        *)
(*                                                                         *)
(* A call of handle_message is named by the message it brings.             *)
(***************************************************************************)
EXTENDS Naturals, Sequences

CONSTANTS Messages,
          Foreign,   \* messages that cannot be decoded or name another document
          None

ASSUME QueueAssumption == Foreign \subseteq Messages /\ None \notin Messages

VARIABLES
    queue,      \* message_queue
    processing, \* the processing mutex: the call that holds it
    pc,         \* where each call is
    dealt,      \* the messages processed so far
    open,       \* the document has the connection
    callback,   \* the spawned close callback
    inHand      \* the message that was being processed at the close

vars == <<queue, processing, pc, dealt, open, callback, inHand>>

Init ==
    /\ queue = <<>>
    /\ processing = None
    /\ pc = [m \in Messages |-> "new"]
    /\ dealt = <<>>
    /\ open = TRUE
    /\ callback = "none"
    /\ inHand = None

Goto(m, s) == pc' = [pc EXCEPT ![m] = s]
--------------------------------------------------------------------------------
(* A definition introduced by "Variant" is never part of Next: it is a     *)
(* plausible mistake in the definition after it.                           *)

\* Variant: a call also leaves the work to the others when they just finished.
PushBehind(m) ==
    /\ pc[m] = "new"
    /\ queue' = Append(queue, m)
    /\ Goto(m, IF queue = <<>> /\ processing = None THEN "starting" ELSE "returned")
    /\ UNCHANGED <<processing, dealt, open, callback, inHand>>

\* push_back and, under the same lock, len() == 1
Push(m) ==
    /\ pc[m] = "new"
    /\ queue' = Append(queue, m)
    /\ Goto(m, IF queue = <<>> THEN "starting" ELSE "returned")
    /\ UNCHANGED <<processing, dealt, open, callback, inHand>>

\* Variant: no processing mutex.
LockFreely(m) ==
    /\ pc[m] = "starting"
    /\ processing' = m
    /\ Goto(m, "looking")
    /\ UNCHANGED <<queue, dealt, open, callback, inHand>>

Lock(m) ==
    /\ pc[m] = "starting" /\ processing = None
    /\ processing' = m
    /\ Goto(m, "looking")
    /\ UNCHANGED <<queue, dealt, open, callback, inHand>>

\* front(): with nothing there the loop ends, still holding the mutex.
Look(m) ==
    /\ pc[m] = "looking"
    /\ Goto(m, IF queue = <<>> THEN "unlocking" ELSE "handling")
    /\ UNCHANGED <<queue, processing, dealt, open, callback, inHand>>

\* Connection::close: nothing happens unless the document has the connection.
Close(current) ==
    IF open
      THEN open' = FALSE /\ callback' = "waiting" /\ inHand' = current
      ELSE UNCHANGED <<open, callback, inHand>>

\* Not for this document: dropped.
Skip(m) ==
    /\ pc[m] = "handling" /\ queue # <<>> /\ Head(queue) \in Foreign
    /\ dealt' = Append(dealt, Head(queue))
    /\ queue' = Tail(queue)
    /\ Goto(m, "looking")
    /\ UNCHANGED <<processing, open, callback, inHand>>

\* Applied, also after the connection was closed; a rejection by a hook, an
\* error and a close message close the connection.
Handle(m) ==
    /\ pc[m] = "handling" /\ queue # <<>> /\ Head(queue) \notin Foreign
    /\ dealt' = Append(dealt, Head(queue))
    /\ \/ UNCHANGED <<open, callback, inHand>>
       \/ Close(Head(queue))
    /\ Goto(m, "popping")
    /\ UNCHANGED <<queue, processing>>

Pop(m) ==
    /\ pc[m] = "popping" /\ queue # <<>>
    /\ queue' = Tail(queue)
    /\ Goto(m, "looking")
    /\ UNCHANGED <<processing, dealt, open, callback, inHand>>

\* The guard is dropped.
Unlock(m) ==
    /\ pc[m] = "unlocking"
    /\ processing' = None
    /\ Goto(m, "returned")
    /\ UNCHANGED <<queue, dealt, open, callback, inHand>>

Busy == processing # None /\ queue # <<>> /\ pc[processing] = "handling"

\* The timeout or the end of the socket closes the connection, maybe while a
\* message is processed.
CloseOutside ==
    /\ open
    /\ Close(IF Busy THEN Head(queue) ELSE None)
    /\ UNCHANGED <<queue, processing, pc, dealt>>

\* Variant: the callback does not wait.
CallbackAtOnce ==
    /\ callback = "waiting"
    /\ callback' = "ran"
    /\ UNCHANGED <<queue, processing, pc, dealt, open, inHand>>

\* wait_for_pending_messages
Callback ==
    /\ callback = "waiting" /\ processing = None
    /\ callback' = "ran"
    /\ UNCHANGED <<queue, processing, pc, dealt, open, inHand>>
--------------------------------------------------------------------------------
Process(m) == Lock(m) \/ Look(m) \/ Skip(m) \/ Handle(m) \/ Pop(m) \/ Unlock(m)

Next ==
    \/ \E m \in Messages : Push(m) \/ Process(m)
    \/ CloseOutside
    \/ Callback

\* A call that processes is polled until it returns, and so is the callback;
\* tokio's mutex is fair.
Fairness ==
    /\ \A m \in Messages : SF_vars(Lock(m)) /\ WF_vars(Process(m))
    /\ SF_vars(Callback)

Spec == Init /\ [][Next]_vars /\ Fairness
--------------------------------------------------------------------------------
PCs == {"new", "starting", "looking", "handling", "popping", "unlocking", "returned"}

\* The types; and the call that processes is the one that holds the mutex.
TypeOK ==
    /\ queue \in Seq(Messages)
    /\ processing \in Messages \cup {None}
    /\ pc \in [Messages -> PCs]
    /\ dealt \in Seq(Messages)
    /\ open \in BOOLEAN
    /\ callback \in {"none", "waiting", "ran"}
    /\ inHand \in Messages \cup {None}
    /\ \A m \in Messages : processing = m <=>
            pc[m] \in {"looking", "handling", "popping", "unlocking"}

\* No message is stranded: as long as one is queued, some call is about to
\* process it, although a call decides by the length of the queue alone
\* whether to leave its message to another one (connection.rs:319-327).
NoneStranded ==
    queue # <<>> =>
        \E m \in Messages : pc[m] \in {"starting", "looking", "handling", "popping"}

\* The callback of the close runs on_disconnect only after the message that
\* was being processed at the close is dealt with (connection.rs:461-463).
DisconnectAfterMessage ==
    callback = "ran" /\ inHand # None => \E i \in 1..Len(dealt) : dealt[i] = inHand

\* What is queued and not dealt with.
Rest == IF processing # None /\ pc[processing] = "popping" THEN Tail(queue) ELSE queue

Ordered == INSTANCE OrderedDelivery WITH
    Items <- Messages, arrived <- dealt \o Rest, dealt <- dealt

\* Every message is processed exactly once and in the order of the pushes,
\* and as long as there are messages they are processed.
DeliversInOrder == Ordered!Spec
================================================================================
