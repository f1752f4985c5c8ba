--------------------------- MODULE MessageQueueProofs ---------------------------
(***************************************************************************)
(* Proofs about MessageQueue, for every set of messages: the invariant     *)
(* IInv is inductive, and every step of the queue is a step of             *)
(* OrderedDelivery or changes nothing there.                               *)
(***************************************************************************)
EXTENDS MessageQueue, SequenceTheorems, TLAPS

\* A call that has a message in its hands finds it at the front.
FrontIsThere ==
    \A m \in Messages : pc[m] \in {"handling", "popping"} => queue # <<>>

\* The message that was being processed at the close is dealt with, or still
\* at the front and the mutex is held.
InHandIsThere ==
    callback # "none" /\ inHand # None =>
        \/ \E i \in 1..Len(dealt) : dealt[i] = inHand
        \/ callback = "waiting" /\ Busy /\ Head(queue) = inHand

IInv == TypeOK /\ FrontIsThere /\ NoneStranded /\ InHandIsThere
--------------------------------------------------------------------------------
\* The invariant holds initially.
LEMMA InitIInv == Init => IInv
  BY QueueAssumption, EmptySeq
     DEF Init, IInv, TypeOK, PCs, FrontIsThere, NoneStranded, InHandIsThere

\* A push by another call changes neither the front nor what is in hand.
LEMMA PushIInv == ASSUME IInv, NEW m \in Messages, Push(m) PROVE IInv'
<1> USE DEF IInv, Goto
<1>1. queue' \in Seq(Messages) /\ queue' # <<>>
  BY AppendProperties, EmptySeq DEF Push, TypeOK
<1>2. pc[m] = "new" /\ pc' = [pc EXCEPT ![m] = IF queue = <<>> THEN "starting" ELSE "returned"]
  BY DEF Push
<1>3. TypeOK'
  BY <1>1, <1>2 DEF Push, TypeOK, PCs
<1>4. FrontIsThere'
  BY <1>1 DEF FrontIsThere
<1>5. NoneStranded'
  <2>1. CASE queue = <<>>
    BY <1>2, <2>1 DEF NoneStranded, TypeOK
  <2>2. CASE queue # <<>>
    BY <1>2, <2>2 DEF NoneStranded, TypeOK
  <2> QED BY <2>1, <2>2
<1>6. InHandIsThere'
  <2>1. UNCHANGED <<processing, dealt, callback, inHand>>
    BY DEF Push
  <2>2. ASSUME Busy PROVE Busy' /\ Head(queue') = Head(queue)
    <3>1. Head(queue') = Head(queue)
      BY <2>2, HeadTailAppend DEF Push, TypeOK, Busy
    <3>2. processing \in Messages /\ processing # m
      BY <1>2, <2>2 DEF Busy, TypeOK
    <3> QED BY <1>1, <1>2, <2>1, <2>2, <3>1, <3>2 DEF Busy, TypeOK
  <2> QED BY <2>1, <2>2 DEF InHandIsThere
<1> QED BY <1>3, <1>4, <1>5, <1>6

\* The steps of a call that processes.
LEMMA ProcessIInv == ASSUME IInv, NEW m \in Messages, Process(m) PROVE IInv'
<1> USE DEF IInv, Goto
<1>1. m # None
  BY QueueAssumption
<1>2. CASE Lock(m) \/ Look(m) \/ Unlock(m)
  <2>1. UNCHANGED <<queue, dealt, open, callback, inHand>>
    BY <1>2 DEF Lock, Look, Unlock
  <2>2. TypeOK'
    <3>1. \A d \in Messages : d # None
      BY QueueAssumption
    <3>2. CASE Lock(m)
      BY <2>1, <3>1, <3>2 DEF Lock, TypeOK, PCs
    <3>3. CASE Look(m)
      BY <2>1, <3>1, <3>3 DEF Look, TypeOK, PCs
    <3>4. CASE Unlock(m)
      BY <2>1, <3>1, <3>4 DEF Unlock, TypeOK, PCs
    <3> QED BY <1>2, <3>2, <3>3, <3>4
  <2>3. FrontIsThere' /\ NoneStranded'
    BY <1>2, <2>1 DEF Lock, Look, Unlock, TypeOK, FrontIsThere, NoneStranded
  <2>4. InHandIsThere'
    BY <1>1, <1>2, <2>1 DEF Lock, Look, Unlock, TypeOK, InHandIsThere, Busy
  <2> QED BY <2>2, <2>3, <2>4
<1>3. CASE Skip(m) \/ Handle(m)
  <2>1. /\ pc[m] = "handling" /\ queue # <<>> /\ processing = m
        /\ dealt' = Append(dealt, Head(queue)) /\ UNCHANGED processing
        /\ \/ queue' = Tail(queue) /\ pc' = [pc EXCEPT ![m] = "looking"]
           \/ queue' = queue /\ pc' = [pc EXCEPT ![m] = "popping"]
        /\ \/ UNCHANGED <<open, callback, inHand>>
           \/ open' = FALSE /\ callback' = "waiting" /\ inHand' = Head(queue)
    BY <1>3 DEF Skip, Handle, Close, TypeOK
  <2>2. /\ Head(queue) \in Messages /\ Tail(queue) \in Seq(Messages)
        /\ dealt' \in Seq(Messages) /\ Len(dealt') = Len(dealt) + 1
        /\ \A i \in 1..Len(dealt) : dealt'[i] = dealt[i]
        /\ dealt'[Len(dealt) + 1] = Head(queue)
        /\ Len(dealt) \in Nat
    BY <2>1, HeadTailProperties, AppendProperties, LenProperties DEF TypeOK
  <2>3. TypeOK'
    BY <1>1, <2>1, <2>2 DEF TypeOK, PCs
  <2>4. FrontIsThere' /\ NoneStranded'
    BY <2>1 DEF TypeOK, FrontIsThere, NoneStranded
  <2>5. \E i \in 1..Len(dealt') : dealt'[i] = Head(queue)
    BY <2>2
  <2>6. ASSUME NEW i \in 1..Len(dealt) PROVE i \in 1..Len(dealt') /\ dealt'[i] = dealt[i]
    BY <2>2
  <2>7. InHandIsThere'
    BY <2>1, <2>5, <2>6 DEF InHandIsThere
  <2> QED BY <2>3, <2>4, <2>7
<1>4. CASE Pop(m)
  <2>1. /\ pc[m] = "popping" /\ queue # <<>> /\ processing = m
        /\ queue' = Tail(queue) /\ pc' = [pc EXCEPT ![m] = "looking"]
        /\ UNCHANGED <<processing, dealt, open, callback, inHand>>
    BY <1>4 DEF Pop, TypeOK
  <2>2. Tail(queue) \in Seq(Messages)
    BY <2>1, HeadTailProperties DEF TypeOK
  <2>3. TypeOK' /\ FrontIsThere' /\ NoneStranded'
    BY <1>1, <2>1, <2>2 DEF TypeOK, PCs, FrontIsThere, NoneStranded
  <2>4. InHandIsThere'
    BY <2>1 DEF InHandIsThere, Busy
  <2> QED BY <2>3, <2>4
<1> QED BY <1>2, <1>3, <1>4 DEF Process

\* The close from outside and the callback.
LEMMA CloseIInv == ASSUME IInv, CloseOutside \/ Callback PROVE IInv'
<1> USE DEF IInv
<1>1. UNCHANGED <<queue, processing, pc, dealt>>
  BY DEF CloseOutside, Callback
<1>2. Busy' = Busy
  BY <1>1 DEF Busy
<1>3. CASE CloseOutside
  <2>1. /\ open' = FALSE /\ callback' = "waiting"
        /\ inHand' = IF Busy THEN Head(queue) ELSE None
    BY <1>3 DEF CloseOutside, Close
  <2>2. Busy => Head(queue) \in Messages
    BY HeadTailProperties DEF Busy, TypeOK
  <2> QED BY <1>1, <1>2, <2>1, <2>2
          DEF TypeOK, FrontIsThere, NoneStranded, InHandIsThere
<1>4. CASE Callback
  BY <1>1, <1>4 DEF Callback, TypeOK, FrontIsThere, NoneStranded, InHandIsThere, Busy
<1> QED BY <1>3, <1>4

\* The invariant is inductive.
LEMMA StepIInv == IInv /\ [Next]_vars => IInv'
<1> SUFFICES ASSUME IInv, [Next]_vars PROVE IInv'
  OBVIOUS
<1>1. CASE UNCHANGED vars
  BY <1>1 DEF vars, IInv, TypeOK, FrontIsThere, NoneStranded, InHandIsThere, Busy
<1> QED BY <1>1, PushIInv, ProcessIInv, CloseIInv DEF Next

\* The invariant holds in every reachable state.
THEOREM Invariance == Spec => []IInv
  BY InitIInv, StepIInv, PTL DEF Spec

\* The types, and the mutex is held by the call that processes.
THEOREM TypeCorrect == Spec => []TypeOK
  BY Invariance, PTL DEF IInv

\* No queued message is without a call that will process it.
THEOREM NothingIsStranded == Spec => []NoneStranded
  BY Invariance, PTL DEF IInv

\* The close callback runs after the message that was being processed.
THEOREM CallbackWaits == Spec => []DisconnectAfterMessage
<1>1. IInv => DisconnectAfterMessage
  BY DEF IInv, InHandIsThere, DisconnectAfterMessage
<1> QED BY <1>1, Invariance, PTL
--------------------------------------------------------------------------------
\* A push is an arrival.
LEMMA PushArrives ==
    ASSUME IInv, NEW m \in Messages, Push(m) PROVE Ordered!Arrive
<1>1. Rest \in Seq(Messages) /\ Rest' = Append(Rest, m)
  <2>1. CASE processing # None /\ pc[processing] = "popping"
    <3>1. queue # <<>> /\ processing \in Messages /\ processing # m
      BY <2>1 DEF IInv, TypeOK, FrontIsThere, Push
    <3>2. processing' = processing /\ pc'[processing] = "popping"
      BY <2>1, <3>1 DEF Push, Goto, IInv, TypeOK
    <3>3. Tail(queue) \in Seq(Messages) /\ Tail(queue') = Append(Tail(queue), m)
      BY <3>1, HeadTailAppend, HeadTailProperties DEF Push, IInv, TypeOK
    <3> QED BY <2>1, <3>2, <3>3 DEF Rest
  <2>2. CASE ~ (processing # None /\ pc[processing] = "popping")
    <3>1. ~ (processing' # None /\ pc'[processing'] = "popping")
      BY <2>2 DEF Push, Goto, IInv, TypeOK
    <3> QED BY <2>2, <3>1 DEF Rest, Push, IInv, TypeOK
  <2> QED BY <2>1, <2>2
<1>2. dealt' = dealt /\ dealt \in Seq(Messages)
  BY DEF Push, IInv, TypeOK
<1>3. dealt \o Append(Rest, m) = Append(dealt \o Rest, m)
  <2>1. <<m>> \in Seq(Messages)
    OBVIOUS
  <2>2. dealt \o Rest \in Seq(Messages)
    BY <1>1, <1>2, ConcatProperties
  <2> QED BY <1>1, <1>2, <2>1, <2>2, AppendIsConcat, ConcatAssociative
<1> QED BY <1>1, <1>2, <1>3 DEF Ordered!Arrive

\* The front of q, moved to the end of d, does not change d and q together.
LEMMA MoveFront ==
    ASSUME NEW S, NEW d \in Seq(S), NEW q \in Seq(S), q # <<>>
    PROVE  /\ Append(d, Head(q)) \o Tail(q) = d \o q
           /\ Len(d) < Len(d \o q)
           /\ (d \o q)[Len(d) + 1] = Head(q)
<1>1. Len(q) \in Nat /\ Len(q) # 0 /\ Len(d) \in Nat
  BY EmptySeq, LenProperties
<1>2. /\ Head(q) \in S /\ Head(q) = q[1]
      /\ Tail(q) \in Seq(S) /\ Len(Tail(q)) = Len(q) - 1
      /\ \A i \in 1..Len(Tail(q)) : Tail(q)[i] = q[i + 1]
  BY HeadTailProperties
<1>3. <<Head(q)>> \in Seq(S) /\ Len(<<Head(q)>>) = 1 /\ <<Head(q)>>[1] = Head(q)
  BY <1>2
<1>4. <<Head(q)>> \o Tail(q) = q
  <2>1. <<Head(q)>> \o Tail(q) \in Seq(S) /\ Len(<<Head(q)>> \o Tail(q)) = Len(q)
    BY <1>1, <1>2, <1>3, ConcatProperties
  <2>2. \A i \in 1..Len(q) : (<<Head(q)>> \o Tail(q))[i] = q[i]
    BY <1>1, <1>2, <1>3, ConcatProperties
  <2> QED BY <2>1, <2>2, SeqEqual
<1>5. Append(d, Head(q)) \o Tail(q) = d \o q
  BY <1>2, <1>3, <1>4, AppendIsConcat, ConcatAssociative
<1>6. Len(d) < Len(d \o q) /\ (d \o q)[Len(d) + 1] = Head(q)
  <2>1. Len(d \o q) = Len(d) + Len(q)
    BY ConcatProperties
  <2>2. Len(d) + 1 \in 1..(Len(d) + Len(q)) /\ ~ (Len(d) + 1 <= Len(d)) /\ Len(d) + 1 - Len(d) = 1
    BY <1>1
  <2>3. (d \o q)[Len(d) + 1] = q[1]
    BY <2>2, ConcatProperties
  <2> QED BY <1>1, <1>2, <2>1, <2>3
<1> QED BY <1>5, <1>6

\* To skip or to handle the front is to deal with it.
LEMMA HandleDeals ==
    ASSUME IInv, NEW m \in Messages, Skip(m) \/ Handle(m) PROVE Ordered!Deal
<1>1. /\ processing = m /\ m # None /\ pc[m] = "handling" /\ queue # <<>>
      /\ queue \in Seq(Messages) /\ dealt \in Seq(Messages)
  BY QueueAssumption DEF IInv, TypeOK, Skip, Handle
<1>2. Rest = queue
  BY <1>1 DEF Rest
<1>3. dealt' = Append(dealt, Head(queue)) /\ Rest' = Tail(queue)
  BY <1>1 DEF Skip, Handle, Goto, Rest, IInv, TypeOK
<1> QED BY <1>1, <1>2, <1>3, MoveFront DEF Ordered!Deal

\* Nothing else is noticed.
LEMMA OthersStutter ==
    ASSUME IInv, NEW m \in Messages,
           Lock(m) \/ Look(m) \/ Pop(m) \/ Unlock(m)
    PROVE  UNCHANGED Ordered!vars
<1>1. m # None /\ dealt' = dealt
  BY QueueAssumption DEF Lock, Look, Pop, Unlock
<1>2. Rest' = Rest
  <2>1. CASE Pop(m)
    BY <1>1, <2>1 DEF Pop, Goto, Rest, IInv, TypeOK
  <2>2. CASE Lock(m) \/ Look(m) \/ Unlock(m)
    BY <1>1, <2>2 DEF Lock, Look, Unlock, Goto, Rest, IInv, TypeOK
  <2> QED BY <2>1, <2>2
<1> QED BY <1>1, <1>2 DEF Ordered!vars

\* The queue of a connection processes every message at most once and in the
\* order of the pushes, whatever calls, closes and callbacks interleave.
THEOREM ImplementsOrder == Spec => Ordered!SafeSpec
<1>1. Init => Ordered!Init
  BY ConcatEmptySeq, EmptySeq DEF Init, Ordered!Init, Rest
<1>2. IInv /\ [Next]_vars => [Ordered!Next]_(Ordered!vars)
  <2> SUFFICES ASSUME IInv, [Next]_vars PROVE Ordered!Next \/ UNCHANGED Ordered!vars
    OBVIOUS
  <2>1. CASE CloseOutside \/ Callback \/ UNCHANGED vars
    BY <2>1 DEF CloseOutside, Callback, vars, Ordered!vars, Rest
  <2> QED BY <2>1, PushArrives, HandleDeals, OthersStutter
          DEF Next, Process, Ordered!Next
<1> QED BY <1>1, <1>2, Invariance, PTL DEF Spec, Ordered!SafeSpec
================================================================================
