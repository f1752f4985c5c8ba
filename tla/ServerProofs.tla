------------------------------ MODULE ServerProofs ------------------------------
(***************************************************************************)
(* Proofs about the two modules of server.rs.                              *)
(*                                                                         *)
(* WsWriter, for every set of frames and of closes: the invariant IInv is  *)
(* inductive, and every step of the sink and of the writer task is a step  *)
(* of OrderedDelivery or changes nothing there.                            *)
(*                                                                         *)
(* Shutdown, for every set of documents, of lock objects of the debouncer, *)
(* and number of polls: the invariant ShutdownInv is inductive. It says    *)
(* which locks a task holds and which it awaits by its label (Order), from *)
(* which it follows that nobody waits in a circle.                         *)
(***************************************************************************)
EXTENDS WsWriter, Shutdown, SequenceTheorems, WellFoundedInduction, TLAPS

\* Once the close frame is written the writer only ends.
EndsAfterClose ==
    (\E i \in 1..Len(fed) : fed[i] \in Closes) => writer \in {"stopping", "stopped", "gone"}

IInv == TypeOK /\ CloseIsLast /\ EndsAfterClose

\* The invariant holds initially.
LEMMA InitIInv == Init => IInv
<1> SUFFICES ASSUME Init PROVE IInv
  OBVIOUS
<1>1. fed = <<>> /\ Len(fed) = 0 /\ <<>> \in Seq(Commands)
  BY EmptySeq DEF Init
<1>2. TypeOK
  BY <1>1, WriterAssumption DEF Init, TypeOK
<1>3. CloseIsLast /\ EndsAfterClose
  BY <1>1 DEF CloseIsLast, EndsAfterClose
<1> QED BY <1>2, <1>3 DEF IInv

\* The calls do not touch what is written.
LEMMA CallIInv == ASSUME IInv, NEW c \in Commands, Call(c) PROVE IInv'
<1>1. UNCHANGED <<reading, writer, cmd, fed, flushed>>
  BY DEF Call, SendCheck, CloseMark, Push, Withdraw
<1>2. TypeOK'
  <2>1. channel' \in Seq(Commands)
    <3>1. channel' = channel \/ channel' = Append(channel, c)
      BY DEF Call, SendCheck, CloseMark, Push, Withdraw
    <3>2. channel \in Seq(Commands)
      BY DEF IInv, TypeOK
    <3> QED BY <3>1, <3>2, AppendProperties
  <2>2. \E s \in {"unmade", "pushing", "ignored", "accepted", "failed"} : call' = [call EXCEPT ![c] = s]
    BY DEF Call, SendCheck, CloseMark, Push, Withdraw, Goto
  <2>3. call' \in [Commands -> {"new", "unmade", "pushing", "ignored", "accepted", "failed"}]
    BY <2>2 DEF IInv, TypeOK
  <2>4. state' \in {state, "closing"}
    BY DEF Call, SendCheck, CloseMark, Push, Withdraw
  <2> QED BY <1>1, <2>1, <2>3, <2>4 DEF IInv, TypeOK
<1> QED BY <1>1, <1>2 DEF IInv, CloseIsLast, EndsAfterClose

\* What happens when the command in hand is written.
LEMMA Fed ==
    ASSUME IInv, writer = "have", fed' = Append(fed, cmd)
    PROVE  /\ cmd \in Commands /\ Len(fed) \in Nat
           /\ fed' \in Seq(Commands) /\ Len(fed') = Len(fed) + 1
           /\ fed'[Len(fed) + 1] = cmd
           /\ \A i \in 1..Len(fed) : fed'[i] = fed[i] /\ fed[i] \notin Closes
<1>1. cmd \in Commands /\ fed \in Seq(Commands)
  BY DEF IInv, TypeOK
<1> QED BY <1>1, AppendProperties, LenProperties DEF IInv, EndsAfterClose

\* The steps of the writer task.
LEMMA WriteIInv == ASSUME IInv, Write PROVE IInv'
<1> USE DEF IInv
<1>1. CASE Receive \/ TryReceive
  <2>1. UNCHANGED <<state, reading, call, fed, flushed>>
    BY <1>1 DEF Receive, TryReceive
  <2>2. channel # <<>> => Head(channel) \in Commands /\ Tail(channel) \in Seq(Commands)
    BY HeadTailProperties DEF TypeOK
  <2>3. TypeOK'
    BY <1>1, <2>1, <2>2, WriterAssumption DEF Receive, TryReceive, TypeOK
  <2>4. writer \in {"parked", "fed"}
    BY <1>1 DEF Receive, TryReceive
  <2> QED BY <2>1, <2>3, <2>4 DEF CloseIsLast, EndsAfterClose
<1>2. CASE Feed
  <2>1. /\ writer = "have" /\ fed' = Append(fed, cmd) /\ cmd \in Frames
        /\ cmd' = None /\ writer' = "fed" /\ UNCHANGED <<state, reading, call, channel, flushed>>
    BY <1>2 DEF Feed
  <2>2. TypeOK'
    BY <2>1, Fed, WriterAssumption DEF TypeOK
  <2>3. \A i \in 1..Len(fed') : fed'[i] \notin Closes
    <3>1. \A i \in 1..Len(fed') : i \in 1..Len(fed) \/ i = Len(fed) + 1
      BY <2>1, Fed
    <3> QED BY <2>1, <3>1, Fed, WriterAssumption
  <2> QED BY <2>2, <2>3 DEF CloseIsLast, EndsAfterClose
<1>3. CASE WriteClose
  <2>1. /\ writer = "have" /\ fed' = Append(fed, cmd) /\ cmd \in Closes
        /\ cmd' = None /\ writer' = "stopping" /\ flushed' = Len(fed')
        /\ UNCHANGED <<state, reading, call, channel>>
    BY <1>3 DEF WriteClose
  <2>2. TypeOK'
    BY <2>1, Fed, WriterAssumption DEF TypeOK
  <2>3. \A i \in 1..Len(fed') : fed'[i] \in Closes => i = Len(fed')
    BY <2>1, Fed
  <2> QED BY <2>1, <2>2, <2>3 DEF CloseIsLast, EndsAfterClose
<1>4. CASE Flush \/ WriteCloseFails
  <2>1. /\ UNCHANGED <<state, reading, call, channel, cmd, fed>>
        /\ flushed' \in {flushed, Len(fed)}
        /\ writer \in {"flushing", "have"}
        /\ (writer = "flushing" /\ writer' = "parked") \/ writer' = "stopping"
    BY <1>4 DEF Flush, WriteCloseFails
  <2>2. Len(fed) \in Nat
    BY LenProperties DEF TypeOK
  <2>3. TypeOK'
    BY <2>1, <2>2 DEF TypeOK
  <2>4. \A i \in 1..Len(fed) : fed[i] \notin Closes
    BY <2>1 DEF EndsAfterClose
  <2> QED BY <2>1, <2>3, <2>4 DEF CloseIsLast, EndsAfterClose
<1>5. CASE ReceiveNone \/ FeedFails \/ FlushFails \/ Stop \/ DropReceiver
  <2>1. /\ UNCHANGED <<reading, call, channel, cmd, fed, flushed>>
        /\ writer' \in {"stopping", "stopped", "gone"}
        /\ state' \in {state, "closed"}
    BY <1>5 DEF ReceiveNone, FeedFails, FlushFails, Stop, DropReceiver
  <2> QED BY <2>1 DEF TypeOK, CloseIsLast, EndsAfterClose
<1> QED BY <1>1, <1>2, <1>3, <1>4, <1>5 DEF Write

\* The invariant holds in every reachable state.
THEOREM Invariance == Spec => []IInv
<1>1. IInv /\ [Next]_vars => IInv'
  <2> SUFFICES ASSUME IInv, [Next]_vars PROVE IInv'
    OBVIOUS
  <2>1. CASE UNCHANGED vars
    BY <2>1 DEF vars, IInv, TypeOK, CloseIsLast, EndsAfterClose
  <2>2. CASE ReadEnds
    BY <2>2 DEF ReadEnds, IInv, TypeOK, CloseIsLast, EndsAfterClose
  <2> QED BY <2>1, <2>2, CallIInv, WriteIInv DEF Next
<1> QED BY <1>1, InitIInv, PTL DEF Spec

\* The types, and where a command may be in hand.
THEOREM TypeCorrect == Spec => []TypeOK
  BY Invariance, PTL DEF IInv

\* The close frame comes last and everything before it is flushed.
THEOREM NothingFollowsClose == Spec => []CloseIsLast
  BY Invariance, PTL DEF IInv

\* The positions of a sequence that c is at.
PlacesOf(c, s) == {i \in 1..Len(s) : s[i] = c}

\* What is accepted is in the channel, in hand or written, and the writer waits
\* for a command only with everything flushed.
Carried ==
    /\ \A c \in Commands : call[c] = "accepted" => cmd = c \/ PlacesOf(c, channel) # {} \/ PlacesOf(c, fed) # {}
    /\ writer = "parked" => flushed = Len(fed)

\* A command stays where it is, or moves on.
LEMMA CarriedOn == ASSUME IInv, Carried, Write PROVE Carried'
<1>1. /\ channel \in Seq(Commands) /\ fed \in Seq(Commands) /\ cmd \in Commands \cup {None}
      /\ writer = "have" => cmd # None
      /\ writer \in {"parked", "fed", "flushing"} => cmd = None
  BY DEF IInv, TypeOK
<1>2. UNCHANGED call
  BY DEF Write, Receive, ReceiveNone, Feed, FeedFails, WriteClose, WriteCloseFails, TryReceive, Flush,
         FlushFails, Stop, DropReceiver
<1>3. ASSUME NEW c \in Commands, cmd = c \/ PlacesOf(c, channel) # {} \/ PlacesOf(c, fed) # {}
      PROVE  cmd' = c \/ PlacesOf(c, channel') # {} \/ PlacesOf(c, fed') # {}
  <2>1. CASE Feed \/ WriteClose
    <3>1. writer = "have" /\ fed' = Append(fed, cmd) /\ channel' = channel
      BY <2>1 DEF Feed, WriteClose
    <3>2. Len(fed) + 1 \in 1..Len(fed') /\ 1..Len(fed) \subseteq 1..Len(fed')
      BY <3>1, Fed
    <3>3. cmd = c => Len(fed) + 1 \in PlacesOf(c, fed')
      BY <3>1, <3>2, Fed DEF PlacesOf
    <3>4. PlacesOf(c, fed) \subseteq PlacesOf(c, fed')
      BY <3>1, <3>2, Fed DEF PlacesOf
    <3> QED BY <1>3, <3>1, <3>3, <3>4
  <2>2. CASE (Receive \/ TryReceive) /\ channel # <<>>
    <3>1. cmd = None /\ cmd' = Head(channel) /\ channel' = Tail(channel) /\ fed' = fed
      BY <1>1, <2>2 DEF Receive, TryReceive
    <3>2. ASSUME NEW i \in PlacesOf(c, channel), Head(channel) # c PROVE i - 1 \in PlacesOf(c, channel')
      <4>1. i \in 1..Len(channel) /\ channel[i] = c
        BY DEF PlacesOf
      <4>2. /\ Head(channel) = channel[1] /\ Len(channel') = Len(channel) - 1
            /\ \A j \in 1..Len(channel') : channel'[j] = channel[j + 1]
        BY <1>1, <2>2, <3>1, HeadTailProperties
      <4>3. Len(channel) \in Nat /\ i # 1
        BY <1>1, <3>2, <4>1, <4>2, LenProperties
      <4>4. i - 1 \in 1..Len(channel') /\ (i - 1) + 1 = i
        BY <4>1, <4>2, <4>3
      <4> QED BY <4>1, <4>2, <4>4 DEF PlacesOf
    <3> QED BY <1>3, <3>1, <3>2, WriterAssumption
  <2>3. CASE /\ ~ (Feed \/ WriteClose)
             /\ ~ ((Receive \/ TryReceive) /\ channel # <<>>)
    <3>1. UNCHANGED <<cmd, fed, channel>>
      BY <2>3 DEF Write, Receive, TryReceive, ReceiveNone, FeedFails, WriteCloseFails,
                  Flush, FlushFails, Stop, DropReceiver
    <3> QED BY <1>3, <3>1
  <2> QED BY <2>1, <2>2, <2>3
<1>4. writer' = "parked" => flushed' = Len(fed')
  <2>1. writer' = "parked" => Flush
    BY DEF Write, Receive, ReceiveNone, Feed, FeedFails, WriteClose, WriteCloseFails, TryReceive, Flush,
           FlushFails, Stop, DropReceiver
  <2> QED BY <2>1 DEF Flush
<1> QED BY <1>2, <1>3, <1>4 DEF Carried

\* What a call does to what is carried.
LEMMA CarriedByCalls == ASSUME IInv, Carried, NEW d \in Commands, Call(d) PROVE Carried'
<1>1. /\ UNCHANGED <<writer, cmd, fed, flushed>>
      /\ channel \in Seq(Commands) /\ Len(channel) \in Nat
      /\ call \in [Commands -> {"new", "unmade", "pushing", "ignored", "accepted", "failed"}]
  BY LenProperties DEF Call, SendCheck, CloseMark, Push, Withdraw, IInv, TypeOK
<1>2. CASE channel' = Append(channel, d) /\ call' = [call EXCEPT ![d] = "accepted"]
  <2>1. /\ Len(channel') = Len(channel) + 1 /\ channel'[Len(channel) + 1] = d
        /\ \A i \in 1..Len(channel) : channel'[i] = channel[i]
    BY <1>1, <1>2, AppendProperties
  <2>2. Len(channel) + 1 \in PlacesOf(d, channel') /\ \A c \in Commands : PlacesOf(c, channel) \subseteq PlacesOf(c, channel')
    BY <1>1, <2>1 DEF PlacesOf
  <2> QED BY <1>1, <1>2, <2>2 DEF Carried
<1>3. CASE channel' = channel /\ \A c \in Commands : call'[c] = "accepted" => call[c] = "accepted"
  BY <1>1, <1>3 DEF Carried
<1>4. \/ channel' = Append(channel, d) /\ call' = [call EXCEPT ![d] = "accepted"]
      \/ channel' = channel /\ \E s \in {"unmade", "pushing", "ignored", "failed"} :
             call' = [call EXCEPT ![d] = s]
  BY DEF Call, SendCheck, CloseMark, Push, Withdraw, Goto
<1> QED BY <1>1, <1>2, <1>3, <1>4

\* "idle messages still go out immediately": whenever the writer waits for the
\* next command with the channel empty, everything that was ever accepted is on
\* the wire, and no later frame is needed to push it out. What FramesAreFlushed
\* adds is that the writer comes to wait (server.rs:195-228).
NothingAwaitsAFlush ==
    writer = "parked" /\ channel = <<>> =>
        \A c \in Commands : call[c] = "accepted" => \E i \in 1..flushed : fed[i] = c

\* An idle writer leaves nothing unflushed.
THEOREM IdleIsFlushed == Spec => []NothingAwaitsAFlush
<1>1. Init => Carried
  <2>1. Len(<<>>) = 0
    BY EmptySeq
  <2> QED BY <2>1 DEF Init, Carried
<1>2. IInv /\ Carried /\ [Next]_vars => Carried'
  <2> SUFFICES ASSUME IInv, Carried, [Next]_vars PROVE Carried'
    OBVIOUS
  <2>1. CASE UNCHANGED vars
    BY <2>1 DEF vars, Carried
  <2>2. CASE ReadEnds
    BY <2>2 DEF ReadEnds, Carried
  <2> QED BY <2>1, <2>2, CarriedOn, CarriedByCalls DEF Next
<1>3. IInv /\ Carried => NothingAwaitsAFlush
  <2> SUFFICES ASSUME IInv, Carried, writer = "parked", channel = <<>>,
                      NEW c \in Commands, call[c] = "accepted"
               PROVE  \E i \in 1..flushed : fed[i] = c
    BY DEF NothingAwaitsAFlush
  <2>1. cmd # c
    BY WriterAssumption DEF IInv, TypeOK
  <2>2. PlacesOf(c, channel) = {}
    <3>1. Len(channel) = 0
      BY EmptySeq
    <3> QED BY <3>1 DEF PlacesOf
  <2>3. PICK i \in PlacesOf(c, fed) : TRUE
    BY <2>1, <2>2 DEF Carried
  <2> QED BY <2>3 DEF PlacesOf, Carried
<1> QED BY <1>1, <1>2, <1>3, Invariance, PTL DEF Spec
--------------------------------------------------------------------------------
\* What is accepted and not written yet.
Pending == InHand \o channel

\* An item at the front of a queue q, moved to the end of d, does not change d
\* and the queue together.
LEMMA MoveFront ==
    ASSUME NEW S, NEW d \in Seq(S), NEW x \in S, NEW q \in Seq(S)
    PROVE  /\ Append(d, x) \o q = d \o (<<x>> \o q)
           /\ Len(d) < Len(d \o (<<x>> \o q))
           /\ (d \o (<<x>> \o q))[Len(d) + 1] = x
<1> DEFINE p == <<x>> \o q
<1>1. <<x>> \in Seq(S) /\ Len(<<x>>) = 1 /\ <<x>>[1] = x
  OBVIOUS
<1>2. Append(d, x) \o q = d \o p
  BY <1>1, AppendIsConcat, ConcatAssociative
<1>3. Len(d) \in Nat /\ Len(q) \in Nat
  BY LenProperties
<1>4. p \in Seq(S) /\ Len(p) = 1 + Len(q) /\ p[1] = x
  BY <1>1, <1>3, ConcatProperties
<1>5. Len(d \o p) = Len(d) + (1 + Len(q))
  BY <1>4, ConcatProperties
<1>6. Len(d) + 1 \in 1..(Len(d) + Len(p)) /\ ~ (Len(d) + 1 <= Len(d)) /\ Len(d) + 1 - Len(d) = 1
  BY <1>3, <1>4
<1>7. (d \o p)[Len(d) + 1] = p[1]
  BY <1>4, <1>6, ConcatProperties
<1> QED BY <1>2, <1>3, <1>4, <1>5, <1>7

\* A queue is its front and the rest.
LEMMA FrontAndRest ==
    ASSUME NEW S, NEW q \in Seq(S), q # <<>>
    PROVE  <<Head(q)>> \o Tail(q) = q
<1>1. Len(q) \in Nat /\ Len(q) # 0
  BY EmptySeq, LenProperties
<1>2. /\ Head(q) \in S /\ Head(q) = q[1]
      /\ Tail(q) \in Seq(S) /\ Len(Tail(q)) = Len(q) - 1
      /\ \A i \in 1..Len(Tail(q)) : Tail(q)[i] = q[i + 1]
  BY HeadTailProperties
<1>3. <<Head(q)>> \in Seq(S) /\ Len(<<Head(q)>>) = 1 /\ <<Head(q)>>[1] = Head(q)
  BY <1>2
<1>4. <<Head(q)>> \o Tail(q) \in Seq(S) /\ Len(<<Head(q)>> \o Tail(q)) = Len(q)
  BY <1>1, <1>2, <1>3, ConcatProperties
<1>5. \A i \in 1..Len(q) : (<<Head(q)>> \o Tail(q))[i] = q[i]
  BY <1>1, <1>2, <1>3, ConcatProperties
<1> QED BY <1>4, <1>5, SeqEqual

\* The three parts of what is accepted.
LEMMA Parts ==
    ASSUME TypeOK
    PROVE  /\ fed \in Seq(Commands) /\ InHand \in Seq(Commands)
           /\ channel \in Seq(Commands) /\ Pending \in Seq(Commands)
           /\ (fed \o InHand) \o channel = fed \o Pending
<1>1. fed \in Seq(Commands) /\ channel \in Seq(Commands)
  BY DEF TypeOK
<1>2. InHand \in Seq(Commands)
  <2>1. <<>> \in Seq(Commands)
    BY EmptySeq
  <2>2. cmd # None => <<cmd>> \in Seq(Commands)
    BY DEF TypeOK
  <2> QED BY <2>1, <2>2 DEF InHand
<1> QED BY <1>1, <1>2, ConcatProperties, ConcatAssociative DEF Pending

\* A push is an arrival, or nothing when the receiver is gone.
LEMMA CallRefines ==
    ASSUME IInv, IInv', NEW c \in Commands, Call(c)
    PROVE  Ordered!Arrive \/ UNCHANGED Ordered!vars
<1>1. UNCHANGED <<cmd, fed>> /\ InHand' = InHand
  BY DEF Call, SendCheck, CloseMark, Push, Withdraw, InHand
<1>2. CASE channel' = channel
  BY <1>1, <1>2 DEF Ordered!vars
<1>3. CASE channel' # channel
  <2>1. channel' = Append(channel, c)
    BY <1>3 DEF Call, SendCheck, CloseMark, Push, Withdraw
  <2>2. fed \o InHand \in Seq(Commands) /\ channel \in Seq(Commands)
    BY Parts, ConcatProperties DEF IInv
  <2>3. <<c>> \in Seq(Commands)
    OBVIOUS
  <2>4. (fed \o InHand) \o Append(channel, c) = Append((fed \o InHand) \o channel, c)
    BY <2>2, <2>3, AppendIsConcat, ConcatAssociative, ConcatProperties
  <2> QED BY <1>1, <2>1, <2>4 DEF Ordered!Arrive
<1> QED BY <1>2, <1>3

\* Only to write the command in hand is noticed.
LEMMA WriteRefines ==
    ASSUME IInv, IInv', Write
    PROVE  Ordered!Deal \/ UNCHANGED Ordered!vars
<1>0. /\ TypeOK /\ TypeOK'
      /\ (fed \o InHand) \o channel = fed \o Pending
      /\ fed \in Seq(Commands) /\ Pending \in Seq(Commands)
      /\ channel \in Seq(Commands)
  BY Parts DEF IInv
<1>1. ((fed \o InHand) \o channel)' = fed' \o Pending'
  <2>1. /\ fed' \in Seq(Commands) /\ InHand' \in Seq(Commands)
        /\ channel' \in Seq(Commands)
    <3>1. <<>> \in Seq(Commands)
      BY EmptySeq
    <3>2. cmd' # None => <<cmd'>> \in Seq(Commands)
      BY <1>0 DEF TypeOK
    <3> QED BY <1>0, <3>1, <3>2 DEF InHand, TypeOK
  <2> QED BY <2>1, ConcatAssociative DEF Pending
<1>2. CASE Feed \/ WriteClose
  <2>1. /\ writer = "have" /\ fed' = Append(fed, cmd) /\ cmd \in Commands
        /\ cmd' = None /\ channel' = channel /\ cmd # None
    BY <1>2, <1>0 DEF Feed, WriteClose, Commands, TypeOK
  <2>2. Pending = <<cmd>> \o channel /\ Pending' = <<>> \o channel
    BY <2>1 DEF Pending, InHand
  <2>3. Pending' = channel
    BY <1>0, <2>2, ConcatEmptySeq
  <2>4. /\ Append(fed, cmd) \o channel = fed \o Pending
        /\ Len(fed) < Len(fed \o Pending)
        /\ (fed \o Pending)[Len(fed) + 1] = cmd
    BY <1>0, <2>1, <2>2, MoveFront
  <2> QED BY <1>0, <1>1, <2>1, <2>3, <2>4 DEF Ordered!Deal
<1>3. CASE (Receive \/ TryReceive) /\ channel # <<>>
  <2>1. /\ cmd = None /\ cmd' = Head(channel) /\ channel' = Tail(channel) /\ fed' = fed
    BY <1>3, <1>0 DEF Receive, TryReceive, TypeOK
  <2>2. Head(channel) # None
    BY <1>0, <1>3, HeadTailProperties, WriterAssumption
  <2>3. Pending = <<>> \o channel /\ Pending' = <<Head(channel)>> \o Tail(channel)
    BY <2>1, <2>2 DEF Pending, InHand
  <2>4. Pending' = Pending
    BY <1>0, <1>3, <2>3, FrontAndRest, ConcatEmptySeq
  <2> QED BY <1>0, <1>1, <2>1, <2>4 DEF Ordered!vars
<1>4. CASE /\ ~ (Feed \/ WriteClose)
           /\ ~ ((Receive \/ TryReceive) /\ channel # <<>>)
  <2>1. UNCHANGED <<cmd, fed, channel>>
    BY <1>4 DEF Write, Receive, TryReceive, ReceiveNone, FeedFails, WriteCloseFails,
                Flush, FlushFails, Stop, DropReceiver
  <2> QED BY <2>1 DEF Ordered!vars, InHand
<1> QED BY <1>2, <1>3, <1>4

\* Frames are written in the order in which they were accepted, none of them
\* twice and none left out, whatever tasks send and close.
THEOREM WritesInOrder == Spec => FramesInOrder
<1>1. Init => Ordered!Init
  <2>1. <<>> \o <<>> = <<>>
    BY ConcatEmptySeq, EmptySeq
  <2> QED BY <2>1 DEF Init, Ordered!Init, InHand
<1>2. IInv /\ IInv' /\ [Next]_vars => [Ordered!Next]_(Ordered!vars)
  <2> SUFFICES ASSUME IInv, IInv', [Next]_vars
               PROVE  Ordered!Next \/ UNCHANGED Ordered!vars
    OBVIOUS
  <2>1. CASE UNCHANGED vars
    BY <2>1 DEF vars, Ordered!vars, InHand
  <2>2. CASE ReadEnds
    BY <2>2 DEF ReadEnds, Ordered!vars, InHand
  <2> QED BY <2>1, <2>2, CallRefines, WriteRefines DEF Next, Ordered!Next
<1> QED BY <1>1, <1>2, Invariance, PTL DEF Spec, FramesInOrder, Ordered!SafeSpec

Requests == [task : Tasks, mode : {"read", "write"}]

\* From when a store refers to a lock object, and while it needs a save mutex.
Entered == {"queued", "saving", "storing", "stored", "finishing"}
Saving == {"saving", "storing", "stored"}

\* Every task is where its kind can be; destroy stores the document it visits;
\* who executes has a lock object.
Places ==
    /\ \A t \in Tasks : pc[t] \in Labels(t[1])
    /\ pc[Destroy] \in Storing => at \in Documents
    /\ \A d \in Documents : d \notin opened => pc[<<"open", d>>] = "idle"
    /\ \A t \in Tasks : pc[t] \in Entered => execution[t] \in Executions

\* Where a task holds or awaits documents, where configuration.
OfDocuments == {"lookup", "abandoning", "dismissing", "registering", "checking", "removing",
                "counting", "closing", "gathering", "flushing", "polling"}
OfConfiguration == {"writing", "configured", "creating", "loading", "loaded", "changing", "timing",
                    "storing", "stored", "leaving", "deciding", "before", "after", "ending"}

\* The locks that t holds or awaits.
Needs(t, l) ==
    \/ l = "documents" /\ (pc[t] \in OfDocuments \/ (t = Destroy /\ pc[t] \in Storing))
    \/ l \in Executions /\ pc[t] \in Entered /\ execution[t] = l
    \/ l \in Documents /\ pc[t] \in Saving /\ Doc(t) = l
    \/ l = "configuration" /\ pc[t] \in OfConfiguration

\* It holds all of them but the last in the order: documents, the lock of an
\* execution, the save mutex of a document, configuration.
MayAwait(t, l) ==
    \/ l = "documents" /\ pc[t] \in OfDocuments \ {"flushing"}
    \/ l \in Executions /\ pc[t] = "queued" /\ execution[t] = l
    \/ l \in Documents /\ pc[t] = "saving" /\ Doc(t) = l
    \/ l = "configuration" /\ pc[t] \in OfConfiguration

\* t has a request for l in q; nothing before it stands in its way.
Asked(q, l, t) == \E i \in DOMAIN q[l] : q[l][i].task = t
Granted(q, l, t) ==
    \A i, j \in DOMAIN q[l] : q[l][i].task = t /\ j < i => ~ Conflict(q[l][j], q[l][i])

\* A task asks once, and writes a save mutex.
Proper(q) ==
    /\ q \in [Locks -> Seq(Requests)]
    /\ \A l \in Locks : \A i, j \in DOMAIN q[l] : q[l][i].task = q[l][j].task => i = j
    /\ \A l \in Documents : \A i \in DOMAIN q[l] : q[l][i].mode = "write"

\* What is queued is what is needed, and all but the last lock is held.
InOrder(t) ==
    \A l \in Locks :
        /\ Needs(t, l) <=> Asked(queue, l, t)
        /\ Needs(t, l) => MayAwait(t, l) \/ Granted(queue, l, t)

Order == Proper(queue) /\ \A t \in Tasks : InOrder(t)
--------------------------------------------------------------------------------
\* A new request comes last.
LEMMA Taken ==
    ASSUME NEW q, Proper(q), NEW l \in Locks, NEW t \in Tasks, NEW mode \in {"read", "write"},
           l \in Documents => mode = "write", ~ Asked(q, l, t)
    PROVE  /\ Proper(Take(q, l, t, mode))
           /\ \A k \in Locks, u \in Tasks :
                 Asked(Take(q, l, t, mode), k, u) <=> Asked(q, k, u) \/ (k = l /\ u = t)
           /\ \A k \in Locks, u \in Tasks :
                 Granted(q, k, u) /\ ~ (k = l /\ u = t) => Granted(Take(q, l, t, mode), k, u)
<1> DEFINE e == [task |-> t, mode |-> mode]
           r == Take(q, l, t, mode)
<1>1. q \in [Locks -> Seq(Requests)] /\ e \in Requests /\ e.task = t /\ e.mode = mode
  BY DEF Proper, Requests
<1>2. r \in [Locks -> Seq(Requests)] /\ r[l] = Append(q[l], e) /\ \A k \in Locks \ {l} : r[k] = q[k]
  BY <1>1, AppendProperties DEF Take
<1>3. /\ DOMAIN q[l] = 1..Len(q[l]) /\ DOMAIN r[l] = 1..(Len(q[l]) + 1) /\ Len(q[l]) \in Nat
      /\ \A i \in 1..Len(q[l]) : r[l][i] = q[l][i]
      /\ r[l][Len(q[l]) + 1] = e
  BY <1>1, <1>2, AppendProperties, LenProperties
<1> HIDE DEF e, r
<1>4. \A i \in DOMAIN r[l] : i \in DOMAIN q[l] \/ i = Len(q[l]) + 1
  BY <1>3
<1>5. \A i \in DOMAIN q[l] : r[l][i] = q[l][i] /\ q[l][i].task # t /\ i \in DOMAIN r[l] /\ i < Len(q[l]) + 1
  BY <1>3 DEF Asked
<1>6. Proper(r)
  <2>1. ASSUME NEW k \in Locks, NEW i \in DOMAIN r[k], NEW j \in DOMAIN r[k], r[k][i].task = r[k][j].task
        PROVE  i = j
    <3>1. CASE k # l
      BY <1>2, <2>1, <3>1 DEF Proper
    <3>2. CASE k = l
      <4>1. \A x, y \in DOMAIN q[l] : q[l][x].task = q[l][y].task => x = y
        BY DEF Proper
      <4>2. r[l][Len(q[l]) + 1].task = t /\ \A x \in DOMAIN q[l] : r[l][x].task # t
        BY <1>1, <1>3, <1>5
      <4>3. CASE i \in DOMAIN q[l] /\ j \in DOMAIN q[l]
        BY <1>5, <2>1, <3>2, <4>1, <4>3
      <4>4. CASE ~ (i \in DOMAIN q[l] /\ j \in DOMAIN q[l])
        BY <1>4, <2>1, <3>2, <4>2, <4>4
      <4> QED BY <4>3, <4>4
    <3> QED BY <3>1, <3>2
  <2>2. ASSUME NEW k \in Documents, NEW i \in DOMAIN r[k] PROVE r[k][i].mode = "write"
    <3>1. CASE k # l
      <4>1. r[k] = q[k]
        BY <1>2, <3>1 DEF Locks
      <4> QED BY <2>2, <4>1 DEF Proper
    <3>2. CASE k = l
      <4>1. mode = "write" /\ \A x \in DOMAIN q[l] : q[l][x].mode = "write"
        BY <2>2, <3>2 DEF Proper
      <4> QED BY <1>1, <1>3, <1>4, <1>5, <2>2, <3>2, <4>1
    <3> QED BY <3>1, <3>2
  <2> QED BY <1>2, <2>1, <2>2 DEF Proper
<1>7. ASSUME NEW k \in Locks, NEW u \in Tasks PROVE Asked(r, k, u) <=> Asked(q, k, u) \/ (k = l /\ u = t)
  <2>1. CASE k # l
    BY <1>2, <2>1 DEF Asked
  <2>2. CASE k = l
    <3>1. Len(q[l]) + 1 \in DOMAIN r[l] /\ r[l][Len(q[l]) + 1].task = t
      BY <1>1, <1>3
    <3>2. ASSUME Asked(q, l, u) PROVE Asked(r, l, u)
      BY <1>5, <3>2 DEF Asked
    <3>3. ASSUME Asked(r, l, u) PROVE Asked(q, l, u) \/ u = t
      BY <1>1, <1>3, <1>4, <1>5, <3>3 DEF Asked
    <3> QED BY <2>2, <3>1, <3>2, <3>3 DEF Asked
  <2> QED BY <2>1, <2>2
<1>8. ASSUME NEW k \in Locks, NEW u \in Tasks, Granted(q, k, u), ~ (k = l /\ u = t)
      PROVE  Granted(r, k, u)
  <2>1. CASE k # l
    BY <1>2, <1>8, <2>1 DEF Granted
  <2>2. CASE k = l
    <3>1. SUFFICES ASSUME NEW i \in DOMAIN r[l], NEW j \in DOMAIN r[l], r[l][i].task = u, j < i
                   PROVE  ~ Conflict(r[l][j], r[l][i])
      BY <2>2 DEF Granted
    <3>2. i \in DOMAIN q[l] /\ j \in DOMAIN q[l]
      BY <1>1, <1>3, <1>4, <1>8, <2>2, <3>1
    <3> QED BY <1>5, <1>8, <2>2, <3>1, <3>2 DEF Granted
  <2> QED BY <2>1, <2>2
<1> QED BY <1>6, <1>7, <1>8 DEF r

\* A request that is dropped lets the others move up.
LEMMA Dropped ==
    ASSUME NEW q, Proper(q), NEW l \in Locks, NEW t \in Tasks, Asked(q, l, t)
    PROVE  /\ Proper(Drop(q, l, t))
           /\ \A k \in Locks, u \in Tasks :
                 Asked(Drop(q, l, t), k, u) <=> Asked(q, k, u) /\ ~ (k = l /\ u = t)
           /\ \A k \in Locks, u \in Tasks : Granted(q, k, u) => Granted(Drop(q, l, t), k, u)
<1> DEFINE r == Drop(q, l, t)
           p == Position(q[l], t)
           s == q[l]
<1>1. q \in [Locks -> Seq(Requests)] /\ s \in Seq(Requests) /\ Len(s) \in Nat /\ DOMAIN s = 1..Len(s)
  BY LenProperties DEF Proper
<1>2. p \in DOMAIN s /\ s[p].task = t
  BY DEF Asked, Position
<1>3. r = [q EXCEPT ![l] = SubSeq(s, 1, p - 1) \o SubSeq(s, p + 1, Len(s))]
  BY DEF Drop, RemoveAt
<1> HIDE DEF p, s, r
<1>4. /\ SubSeq(s, 1, p - 1) \in Seq(Requests) /\ Len(SubSeq(s, 1, p - 1)) = p - 1
      /\ \A i \in 1..(p - 1) : SubSeq(s, 1, p - 1)[i] = s[i]
  <2>1. \A i \in 1..(p - 1) : s[i] \in Requests
    BY <1>1, <1>2, ElementOfSeq
  <2>2. p \in Int /\ p - 1 \in Int /\ p - 1 - 1 + 1 = p - 1 /\ (1 <= p - 1 \/ p - 1 = 0)
    BY <1>1, <1>2
  <2>3. /\ SubSeq(s, 1, p - 1) \in Seq(Requests)
        /\ Len(SubSeq(s, 1, p - 1)) = IF 1 <= p - 1 THEN p - 1 - 1 + 1 ELSE 0
        /\ \A i \in 1..(p - 1 - 1 + 1) : SubSeq(s, 1, p - 1)[i] = s[1 + i - 1]
    BY <2>1, <2>2, SubSeqProperties
  <2> QED BY <2>2, <2>3
<1>5. /\ SubSeq(s, p + 1, Len(s)) \in Seq(Requests) /\ Len(SubSeq(s, p + 1, Len(s))) = Len(s) - p
      /\ \A i \in 1..(Len(s) - p) : SubSeq(s, p + 1, Len(s))[i] = s[p + i]
  <2> DEFINE m == p + 1
             b == Len(s)
             v == SubSeq(s, m, b)
  <2>1. /\ m \in Int /\ b \in Int /\ p \in Int /\ m = p + 1 /\ p <= b
        /\ \A i \in m..b : i \in 1..b
    BY <1>1, <1>2
  <2>2. \A i \in m..b : s[i] \in Requests
    BY <1>1, <2>1, ElementOfSeq
  <2> HIDE DEF m, b
  <2>3. /\ v \in Seq(Requests) /\ Len(v) = IF m <= b THEN b - m + 1 ELSE 0
        /\ \A i \in 1..(b - m + 1) : v[i] = s[m + i - 1]
    BY <2>1, <2>2, SubSeqProperties
  <2> HIDE DEF v
  <2>4. ASSUME NEW i \in 1..(b - p) PROVE v[i] = s[p + i]
    <3>1. i \in 1..(b - m + 1) /\ m + i - 1 = p + i
      BY <2>1
    <3> QED BY <2>3, <3>1
  <2>5. Len(v) = b - p
    BY <2>1, <2>3
  <2> QED BY <2>3, <2>4, <2>5 DEF m, b, v
<1> DEFINE n == SubSeq(s, 1, p - 1) \o SubSeq(s, p + 1, Len(s))
<1>6. /\ n \in Seq(Requests) /\ DOMAIN n = 1..(Len(s) - 1)
      /\ \A i \in 1..(Len(s) - 1) : n[i] = IF i < p THEN s[i] ELSE s[i + 1]
  <2>1. /\ n \in Seq(Requests) /\ Len(n) = p - 1 + (Len(s) - p)
        /\ \A i \in 1..(p - 1 + (Len(s) - p)) :
              n[i] = IF i <= p - 1 THEN SubSeq(s, 1, p - 1)[i] ELSE SubSeq(s, p + 1, Len(s))[i - (p - 1)]
    <3> DEFINE x == SubSeq(s, 1, p - 1)
               y == SubSeq(s, p + 1, Len(s))
    <3>1. x \in Seq(Requests) /\ y \in Seq(Requests) /\ Len(x) = p - 1 /\ Len(y) = Len(s) - p
      BY <1>4, <1>5
    <3> HIDE DEF x, y
    <3>2. /\ x \o y \in Seq(Requests) /\ Len(x \o y) = Len(x) + Len(y)
          /\ \A i \in 1..(Len(x) + Len(y)) : (x \o y)[i] = IF i <= Len(x) THEN x[i] ELSE y[i - Len(x)]
      BY <3>1, ConcatProperties
    <3> QED BY <3>1, <3>2 DEF x, y
  <2> HIDE DEF n
  <2>2. p - 1 + (Len(s) - p) = Len(s) - 1
    BY <1>1, <1>2
  <2>3. ASSUME NEW i \in 1..(Len(s) - 1) PROVE n[i] = IF i < p THEN s[i] ELSE s[i + 1]
    <3>1. CASE i < p
      BY <1>1, <1>2, <1>4, <2>1, <2>2, <3>1
    <3>2. CASE ~ (i < p)
      <4>1. i - (p - 1) \in 1..(Len(s) - p) /\ p + (i - (p - 1)) = i + 1 /\ ~ (i <= p - 1)
        BY <1>1, <1>2, <3>2
      <4> QED BY <1>5, <2>1, <2>2, <3>2, <4>1
    <3> QED BY <3>1, <3>2
  <2>4. DOMAIN n = 1..Len(n)
    BY <2>1, LenProperties
  <2> QED BY <2>1, <2>2, <2>3, <2>4
<1> HIDE DEF n
<1>7. r \in [Locks -> Seq(Requests)] /\ r[l] = n /\ \A k \in Locks \ {l} : r[k] = q[k]
  BY <1>1, <1>3, <1>6 DEF n
<1> DEFINE Old(i) == IF i < p THEN i ELSE i + 1
<1>8. ASSUME NEW i \in DOMAIN n
      PROVE  /\ Old(i) \in DOMAIN s /\ Old(i) # p /\ n[i] = s[Old(i)] /\ n[i].task # t
             /\ \A j \in DOMAIN n : (j < i <=> Old(j) < Old(i)) /\ (Old(j) = Old(i) => j = i)
  <2>1. Old(i) \in DOMAIN s /\ Old(i) # p /\ n[i] = s[Old(i)]
    BY <1>1, <1>2, <1>6
  <2>2. s[Old(i)].task # s[p].task
    <3>1. \A x, y \in DOMAIN s : s[x].task = s[y].task => x = y
      BY DEF Proper, s
    <3> QED BY <1>2, <2>1, <3>1
  <2>3. \A j \in DOMAIN n : (j < i <=> Old(j) < Old(i)) /\ (Old(j) = Old(i) => j = i)
    BY <1>1, <1>2, <1>6
  <2> QED BY <1>2, <2>1, <2>2, <2>3
<1>9. ASSUME NEW x \in DOMAIN s, x # p PROVE \E i \in DOMAIN n : Old(i) = x
  <2>1. CASE x < p
    BY <1>1, <1>2, <1>6, <2>1
  <2>2. CASE ~ (x < p)
    <3>1. x - 1 \in DOMAIN n /\ Old(x - 1) = x
      BY <1>1, <1>2, <1>6, <1>9, <2>2
    <3> QED BY <3>1
  <2> QED BY <2>1, <2>2
<1> HIDE DEF Old
<1>10. Proper(r)
  <2>1. ASSUME NEW k \in Locks, NEW i \in DOMAIN r[k], NEW j \in DOMAIN r[k], r[k][i].task = r[k][j].task
        PROVE  i = j
    <3>1. CASE k # l
      BY <1>7, <2>1, <3>1 DEF Proper
    <3>2. CASE k = l
      BY <1>7, <1>8, <2>1, <3>2 DEF Proper, s
    <3> QED BY <3>1, <3>2
  <2>2. ASSUME NEW k \in Documents, NEW i \in DOMAIN r[k] PROVE r[k][i].mode = "write"
    <3>1. CASE k # l
      BY <1>7, <2>2, <3>1 DEF Proper, Locks
    <3>2. CASE k = l
      BY <1>7, <1>8, <2>2, <3>2 DEF Proper, s
    <3> QED BY <3>1, <3>2
  <2> QED BY <1>7, <2>1, <2>2 DEF Proper
<1>11. ASSUME NEW k \in Locks, NEW u \in Tasks PROVE Asked(r, k, u) <=> Asked(q, k, u) /\ ~ (k = l /\ u = t)
  <2>1. CASE k # l
    BY <1>7, <2>1 DEF Asked
  <2>2. CASE k = l
    BY <1>2, <1>7, <1>8, <1>9, <2>2 DEF Asked, s
  <2> QED BY <2>1, <2>2
<1>12. ASSUME NEW k \in Locks, NEW u \in Tasks, Granted(q, k, u) PROVE Granted(r, k, u)
  <2>1. CASE k # l
    BY <1>7, <1>12, <2>1 DEF Granted
  <2>2. CASE k = l
    BY <1>7, <1>8, <1>12, <2>2 DEF Granted, s
  <2> QED BY <2>1, <2>2
<1> QED BY <1>10, <1>11, <1>12 DEF r
--------------------------------------------------------------------------------
\* The tasks, by kind.
LEMMA Named ==
    /\ Destroy \in Tasks /\ Configure \in Tasks /\ Destroy # Configure
    /\ Destroy[1] = "destroy" /\ Configure[1] = "configure"
    /\ \A k \in Kinds, d \in Documents :
          <<k, d>> \in Tasks \ {Destroy, Configure} /\ <<k, d>>[1] = k /\ <<k, d>>[2] = d
    /\ \A t \in Tasks : t = Destroy \/ t = Configure
                        \/ \E k \in Kinds, d \in Documents : t = <<k, d>>
BY DEF Tasks, Kinds, Destroy, Configure

\* Only these store, each of them a document.
LEMMA Storers ==
    ASSUME Places, NEW t \in Tasks, pc[t] \in Storing
    PROVE  /\ Doc(t) \in Documents
           /\ t[1] \in {"update", "timer", "close", "destroy"}
           /\ \A d \in Documents : t # <<"unload", d>>
<1>1. pc[t] \in Labels(t[1])
  BY DEF Places
<1>2. t[1] \in {"update", "timer", "close", "destroy"} /\ t # Configure
  <2>1. CASE t = Destroy
    BY <2>1, Named
  <2>2. CASE t = Configure
    BY <1>1, <2>2, Named DEF Labels, Storing
  <2>3. CASE \E k \in Kinds, d \in Documents : t = <<k, d>>
    <3>1. PICK k \in Kinds, d \in Documents : t = <<k, d>>
      BY <2>3
    <3>2. t[1] = k
      BY <3>1
    <3>3. k # "open" /\ k # "unload"
      BY <1>1, <3>2 DEF Labels, Storing, UnloadLabels
    <3> QED BY <3>1, <3>2, <3>3, Named DEF Kinds
  <2> QED BY <2>1, <2>2, <2>3, Named
<1>3. Doc(t) \in Documents
  BY <1>2, Named DEF Doc, Places
<1>4. \A d \in Documents : t # <<"unload", d>>
  BY <1>2
<1> QED BY <1>2, <1>3, <1>4

\* Who holds a lock is granted it.
LEMMA Held ==
    ASSUME Proper(queue), NEW t, NEW l \in Locks, Holds(t, l)
    PROVE  Granted(queue, l, t)
<1>1. queue[l] \in Seq(Requests) /\ Len(queue[l]) \in Nat /\ DOMAIN queue[l] = 1..Len(queue[l])
  BY LenProperties DEF Proper
<1> SUFFICES ASSUME NEW i \in DOMAIN queue[l], NEW j \in DOMAIN queue[l], queue[l][i].task = t, j < i
             PROVE  ~ Conflict(queue[l][j], queue[l][i])
  BY DEF Granted
<1>2. j \in 1..(i - 1)
  BY <1>1
<1> QED BY <1>2 DEF Holds

\* A step of t is of no consequence for the locks of the others.
Others(t) ==
    \A u \in Tasks \ {t}, l \in Locks :
        (Needs(u, l)' <=> Needs(u, l)) /\ (MayAwait(u, l)' <=> MayAwait(u, l))

\* A step of one task is of no consequence for the locks of the others.
LEMMA OthersGo ==
    ASSUME NEW t \in Tasks, NEW next, DOMAIN pc = Tasks, Go(t, next), at' = at \/ t = Destroy,
           \A u \in Tasks \ {t} : execution'[u] = execution[u]
    PROVE  Others(t)
<1> SUFFICES ASSUME NEW u \in Tasks \ {t}, NEW l \in Locks
             PROVE  (Needs(u, l)' <=> Needs(u, l)) /\ (MayAwait(u, l)' <=> MayAwait(u, l))
  BY DEF Others
<1>1. pc'[u] = pc[u] /\ execution'[u] = execution[u]
  BY DEF Go
<1>2. Doc(u)' = Doc(u)
  BY DEF Doc
<1> QED BY <1>1, <1>2 DEF Needs, MayAwait

\* What is left to show of a step of t.
LEMMA StillOrdered ==
    ASSUME Order, NEW t \in Tasks, Others(t), Proper(queue'),
           \A u \in Tasks \ {t}, l \in Locks :
              /\ Asked(queue', l, u) <=> Asked(queue, l, u)
              /\ Granted(queue, l, u) => Granted(queue', l, u),
           \A l \in Locks :
              /\ Needs(t, l)' <=> Asked(queue', l, t)
              /\ Needs(t, l)' => MayAwait(t, l)' \/ Granted(queue', l, t)
    PROVE  Order'
<1>1. InOrder(t)'
  BY DEF InOrder, Asked, Granted
<1>2. ASSUME NEW u \in Tasks \ {t} PROVE InOrder(u)'
  BY DEF Order, InOrder, Others, Asked, Granted
<1> QED BY <1>1, <1>2 DEF Order, Proper

\* Nor is one that also spawns an unload, which has no lock yet.
LEMMA OthersSpawned ==
    ASSUME NEW t \in Tasks, NEW next, DOMAIN pc = Tasks, NEW d \in Documents,
           t # <<"unload", d>>, pc' = Spawned([pc EXCEPT ![t] = next], d), UNCHANGED <<at, execution>>
    PROVE  Others(t)
<1> SUFFICES ASSUME NEW u \in Tasks \ {t}, NEW l \in Locks
             PROVE  (Needs(u, l)' <=> Needs(u, l)) /\ (MayAwait(u, l)' <=> MayAwait(u, l))
  BY DEF Others
<1>1. <<"unload", d>> \in Tasks
  BY Named DEF Kinds
<1>2. Doc(u)' = Doc(u)
  BY DEF Doc
<1>3. pc'[u] = pc[u] \/ (pc[u] = "idle" /\ pc'[u] = "spawned")
  BY <1>1 DEF Spawned
<1>4. CASE pc'[u] = pc[u]
  BY <1>2, <1>4 DEF Needs, MayAwait
<1>5. CASE pc[u] = "idle" /\ pc'[u] = "spawned"
  BY <1>5 DEF Needs, MayAwait, OfDocuments, OfConfiguration, Storing, Entered, Saving
<1> QED BY <1>3, <1>4, <1>5

\* The forms of a step.
LEMMA Awaited ==
    ASSUME Order, NEW t \in Tasks, Others(t), NEW l \in Locks, NEW mode \in {"read", "write"},
           queue' = Take(queue, l, t, mode), l \in Documents => mode = "write",
           ~ Needs(t, l),
           \A k \in Locks : Needs(t, k)' <=> Needs(t, k) \/ k = l,
           MayAwait(t, l)',
           \A k \in Locks \ {l} : MayAwait(t, k) => MayAwait(t, k)' \/ Holds(t, k)
    PROVE  Order'
<1>1. Proper(queue) /\ InOrder(t) /\ ~ Asked(queue, l, t)
  BY DEF Order, InOrder
<1>2. /\ Proper(queue')
      /\ \A k \in Locks, u \in Tasks : Asked(queue', k, u) <=> Asked(queue, k, u) \/ (k = l /\ u = t)
      /\ \A k \in Locks, u \in Tasks : Granted(queue, k, u) /\ ~ (k = l /\ u = t) => Granted(queue', k, u)
  BY <1>1, Taken
<1>3. ASSUME NEW k \in Locks
      PROVE  /\ Needs(t, k)' <=> Asked(queue', k, t)
             /\ Needs(t, k)' => MayAwait(t, k)' \/ Granted(queue', k, t)
  <2>1. CASE k = l
    BY <1>2, <2>1
  <2>2. CASE k # l
    <3>1. /\ Needs(t, k) <=> Asked(queue, k, t)
          /\ Needs(t, k) => MayAwait(t, k) \/ Granted(queue, k, t)
      BY <1>1 DEF InOrder
    <3>2. Holds(t, k) => Granted(queue, k, t)
      BY <1>1, Held
    <3> QED BY <1>2, <2>2, <3>1, <3>2
  <2> QED BY <2>1, <2>2
<1> QED BY <1>2, <1>3, StillOrdered

\* A task that drops a lock leaves the queues in order.
LEMMA Released ==
    ASSUME Order, NEW t \in Tasks, Others(t), NEW l \in Locks,
           queue' = Drop(queue, l, t),
           Needs(t, l),
           \A k \in Locks : Needs(t, k)' <=> Needs(t, k) /\ k # l,
           \A k \in Locks \ {l} : MayAwait(t, k) => MayAwait(t, k)'
    PROVE  Order'
<1>1. Proper(queue) /\ InOrder(t) /\ Asked(queue, l, t)
  BY DEF Order, InOrder
<1>2. /\ Proper(queue')
      /\ \A k \in Locks, u \in Tasks : Asked(queue', k, u) <=> Asked(queue, k, u) /\ ~ (k = l /\ u = t)
      /\ \A k \in Locks, u \in Tasks : Granted(queue, k, u) => Granted(queue', k, u)
  BY <1>1, Dropped
<1>3. ASSUME NEW k \in Locks
      PROVE  /\ Needs(t, k)' <=> Asked(queue', k, t)
             /\ Needs(t, k)' => MayAwait(t, k)' \/ Granted(queue', k, t)
  <2>1. /\ Needs(t, k) <=> Asked(queue, k, t)
        /\ Needs(t, k) => MayAwait(t, k) \/ Granted(queue, k, t)
    BY <1>1 DEF InOrder
  <2> QED BY <1>2, <2>1
<1> QED BY <1>2, <1>3, StillOrdered

\* So does one that drops a lock and asks for another.
LEMMA Exchanged ==
    ASSUME Order, NEW t \in Tasks, Others(t), NEW l \in Locks, NEW m \in Locks,
           NEW mode \in {"read", "write"},
           queue' = Take(Drop(queue, l, t), m, t, mode), m \in Documents => mode = "write",
           Needs(t, l), m = l \/ ~ Needs(t, m),
           \A k \in Locks : Needs(t, k)' <=> (Needs(t, k) /\ k # l) \/ k = m,
           MayAwait(t, m)',
           \A k \in Locks \ {l, m} : MayAwait(t, k) => MayAwait(t, k)'
    PROVE  Order'
<1> DEFINE q == Drop(queue, l, t)
<1>1. Proper(queue) /\ InOrder(t) /\ Asked(queue, l, t) /\ (m = l \/ ~ Asked(queue, m, t))
  BY DEF Order, InOrder
<1>2. /\ Proper(q)
      /\ \A k \in Locks, u \in Tasks : Asked(q, k, u) <=> Asked(queue, k, u) /\ ~ (k = l /\ u = t)
      /\ \A k \in Locks, u \in Tasks : Granted(queue, k, u) => Granted(q, k, u)
  BY <1>1, Dropped
<1>3. ~ Asked(q, m, t) /\ queue' = Take(q, m, t, mode)
  BY <1>1, <1>2
<1> HIDE DEF q
<1>4. /\ Proper(queue')
      /\ \A k \in Locks, u \in Tasks : Asked(queue', k, u) <=> Asked(q, k, u) \/ (k = m /\ u = t)
      /\ \A k \in Locks, u \in Tasks : Granted(q, k, u) /\ ~ (k = m /\ u = t) => Granted(queue', k, u)
  BY <1>2, <1>3, Taken
<1>5. ASSUME NEW k \in Locks
      PROVE  /\ Needs(t, k)' <=> Asked(queue', k, t)
             /\ Needs(t, k)' => MayAwait(t, k)' \/ Granted(queue', k, t)
  <2>1. /\ Needs(t, k) <=> Asked(queue, k, t)
        /\ Needs(t, k) => MayAwait(t, k) \/ Granted(queue, k, t)
    BY <1>1 DEF InOrder
  <2> QED BY <1>2, <1>4, <2>1
<1>6. ASSUME NEW u \in Tasks \ {t}, NEW k \in Locks
      PROVE  /\ Asked(queue', k, u) <=> Asked(queue, k, u)
             /\ Granted(queue, k, u) => Granted(queue', k, u)
  BY <1>2, <1>4
<1> QED BY <1>4, <1>5, <1>6, StillOrdered

\* Two guards are dropped at once.
LEMMA BothReleased ==
    ASSUME Order, NEW t \in Tasks, Others(t), NEW l \in Locks, NEW m \in Locks, l # m,
           queue' = Drop(Drop(queue, l, t), m, t),
           Needs(t, l), Needs(t, m),
           \A k \in Locks : Needs(t, k)' <=> Needs(t, k) /\ k # l /\ k # m,
           \A k \in Locks \ {l, m} : MayAwait(t, k) => MayAwait(t, k)'
    PROVE  Order'
<1> DEFINE q == Drop(queue, l, t)
<1>1. Proper(queue) /\ InOrder(t) /\ Asked(queue, l, t) /\ Asked(queue, m, t)
  BY DEF Order, InOrder
<1>2. /\ Proper(q)
      /\ \A k \in Locks, u \in Tasks : Asked(q, k, u) <=> Asked(queue, k, u) /\ ~ (k = l /\ u = t)
      /\ \A k \in Locks, u \in Tasks : Granted(queue, k, u) => Granted(q, k, u)
  BY <1>1, Dropped
<1>3. Asked(q, m, t) /\ queue' = Drop(q, m, t)
  BY <1>1, <1>2
<1> HIDE DEF q
<1>4. /\ Proper(queue')
      /\ \A k \in Locks, u \in Tasks : Asked(queue', k, u) <=> Asked(q, k, u) /\ ~ (k = m /\ u = t)
      /\ \A k \in Locks, u \in Tasks : Granted(q, k, u) => Granted(queue', k, u)
  BY <1>2, <1>3, Dropped
<1>5. ASSUME NEW k \in Locks
      PROVE  /\ Needs(t, k)' <=> Asked(queue', k, t)
             /\ Needs(t, k)' => MayAwait(t, k)' \/ Granted(queue', k, t)
  <2>1. /\ Needs(t, k) <=> Asked(queue, k, t)
        /\ Needs(t, k) => MayAwait(t, k) \/ Granted(queue, k, t)
    BY <1>1 DEF InOrder
  <2> QED BY <1>2, <1>4, <2>1
<1>6. ASSUME NEW u \in Tasks \ {t}, NEW k \in Locks
      PROVE  /\ Asked(queue', k, u) <=> Asked(queue, k, u)
             /\ Granted(queue, k, u) => Granted(queue', k, u)
  BY <1>2, <1>4
<1> QED BY <1>4, <1>5, <1>6, StillOrdered

\* A step without a lock.
LEMMA Gone ==
    ASSUME Order, NEW t \in Tasks, Others(t), UNCHANGED queue,
           \A k \in Locks : Needs(t, k)' <=> Needs(t, k),
           \A k \in Locks : MayAwait(t, k) => MayAwait(t, k)' \/ Holds(t, k)
    PROVE  Order'
<1>1. Proper(queue) /\ InOrder(t)
  BY DEF Order
<1>2. ASSUME NEW k \in Locks
      PROVE  /\ Needs(t, k)' <=> Asked(queue', k, t)
             /\ Needs(t, k)' => MayAwait(t, k)' \/ Granted(queue', k, t)
  <2>1. /\ Needs(t, k) <=> Asked(queue, k, t)
        /\ Needs(t, k) => MayAwait(t, k) \/ Granted(queue, k, t)
    BY <1>1 DEF InOrder
  <2>2. Holds(t, k) => Granted(queue, k, t)
    BY <1>1, Held
  <2> QED BY <2>1, <2>2
<1> QED BY <1>1, <1>2, StillOrdered
--------------------------------------------------------------------------------
\* The types of the state that is not queued.
Types ==
    /\ DOMAIN pc = Tasks
    /\ opened \subseteq Documents /\ registered \subseteq Documents
    /\ connected \subseteq Documents /\ armed \subseteq Documents /\ left \subseteq Documents
    /\ running \in [Documents -> Executions \cup {"none"}]
    /\ execution \in [Tasks -> Executions \cup {"none"}]
    /\ at \in Documents \cup {"none"}
    /\ polls \in 0..Attempts

\* The one lock that a task which does not store holds or awaits.
LockAt(label) ==
    IF label \in OfDocuments THEN "documents"
    ELSE IF label \in OfConfiguration THEN "configuration" ELSE "none"

\* The locks: the documents map, the configuration, the save mutexes and the
\* locks of the executions.
LEMMA LocksAre ==
    /\ "documents" \in Locks \ Documents /\ "configuration" \in Locks \ Documents
    /\ "none" \notin Locks
    /\ Documents \subseteq Locks /\ Executions \subseteq Locks
    /\ \A e \in Executions : e \notin Documents \cup {"documents", "configuration", "none"}
BY ShutdownAssumption DEF Locks, Words

\* The labels without a store, and the lock of each.
Plain ==
    {"idle", "connecting", "spawned", "ended"}
      \cup (OfDocuments \ {"flushing"}) \cup (OfConfiguration \ Storing)

\* The lock of each label.
LEMMA LocksAt ==
    /\ LockAt("idle") = "none" /\ LockAt("connecting") = "none" /\ LockAt("spawned") = "none"
    /\ LockAt("entering") = "none" /\ LockAt("ended") = "none"
    /\ LockAt("lookup") = "documents" /\ LockAt("abandoning") = "documents" /\ LockAt("dismissing") = "documents"
    /\ LockAt("registering") = "documents" /\ LockAt("checking") = "documents" /\ LockAt("removing") = "documents"
    /\ LockAt("counting") = "documents" /\ LockAt("closing") = "documents" /\ LockAt("gathering") = "documents"
    /\ LockAt("polling") = "documents" /\ LockAt("flushing") = "documents"
    /\ LockAt("writing") = "configuration" /\ LockAt("configured") = "configuration" /\ LockAt("creating") = "configuration"
    /\ LockAt("loading") = "configuration" /\ LockAt("loaded") = "configuration" /\ LockAt("changing") = "configuration"
    /\ LockAt("timing") = "configuration" /\ LockAt("leaving") = "configuration" /\ LockAt("deciding") = "configuration"
    /\ LockAt("before") = "configuration" /\ LockAt("after") = "configuration" /\ LockAt("ending") = "configuration"
    /\ \A label \in Plain : label \notin Storing \cup {"flushing"}
<1>1. /\ LockAt("idle") = "none" /\ LockAt("connecting") = "none" /\ LockAt("spawned") = "none"
      /\ LockAt("entering") = "none" /\ LockAt("ended") = "none"
  BY DEF LockAt, OfDocuments, OfConfiguration
<1>2. /\ LockAt("lookup") = "documents" /\ LockAt("abandoning") = "documents" /\ LockAt("dismissing") = "documents"
      /\ LockAt("registering") = "documents" /\ LockAt("checking") = "documents" /\ LockAt("removing") = "documents"
      /\ LockAt("counting") = "documents" /\ LockAt("closing") = "documents" /\ LockAt("gathering") = "documents"
      /\ LockAt("polling") = "documents" /\ LockAt("flushing") = "documents"
  BY DEF LockAt, OfDocuments, OfConfiguration
<1>3. /\ LockAt("writing") = "configuration" /\ LockAt("configured") = "configuration" /\ LockAt("creating") = "configuration"
      /\ LockAt("loading") = "configuration" /\ LockAt("loaded") = "configuration" /\ LockAt("changing") = "configuration"
      /\ LockAt("timing") = "configuration" /\ LockAt("leaving") = "configuration" /\ LockAt("deciding") = "configuration"
      /\ LockAt("before") = "configuration" /\ LockAt("after") = "configuration" /\ LockAt("ending") = "configuration"
  BY DEF LockAt, OfDocuments, OfConfiguration
<1>4. \A label \in Plain : label \notin Storing \cup {"flushing"}
  BY DEF Plain, OfDocuments, OfConfiguration, Storing
<1> QED BY <1>1, <1>2, <1>3, <1>4

\* A step between two labels without a store, or to the begin of one.
LEMMA SimpleStep ==
    ASSUME Order, Types, NEW t \in Tasks, NEW next, Go(t, next), at' = at \/ t = Destroy,
           pc[t] \in Plain \cup {"flushing"}, next \in Plain \/ (next = "entering" /\ t # Destroy),
           \A u \in Tasks \ {t} : execution'[u] = execution[u],
           \/ /\ LockAt(pc[t]) = "none" /\ LockAt(next) # "none"
              /\ \E mode \in {"read", "write"} : queue' = Take(queue, LockAt(next), t, mode)
           \/ /\ LockAt(pc[t]) # "none" /\ LockAt(next) # "none"
              /\ \E mode \in {"read", "write"} :
                    queue' = Take(Drop(queue, LockAt(pc[t]), t), LockAt(next), t, mode)
           \/ /\ LockAt(pc[t]) # "none" /\ LockAt(next) = "none"
              /\ queue' = Drop(queue, LockAt(pc[t]), t)
           \/ LockAt(pc[t]) = "none" /\ LockAt(next) = "none" /\ UNCHANGED queue
    PROVE  Order'
<1> DEFINE from == LockAt(pc[t])
           to == LockAt(next)
<1>0. /\ pc'[t] = next /\ Others(t)
      /\ pc[t] \notin Storing /\ next # "flushing"
      /\ next \in Storing => next = "entering" /\ t # Destroy
  BY OthersGo, LocksAt DEF Types, Go, Storing
<1>1. \A k \in Locks : (Needs(t, k) <=> k = from) /\ (MayAwait(t, k) => k = from)
  BY <1>0, LocksAre DEF Needs, MayAwait, LockAt, OfDocuments, OfConfiguration, Storing, Entered, Saving
<1>2. \A k \in Locks : (Needs(t, k)' <=> k = to) /\ (MayAwait(t, k)' <=> k = to)
  BY <1>0, LocksAre DEF Needs, MayAwait, LockAt, OfDocuments, OfConfiguration, Storing, Entered, Saving
<1>3. /\ from # "none" => from \in Locks \ Documents
      /\ to # "none" => to \in Locks \ Documents
  BY LocksAre DEF LockAt
<1>4. "none" \notin Locks
  BY LocksAre
<1> HIDE DEF from, to
<1>5. CASE from = "none" /\ to # "none" /\ \E mode \in {"read", "write"} : queue' = Take(queue, to, t, mode)
  BY <1>0, <1>1, <1>2, <1>3, <1>4, <1>5, Awaited
<1>6. CASE /\ from # "none" /\ to # "none"
           /\ \E mode \in {"read", "write"} : queue' = Take(Drop(queue, from, t), to, t, mode)
  BY <1>0, <1>1, <1>2, <1>3, <1>4, <1>6, Exchanged
<1>7. CASE from # "none" /\ to = "none" /\ queue' = Drop(queue, from, t)
  BY <1>0, <1>1, <1>2, <1>3, <1>4, <1>7, Released
<1>8. CASE from = "none" /\ to = "none" /\ UNCHANGED queue
  BY <1>0, <1>1, <1>2, <1>3, <1>4, <1>8, Gone
<1> QED BY <1>5, <1>6, <1>7, <1>8 DEF from, to

\* What a step of t has to show for Places; it may spawn an unload.
LEMMA PlacesKept ==
    ASSUME Places, Types, NEW t \in Tasks, NEW next \in Labels(t[1]),
           \/ Go(t, next)
           \/ \E d \in Documents :
                 t # <<"unload", d>> /\ pc' = Spawned([pc EXCEPT ![t] = next], d),
           \A u \in Tasks \ {t} : execution'[u] = execution[u],
           next \in Entered => execution'[t] \in Executions,
           t # Destroy => UNCHANGED at,
           t = Destroy /\ next \in Storing => at' \in Documents,
           opened \subseteq opened',
           t[1] = "open" => t[2] \in opened'
    PROVE  Places'
<1>0. DOMAIN pc = Tasks
  BY DEF Types
<1>1. pc'[t] = next
  <2>1. CASE Go(t, next)
    BY <1>0, <2>1 DEF Go
  <2>2. CASE \E d \in Documents : t # <<"unload", d>> /\ pc' = Spawned([pc EXCEPT ![t] = next], d)
    BY <1>0, <2>2 DEF Spawned
  <2> QED BY <2>1, <2>2
<1>2. ASSUME NEW u \in Tasks \ {t}
      PROVE pc'[u] = pc[u] \/ (u[1] = "unload" /\ pc[u] = "idle" /\ pc'[u] = "spawned")
  <2>1. CASE Go(t, next)
    BY <1>0, <2>1 DEF Go
  <2>2. CASE \E d \in Documents : t # <<"unload", d>> /\ pc' = Spawned([pc EXCEPT ![t] = next], d)
    <3>1. PICK d \in Documents : t # <<"unload", d>> /\ pc' = Spawned([pc EXCEPT ![t] = next], d)
      BY <2>2
    <3>2. <<"unload", d>> \in Tasks /\ <<"unload", d>>[1] = "unload"
      BY Named DEF Kinds
    <3> QED BY <1>0, <3>1, <3>2 DEF Spawned
  <2> QED BY <2>1, <2>2
<1>3. ASSUME NEW u \in Tasks
      PROVE  pc'[u] \in Labels(u[1]) /\ (pc'[u] \in Entered => execution'[u] \in Executions)
  <2>1. CASE u = t
    BY <1>1, <2>1
  <2>2. CASE u # t /\ pc'[u] = pc[u]
    BY <2>2 DEF Places
  <2>3. CASE u # t /\ pc'[u] # pc[u]
    <3>1. u[1] = "unload" /\ pc[u] = "idle" /\ pc'[u] = "spawned"
      BY <1>2, <2>3
    <3> QED BY <3>1 DEF Labels, UnloadLabels, Entered
  <2> QED BY <2>1, <2>2, <2>3
<1>4. pc'[Destroy] \in Storing => at' \in Documents
  <2>1. CASE t = Destroy
    BY <1>1, <2>1
  <2>2. CASE t # Destroy
    BY <1>0, <1>2, <2>2, Named DEF Places
  <2> QED BY <2>1, <2>2
<1>5. ASSUME NEW e \in Documents, e \notin opened' PROVE pc'[<<"open", e>>] = "idle"
  <2>1. e \notin opened /\ <<"open", e>> \in Tasks /\ <<"open", e>> # t /\ <<"open", e>>[1] # "unload"
    BY <1>5, Named DEF Kinds
  <2> QED BY <1>2, <2>1 DEF Places
<1> QED BY <1>3, <1>4, <1>5 DEF Places

\* t goes from label x to label y, and drops and takes the locks of these.
Passes(t, x, y) ==
    /\ pc[t] = x /\ Go(t, y)
    /\ \/ /\ LockAt(x) = "none" /\ LockAt(y) # "none"
          /\ \E mode \in {"read", "write"} : queue' = Take(queue, LockAt(y), t, mode)
       \/ /\ LockAt(x) # "none" /\ LockAt(y) # "none"
          /\ \E mode \in {"read", "write"} :
                queue' = Take(Drop(queue, LockAt(x), t), LockAt(y), t, mode)
       \/ /\ LockAt(x) # "none" /\ LockAt(y) = "none"
          /\ queue' = Drop(queue, LockAt(x), t)
       \/ LockAt(x) = "none" /\ LockAt(y) = "none" /\ UNCHANGED queue

\* What every step keeps of labels and queues.
Frame == DOMAIN pc = Tasks /\ Places /\ Order

\* A step outside a store that passes from lock to lock keeps the frame.
LEMMA PlainStep ==
    ASSUME Types, Places, Order, NEW t \in Tasks, t # Destroy,
           NEW x \in Plain, NEW y \in Plain \cup {"entering"}, y \in Labels(t[1]), Passes(t, x, y),
           UNCHANGED <<execution, at>>,
           opened \subseteq opened', t[1] = "open" => t[2] \in opened'
    PROVE  Frame'
<1>1. Go(t, y) /\ pc[t] = x
  BY DEF Passes
<1>2. DOMAIN pc' = Tasks
  BY <1>1 DEF Types, Go
<1>3. y \notin Entered
  BY LocksAt DEF Storing, Entered
<1>4. Places'
  BY <1>1, <1>3, PlacesKept
<1>5. Order'
  BY <1>1, SimpleStep DEF Passes
<1> QED BY <1>2, <1>4, <1>5 DEF Frame

\* The steps of configure().
LEMMA StepConfigure ==
    ASSUME Types, Places, Order, ConfigureBegin \/ ConfigureWrite \/ ConfigureEnd
    PROVE  Types' /\ Frame'
<1> DEFINE t == Configure
<1>0. /\ t \in Tasks /\ t # Destroy /\ t[1] = "configure"
      /\ {"idle", "writing", "configured"} \subseteq Plain \cap Labels("configure")
  BY Named DEF Labels, Plain, OfConfiguration, Storing
<1>1. \/ Passes(t, "idle", "writing") 
      \/ Passes(t, "writing", "configured")
      \/ Passes(t, "configured", "idle")
  BY LocksAt DEF ConfigureBegin, ConfigureWrite, ConfigureEnd, HookEnds, Await, Exchange, Release, Passes
<1>2. UNCHANGED <<docVars, debVars, endVars>>
  BY DEF ConfigureBegin, ConfigureWrite, ConfigureEnd
<1>3. Frame'
  BY <1>0, <1>1, <1>2, PlainStep DEF docVars, debVars, endVars
<1>4. Types'
  BY <1>2, <1>3 DEF Frame, Types, docVars, debVars, endVars
<1> QED BY <1>3, <1>4

\* The steps of create_document.
LEMMA StepOpen ==
    ASSUME Types, Places, Order, NEW d \in Documents,
           OpenBegin(d) \/ OpenLookup(d) \/ Load(d) \/ Abandon(d) \/ Register(d) \/ Connect(d)
    PROVE  Types' /\ Frame'
<1> DEFINE t == <<"open", d>>
<1>0. /\ t \in Tasks /\ t # Destroy /\ t[1] = "open" /\ t[2] = d
      /\ {"idle", "lookup", "creating", "loading", "abandoning", "dismissing", "loaded", "registering",
          "connecting"} \subseteq Plain \cap Labels("open")
  BY Named DEF Labels, Plain, OfDocuments, OfConfiguration, Storing, Kinds
<1>1. \/ Passes(t, "idle", "lookup") 
      \/ Passes(t, "lookup", "creating")
      \/ Passes(t, "creating", "loading")
      \/ Passes(t, "loading", "loaded")
      \/ Passes(t, "loading", "abandoning")
      \/ Passes(t, "abandoning", "dismissing")
      \/ Passes(t, "dismissing", "idle")
      \/ Passes(t, "loaded", "registering")
      \/ Passes(t, "registering", "connecting")
      \/ Passes(t, "connecting", "idle")
  <2>1. CASE OpenBegin(d)
    BY <1>0, <2>1, LocksAt DEF OpenBegin, Await, Passes, Places
  <2>2. CASE OpenLookup(d)
    BY <2>2, LocksAt DEF OpenLookup, HookEnds, Exchange, Passes
  <2>3. CASE Load(d)
    BY <2>3, LocksAt DEF Load, HookEnds, Exchange, Passes
  <2>4. CASE Abandon(d)
    BY <2>4, LocksAt DEF Abandon, Exchange, Release, Passes
  <2>5. CASE Register(d)
    BY <2>5, LocksAt DEF Register, HookEnds, Exchange, Release, Passes
  <2>6. CASE Connect(d)
    BY <2>6, LocksAt DEF Connect, Passes
  <2> QED BY <2>1, <2>2, <2>3, <2>4, <2>5, <2>6
<1>2. /\ opened' \in {opened, opened \cup {d}} /\ registered' \in {registered, registered \cup {d}}
      /\ connected' \in {connected, connected \cup {d}}
      /\ d \in opened'
      /\ UNCHANGED <<debVars, endVars>>
  BY DEF OpenBegin, OpenLookup, Load, Abandon, Register, Connect, HookEnds, Places, docVars
<1>3. Frame'
  BY <1>0, <1>1, <1>2, PlainStep DEF debVars, endVars
<1>4. Types'
  BY <1>2, <1>3 DEF Frame, Types, debVars, endVars
<1> QED BY <1>3, <1>4

\* The steps of an edit's task before its store.
LEMMA StepUpdate ==
    ASSUME Types, Places, Order, NEW d \in Documents, Edit(d) \/ UpdateTask(d) \/ Debounce(d)
    PROVE  Types' /\ Frame'
<1> DEFINE t == <<"update", d>>
<1>0. /\ t \in Tasks /\ t # Destroy /\ t[1] = "update" /\ t[2] = d
      /\ {"idle", "changing", "timing"} \subseteq Plain \cap Labels("update")
      /\ "entering" \in Labels("update")
  BY Named DEF Labels, Plain, OfConfiguration, Storing, Kinds
<1>1. \/ Passes(t, "idle", "changing")
      \/ Passes(t, "changing", "timing")
      \/ Passes(t, "timing", "idle")
      \/ Passes(t, "timing", "entering")
  <2>1. CASE Edit(d)
    BY <2>1, LocksAt DEF Edit, Await, Passes
  <2>2. CASE UpdateTask(d)
    BY <2>2, LocksAt DEF UpdateTask, HookEnds, Exchange, Passes
  <2>3. CASE Debounce(d)
    BY <2>3, LocksAt DEF Debounce, HookEnds, Release, Passes
  <2> QED BY <2>1, <2>2, <2>3
<1>2. UNCHANGED <<docVars, running, execution, endVars>> /\ armed' \subseteq Documents
  BY DEF Edit, UpdateTask, Debounce, debVars, Types
<1>3. Frame'
  BY <1>0, <1>1, <1>2, PlainStep DEF docVars, endVars
<1>4. Types'
  BY <1>2, <1>3 DEF Frame, Types, docVars, endVars
<1> QED BY <1>3, <1>4

\* The steps of a close callback before its store or unload.
LEMMA StepClose ==
    ASSUME Types, Places, Order, NEW d \in Documents, Disconnect(d) \/ Left(d) \/ Decide(d)
    PROVE  Types' /\ Frame'
<1> DEFINE t == <<"close", d>>
<1>0. /\ t \in Tasks /\ t # Destroy /\ t[1] = "close" /\ t[2] = d
      /\ {"idle", "leaving", "deciding", "spawned"} \subseteq Plain \cap Labels("close")
      /\ "entering" \in Labels("close")
  BY Named DEF Labels, Plain, OfConfiguration, Storing, Kinds, UnloadLabels
<1>1. \/ Passes(t, "idle", "leaving")
      \/ Passes(t, "leaving", "deciding")
      \/ Passes(t, "leaving", "spawned")
      \/ Passes(t, "deciding", "idle")
      \/ Passes(t, "deciding", "entering")
  <2>1. CASE Disconnect(d)
    BY <2>1, LocksAt DEF Disconnect, Await, Passes
  <2>2. CASE Left(d)
    BY <2>2, LocksAt DEF Left, HookEnds, Exchange, Release, Passes
  <2>3. CASE Decide(d)
    BY <2>3, LocksAt DEF Decide, Release, Passes
  <2> QED BY <2>1, <2>2, <2>3
<1>2. UNCHANGED <<opened, registered, debVars, endVars>> /\ connected' \subseteq Documents
  BY DEF Disconnect, Left, Decide, docVars, Types
<1>3. Frame'
  BY <1>0, <1>1, <1>2, PlainStep DEF debVars, endVars
<1>4. Types'
  BY <1>2, <1>3 DEF Frame, Types, debVars, endVars
<1> QED BY <1>3, <1>4

\* A timer that fires keeps the types and the frame.
LEMMA StepFire ==
    ASSUME Types, Places, Order, NEW d \in Documents, Fire(d)
    PROVE  Types' /\ Frame'
<1> DEFINE t == <<"timer", d>>
<1>0. /\ t \in Tasks /\ t # Destroy /\ t[1] = "timer" /\ "idle" \in Plain
      /\ "entering" \in Labels("timer")
  BY Named DEF Labels, Plain, Storing, Kinds
<1>1. Passes(t, "idle", "entering") /\ UNCHANGED <<docVars, debVars, endVars>>
  BY LocksAt DEF Fire, Passes
<1>2. Frame'
  BY <1>0, <1>1, PlainStep DEF docVars, debVars, endVars
<1>3. Types'
  BY <1>1, <1>2 DEF Frame, Types, docVars, debVars, endVars
<1> QED BY <1>2, <1>3

\* The steps of an unload.
LEMMA StepUnload ==
    ASSUME Types, Places, Order, NEW d \in Documents, NEW t \in Unloaders(d),
           UnloadBegin(t) \/ UnloadCheck(t) \/ UnloadDecide(t) \/ UnloadRemove(t)
    PROVE  Types' /\ Frame'
<1>0. /\ t \in Tasks /\ t # Destroy /\ t[1] \in {"close", "unload"} /\ t[2] = d
      /\ \A x \in {"idle"} \cup UnloadLabels : x \in Labels(t[1])
      /\ {"idle"} \cup UnloadLabels \subseteq Plain
  <2>1. t \in Tasks /\ t # Destroy /\ t[1] \in {"close", "unload"} /\ t[2] = d
    BY Named DEF Kinds, Unloaders
  <2>2. \A x \in {"idle"} \cup UnloadLabels : x \in Labels("close") /\ x \in Labels("unload")
    BY DEF Labels
  <2>3. {"idle"} \cup UnloadLabels \subseteq Plain
    BY DEF UnloadLabels, Plain, OfDocuments, OfConfiguration, Storing
  <2> QED BY <2>1, <2>2, <2>3
<1>1. \/ Passes(t, "spawned", "checking")
      \/ Passes(t, "spawned", "idle")
      \/ Passes(t, "checking", "idle")
      \/ Passes(t, "checking", "before")
      \/ Passes(t, "before", "idle")
      \/ Passes(t, "before", "removing")
      \/ Passes(t, "removing", "after")
      \/ Passes(t, "after", "idle")
  <2>1. CASE UnloadBegin(t)
    BY <2>1, LocksAt DEF UnloadBegin, Await, Passes
  <2>2. CASE UnloadCheck(t)
    BY <2>2, LocksAt DEF UnloadCheck, Exchange, Release, Passes
  <2>3. CASE UnloadDecide(t)
    BY <2>3, LocksAt DEF UnloadDecide, HookEnds, Exchange, Release, Passes
  <2>4. CASE UnloadRemove(t)
    BY <2>4, LocksAt DEF UnloadRemove, HookEnds, Exchange, Release, Passes
  <2> QED BY <2>1, <2>2, <2>3, <2>4
<1>2. /\ registered' \in {registered, registered \ {t[2]}}
      /\ UNCHANGED <<opened, connected, debVars, endVars>>
  BY DEF UnloadBegin, UnloadCheck, UnloadDecide, UnloadRemove, docVars
<1>3. Frame'
  <2>1. ASSUME NEW x \in {"idle"} \cup UnloadLabels, NEW y \in {"idle"} \cup UnloadLabels, Passes(t, x, y)
        PROVE  Frame'
    BY <1>0, <1>2, <2>1, PlainStep DEF debVars, endVars
  <2> QED BY <1>1, <2>1 DEF UnloadLabels
<1>4. Types'
  BY <1>2, <1>3 DEF Frame, Types, debVars, endVars
<1> QED BY <1>3, <1>4
--------------------------------------------------------------------------------
\* Where t stores, and what it needs there.
LEMMA Stores ==
    ASSUME Places, NEW t \in Tasks, pc[t] \in Storing
    PROVE  /\ Doc(t) \in Documents
           /\ Storing \subseteq Labels(t[1]) /\ t[1] # "open" /\ After(t) \in Labels(t[1])
           /\ \A d \in Documents : t # <<"unload", d>>
           /\ t = Destroy => at \in Documents
<1>1. \A k \in {"update", "timer", "close", "destroy"} : Storing \subseteq Labels(k) /\ "idle" \in Labels(k)
  BY DEF Labels
<1>2. "flushing" \in Labels("destroy")
  BY DEF Labels
<1> QED BY <1>1, <1>2, Storers, Named DEF After, Places

\* The locks of a task that stores.
StoreNeeds(t, label, e, k) ==
    \/ t = Destroy /\ k = "documents"
    \/ label \in Entered /\ k = e
    \/ label \in Saving /\ k = Doc(t)
    \/ label \in {"storing", "stored"} /\ k = "configuration"
StoreAwaits(t, label, e, k) ==
    \/ label = "queued" /\ k = e
    \/ label = "saving" /\ k = Doc(t)
    \/ label \in {"storing", "stored"} /\ k = "configuration"

\* What a task that stores holds and awaits, before a step and after it.
LEMMA StoreLocks ==
    ASSUME NEW t \in Tasks, NEW label \in Storing, NEW e, NEW k \in Locks,
           Doc(t) \in Documents, Doc(t)' = Doc(t), label \in Entered => e \in Executions
    PROVE  /\ pc[t] = label /\ execution[t] = e =>
                /\ Needs(t, k) <=> StoreNeeds(t, label, e, k)
                /\ MayAwait(t, k) <=> StoreAwaits(t, label, e, k)
           /\ pc'[t] = label /\ execution'[t] = e =>
                /\ Needs(t, k)' <=> StoreNeeds(t, label, e, k)
                /\ MayAwait(t, k)' <=> StoreAwaits(t, label, e, k)
<1>1. /\ label \notin OfDocuments
      /\ label \in OfConfiguration <=> label \in {"storing", "stored"}
      /\ "queued" \in Entered
  BY DEF OfDocuments, OfConfiguration, Storing, Entered
<1> DEFINE doc == Doc(t)
<1>2. doc \in Documents /\ Doc(t) = doc /\ Doc(t)' = doc
  OBVIOUS
<1> HIDE DEF doc
<1>3. ASSUME pc[t] = label, execution[t] = e
      PROVE  /\ Needs(t, k) <=> StoreNeeds(t, label, e, k)
             /\ MayAwait(t, k) <=> StoreAwaits(t, label, e, k)
  BY <1>1, <1>2, <1>3, LocksAre DEF Needs, MayAwait, StoreNeeds, StoreAwaits
<1>4. ASSUME pc'[t] = label, execution'[t] = e
      PROVE  /\ Needs(t, k)' <=> StoreNeeds(t, label, e, k)
             /\ MayAwait(t, k)' <=> StoreAwaits(t, label, e, k)
  BY <1>1, <1>2, <1>4, LocksAre DEF Needs, MayAwait, StoreNeeds, StoreAwaits
<1> QED BY <1>3, <1>4

\* What a step inside a store keeps, and the locks before and after it.
LEMMA StoreStep ==
    ASSUME Types, Places, NEW t \in Tasks, pc[t] \in Storing, NEW next \in Storing,
           Go(t, next) \/ pc' = Spawned([pc EXCEPT ![t] = next], Doc(t)),
           UNCHANGED <<opened, at>>, next \in Entered => execution'[t] \in Executions,
           execution' = [execution EXCEPT ![t] = execution'[t]],
           Go(t, next) \/ UNCHANGED execution
    PROVE  /\ DOMAIN pc' = Tasks /\ Places' /\ Others(t)
           /\ Doc(t) \in Documents /\ (pc[t] \in Entered => execution[t] \in Executions)
           /\ \A k \in Locks :
                /\ Needs(t, k) <=> StoreNeeds(t, pc[t], execution[t], k)
                /\ MayAwait(t, k) <=> StoreAwaits(t, pc[t], execution[t], k)
                /\ Needs(t, k)' <=> StoreNeeds(t, next, execution'[t], k)
                /\ MayAwait(t, k)' <=> StoreAwaits(t, next, execution'[t], k)
<1> DEFINE d == Doc(t)
<1>1. /\ d \in Documents /\ next \in Labels(t[1]) /\ t[1] # "open" /\ t # <<"unload", d>>
      /\ t = Destroy => at \in Documents
  BY Stores
<1>2. \A u \in Tasks \ {t} : execution'[u] = execution[u]
  BY DEF Types
<1>3. Doc(t)' = d
  BY DEF Doc
<1>4. pc[t] \in Entered => execution[t] \in Executions
  BY DEF Places
<1> HIDE DEF d
<1>5. Go(t, next) \/ pc' = Spawned([pc EXCEPT ![t] = next], d)
  BY DEF d
<1>6. DOMAIN pc' = Tasks /\ pc'[t] = next
  BY <1>1, <1>5 DEF Types, Go, Spawned
<1>7. Others(t)
  <2>1. CASE Go(t, next)
    BY <1>2, <2>1, OthersGo DEF Types
  <2>2. CASE ~ Go(t, next)
    BY <1>1, <1>5, <2>2, OthersSpawned DEF Types
  <2> QED BY <2>1, <2>2
<1>8. Places'
  BY <1>1, <1>2, <1>5, PlacesKept
<1>9. Doc(t) = d
  BY DEF d
<1>10. ASSUME NEW k \in Locks
       PROVE  /\ Needs(t, k) <=> StoreNeeds(t, pc[t], execution[t], k)
              /\ MayAwait(t, k) <=> StoreAwaits(t, pc[t], execution[t], k)
              /\ Needs(t, k)' <=> StoreNeeds(t, next, execution'[t], k)
              /\ MayAwait(t, k)' <=> StoreAwaits(t, next, execution'[t], k)
  BY <1>1, <1>3, <1>4, <1>6, <1>9, StoreLocks
<1> QED BY <1>1, <1>4, <1>6, <1>7, <1>8, <1>9, <1>10
--------------------------------------------------------------------------------
\* The first step of a store creates a lock object or finds one.
LEMMA StepEnter ==
    ASSUME Types, Places, Order, NEW t \in Tasks, Enter(t)
    PROVE  Types' /\ Frame'
<1> DEFINE d == Doc(t)
           e == running'[d]
<1>1. /\ pc[t] = "entering" /\ Go(t, "queued") /\ queue' = Take(queue, e, t, "write")
      /\ execution' = [execution EXCEPT ![t] = e]
      /\ UNCHANGED <<docVars, armed, endVars>>
  BY DEF Enter, Await
<1>2. d \in Documents
  BY <1>1, Stores DEF Storing
<1>3. running' \in [Documents -> Executions \cup {"none"}] /\ e \in Executions
  <2> DEFINE Free == {o \in Executions : queue[o] = <<>>}
  <2>1. CASE running[d] = "none"
    <3>1. Free # {} /\ running' = [running EXCEPT ![d] = CHOOSE o \in Free : TRUE]
      BY <2>1 DEF Enter
    <3>2. (CHOOSE o \in Free : TRUE) \in Executions
      BY <3>1
    <3> HIDE DEF d
    <3> QED BY <1>2, <3>1, <3>2 DEF Types
  <2>2. CASE running[d] # "none"
    <3>1. running' = running
      BY <2>2 DEF Enter
    <3> QED BY <1>2, <2>2, <3>1 DEF Types
  <2> QED BY <2>1, <2>2
<1>4. execution' \in [Tasks -> Executions \cup {"none"}] /\ execution'[t] = e
  BY <1>1, <1>3 DEF Types
<1> HIDE DEF d, e
<1>5. /\ DOMAIN pc' = Tasks /\ Places' /\ Others(t)
      /\ \A k \in Locks :
           /\ Needs(t, k) <=> StoreNeeds(t, "entering", execution[t], k)
           /\ MayAwait(t, k) <=> StoreAwaits(t, "entering", execution[t], k)
           /\ Needs(t, k)' <=> StoreNeeds(t, "queued", e, k)
           /\ MayAwait(t, k)' <=> StoreAwaits(t, "queued", e, k)
  BY <1>1, <1>3, <1>4, StoreStep DEF docVars, endVars, Storing
<1>6. e \in Locks /\ e \notin Documents /\ e # "documents"
  BY <1>3, LocksAre
<1>7. \A k \in Locks : /\ Needs(t, k) <=> t = Destroy /\ k = "documents"
                       /\ ~ MayAwait(t, k)
                       /\ Needs(t, k)' <=> (t = Destroy /\ k = "documents") \/ k = e
                       /\ MayAwait(t, k)' <=> k = e
  BY <1>5 DEF StoreNeeds, StoreAwaits, Entered, Saving
<1>8. Order'
  BY <1>1, <1>5, <1>6, <1>7, Awaited
<1>9. Types'
  BY <1>1, <1>3, <1>4, <1>5 DEF Types, docVars, endVars
<1> QED BY <1>5, <1>8, <1>9 DEF Frame

\* The closure takes the save_mutex, and then the configuration.
LEMMA StepSave ==
    ASSUME Types, Places, Order, NEW t \in Tasks, Save(t)
    PROVE  Types' /\ Frame'
<1> DEFINE d == Doc(t)
           e == execution[t]
<1>1. \/ /\ pc[t] = "queued" /\ Go(t, "saving") /\ Holds(t, e)
         /\ queue' = Take(queue, d, t, "write")
      \/ /\ pc[t] = "saving" /\ Go(t, "storing") /\ Holds(t, d)
         /\ queue' = Take(queue, "configuration", t, "read")
  BY DEF Save, Await
<1>2. UNCHANGED <<docVars, debVars, endVars>> /\ execution' = [execution EXCEPT ![t] = e]
  BY DEF Save, debVars, Types
<1>3. PICK next \in {"saving", "storing"} :
         Go(t, next) /\ pc[t] = IF next = "saving" THEN "queued" ELSE "saving"
  BY <1>1
<1>4. pc[t] \in Storing /\ next \in Storing /\ pc[t] \in Entered /\ e \in Executions
  BY <1>3 DEF Storing, Entered, Places
<1>5. d \in Documents /\ Doc(t) = d /\ execution'[t] = e
  BY <1>2, <1>4, Stores DEF debVars
<1> HIDE DEF d, e
<1>6. /\ DOMAIN pc' = Tasks /\ Places' /\ Others(t)
      /\ \A k \in Locks :
           /\ Needs(t, k) <=> StoreNeeds(t, pc[t], execution[t], k)
           /\ MayAwait(t, k) <=> StoreAwaits(t, pc[t], execution[t], k)
           /\ Needs(t, k)' <=> StoreNeeds(t, next, e, k)
           /\ MayAwait(t, k)' <=> StoreAwaits(t, next, e, k)
  BY <1>2, <1>3, <1>4, <1>5, StoreStep DEF docVars, endVars
<1>7. execution[t] = e /\ e \in Locks \ Documents /\ e # "documents" /\ e # "configuration"
  BY <1>4, LocksAre DEF e
<1>8. Order'
  <2>1. CASE next = "saving"
    <3>1. \A k \in Locks :
            /\ Needs(t, k) <=> (t = Destroy /\ k = "documents") \/ k = e
            /\ MayAwait(t, k) <=> k = e
            /\ Needs(t, k)' <=> (t = Destroy /\ k = "documents") \/ k = e \/ k = d
            /\ MayAwait(t, k)' <=> k = d
      BY <1>3, <1>5, <1>6, <1>7, <2>1 DEF StoreNeeds, StoreAwaits, Entered, Saving
    <3>2. Holds(t, e) /\ queue' = Take(queue, d, t, "write")
      BY <1>1, <1>3, <2>1
    <3> QED BY <1>5, <1>6, <1>7, <3>1, <3>2, LocksAre, Awaited
  <2>2. CASE next = "storing"
    <3>1. \A k \in Locks :
            /\ Needs(t, k) <=> (t = Destroy /\ k = "documents") \/ k = e \/ k = d
            /\ MayAwait(t, k) <=> k = d
            /\ Needs(t, k)' <=> (t = Destroy /\ k = "documents") \/ k = e \/ k = d \/ k = "configuration"
            /\ MayAwait(t, k)' <=> k = "configuration"
      BY <1>3, <1>5, <1>6, <1>7, <2>2 DEF StoreNeeds, StoreAwaits, Entered, Saving
    <3>2. Holds(t, d) /\ queue' = Take(queue, "configuration", t, "read")
      BY <1>1, <1>3, <2>2
    <3> QED BY <1>5, <1>6, <1>7, <3>1, <3>2, LocksAre, Awaited
  <2> QED BY <2>1, <2>2
<1>9. Types'
  BY <1>2, <1>6 DEF Types, docVars, debVars, endVars
<1> QED BY <1>6, <1>8, <1>9 DEF Frame

\* The store hooks and what follows them keep the types and the frame.
LEMMA StepStore ==
    ASSUME Types, Places, Order, NEW t \in Tasks, Store(t) \/ StoreEnds(t)
    PROVE  Types' /\ Frame'
<1> DEFINE d == Doc(t)
           e == execution[t]
<1>1. /\ pc[t] \in {"storing", "stored"} /\ UNCHANGED <<docVars, debVars, endVars>>
      /\ execution' = [execution EXCEPT ![t] = e]
  BY DEF Store, StoreEnds, HookEnds, debVars, Types
<1>2. \/ Go(t, "stored") /\ queue' = Take(Drop(queue, "configuration", t), "configuration", t, "read")
      \/ /\ Go(t, "finishing") \/ pc' = Spawned([pc EXCEPT ![t] = "finishing"], d)
         /\ queue' = Drop(Drop(queue, "configuration", t), d, t)
  BY DEF Store, StoreEnds, Exchange, Go
<1>3. PICK next \in {"stored", "finishing"} :
        /\ next = "stored" => /\ Go(t, next)
                              /\ queue' = Take(Drop(queue, "configuration", t), "configuration", t, "read")
        /\ next = "finishing" => /\ Go(t, next) \/ pc' = Spawned([pc EXCEPT ![t] = next], d)
                                 /\ queue' = Drop(Drop(queue, "configuration", t), d, t)
  BY <1>2
<1>4. /\ pc[t] \in Storing /\ pc[t] \in Entered /\ pc[t] \in Saving /\ e \in Executions
      /\ next \in Storing /\ next \in Entered
      /\ Go(t, next) \/ pc' = Spawned([pc EXCEPT ![t] = next], d)
  BY <1>1, <1>3 DEF Storing, Entered, Saving, Places
<1>5. d \in Documents /\ Doc(t) = d /\ execution'[t] = e /\ UNCHANGED execution
  BY <1>1, <1>4, Stores DEF debVars
<1> HIDE DEF d, e
<1>6. /\ DOMAIN pc' = Tasks /\ Places' /\ Others(t)
      /\ \A k \in Locks :
           /\ Needs(t, k) <=> StoreNeeds(t, pc[t], execution[t], k)
           /\ MayAwait(t, k) <=> StoreAwaits(t, pc[t], execution[t], k)
           /\ Needs(t, k)' <=> StoreNeeds(t, next, e, k)
           /\ MayAwait(t, k)' <=> StoreAwaits(t, next, e, k)
  BY <1>1, <1>4, <1>5, StoreStep DEF docVars, endVars
<1>7. execution[t] = e /\ e \in Locks \ Documents /\ e # "documents" /\ e # "configuration"
  BY <1>4, LocksAre DEF e
<1>8. \A k \in Locks :
        /\ Needs(t, k) <=> (t = Destroy /\ k = "documents") \/ k = e \/ k = d \/ k = "configuration"
        /\ MayAwait(t, k) <=> k = "configuration"
  BY <1>1, <1>4, <1>5, <1>6, <1>7 DEF StoreNeeds, StoreAwaits
<1>9. Order'
  <2>1. CASE next = "stored"
    <3>1. \A k \in Locks : (Needs(t, k)' <=> Needs(t, k)) /\ (MayAwait(t, k)' <=> k = "configuration")
      BY <1>5, <1>6, <1>8, <2>1 DEF StoreNeeds, StoreAwaits, Entered, Saving
    <3> QED BY <1>3, <1>6, <1>8, <2>1, <3>1, LocksAre, Exchanged
  <2>2. CASE next = "finishing"
    <3>1. \A k \in Locks : Needs(t, k)' <=> (t = Destroy /\ k = "documents") \/ k = e
      BY <1>5, <1>6, <2>2 DEF StoreNeeds, Entered, Saving
    <3>2. d # "configuration" /\ d # "documents" /\ d # e /\ d \in Locks
      BY <1>5, <1>7, LocksAre
    <3> QED BY <1>3, <1>6, <1>7, <1>8, <2>2, <3>1, <3>2, LocksAre, BothReleased
  <2> QED BY <2>1, <2>2
<1>10. Types'
  BY <1>1, <1>6 DEF Types, docVars, debVars, endVars
<1> QED BY <1>6, <1>9, <1>10 DEF Frame

\* The end of an execution, which removes whatever lock object is there.
LEMMA StepFinish ==
    ASSUME Types, Places, Order, NEW t \in Tasks, Finish(t)
    PROVE  Types' /\ Frame'
<1> DEFINE d == Doc(t)
           e == execution[t]
           next == After(t)
<1>1. /\ pc[t] = "finishing" /\ Go(t, next) /\ queue' = Drop(queue, e, t)
      /\ running' = [running EXCEPT ![d] = "none"] /\ execution' = [execution EXCEPT ![t] = "none"]
      /\ UNCHANGED <<docVars, armed, endVars>>
  BY DEF Finish, Release
<1>2. pc[t] \in Storing /\ pc[t] \in Entered /\ e \in Executions
  BY <1>1 DEF Storing, Entered, Places
<1>3. /\ d \in Documents /\ next \in Labels(t[1]) /\ t[1] # "open"
      /\ t = Destroy => next = "flushing"
      /\ t # Destroy => next = "idle"
  BY <1>2, Stores DEF After
<1>4. /\ running' \in [Documents -> Executions \cup {"none"}]
      /\ execution' \in [Tasks -> Executions \cup {"none"}]
      /\ \A u \in Tasks \ {t} : execution'[u] = execution[u]
  BY <1>1 DEF Types
<1>5. Doc(t)' = d
  BY <1>1 DEF Doc, endVars
<1>6. Doc(t) = d /\ execution[t] = e
  OBVIOUS
<1> HIDE DEF d, e, next
<1>7. DOMAIN pc' = Tasks /\ pc'[t] = next
  BY <1>1 DEF Types, Go
<1>8. Others(t)
  BY <1>1, <1>4, OthersGo DEF Types, endVars
<1>9. Places'
  <2>1. next \notin Storing /\ next \notin Entered
    BY <1>3 DEF Storing, Entered
  <2> QED BY <1>1, <1>3, <1>4, <2>1, PlacesKept DEF docVars, endVars
<1>10. e \in Locks \ Documents /\ e # "documents" /\ e # "configuration"
  BY <1>2, LocksAre
<1>11. \A k \in Locks : /\ Needs(t, k) <=> (t = Destroy /\ k = "documents") \/ k = e
                        /\ ~ MayAwait(t, k)
  <2>1. ASSUME NEW k \in Locks
        PROVE  /\ Needs(t, k) <=> StoreNeeds(t, "finishing", e, k)
               /\ MayAwait(t, k) <=> StoreAwaits(t, "finishing", e, k)
    BY <1>1, <1>2, <1>3, <1>5, <1>6, StoreLocks
  <2> QED BY <2>1 DEF StoreNeeds, StoreAwaits, Entered, Saving
<1>12. \A k \in Locks : Needs(t, k)' <=> t = Destroy /\ k = "documents"
  BY <1>3, <1>7 DEF Needs, OfDocuments, OfConfiguration, Storing, Entered, Saving
<1>13. Order'
  BY <1>1, <1>8, <1>10, <1>11, <1>12, Released
<1>14. Types'
  BY <1>1, <1>4, <1>7 DEF Types, docVars, endVars
<1> QED BY <1>7, <1>9, <1>13, <1>14 DEF Frame
--------------------------------------------------------------------------------
\* The steps of destroy.
LEMMA StepDestroy ==
    ASSUME Types, Places, Order,
           \/ DestroyBegin \/ DestroyCount \/ DestroyClose \/ FlushBegin
           \/ (\E d \in Documents : FlushNext(d)) \/ FlushEnd \/ Poll \/ DestroyEnd
    PROVE  Types' /\ Frame'
<1> DEFINE t == Destroy
           Flushes == \E d \in Documents : FlushNext(d)
<1>0. /\ t \in Tasks /\ t[1] = "destroy"
      /\ {"idle", "counting", "closing", "gathering", "flushing", "polling", "ending", "ended",
          "entering"} \subseteq Labels("destroy")
      /\ {"idle", "counting", "closing", "gathering", "polling", "ending", "ended"} \subseteq Plain
  BY Named DEF Labels, Plain, OfDocuments, OfConfiguration, Storing
<1>1. UNCHANGED <<docVars, debVars>>
  BY DEF DestroyBegin, DestroyCount, DestroyClose, FlushBegin, FlushNext, FlushEnd, Poll, DestroyEnd
<1>2. \/ Passes(t, "idle", "counting")
      \/ Passes(t, "counting", "ending")
      \/ Passes(t, "counting", "closing")
      \/ Passes(t, "closing", "gathering")
      \/ FlushBegin \/ Flushes
      \/ Passes(t, "flushing", "polling")
      \/ Passes(t, "polling", "ending")
      \/ Passes(t, "polling", "polling")
      \/ Passes(t, "ending", "ended")
  <2>1. CASE DestroyBegin
    BY <2>1, LocksAt DEF DestroyBegin, Await, Passes
  <2>2. CASE DestroyCount
    BY <2>2, LocksAt DEF DestroyCount, Exchange, Passes
  <2>3. CASE DestroyClose
    BY <2>3, LocksAt DEF DestroyClose, Exchange, Passes
  <2>4. CASE FlushEnd
    BY <2>4, LocksAt DEF FlushEnd, Exchange, Passes
  <2>5. CASE Poll
    BY <2>5, LocksAt DEF Poll, Exchange, Passes
  <2>6. CASE DestroyEnd
    BY <2>6, LocksAt DEF DestroyEnd, HookEnds, Release, Passes
  <2> QED BY <2>1, <2>2, <2>3, <2>4, <2>5, <2>6
<1>3. left' \subseteq Documents /\ at' \in Documents \cup {"none"} /\ polls' \in 0..Attempts
  <2>1. CASE DestroyBegin \/ DestroyCount \/ DestroyClose \/ DestroyEnd
    BY <2>1 DEF DestroyBegin, DestroyCount, DestroyClose, DestroyEnd, Types, endVars
  <2>2. CASE FlushBegin \/ FlushEnd \/ Flushes
    BY <2>2 DEF FlushBegin, FlushEnd, FlushNext, Types
  <2>3. CASE Poll
    <3>1. polls' = polls \/ (polls # Attempts /\ polls' = polls + 1)
      BY <2>3 DEF Poll
    <3>2. polls \in 0..Attempts /\ Attempts \in Nat
      BY ShutdownAssumption DEF Types
    <3>3. polls' \in 0..Attempts
      BY <3>1, <3>2
    <3> QED BY <2>3, <3>3 DEF Poll, Types
  <2> QED BY <2>1, <2>2, <2>3
<1>4. ASSUME NEW x \in Plain \cup {"flushing"}, NEW y \in Plain, y \in Labels("destroy"), Passes(t, x, y)
      PROVE  Frame'
  <2>1. pc[t] = x /\ Go(t, y) /\ y \notin Storing /\ y \notin Entered
    BY <1>4, LocksAt DEF Passes, Storing, Entered
  <2>2. UNCHANGED <<execution, opened>>
    BY <1>1 DEF debVars, docVars
  <2>3. Places'
    BY <1>0, <1>4, <2>1, <2>2, PlacesKept
  <2>4. Order'
    BY <1>0, <1>4, <2>1, <2>2, SimpleStep DEF Passes
  <2> QED BY <2>1, <2>3, <2>4 DEF Frame, Types, Go
<1>5. ASSUME FlushBegin PROVE Frame'
  <2>1. /\ pc[t] = "gathering" /\ Go(t, "flushing") /\ UNCHANGED <<queue, at, execution, opened>>
        /\ Holds(t, "documents")
    BY <1>5 DEF FlushBegin, debVars, docVars
  <2>2. DOMAIN pc' = Tasks /\ Others(t) /\ pc'[t] = "flushing"
    BY <1>0, <2>1, OthersGo DEF Go, Types
  <2>3. Places'
    <3>1. /\ "flushing" \notin Storing /\ "flushing" \notin Entered
          /\ "flushing" \in Labels(t[1]) /\ t[1] # "open"
      BY <1>0 DEF Storing, Entered
    <3> HIDE DEF t
    <3> QED BY <1>0, <2>1, <3>1, PlacesKept DEF t
  <2>4. \A k \in Locks : /\ Needs(t, k) <=> k = "documents"
                         /\ Needs(t, k)' <=> k = "documents"
                         /\ MayAwait(t, k) => k = "documents"
    BY <2>1, <2>2 DEF Needs, MayAwait, OfDocuments, OfConfiguration, Storing, Entered, Saving
  <2>5. Order'
    BY <1>0, <2>1, <2>2, <2>4, Gone
  <2> QED BY <2>2, <2>3, <2>5 DEF Frame
<1>6. ASSUME NEW d \in Documents, FlushNext(d) PROVE Frame'
  <2>0. pc[t] = "flushing" /\ at' = d /\ UNCHANGED <<queue, execution, opened>>
    BY <1>6 DEF FlushNext, debVars, docVars
  <2>1. CASE Go(t, "entering")
    <3>1. DOMAIN pc' = Tasks /\ Others(t) /\ pc'[t] = "entering"
      BY <1>0, <2>0, <2>1, OthersGo DEF Go, Types
    <3>2. Places'
      <4>1. "entering" \notin Entered
        BY DEF Entered
      <4> QED BY <1>0, <2>0, <2>1, <4>1, PlacesKept
    <3>3. \A k \in Locks : /\ Needs(t, k) <=> k = "documents"
                           /\ Needs(t, k)' <=> k = "documents"
                           /\ ~ MayAwait(t, k)
      BY <2>0, <3>1 DEF Needs, MayAwait, OfDocuments, OfConfiguration, Storing, Entered, Saving
    <3>4. Order'
      BY <1>0, <2>0, <3>1, <3>3, Gone
    <3> QED BY <3>1, <3>2, <3>4 DEF Frame
  <2>2. CASE UNCHANGED pc
    <3>1. \A u \in Tasks \ {t} : Doc(u)' = Doc(u)
      BY DEF Doc
    <3>2. DOMAIN pc' = Tasks /\ Others(t)
      BY <2>0, <2>2, <3>1 DEF Types, Others, Needs, MayAwait
    <3>3. Places'
      BY <2>0, <2>2 DEF Places
    <3>4. \A k \in Locks : (Needs(t, k)' <=> Needs(t, k)) /\ ~ MayAwait(t, k)
      BY <2>0, <2>2 DEF Needs, MayAwait, OfDocuments, OfConfiguration, Storing, Entered, Saving
    <3>5. Order'
      BY <1>0, <2>0, <3>2, <3>4, Gone
    <3> QED BY <3>2, <3>3, <3>5 DEF Frame
  <2>3. Go(t, "entering") \/ UNCHANGED pc
    BY <1>6 DEF FlushNext
  <2> QED BY <2>1, <2>2, <2>3
<1>7. Frame'
  BY <1>0, <1>2, <1>4, <1>5, <1>6
<1>8. Types'
  BY <1>1, <1>3, <1>7 DEF Frame, Types, docVars, debVars
<1> QED BY <1>7, <1>8
--------------------------------------------------------------------------------
\* The inductive invariant.
ShutdownInv == Types /\ Places /\ Order

\* The invariant holds initially.
LEMMA InitShutdownInv == ShutdownInit => ShutdownInv
<1> SUFFICES ASSUME ShutdownInit PROVE ShutdownInv
  OBVIOUS
<1>1. Types
  BY ShutdownAssumption DEF ShutdownInit, Types
<1>2. Places
  <2>1. \A t \in Tasks : pc[t] = "idle"
    BY DEF ShutdownInit
  <2>2. \A k : "idle" \in Labels(k)
    BY DEF Labels
  <2> QED BY <2>1, <2>2, Named DEF ShutdownInit, Places, Storing, Entered, Kinds
<1>3. Order
  <2>1. \A l \in Locks : queue[l] = <<>>
    BY DEF ShutdownInit
  <2>2. DOMAIN <<>> = {} /\ <<>> \in Seq(Requests)
    BY EmptySeq, LenProperties
  <2>3. Proper(queue)
    <3>1. queue \in [Locks -> Seq(Requests)]
      BY <2>2 DEF ShutdownInit
    <3> QED BY <2>1, <2>2, <3>1, LocksAre DEF Proper
  <2>4. ASSUME NEW t \in Tasks PROVE InOrder(t)
    <3>1. pc[t] = "idle"
      BY DEF ShutdownInit
    <3>2. \A l \in Locks : ~ Needs(t, l) /\ ~ Asked(queue, l, t)
      BY <2>1, <2>2, <3>1 DEF Needs, Asked, OfDocuments, OfConfiguration, Storing, Entered, Saving
    <3> QED BY <3>2 DEF InOrder
  <2> QED BY <2>3, <2>4 DEF Order
<1> QED BY <1>1, <1>2, <1>3 DEF ShutdownInv

\* Every step keeps the types, the places and the order.
LEMMA FrameKept ==
    ASSUME Types, Places, Order, ShutdownNext
    PROVE  Types' /\ Frame'
<1>1. CASE Starts
  BY <1>1, StepConfigure, StepDestroy, StepOpen, StepUpdate, StepFire, StepClose DEF Starts
<1>2. ASSUME NEW t \in Tasks, Steps(t) PROVE Types' /\ Frame'
  <2>1. CASE ConfigureWrite \/ ConfigureEnd
    BY <2>1, StepConfigure
  <2>2. CASE \/ DestroyCount \/ DestroyClose \/ FlushBegin \/ (\E d \in Documents : FlushNext(d))
             \/ FlushEnd \/ Poll \/ DestroyEnd
    BY <2>2, StepDestroy
  <2>3. ASSUME NEW d \in Documents,
               \/ OpenLookup(d) \/ Load(d) \/ Abandon(d) \/ Register(d) \/ Connect(d)
               \/ UpdateTask(d) \/ Debounce(d) \/ Left(d) \/ Decide(d)
               \/ /\ t \in Unloaders(d)
                  /\ UnloadBegin(t) \/ UnloadCheck(t) \/ UnloadDecide(t) \/ UnloadRemove(t)
        PROVE  Types' /\ Frame'
    BY <2>3, StepOpen, StepUpdate, StepClose, StepUnload
  <2>4. CASE Enter(t) \/ Save(t) \/ Store(t) \/ StoreEnds(t) \/ Finish(t)
    BY <2>4, StepEnter, StepSave, StepStore, StepFinish
  <2> QED BY <1>2, <2>1, <2>2, <2>3, <2>4 DEF Steps
<1> QED BY <1>1, <1>2 DEF ShutdownNext

\* Every step keeps the invariant.
LEMMA StepShutdownInv == ShutdownInv /\ [ShutdownNext]_shutdownVars => ShutdownInv'
<1> SUFFICES ASSUME ShutdownInv, [ShutdownNext]_shutdownVars PROVE ShutdownInv'
  OBVIOUS
<1>1. CASE ShutdownNext
  BY <1>1, FrameKept DEF ShutdownInv, Frame
<1>2. CASE UNCHANGED shutdownVars
  <2>0. /\ UNCHANGED <<queue, pc, opened, registered, connected, armed>>
        /\ UNCHANGED <<running, execution, at, left, polls>>
    BY <1>2 DEF shutdownVars, lockVars, docVars, debVars, endVars
  <2>1. Types' /\ Places'
    BY <2>0 DEF ShutdownInv, Types, Places
  <2>2. \A t \in Tasks : Doc(t)' = Doc(t)
    BY <2>0 DEF Doc
  <2>3. Order'
    BY <2>0, <2>2 DEF ShutdownInv, Order, InOrder, Proper, Needs, MayAwait, Asked, Granted
  <2> QED BY <2>1, <2>3 DEF ShutdownInv
<1> QED BY <1>1, <1>2

\* The invariant holds in every state of the server.
THEOREM ShutdownInvariance == ShutdownSpec => []ShutdownInv
BY InitShutdownInv, StepShutdownInv, PTL DEF ShutdownSpec

\* The types; each task is where its kind can be.
THEOREM ShutdownTypeCorrect == ShutdownSpec => []ShutdownTypeOK
<1>1. ASSUME ShutdownInv PROVE ShutdownTypeOK
  <2>1. queue \in [Locks -> Seq([task : Tasks, mode : {"read", "write"}])]
    BY <1>1 DEF ShutdownInv, Order, Proper, Requests
  <2> QED BY <1>1, <2>1 DEF ShutdownInv, Types, Places, ShutdownTypeOK
<1> QED BY <1>1, ShutdownInvariance, PTL
--------------------------------------------------------------------------------
(* Nobody waits in a circle: whoever holds a lock awaits only higher ones. *)

Rank(l) ==
    IF l = "documents" THEN 1
    ELSE IF l \in Executions THEN 2
    ELSE IF l = "configuration" THEN 4 ELSE 3

\* A request of t waits behind one of u.
Behind(t, u, l) ==
    \E i, j \in DOMAIN queue[l] :
        i < j /\ queue[l][j].task = t /\ queue[l][i].task = u /\ Conflict(queue[l][i], queue[l][j])

\* A set of numbers has a least one.
LEMMA Least ==
    ASSUME NEW P \in SUBSET Nat, NEW p \in P
    PROVE  \E n \in P : \A m \in P : ~ (m < n)
<1>1. IsWellFoundedOn(OpToRel(<, Nat), Nat)
  BY NatLessThanWellFounded
<1>2. \E n \in P : \A m \in P : ~ (<<m, n>> \in OpToRel(<, Nat))
  BY <1>1, WFMin
<1> QED BY <1>2 DEF OpToRel

\* A task awaits one lock at a time, a higher one than those it holds.
LEMMA Ranked ==
    ASSUME NEW t \in Tasks, NEW l \in Locks, NEW m \in Locks, Needs(t, l), MayAwait(t, m)
    PROVE  Needs(t, m) /\ (l = m \/ Rank(l) < Rank(m)) /\ (MayAwait(t, l) => l = m)
BY LocksAre DEF Needs, MayAwait, Rank, OfDocuments, OfConfiguration, Storing, Entered, Saving

\* What is awaited is needed.
LEMMA AwaitedIsNeeded == ASSUME NEW t, NEW l, MayAwait(t, l) PROVE Needs(t, l)
BY DEF MayAwait, Needs, Entered, Saving

\* Who waits behind another awaits that lock, and the other needs it.
LEMMA BehindAwaits ==
    ASSUME Order, NEW t, NEW u, NEW l \in Locks, Behind(t, u, l)
    PROVE  t \in Tasks /\ u \in Tasks /\ MayAwait(t, l) /\ Needs(u, l)
<1>1. PICK i, j \in DOMAIN queue[l] :
        i < j /\ queue[l][j].task = t /\ queue[l][i].task = u /\ Conflict(queue[l][i], queue[l][j])
  BY DEF Behind
<1>2. queue[l] \in Seq(Requests) /\ DOMAIN queue[l] = 1..Len(queue[l])
  BY LenProperties DEF Order, Proper
<1>3. queue[l][i] \in Requests /\ queue[l][j] \in Requests
  BY <1>1, <1>2, ElementOfSeq
<1>4. t \in Tasks /\ u \in Tasks
  BY <1>1, <1>3 DEF Requests
<1>5. Asked(queue, l, t) /\ Asked(queue, l, u) /\ ~ Granted(queue, l, t)
  BY <1>1 DEF Asked, Granted
<1> QED BY <1>4, <1>5 DEF Order, InOrder

\* In a circle somebody waits for a lock, and so somebody for a higher one.
LEMMA Higher ==
    ASSUME Order, NEW S, \A t \in S : \E u \in S, l \in Locks : Behind(t, u, l),
           NEW v \in S, NEW l \in Locks, MayAwait(v, l)
    PROVE  \E u \in S, m \in Locks : MayAwait(u, m) /\ Rank(l) < Rank(m)
<1> DEFINE s == queue[l]
           P == {i \in DOMAIN s : s[i].task \in S /\ MayAwait(s[i].task, l)}
<1>1. /\ s \in Seq(Requests) /\ DOMAIN s = 1..Len(s)
      /\ \A i, j \in DOMAIN s : s[i].task = s[j].task => i = j
  BY LenProperties DEF Order, Proper
<1>2. \A t \in S : t \in Tasks
  BY BehindAwaits
<1>3. Asked(queue, l, v)
  BY <1>2, AwaitedIsNeeded DEF Order, InOrder
<1>4. PICK p \in DOMAIN s : s[p].task = v
  BY <1>3 DEF Asked
<1>5. P \in SUBSET Nat /\ p \in P
  BY <1>1, <1>4
<1>6. PICK n \in P : \A k \in P : ~ (k < n)
  BY <1>5, Least
<1> DEFINE t == s[n].task
<1>7. n \in DOMAIN s /\ t \in S /\ t \in Tasks /\ MayAwait(t, l)
  BY <1>2, <1>6
<1>8. PICK u \in S, m \in Locks : Behind(t, u, m)
  BY <1>7
<1>9. m = l
  <2>1. MayAwait(t, m)
    BY <1>8, BehindAwaits
  <2>2. Needs(t, l)
    BY <1>7, AwaitedIsNeeded
  <2> QED BY <1>7, <2>1, <2>2, Ranked
<1>10. PICK i, j \in DOMAIN s : i < j /\ s[j].task = t /\ s[i].task = u
  BY <1>8, <1>9 DEF Behind
<1>11. j = n
  BY <1>1, <1>7, <1>10
<1>12. i \notin P
  BY <1>6, <1>10, <1>11
<1>13. ~ MayAwait(u, l)
  BY <1>8, <1>10, <1>12
<1>14. Needs(u, l) /\ u \in Tasks
  BY <1>8, <1>9, BehindAwaits
<1>15. PICK w \in S, k \in Locks : Behind(u, w, k)
  BY <1>8
<1>16. MayAwait(u, k)
  BY <1>15, BehindAwaits
<1>17. Rank(l) < Rank(k)
  BY <1>13, <1>14, <1>16, Ranked
<1> QED BY <1>8, <1>16, <1>17

\* Whatever openings, stores, unloads, configure() and destroy are under way,
\* somebody who waits waits for nobody else who does in turn
\* (hocuspocus.rs:36-893, debounce.rs:64-120, server.rs:265-285).
THEOREM NobodyDeadlocks == ShutdownSpec => []NobodyWaitsInACircle
<1>1. ASSUME ShutdownInv, NEW w \in Waits PROVE \E l \in Locks : Behind(w[1], w[2], l)
  <2>1. PICK l \in Locks : w \in {<<queue[l][p[2]].task, queue[l][p[1]].task>> :
              p \in {x \in (1..Len(queue[l])) \X (1..Len(queue[l])) :
                       x[1] < x[2] /\ Conflict(queue[l][x[1]], queue[l][x[2]])}}
    BY <1>1 DEF Waits
  <2>2. PICK p \in (1..Len(queue[l])) \X (1..Len(queue[l])) :
          /\ p[1] < p[2] /\ Conflict(queue[l][p[1]], queue[l][p[2]])
          /\ w = <<queue[l][p[2]].task, queue[l][p[1]].task>>
    BY <2>1
  <2>3. DOMAIN queue[l] = 1..Len(queue[l])
    BY <1>1, LenProperties DEF ShutdownInv, Order, Proper
  <2> QED BY <2>2, <2>3 DEF Behind
<1>2. ASSUME ShutdownInv, NEW S \in (SUBSET {w[1] : w \in Waits}) \ {{}}
      PROVE  \E t \in S : \A w \in Waits : w[1] = t => w[2] \notin S
  <2>1. SUFFICES ASSUME \A t \in S : \E w \in Waits : w[1] = t /\ w[2] \in S
                 PROVE  FALSE
    OBVIOUS
  <2>2. \A t \in S : \E u \in S, l \in Locks : Behind(t, u, l)
    BY <1>1, <1>2, <2>1
  <2>3. Order
    BY <1>2 DEF ShutdownInv
  <2>4. PICK t \in S : TRUE
    BY <1>2
  <2>5. PICK l \in Locks : MayAwait(t, l)
    BY <2>2, <2>3, BehindAwaits
  <2>6. PICK t2 \in S, l2 \in Locks : MayAwait(t2, l2) /\ Rank(l) < Rank(l2)
    BY <2>2, <2>3, <2>5, Higher
  <2>7. PICK t3 \in S, l3 \in Locks : MayAwait(t3, l3) /\ Rank(l2) < Rank(l3)
    BY <2>2, <2>3, <2>6, Higher
  <2>8. PICK t4 \in S, l4 \in Locks : MayAwait(t4, l4) /\ Rank(l3) < Rank(l4)
    BY <2>2, <2>3, <2>7, Higher
  <2>9. PICK t5 \in S, l5 \in Locks : MayAwait(t5, l5) /\ Rank(l4) < Rank(l5)
    BY <2>2, <2>3, <2>8, Higher
  <2>10. \A m \in Locks : Rank(m) \in 1..4
    BY DEF Rank
  <2> HIDE DEF Rank
  <2> QED BY <2>6, <2>7, <2>8, <2>9, <2>10
<1>3. ShutdownInv => NobodyWaitsInACircle
  BY <1>2 DEF NobodyWaitsInACircle
<1> QED BY <1>3, ShutdownInvariance, PTL
================================================================================
