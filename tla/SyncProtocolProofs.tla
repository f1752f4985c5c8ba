--------------------------- MODULE SyncProtocolProofs ---------------------------
(***************************************************************************)
(* Proofs about SyncProtocol, for any clients and bounds: a read-only      *)
(* client changes nothing, what is acknowledged is in the document, and    *)
(* when nothing is under way any more everybody shows the same and knows   *)
(* that it is stored.                                                      *)
(***************************************************************************)
EXTENDS SyncProtocol, SequenceTheorems, FiniteSetTheorems, FunctionTheorems, TLAPS

\* The insertions of clients that never had a connection that may write.
Barred == {o \in Ops : o[1] = "ins" /\ Reader(Author(o))}

\* The messages of a client say nothing of other readers' insertions.
From(c) == {m \in Messages : m.type # "step1" => \A o \in m.ops \cap Barred : Author(o) = c}

\* The types that the arguments need, and which connections exist.
Types ==
    /\ doc \subseteq Ops
    /\ registered \subseteq Connections
    /\ up \in [Connections -> Seq(Messages)]
    /\ told \in [Connections -> SUBSET Ops]
    /\ asked \in [Connections -> SUBSET [Clients -> Nat]]
    /\ tasks \subseteq SUBSET Ops
    /\ replica \in [Clients -> SUBSET Ops]
    /\ socket \in [Clients -> Nat] /\ \A c \in Clients : socket[c] <= Sockets[c]
    /\ online \subseteq Clients /\ \A c \in online : socket[c] # 0
    /\ overstated \in [Connections -> SUBSET Ops]

\* Messages come only over connections that were made.
OnlyUsed == \A k \in Connections : up[k] # <<>> => k[2] <= socket[k[1]]

\* Readers' insertions are nowhere but with their authors.
NothingBarred ==
    /\ \A k \in Connections : up[k] \in Seq(From(k[1])) /\ told[k] \cap Barred = {}
    /\ doc \cap Barred = {}
    /\ \A u \in tasks : u \cap Barred = {}
    /\ \A c \in Clients : \A o \in replica[c] \cap Barred : Author(o) = c

Core == Types /\ OnlyUsed /\ NothingBarred /\ AckIsTrue

FirstIsStep1(k) == up[k] # <<>> /\ Head(up[k]).type = "step1"

\* A SyncStep1 that is half answered is still at the front.
HalfAnswered ==
    /\ pc \in [Connections -> {"idle", "answered"}]
    /\ \A k \in Connections : pc[k] = "answered" => FirstIsStep1(k)

IInv == Core /\ HalfAnswered
--------------------------------------------------------------------------------
\* The shape of connections and operations.
LEMMA Shapes ==
    /\ \A k \in Connections : k[1] \in Clients /\ k[2] \in 1..Sockets[k[1]] /\ k = <<k[1], k[2]>>
    /\ \A c \in Clients, i \in Nat : i # 0 /\ i <= Sockets[c] => <<c, i>> \in Connections
    /\ \A o \in Ops : Author(o) \in Clients /\ Number(o) \in 1..Edits[Author(o)]
    /\ \A c \in Clients, i \in Nat : i # 0 /\ i <= Edits[c] =>
          <<"ins", <<c, i>>>> \in Ops /\ <<"del", <<c, i>>>> \in Ops
    /\ \A o \in Ops : o[1] = "ins" => o = <<"ins", <<Author(o), Number(o)>>>>
BY SyncAssumption DEF Connections, Ops, Ids, Author, Number

\* A state vector counts.
LEMMA StateVectorType == ASSUME NEW S PROVE StateVector(S) \in [Clients -> Nat]
<1>1. ASSUME NEW c \in Clients
      PROVE  Cardinality({n \in 1..Edits[c] : \A i \in 1..n : Has(S, c, i)}) \in Nat
  <2> DEFINE T == {n \in 1..Edits[c] : \A i \in 1..n : Has(S, c, i)}
  <2>1. IsFiniteSet(1..Edits[c])
    BY SyncAssumption, FS_Interval
  <2>2. T \in SUBSET (1..Edits[c])
    OBVIOUS
  <2> QED BY <2>1, <2>2, FS_Subset, FS_CardinalityType
<1> QED BY <1>1 DEF StateVector

\* What a state vector counts is there.
LEMMA Counted ==
    ASSUME NEW S, NEW c \in Clients, NEW n \in 1..Edits[c], n <= StateVector(S)[c]
    PROVE  Has(S, c, n)
<1> DEFINE T == {m \in 1..Edits[c] : \A i \in 1..m : Has(S, c, i)}
<1>1. Edits[c] \in Nat
  BY SyncAssumption
<1>2. StateVector(S)[c] = Cardinality(T)
  BY DEF StateVector
<1>3. SUFFICES ASSUME ~ Has(S, c, n) PROVE Cardinality(T) < n
  <2>1. Cardinality(T) \in Nat
    BY <1>2, StateVectorType
  <2> QED BY <1>1, <1>2, <2>1
<1>4. T \in SUBSET (1..(n - 1)) /\ n - 1 \in Int /\ ~ 1 > n - 1 + 1 /\ 1 \in Int
  BY <1>1, <1>3
<1>5. IsFiniteSet(1..(n - 1)) /\ Cardinality(1..(n - 1)) = n - 1
  <2>1. IsFiniteSet(1..(n - 1)) /\ Cardinality(1..(n - 1)) = IF 1 > n - 1 THEN 0 ELSE (n - 1) - 1 + 1
    BY <1>4, FS_Interval
  <2> QED BY <1>1, <2>1
<1>6. Cardinality(T) \in Nat /\ Cardinality(T) <= n - 1
  BY <1>4, <1>5, FS_Subset, FS_CardinalityType
<1> QED BY <1>1, <1>6

\* The messages have their types, whatever they carry.
LEMMA MessageTypes ==
    /\ \A sv \in [Clients -> Nat] : Step1(sv) \in Messages /\ Step1(sv).type = "step1"
    /\ \A ops \in SUBSET Ops :
         /\ Step2(ops) \in Messages /\ Step2(ops).type # "step1" /\ Step2(ops).ops = ops
         /\ Update(ops) \in Messages /\ Update(ops).type # "step1" /\ Update(ops).ops = ops
    /\ \A m \in Messages : m.type # "step1" => m.ops \subseteq Ops
    /\ \A m \in Messages : m.type = "step1" => m.sv \in [Clients -> Nat]
BY DEF Messages, Step1, Step2, Update
--------------------------------------------------------------------------------
\* The invariant holds initially.
LEMMA InitIInv == Init => IInv
<1> SUFFICES ASSUME Init PROVE IInv
  OBVIOUS
<1>1. Types
  BY SyncAssumption, EmptySeq DEF Init, Types
<1>2. OnlyUsed
  BY DEF Init, OnlyUsed
<1>3. NothingBarred
  BY EmptySeq, Shapes DEF Init, NothingBarred
<1>4. AckIsTrue
  BY DEF Init, AckIsTrue
<1>5. HalfAnswered
  BY DEF Init, HalfAnswered
<1> QED BY <1>1, <1>2, <1>3, <1>4, <1>5 DEF Core, IInv

\* As long as no connection is made the same is barred.
LEMMA SameBarred ==
    ASSUME UNCHANGED <<readOnly, socket>>
    PROVE  Barred' = Barred /\ \A c : From(c)' = From(c)
<1>1. Barred' = Barred
  BY DEF Barred, Reader
<1> QED BY <1>1 DEF From

\* A new connection can only end that its client is barred.
LEMMA FewerBarred ==
    ASSUME Types, NEW c \in Clients, Connect(c)
    PROVE  Barred' \subseteq Barred /\ \A d \in Clients : From(d) \subseteq From(d)'
<1>1. readOnly \subseteq readOnly' /\ readOnly' \subseteq readOnly \cup {<<c, socket[c] + 1>>}
      /\ socket' = [socket EXCEPT ![c] = @ + 1]
  BY DEF Connect
<1>2. ASSUME NEW a \in Clients, Reader(a)' PROVE Reader(a)
  BY <1>1, <1>2 DEF Types, Reader
<1>3. Barred' \subseteq Barred
  BY <1>2, Shapes DEF Barred
<1> QED BY <1>3 DEF From

\* The current connection of a client that is on line.
LEMMA CurrentIs ==
    ASSUME Types, NEW c \in online
    PROVE  Current(c) \in Connections /\ Current(c)[1] = c /\ Current(c)[2] = socket[c]
BY Shapes DEF Types, Current

\* What a client sends over its current connection, if it is its own or does
\* not concern readers.
LEMMA Sent ==
    ASSUME Core, NEW c \in online, NEW m \in From(c),
           up' = [up EXCEPT ![Current(c)] = Append(@, m)],
           UNCHANGED <<readOnly, socket>>
    PROVE  /\ up' \in [Connections -> Seq(Messages)]
           /\ \A k \in Connections : up'[k] \in Seq(From(k[1])')
           /\ OnlyUsed'
<1>1. Current(c) \in Connections /\ Current(c)[1] = c /\ Current(c)[2] = socket[c]
  BY CurrentIs DEF Core
<1>2. m \in Messages
  BY DEF From
<1>3. up \in [Connections -> Seq(Messages)] /\ socket \in [Clients -> Nat]
  BY DEF Core, Types
<1>4. Append(up[Current(c)], m) \in Seq(Messages)
  BY <1>1, <1>2, <1>3, AppendProperties
<1>5. Append(up[Current(c)], m) \in Seq(From(c))
  BY <1>1, AppendProperties DEF Core, NothingBarred
<1>6. \A k \in Connections : up'[k] \in Seq(From(k[1]))
  BY <1>1, <1>3, <1>5 DEF Core, NothingBarred
<1>7. \A k \in Connections : From(k[1])' = From(k[1])
  BY SameBarred
<1>8. OnlyUsed'
  <2>1. \A k \in Connections : up'[k] # <<>> => up[k] # <<>> \/ k = Current(c)
    BY <1>3
  <2> QED BY <1>1, <1>3, <2>1, Shapes DEF Core, OnlyUsed
<1> QED BY <1>1, <1>3, <1>4, <1>6, <1>7, <1>8

\* What is taken off a queue.
LEMMA Popped ==
    ASSUME Core, NEW k \in Connections, up[k] # <<>>, Pop(k), UNCHANGED <<readOnly, socket>>
    PROVE  /\ Head(up[k]) \in From(k[1]) /\ Head(up[k]) \in Messages
           /\ k[2] <= socket[k[1]]
           /\ up' \in [Connections -> Seq(Messages)]
           /\ \A j \in Connections : up'[j] \in Seq(From(j[1])')
           /\ OnlyUsed'
<1>1. up \in [Connections -> Seq(Messages)] /\ socket \in [Clients -> Nat]
  BY DEF Core, Types
<1>2. Tail(up[k]) \in Seq(Messages) /\ Head(up[k]) \in Messages
  BY <1>1, HeadTailProperties
<1>3. Tail(up[k]) \in Seq(From(k[1])) /\ Head(up[k]) \in From(k[1])
  BY HeadTailProperties DEF Core, NothingBarred
<1>4. up' = [up EXCEPT ![k] = Tail(@)]
  BY DEF Pop
<1>5. \A j \in Connections : up'[j] \in Seq(From(j[1])) /\ From(j[1])' = From(j[1])
  BY <1>1, <1>3, <1>4, SameBarred DEF Core, NothingBarred
<1>6. OnlyUsed'
  BY <1>1, <1>4 DEF Core, OnlyUsed
<1> QED BY <1>1, <1>2, <1>3, <1>4, <1>5, <1>6 DEF Core, OnlyUsed
--------------------------------------------------------------------------------
\* A new connection: what was barred may no longer be.
LEMMA ConnectCore == ASSUME Core, NEW c \in Clients, Connect(c) PROVE Core'
<1> DEFINE k == <<c, socket[c] + 1>>
<1>0. Types /\ OnlyUsed /\ NothingBarred /\ AckIsTrue
  BY DEF Core
<1>1. /\ socket[c] \in Nat /\ socket[c] < Sockets[c] /\ socket' = [socket EXCEPT ![c] = @ + 1]
      /\ online' = online \cup {c} /\ registered' = registered \cup {k}
      /\ readOnly \subseteq readOnly'
      /\ up' = [up EXCEPT ![k] = <<Step1(StateVector(replica[c]))>>]
      /\ UNCHANGED <<doc, told, asked, tasks, replica, overstated>>
  BY <1>0 DEF Connect, Types, statuses
<1>2. k \in Connections /\ k[1] = c /\ k[2] = socket[c] + 1
  BY <1>1, Shapes, SyncAssumption
<1>3. Barred' \subseteq Barred /\ \A d \in Clients : From(d) \subseteq From(d)'
  BY <1>0, FewerBarred
<1>4. Step1(StateVector(replica[c])) \in Messages /\ Step1(StateVector(replica[c])) \in From(c)'
  BY StateVectorType, MessageTypes DEF From
<1>5. Types'
  <2>1. <<Step1(StateVector(replica[c]))>> \in Seq(Messages)
    BY <1>4
  <2>2. up' \in [Connections -> Seq(Messages)]
    BY <1>0, <1>1, <1>2, <2>1 DEF Types
  <2>a. Sockets[c] \in Nat /\ socket[c] + 1 \in Nat /\ socket[c] + 1 <= Sockets[c]
    BY <1>1, SyncAssumption
  <2>b. socket' \in [Clients -> Nat]
    BY <1>0, <1>1, <2>a DEF Types
  <2>c. \A d \in Clients : socket'[d] = IF d = c THEN socket[c] + 1 ELSE socket[d]
    BY <1>0, <1>1 DEF Types
  <2>3. /\ socket' \in [Clients -> Nat]
        /\ \A d \in Clients : socket'[d] <= Sockets[d] /\ (socket[d] # 0 => socket'[d] # 0)
    BY <1>0, <1>1, <2>a, <2>b, <2>c DEF Types
  <2>4. socket'[c] # 0
    BY <1>0, <1>1 DEF Types
  <2>5. online' \subseteq Clients /\ \A d \in online' : socket'[d] # 0
    BY <1>0, <1>1, <2>3, <2>4 DEF Types
  <2>6. registered' \subseteq Connections
    BY <1>0, <1>1, <1>2 DEF Types
  <2> QED BY <1>0, <1>1, <2>2, <2>3, <2>5, <2>6 DEF Types
<1>6. OnlyUsed'
  BY <1>0, <1>1, <1>2, Shapes, SyncAssumption DEF Types, OnlyUsed
<1>7. NothingBarred'
  <2>1. <<Step1(StateVector(replica[c]))>> \in Seq(From(c)')
    BY <1>4
  <2>2. ASSUME NEW j \in Connections PROVE up'[j] \in Seq(From(j[1])')
    <3>1. up[j] \in Seq(From(j[1])')
      BY <1>0, <1>3, Shapes, SeqMonotonic DEF NothingBarred
    <3> QED BY <1>0, <1>1, <1>2, <2>1, <3>1 DEF Types
  <2> QED BY <1>0, <1>1, <1>3, <2>2 DEF NothingBarred
<1>8. AckIsTrue'
  BY <1>0, <1>1 DEF AckIsTrue
<1> QED BY <1>5, <1>6, <1>7, <1>8 DEF Core

\* The own operations of a client concern nobody else, and deletions are not
\* barred at all.
LEMMA ChangeCore ==
    ASSUME Core, NEW c \in Clients, NEW o \in Ops, o[1] = "ins" => Author(o) = c, Change(c, o)
    PROVE  Core'
<1>0. Types /\ OnlyUsed /\ NothingBarred /\ AckIsTrue
  BY DEF Core
<1>1. /\ replica' = [replica EXCEPT ![c] = @ \cup {o}]
      /\ UNCHANGED <<doc, registered, readOnly, told, asked, tasks, socket, online, overstated>>
  BY DEF Change
<1>2. Barred' = Barred /\ \A d : From(d)' = From(d)
  BY <1>1, SameBarred
<1>3. o \in Barred => Author(o) = c
  BY DEF Barred
<1>4. /\ up' \in [Connections -> Seq(Messages)]
      /\ \A k \in Connections : up'[k] \in Seq(From(k[1])')
      /\ OnlyUsed'
  <2>1. CASE c \in online
    <3>1. up' = [up EXCEPT ![Current(c)] = Append(@, Update({o}))]
      BY <2>1 DEF Change, SendUpdate
    <3>2. Update({o}) \in From(c)
      BY <1>3, MessageTypes DEF From
    <3> QED BY <1>1, <2>1, <3>1, <3>2, Sent
  <2>2. CASE c \notin online
    <3>1. up' = up
      BY <2>2 DEF Change
    <3> QED BY <1>0, <1>1, <1>2, <3>1 DEF Types, NothingBarred, OnlyUsed
  <2> QED BY <2>1, <2>2
<1>5. Types'
  BY <1>0, <1>1, <1>4 DEF Types
<1>6. NothingBarred'
  <2>1. ASSUME NEW d \in Clients, NEW q \in replica'[d] \cap Barred PROVE Author(q) = d
    BY <1>0, <1>1, <1>3, <2>1 DEF Types, NothingBarred
  <2> QED BY <1>0, <1>1, <1>2, <1>4, <2>1 DEF NothingBarred
<1>7. AckIsTrue'
  BY <1>0, <1>1 DEF AckIsTrue
<1> QED BY <1>4, <1>5, <1>6, <1>7 DEF Core

\* What the server sent was not barred.
LEMMA DeliverCore == ASSUME Core, NEW c \in Clients, Deliver(c) PROVE Core'
<1>0. Types /\ OnlyUsed /\ NothingBarred /\ AckIsTrue
  BY DEF Core
<1>1. /\ c \in online
      /\ replica' = [replica EXCEPT ![c] = @ \cup told[Current(c)]]
      /\ told' = [told EXCEPT ![Current(c)] = {}]
      /\ UNCHANGED <<doc, registered, readOnly, up, asked, tasks, socket, online, overstated>>
  BY DEF Deliver, statuses
<1>2. Current(c) \in Connections
  BY <1>0, <1>1, CurrentIs
<1>3. Barred' = Barred /\ \A d : From(d)' = From(d)
  BY <1>1, SameBarred
<1>4. Types'
  BY <1>0, <1>1, <1>2 DEF Types
<1>5. OnlyUsed' /\ AckIsTrue'
  BY <1>0, <1>1 DEF OnlyUsed, AckIsTrue
<1>6. NothingBarred'
  <2>1. \A k \in Connections : told'[k] \subseteq told[k]
    BY <1>0, <1>1 DEF Types
  <2>2. ASSUME NEW d \in Clients, NEW q \in replica'[d] \cap Barred PROVE Author(q) = d
    <3>1. q \in replica[d]
      BY <1>0, <1>1, <1>2, <2>2 DEF Types, NothingBarred
    <3> QED BY <1>0, <2>2, <3>1 DEF NothingBarred
  <2> QED BY <1>0, <1>1, <1>3, <2>1, <2>2 DEF NothingBarred
<1> QED BY <1>4, <1>5, <1>6 DEF Core

\* An answer is a part of the client's replica.
LEMMA ReplyCore == ASSUME Core, NEW c \in Clients, Reply(c) PROVE Core'
<1>0. Types /\ OnlyUsed /\ NothingBarred /\ AckIsTrue
  BY DEF Core
<1>1. PICK sv \in asked[Current(c)] :
        /\ asked' = [asked EXCEPT ![Current(c)] = @ \ {sv}]
        /\ up' = [up EXCEPT ![Current(c)] = Append(@, Step2(Diff(replica[c], sv)))]
  BY DEF Reply, SendUpdate
<1>2. c \in online /\ UNCHANGED <<doc, registered, readOnly, told, tasks, replica, socket, online, overstated>>
  BY DEF Reply, clients
<1>3. Diff(replica[c], sv) \subseteq replica[c]
  BY DEF Diff, Visible
<1>4. Step2(Diff(replica[c], sv)) \in From(c)
  <2>1. Diff(replica[c], sv) \in SUBSET Ops
    BY <1>0, <1>3 DEF Types
  <2> QED BY <1>0, <1>3, <2>1, MessageTypes DEF From, NothingBarred
<1>5. /\ up' \in [Connections -> Seq(Messages)]
      /\ \A k \in Connections : up'[k] \in Seq(From(k[1])')
      /\ OnlyUsed'
  BY <1>1, <1>2, <1>4, Sent
<1>6. Barred' = Barred
  BY <1>2, SameBarred
<1>7. Types'
  <2>1. asked' \in [Connections -> SUBSET [Clients -> Nat]]
    BY <1>0, <1>1 DEF Types
  <2> QED BY <1>0, <1>2, <1>5, <2>1 DEF Types
<1>8. NothingBarred' /\ AckIsTrue'
  BY <1>0, <1>2, <1>5, <1>6 DEF NothingBarred, AckIsTrue
<1> QED BY <1>5, <1>7, <1>8 DEF Core

\* Less is under way.
LEMMA DropCore == ASSUME Core, NEW c \in Clients, Drop(c) PROVE Core'
<1>0. Types /\ OnlyUsed /\ NothingBarred /\ AckIsTrue
  BY DEF Core
<1>1. PICK n \in 0..Len(up[Current(c)]) : up' = [up EXCEPT ![Current(c)] = SubSeq(@, 1, n)]
  BY DEF Drop
<1>2. /\ c \in online /\ online' = online \ {c}
      /\ told' = [told EXCEPT ![Current(c)] = {}]
      /\ asked' = [asked EXCEPT ![Current(c)] = {}]
      /\ UNCHANGED <<doc, registered, readOnly, tasks, replica, socket, overstated>>
  BY DEF Drop
<1>3. Current(c) \in Connections
  BY <1>0, <1>2, CurrentIs
<1>4. Barred' = Barred /\ \A d : From(d)' = From(d)
  BY <1>2, SameBarred
<1>5. ASSUME NEW S, up[Current(c)] \in Seq(S) PROVE SubSeq(up[Current(c)], 1, n) \in Seq(S)
  <2>1. n \in Int /\ 1 \in Int /\ \A i \in 1..n : i \in 1..Len(up[Current(c)])
    BY <1>5, LenProperties
  <2>2. \A i \in 1..n : up[Current(c)][i] \in S
    BY <1>5, <2>1, ElementOfSeq
  <2> QED BY <2>1, <2>2, SubSeqProperties
<1>6. up[Current(c)] = <<>> => up' = up
  <2>1. SUFFICES ASSUME up[Current(c)] = <<>> PROVE SubSeq(up[Current(c)], 1, n) = <<>>
    BY <1>0, <1>1, <1>3 DEF Types
  <2>2. n = 0
    BY <2>1, EmptySeq
  <2> QED BY <2>2, SubSeqEmpty
<1>7. Types'
  <2>1. SubSeq(up[Current(c)], 1, n) \in Seq(Messages)
    BY <1>0, <1>3, <1>5 DEF Types
  <2> QED BY <1>0, <1>1, <1>2, <2>1 DEF Types
<1>8. OnlyUsed'
  BY <1>0, <1>1, <1>2, <1>3, <1>6 DEF Types, OnlyUsed
<1>9. NothingBarred'
  <2>1. SubSeq(up[Current(c)], 1, n) \in Seq(From(Current(c)[1]))
    BY <1>0, <1>3, <1>5 DEF NothingBarred
  <2>2. \A k \in Connections : up'[k] \in Seq(From(k[1])) /\ told'[k] \subseteq told[k]
    BY <1>0, <1>1, <1>2, <2>1 DEF Types, NothingBarred
  <2> QED BY <1>0, <1>2, <1>4, <2>2 DEF NothingBarred
<1>10. AckIsTrue'
  BY <1>0, <1>2 DEF AckIsTrue
<1> QED BY <1>7, <1>8, <1>9, <1>10 DEF Core
--------------------------------------------------------------------------------
\* What is known of the operations of the document, and of any part of them.
LEMMA FromServer ==
    ASSUME Types
    PROVE  /\ \A sv : Diff(doc, sv) \subseteq doc
           /\ StateVector(doc) \in [Clients -> Nat]
BY StateVectorType DEF Diff, Visible

\* What is sent to clients comes from the document or was broadcast.
LEMMA Told ==
    ASSUME Core, NEW K, NEW ops \in SUBSET Ops, ops \cap Barred = {}, Tell(K, ops)
    PROVE  told' \in [Connections -> SUBSET Ops] /\ \A k \in Connections : told'[k] \cap Barred = {}
BY DEF Core, Types, NothingBarred, Tell

\* The answer to a SyncStep1.
LEMMA AnswerCore == ASSUME Core, NEW k \in Connections, Answer(k) PROVE Core'
<1>0. Types /\ OnlyUsed /\ NothingBarred /\ AckIsTrue
  BY DEF Core
<1>1. /\ Tell({k}, Diff(doc, Head(up[k]).sv))
      /\ UNCHANGED <<doc, registered, readOnly, up, asked, tasks, replica, socket, online, overstated>>
  BY DEF Answer, clients, statuses
<1>2. Diff(doc, Head(up[k]).sv) \in SUBSET Ops /\ Diff(doc, Head(up[k]).sv) \cap Barred = {}
  BY <1>0, FromServer DEF Types, NothingBarred
<1>3. told' \in [Connections -> SUBSET Ops] /\ \A j \in Connections : told'[j] \cap Barred = {}
  BY <1>1, <1>2, Told
<1>4. Barred' = Barred /\ \A d : From(d)' = From(d)
  BY <1>1, SameBarred
<1>5. Types'
  BY <1>0, <1>1, <1>3 DEF Types
<1> QED BY <1>0, <1>1, <1>3, <1>4, <1>5 DEF Core, OnlyUsed, NothingBarred, AckIsTrue

\* The server's own SyncStep1.
LEMMA AskBackCore == ASSUME Core, NEW k \in Connections, up[k] # <<>>, AskBack(k) PROVE Core'
<1>0. Types /\ OnlyUsed /\ NothingBarred /\ AckIsTrue
  BY DEF Core
<1>1. /\ Pop(k)
      /\ asked' \in {asked, [asked EXCEPT ![k] = @ \cup {StateVector(doc)}]}
      /\ UNCHANGED <<doc, registered, readOnly, told, tasks, replica, socket, online, overstated>>
  BY DEF AskBack, clients, statuses
<1>2. Barred' = Barred
  BY <1>1, SameBarred
<1>3. asked' \in [Connections -> SUBSET [Clients -> Nat]]
  <2>1. asked \in [Connections -> SUBSET [Clients -> Nat]]
    BY <1>0 DEF Types
  <2>2. StateVector(doc) \in [Clients -> Nat]
    BY StateVectorType
  <2>3. asked[k] \cup {StateVector(doc)} \in SUBSET [Clients -> Nat]
    BY <2>1, <2>2
  <2>4. [asked EXCEPT ![k] = @ \cup {StateVector(doc)}] \in [Connections -> SUBSET [Clients -> Nat]]
    BY <2>1, <2>3
  <2> QED BY <1>1, <2>1, <2>4
<1>4. /\ up' \in [Connections -> Seq(Messages)]
      /\ \A j \in Connections : up'[j] \in Seq(From(j[1])')
      /\ OnlyUsed'
  BY <1>1, Popped
<1>5. Types'
  BY <1>0, <1>1, <1>3, <1>4 DEF Types
<1> QED BY <1>0, <1>1, <1>2, <1>4, <1>5 DEF Core, NothingBarred, AckIsTrue

\* A connection that may write brings nothing that is barred.
LEMMA ApplyCore == ASSUME Core, NEW k \in Connections, Apply(k) PROVE Core'
<1>0. Types /\ OnlyUsed /\ NothingBarred /\ AckIsTrue
  BY DEF Core
<1> DEFINE ops == Head(up[k]).ops
<1>1. /\ up[k] # <<>> /\ Head(up[k]).type # "step1" /\ k \notin readOnly
      /\ Receive(ops) /\ SendStatus(k, TRUE, ops) /\ Pop(k)
      /\ UNCHANGED <<registered, told, asked, readOnly, replica, socket, online>>
  BY DEF Apply, InHand, clients
<1>2. /\ Head(up[k]) \in From(k[1]) /\ Head(up[k]) \in Messages /\ k[2] <= socket[k[1]]
      /\ up' \in [Connections -> Seq(Messages)]
      /\ \A j \in Connections : up'[j] \in Seq(From(j[1])')
      /\ OnlyUsed'
  BY <1>1, Popped
<1>3. ops \subseteq Ops
  BY <1>1, <1>2, MessageTypes
<1>4. ops \cap Barred = {}
  <2>1. SUFFICES ASSUME NEW o \in ops \cap Barred PROVE FALSE
    OBVIOUS
  <2>2. Author(o) = k[1] /\ Reader(k[1])
    BY <1>1, <1>2, <2>1 DEF From, Barred
  <2>3. k[1] \in Clients /\ k[2] \in 1..Sockets[k[1]] /\ k = <<k[1], k[2]>>
    BY Shapes
  <2>4. k[2] \in 1..socket[k[1]]
    BY <1>0, <1>2, <2>3, SyncAssumption DEF Types
  <2> QED BY <1>1, <2>2, <2>3, <2>4 DEF Reader
<1>5. /\ doc' = doc \cup ops
      /\ \A u \in tasks' : u \in tasks \/ u \subseteq doc'
  BY <1>1 DEF Receive, Visible
<1>6. Barred' = Barred
  BY <1>1, SameBarred
<1>7. overstated' = overstated
  <2>1. overstated[k] \cup (ops \ doc') = overstated[k]
    BY <1>5
  <2>2. overstated' \in {overstated, [overstated EXCEPT ![k] = overstated[k] \cup (ops \ doc')]}
    BY <1>1 DEF SendStatus, statuses
  <2> QED BY <1>0, <2>1, <2>2 DEF Types
<1>8. Types'
  BY <1>0, <1>1, <1>2, <1>3, <1>5, <1>7 DEF Types
<1>9. NothingBarred'
  BY <1>0, <1>1, <1>2, <1>4, <1>5, <1>6 DEF NothingBarred
<1> QED BY <1>0, <1>1, <1>2, <1>7, <1>8, <1>9 DEF Core, AckIsTrue

\* A read-only connection leaves the document alone, and a positive status
\* means that the insertions are there.
LEMMA ReaderCore ==
    ASSUME Core, NEW k \in Connections, Refuse(k) \/ Compare(k)
    PROVE  Core'
<1>0. Types /\ OnlyUsed /\ NothingBarred /\ AckIsTrue
  BY DEF Core
<1> DEFINE ops == Head(up[k]).ops
<1>1. /\ up[k] # <<>> /\ Head(up[k]).type # "step1" /\ k \in readOnly /\ Pop(k)
      /\ doc' = doc
      /\ UNCHANGED <<registered, told, asked, tasks, readOnly, replica, socket, online>>
  BY DEF Refuse, Compare, InHand, clients
<1>2. /\ Head(up[k]) \in Messages
      /\ up' \in [Connections -> Seq(Messages)]
      /\ \A j \in Connections : up'[j] \in Seq(From(j[1])')
      /\ OnlyUsed'
  BY <1>1, Popped
<1>3. ops \subseteq Ops
  BY <1>1, <1>2, MessageTypes
<1>4. \/ overstated' = overstated
      \/ /\ overstated' = [overstated EXCEPT ![k] = @ \cup (ops \ doc)]
         /\ \A o \in ops \ doc : o[1] = "del"
  <2>1. CASE Refuse(k)
    BY <1>0, <1>1, <2>1 DEF Refuse, SendStatus, statuses, Types
  <2>2. CASE Compare(k)
    <3> DEFINE novel == \E o \in ops : o[1] = "ins" /\ Number(o) > StateVector(doc)[Author(o)]
    <3>1. SendStatus(k, ~ novel, ops)
      BY <2>2 DEF Compare
    <3>2. ASSUME ~ novel, NEW o \in ops, o \notin doc PROVE o[1] = "del"
      <4>1. o \in Ops /\ o[1] \in {"ins", "del"}
        BY <1>3, <3>2 DEF Ops
      <4>2. SUFFICES ASSUME o[1] = "ins" PROVE FALSE
        BY <4>1
      <4>3. /\ Author(o) \in Clients /\ Number(o) \in 1..Edits[Author(o)]
            /\ o = <<"ins", <<Author(o), Number(o)>>>>
        BY <4>1, <4>2, Shapes
      <4>4. StateVector(doc)[Author(o)] \in Nat /\ Number(o) \in Nat
        BY <4>3, StateVectorType, SyncAssumption
      <4>5. Number(o) <= StateVector(doc)[Author(o)]
        BY <3>2, <4>2, <4>4
      <4>6. Has(doc, Author(o), Number(o))
        BY <4>3, <4>5, Counted
      <4> QED BY <3>2, <4>3, <4>6 DEF Has
    <3> HIDE DEF novel
    <3>3. CASE novel
      BY <1>0, <1>1, <3>1, <3>3 DEF SendStatus, statuses, Types
    <3>4. CASE ~ novel
      BY <1>1, <3>1, <3>2, <3>4 DEF SendStatus, statuses
    <3> QED BY <3>3, <3>4
  <2> QED BY <2>1, <2>2
<1>5. Barred' = Barred
  BY <1>1, SameBarred
<1>6. Types'
  <2>1. overstated[k] \cup (ops \ doc) \in SUBSET Ops
    BY <1>0, <1>3 DEF Types
  <2>2. overstated' \in [Connections -> SUBSET Ops]
    BY <1>0, <1>4, <2>1 DEF Types
  <2> QED BY <1>0, <1>1, <1>2, <2>2 DEF Types
<1>7. NothingBarred'
  BY <1>0, <1>1, <1>2, <1>5 DEF NothingBarred
<1>8. AckIsTrue'
  <2>1. CASE overstated' = overstated
    BY <1>0, <1>1, <2>1 DEF AckIsTrue
  <2>2. CASE overstated' # overstated
    <3>1. \A j \in Connections \ {k} : overstated'[j] = overstated[j]
      BY <1>0, <1>4, <2>2 DEF Types
    <3>2. \A o \in overstated'[k] : o \in overstated[k] \/ o[1] = "del"
      BY <1>0, <1>4, <2>2 DEF Types
    <3> QED BY <1>0, <1>1, <3>1, <3>2 DEF AckIsTrue
  <2> QED BY <2>1, <2>2
<1> QED BY <1>2, <1>6, <1>7, <1>8 DEF Core

\* A connection is closed, with its message or without.
LEMMA CloseCore ==
    ASSUME Core, NEW k \in Connections, Reject(k) \/ RemoveConnection(k)
    PROVE  Core'
<1>0. Types /\ OnlyUsed /\ NothingBarred /\ AckIsTrue
  BY DEF Core
<1>1. /\ registered' \subseteq registered
      /\ UNCHANGED <<doc, told, asked, tasks, readOnly, replica, socket, online, overstated>>
  BY DEF Reject, RemoveConnection, Close, clients
<1>2. Barred' = Barred /\ \A d : From(d)' = From(d)
  BY <1>1, SameBarred
<1>3. /\ up' \in [Connections -> Seq(Messages)]
      /\ \A j \in Connections : up'[j] \in Seq(From(j[1])')
      /\ OnlyUsed'
  <2>1. CASE Reject(k)
    BY <1>1, <2>1, Popped DEF Reject
  <2>2. CASE RemoveConnection(k)
    BY <1>0, <1>1, <1>2, <2>2 DEF RemoveConnection, Types, NothingBarred, OnlyUsed
  <2> QED BY <2>1, <2>2
<1>4. Types'
  BY <1>0, <1>1, <1>3 DEF Types
<1> QED BY <1>0, <1>1, <1>2, <1>3, <1>4 DEF Core, NothingBarred, AckIsTrue

\* A broadcast.
LEMMA BroadcastCore == ASSUME Core, NEW u \in tasks, Broadcast(u) PROVE Core'
<1>0. Types /\ OnlyUsed /\ NothingBarred /\ AckIsTrue
  BY DEF Core
<1>1. /\ Tell(Connections, u) /\ tasks' = tasks \ {u}
      /\ UNCHANGED <<doc, registered, readOnly, up, asked, replica, socket, online, overstated>>
  BY DEF Broadcast, clients, statuses
<1>2. u \in SUBSET Ops /\ u \cap Barred = {}
  BY <1>0 DEF Types, NothingBarred
<1>3. told' \in [Connections -> SUBSET Ops] /\ \A j \in Connections : told'[j] \cap Barred = {}
  BY <1>1, <1>2, Told
<1>4. Barred' = Barred /\ \A d : From(d)' = From(d)
  BY <1>1, SameBarred
<1>5. Types'
  BY <1>0, <1>1, <1>3 DEF Types
<1> QED BY <1>0, <1>1, <1>3, <1>4, <1>5 DEF Core, OnlyUsed, NothingBarred, AckIsTrue
--------------------------------------------------------------------------------
\* A message leaves a queue only when it is not half answered.
LEMMA StepHalf == ASSUME IInv, Next PROVE HalfAnswered'
<1>0. /\ Types /\ up \in [Connections -> Seq(Messages)]
      /\ pc \in [Connections -> {"idle", "answered"}]
      /\ \A k \in Connections : pc[k] = "answered" => FirstIsStep1(k)
      /\ \A k \in Connections : up[k] # <<>> => k[2] <= socket[k[1]]
  BY DEF IInv, Core, Types, HalfAnswered, OnlyUsed
<1>1. ASSUME NEW c \in Clients, Client(c) PROVE HalfAnswered'
  <2>1. pc' = pc
    BY <1>1 DEF Client, Connect, Insert, Delete, Change, Deliver, Reply, Drop
  <2>2. ASSUME NEW k \in Connections, pc[k] = "answered" PROVE FirstIsStep1(k)'
    <3>1. up[k] # <<>> /\ up[k] \in Seq(Messages) /\ FirstIsStep1(k)
      BY <1>0, <2>2 DEF FirstIsStep1
    <3>2. CASE up'[k] = up[k]
      BY <3>1, <3>2 DEF FirstIsStep1
    <3>3. CASE Connect(c)
      <4>1. k # <<c, socket[c] + 1>>
        <5>1. k[2] <= socket[k[1]] /\ socket[c] \in Nat
          BY <1>0, <3>1 DEF Types
        <5> QED BY <5>1
      <4>2. up'[k] = up[k]
        BY <1>0, <3>3, <4>1 DEF Connect
      <4> QED BY <3>2, <4>2
    <3>4. CASE \E m \in Messages, j \in Connections : up' = [up EXCEPT ![j] = Append(@, m)]
      <4>1. \A m \in Messages : Append(up[k], m) # <<>> /\ Head(Append(up[k], m)) = Head(up[k])
        BY <3>1, AppendProperties, EmptySeq, LenProperties, HeadTailAppend
      <4> QED BY <1>0, <3>1, <3>4, <4>1 DEF FirstIsStep1
    <3>5. CASE Drop(c)
      <4>1. PICK n \in 0..Len(up[Current(c)]) :
              (pc[Current(c)] = "idle" \/ n > 0) /\ up' = [up EXCEPT ![Current(c)] = SubSeq(@, 1, n)]
        BY <3>5 DEF Drop
      <4>2. CASE k = Current(c)
        <5>1. n \in 1..Len(up[k]) /\ 1 \in Int /\ n \in Int
          BY <2>2, <3>1, <4>1, <4>2, LenProperties
        <5>2. \A i \in 1..n : up[k][i] \in Messages
          BY <3>1, <5>1, ElementOfSeq, LenProperties
        <5>3. Len(SubSeq(up[k], 1, n)) # 0
          BY <5>1, <5>2, SubSeqProperties
        <5>4. Head(SubSeq(up[k], 1, n)) = up[k][1] /\ up[k][1] = Head(up[k])
          <6>1. 1 \in 1..Len(up[k])
            BY <3>1, <5>1, LenProperties
          <6> QED BY <3>1, <5>1, <6>1, HeadTailOfSubSeq
        <5> QED BY <1>0, <3>1, <4>1, <4>2, <5>3, <5>4, EmptySeq DEF FirstIsStep1
      <4> QED BY <1>0, <3>2, <4>1, <4>2
    <3>6. CASE Insert(c) \/ Delete(c)
      <4>1. PICK o \in Ops : Change(c, o)
        <5>1. CASE Insert(c)
          <6> DEFINE n == StateVector(replica[c])[c] + 1
          <6>1. n \in Nat /\ n # 0 /\ n <= Edits[c] /\ Change(c, <<"ins", <<c, n>>>>)
            BY <5>1, StateVectorType DEF Insert
          <6>2. <<"ins", <<c, n>>>> \in Ops
            BY <6>1, Shapes
          <6> QED BY <6>1, <6>2
        <5>2. CASE Delete(c)
          <6>1. PICK id : <<"ins", id>> \in Visible(replica[c]) /\ Change(c, <<"del", id>>)
            BY <5>2 DEF Delete
          <6>2. <<"ins", id>> \in Ops
            BY <1>0, <6>1 DEF Types, Visible
          <6> QED BY <6>1, <6>2 DEF Ops
        <5> QED BY <3>6, <5>1, <5>2
      <4>2. Update({o}) \in Messages
        BY MessageTypes
      <4> QED BY <1>0, <3>2, <3>4, <4>1, <4>2, CurrentIs DEF Change, SendUpdate
    <3>7. CASE Reply(c)
      <4>1. PICK sv : up' = [up EXCEPT ![Current(c)] = Append(@, Step2(Diff(replica[c], sv)))]
        BY <3>7 DEF Reply, SendUpdate
      <4>2. Diff(replica[c], sv) \in SUBSET Ops /\ c \in online
        BY <1>0, <3>7 DEF Types, Diff, Visible, Reply
      <4> QED BY <1>0, <3>4, <4>1, <4>2, MessageTypes, CurrentIs
    <3> QED BY <1>1, <3>2, <3>3, <3>5, <3>6, <3>7 DEF Client, Deliver
  <2> QED BY <1>0, <2>1, <2>2 DEF HalfAnswered
<1>2. ASSUME NEW k \in Connections, Handle(k) PROVE HalfAnswered'
  <2>1. CASE Answer(k)
    BY <1>0, <2>1 DEF Answer, InHand, HalfAnswered, FirstIsStep1
  <2>2. CASE AskBack(k)
    BY <1>0, <2>2 DEF AskBack, Pop, HalfAnswered, FirstIsStep1
  <2>3. CASE Apply(k) \/ Refuse(k) \/ Compare(k) \/ Reject(k)
    BY <1>0, <2>3 DEF Apply, Refuse, Compare, Reject, InHand, Pop, HalfAnswered, FirstIsStep1
  <2> QED BY <1>2, <2>1, <2>2, <2>3 DEF Handle
<1>3. ASSUME NEW k \in Connections, RemoveConnection(k) PROVE HalfAnswered'
  BY <1>0, <1>3 DEF RemoveConnection, HalfAnswered, FirstIsStep1
<1>4. ASSUME NEW u \in tasks, Broadcast(u) PROVE HalfAnswered'
  BY <1>0, <1>4 DEF Broadcast, HalfAnswered, FirstIsStep1
<1> QED BY <1>1, <1>2, <1>3, <1>4 DEF Next

\* Every step keeps the invariant.
LEMMA StepIInv == IInv /\ [Next]_vars => IInv'
<1> SUFFICES ASSUME IInv, [Next]_vars PROVE IInv'
  OBVIOUS
<1>0. Core /\ HalfAnswered
  BY DEF IInv
<1>1. ASSUME NEW c \in Clients, Client(c) PROVE Core'
  <2>1. CASE Insert(c)
    <3> DEFINE n == StateVector(replica[c])[c] + 1
    <3>1. n \in Nat /\ n # 0 /\ n <= Edits[c] /\ Change(c, <<"ins", <<c, n>>>>)
      BY <2>1, StateVectorType DEF Insert
    <3>2. <<"ins", <<c, n>>>> \in Ops /\ Author(<<"ins", <<c, n>>>>) = c
      BY <3>1, Shapes DEF Author
    <3> QED BY <1>0, <3>1, <3>2, ChangeCore
  <2>2. CASE Delete(c)
    <3>1. PICK id \in Deletable :
            <<"ins", id>> \in Visible(replica[c]) /\ Change(c, <<"del", id>>)
      BY <2>2 DEF Delete
    <3>2. <<"ins", id>> \in Ops
      BY <1>0, <3>1 DEF Core, Types, Visible
    <3>3. <<"del", id>> \in Ops /\ <<"del", id>>[1] # "ins"
      BY <3>2 DEF Ops
    <3> QED BY <1>0, <3>1, <3>3, ChangeCore
  <2> QED BY <1>0, <1>1, <2>1, <2>2, ConnectCore, DeliverCore, ReplyCore, DropCore DEF Client
<1>2. ASSUME NEW k \in Connections, Handle(k) \/ RemoveConnection(k) PROVE Core'
  <2>1. CASE AskBack(k)
    <3>1. up[k] # <<>>
      BY <1>0, <2>1 DEF AskBack, HalfAnswered, FirstIsStep1
    <3> QED BY <1>0, <2>1, <3>1, AskBackCore
  <2> QED BY <1>0, <1>2, <2>1, AnswerCore, ApplyCore, ReaderCore, CloseCore DEF Handle
<1>3. ASSUME NEW u \in tasks, Broadcast(u) PROVE Core'
  BY <1>0, <1>3, BroadcastCore
<1>4. CASE UNCHANGED vars
  <2>1. Barred' = Barred /\ \A d : From(d)' = From(d)
    BY <1>4, SameBarred DEF vars, clients
  <2> QED BY <1>4, <2>1 DEF vars, IInv, Core, HalfAnswered, FirstIsStep1, Types, OnlyUsed, NothingBarred, AckIsTrue
<1>5. Next => IInv'
  BY <1>1, <1>2, <1>3, StepHalf DEF Next, IInv
<1> QED BY <1>4, <1>5

\* The invariant, always.
THEOREM Invariance == Spec => []IInv
BY InitIInv, StepIInv, PTL DEF Spec

\* What a client inserted that never had a connection that may write is neither
\* in the document nor with anybody else (message_receiver.rs:210-255).
THEOREM ReadersChangeNothing == Spec => []ReadOnlyChangesNothing
<1>1. IInv => ReadOnlyChangesNothing
  BY Shapes DEF IInv, Core, NothingBarred, Barred, ReadOnlyChangesNothing
<1> QED BY <1>1, Invariance, PTL

\* What is acknowledged is in the document: everything over a connection that
\* may write, otherwise the insertions (message_receiver.rs:228-267).
THEOREM AcksAreTrue == Spec => []AckIsTrue
<1>1. IInv => AckIsTrue
  BY DEF IInv, Core
<1> QED BY <1>1, Invariance, PTL
--------------------------------------------------------------------------------
(* The exchange: what somebody is missing is always under way.            *)

\* A state vector counts every insertion whose predecessors are there too.
LEMMA CountedIff ==
    ASSUME NEW S, NEW c \in Clients, NEW n \in 1..Edits[c]
    PROVE  n <= StateVector(S)[c] <=> \A i \in 1..n : Has(S, c, i)
<1> DEFINE T == {m \in 1..Edits[c] : \A i \in 1..m : Has(S, c, i)}
<1>1. Edits[c] \in Nat /\ StateVector(S)[c] \in Nat /\ StateVector(S)[c] = Cardinality(T)
  BY SyncAssumption, StateVectorType DEF StateVector
<1>2. ASSUME n <= StateVector(S)[c], NEW i \in 1..n PROVE Has(S, c, i)
  <2>1. i \in 1..Edits[c] /\ i <= StateVector(S)[c]
    BY <1>1, <1>2
  <2> QED BY <2>1, Counted
<1>3. ASSUME \A i \in 1..n : Has(S, c, i) PROVE n <= StateVector(S)[c]
  <2>1. 1..n \in SUBSET T
    <3>1. ASSUME NEW m \in 1..n PROVE m \in 1..Edits[c] /\ \A i \in 1..m : i \in 1..n
      BY <1>1
    <3> QED BY <1>3, <3>1
  <2>2. IsFiniteSet(T)
    <3>1. IsFiniteSet(1..Edits[c])
      BY <1>1, FS_Interval
    <3>2. T \in SUBSET (1..Edits[c])
      OBVIOUS
    <3> QED BY <3>1, <3>2, FS_Subset
  <2>3. n \in Int /\ 1 \in Int /\ ~ 1 > n
    BY <1>1
  <2>4. Cardinality(1..n) = IF 1 > n THEN 0 ELSE n - 1 + 1
    BY <2>3, FS_Interval
  <2>5. Cardinality(1..n) = n
    BY <2>3, <2>4
  <2>6. Cardinality(1..n) <= Cardinality(T)
    BY <2>1, <2>2, FS_Subset
  <2> QED BY <1>1, <2>5, <2>6
<1> QED BY <1>2, <1>3

\* Who has more counts more.
LEMMA CountsMore ==
    ASSUME NEW S, NEW T, S \subseteq T, NEW c \in Clients, NEW n \in 1..Edits[c],
           n <= StateVector(S)[c]
    PROVE  n <= StateVector(T)[c]
BY CountedIff DEF Has

\* What is visible stays visible when more comes.
LEMMA VisibleGrows ==
    ASSUME NEW S, NEW T \in SUBSET Ops, S \subseteq T
    PROVE  Visible(S) \subseteq Visible(T)
<1> SUFFICES ASSUME NEW o \in Visible(S) PROVE o \in Visible(T)
  OBVIOUS
<1>1. o \in S /\ o \in T /\ Number(o) <= StateVector(S)[Author(o)]
  BY DEF Visible
<1>2. Author(o) \in Clients /\ Number(o) \in 1..Edits[Author(o)]
  BY <1>1, Shapes
<1>3. Number(o) <= StateVector(T)[Author(o)]
  BY <1>1, <1>2, CountsMore
<1> QED BY <1>1, <1>3 DEF Visible

\* What is visible of S does not depend on anything that is not.
LEMMA VisibleWithin ==
    ASSUME NEW S \in SUBSET Ops, NEW T \in SUBSET Ops, Visible(S) \subseteq T
    PROVE  Visible(S) \subseteq Visible(T)
<1> SUFFICES ASSUME NEW o \in Visible(S) PROVE o \in Visible(T)
  OBVIOUS
<1> DEFINE a == Author(o)
<1>1. o \in S /\ o \in T /\ Number(o) <= StateVector(S)[a]
  BY DEF Visible
<1>2. a \in Clients /\ Number(o) \in 1..Edits[a] /\ Edits[a] \in Nat
  BY <1>1, Shapes, SyncAssumption
<1>3. ASSUME NEW i \in 1..Number(o) PROVE Has(T, a, i)
  <2> DEFINE p == <<"ins", <<a, i>>>>
  <2>1. Has(S, a, i)
    BY <1>1, <1>2, CountedIff
  <2>2. i \in 1..Edits[a] /\ \A j \in 1..i : j \in 1..Number(o)
    BY <1>2
  <2>3. i <= StateVector(S)[a]
    BY <1>1, <1>2, <2>2, CountedIff
  <2>4. p \in S /\ Author(p) = a /\ Number(p) = i
    BY <2>1 DEF Has, Author, Number
  <2>5. p \in Visible(S)
    BY <2>3, <2>4 DEF Visible
  <2> QED BY <2>5 DEF Has
<1>4. Number(o) <= StateVector(T)[a]
  BY <1>2, <1>3, CountedIff
<1> QED BY <1>1, <1>4 DEF Visible

\* Whoever has all that sv counts.
Knows(S, sv) == \A d \in Clients : \A n \in 1..Edits[d] : n <= sv[d] => Has(S, d, n)

\* A state vector is known by those it is made from and everyone with more.
LEMMA KnowsOwn ==
    ASSUME NEW S, NEW T, S \subseteq T
    PROVE  /\ Knows(S, StateVector(S))
           /\ \A sv : Knows(S, sv) => Knows(T, sv)
BY Counted DEF Knows, Has

\* What a difference leaves out of the visible is known by whoever knows the
\* state vector.
LEMMA DiffRest ==
    ASSUME NEW S \in SUBSET Ops, NEW T, NEW sv \in [Clients -> Nat], Knows(T, sv)
    PROVE  Visible(S) \subseteq Diff(S, sv) \cup T
<1> SUFFICES ASSUME NEW o \in Visible(S), o \notin Diff(S, sv) PROVE o \in T
  OBVIOUS
<1> DEFINE a == Author(o)
<1>1. o \in Ops /\ o[1] # "del" /\ ~ Number(o) > sv[a]
  BY DEF Visible, Diff
<1>2. o[1] = "ins"
  BY <1>1 DEF Ops
<1>3. a \in Clients /\ Number(o) \in 1..Edits[a] /\ Edits[a] \in Nat /\ o = <<"ins", <<a, Number(o)>>>>
  BY <1>1, <1>2, Shapes, SyncAssumption
<1>4. sv[a] \in Nat /\ Number(o) \in Nat
  BY <1>3
<1>5. Number(o) <= sv[a]
  BY <1>1, <1>4
<1>6. Has(T, a, Number(o))
  BY <1>3, <1>5 DEF Knows
<1> QED BY <1>3, <1>6 DEF Has

\* The messages of a queue that will get a status.
Awaiting(q) == {i \in 1..Len(q) : q[i].type # "step1"}

\* How many they are.
LEMMA AwaitingType ==
    ASSUME NEW q \in Seq(Messages)
    PROVE  IsFiniteSet(Awaiting(q)) /\ Cardinality(Awaiting(q)) \in Nat
<1>1. Len(q) \in Int /\ 1 \in Int
  BY LenProperties
<1>2. IsFiniteSet(1..Len(q))
  BY <1>1, FS_Interval
<1>3. Awaiting(q) \in SUBSET (1..Len(q))
  BY DEF Awaiting
<1> QED BY <1>2, <1>3, FS_Subset, FS_CardinalityType

\* A message behind the others.
LEMMA AwaitingMore ==
    ASSUME NEW q \in Seq(Messages), NEW m \in Messages, m.type # "step1"
    PROVE  /\ Append(q, m) \in Seq(Messages) /\ Append(q, m) # <<>>
           /\ q # <<>> => Head(Append(q, m)) = Head(q)
           /\ \E i \in Awaiting(Append(q, m)) : Append(q, m)[i] = m
           /\ \A i \in Awaiting(q) : i \in Awaiting(Append(q, m)) /\ Append(q, m)[i] = q[i]
           /\ Cardinality(Awaiting(Append(q, m))) = Cardinality(Awaiting(q)) + 1
<1> DEFINE n == Len(q)
           p == Append(q, m)
<1>1. n \in Nat
  BY LenProperties
<1>2. /\ p \in Seq(Messages) /\ Len(p) = n + 1 /\ p[n + 1] = m
      /\ \A i \in 1..n : p[i] = q[i]
  BY AppendProperties
<1>3. p # <<>>
  BY <1>1, <1>2, EmptySeq
<1>4. q # <<>> => Head(p) = Head(q)
  BY HeadTailAppend
<1>5. Awaiting(p) = Awaiting(q) \cup {n + 1}
  <2>1. \A i : i \in 1..(n + 1) <=> i \in 1..n \/ i = n + 1
    BY <1>1
  <2> QED BY <1>2, <2>1 DEF Awaiting
<1>6. n + 1 \notin Awaiting(q)
  BY <1>1 DEF Awaiting
<1>7. Cardinality(Awaiting(p)) = Cardinality(Awaiting(q)) + 1
  BY <1>5, <1>6, AwaitingType, FS_AddElement
<1>8. \A i \in Awaiting(q) : i \in Awaiting(p) /\ p[i] = q[i]
  BY <1>2, <1>5 DEF Awaiting
<1>9. n + 1 \in Awaiting(p) /\ p[n + 1] = m
  BY <1>2, <1>5
<1> QED BY <1>2, <1>3, <1>4, <1>7, <1>8, <1>9

\* The queue without its front.
LEMMA AwaitingLess ==
    ASSUME NEW q \in Seq(Messages), q # <<>>
    PROVE  /\ \A i \in Awaiting(q) :
                 \/ q[i] = Head(q)
                 \/ i - 1 \in Awaiting(Tail(q)) /\ Tail(q)[i - 1] = q[i]
           /\ Cardinality(Awaiting(q)) =
                 Cardinality(Awaiting(Tail(q))) + (IF Head(q).type = "step1" THEN 0 ELSE 1)
<1> DEFINE n == Len(q)
           p == Tail(q)
           A == Awaiting(q)
           B == Awaiting(p)
<1>1. n \in Nat /\ n # 0
  BY EmptySeq, LenProperties
<1>2. /\ p \in Seq(Messages) /\ Len(p) = n - 1 /\ Head(q) = q[1]
      /\ \A i \in 1..(n - 1) : p[i] = q[i + 1]
  BY HeadTailProperties
<1>3. \A i : i \in B <=> i \in 1..(n - 1) /\ q[i + 1].type # "step1"
  BY <1>2 DEF Awaiting
<1>4. \A i : i \in A <=> i \in 1..n /\ q[i].type # "step1"
  BY DEF Awaiting
<1>5. IsFiniteSet(A) /\ Cardinality(A) \in Nat /\ IsFiniteSet(B) /\ Cardinality(B) \in Nat
  BY <1>2, AwaitingType
<1> HIDE DEF A, B, n, p
<1>6. Cardinality(A \ {1}) = Cardinality(B)
  <2> DEFINE f == [i \in B |-> i + 1]
  <2>1. f \in Bijection(B, A \ {1})
    <3>1. ASSUME NEW i \in B PROVE i + 1 \in A \ {1} /\ i \in Nat
      BY <1>1, <1>3, <1>4
    <3>2. \A i, j \in B : f[i] = f[j] => i = j
      BY <3>1
    <3>3. ASSUME NEW j \in A \ {1} PROVE \E i \in B : f[i] = j
      <4>1. j \in 1..n /\ j # 1 /\ q[j].type # "step1"
        BY <1>4
      <4>2. j - 1 \in 1..(n - 1) /\ (j - 1) + 1 = j
        BY <1>1, <4>1
      <4>3. j - 1 \in B
        BY <1>3, <4>1, <4>2
      <4> QED BY <4>2, <4>3
    <3>4. f \in [B -> A \ {1}]
      BY <3>1
    <3> HIDE DEF f
    <3> QED BY <3>2, <3>3, <3>4, Fun_IsBij
  <2>2. IsFiniteSet(A \ {1})
    BY <1>5, FS_RemoveElement
  <2> QED BY <1>5, <2>1, FS_Bijection DEF ExistsBijection
<1>7. Cardinality(A \ {1}) = IF 1 \in A THEN Cardinality(A) - 1 ELSE Cardinality(A)
  BY <1>5, FS_RemoveElement
<1>8. 1 \in A <=> Head(q).type # "step1"
  BY <1>1, <1>2, <1>4
<1>9. Cardinality(A) = Cardinality(B) + (IF Head(q).type = "step1" THEN 0 ELSE 1)
  BY <1>5, <1>6, <1>7, <1>8
<1>10. ASSUME NEW i \in A, q[i] # Head(q) PROVE i - 1 \in B /\ p[i - 1] = q[i]
  <2>1. i \in 1..n /\ i # 1 /\ q[i].type # "step1"
    BY <1>2, <1>4, <1>10
  <2>2. i - 1 \in 1..(n - 1) /\ (i - 1) + 1 = i
    BY <1>1, <2>1
  <2> QED BY <1>2, <1>3, <2>1, <2>2
<1> QED BY <1>9, <1>10 DEF A, B, p
--------------------------------------------------------------------------------
\* What is on its way to clients comes from the document, which only grows.
OfDoc ==
    /\ \A k \in Connections : told[k] \subseteq doc
    /\ \A u \in tasks : u \subseteq doc
    /\ \A k \in Connections : \A sv \in asked[k] : Knows(doc, sv)

\* A client holds back only what the document has.
HeldBack == \A c \in Clients : replica[c] \ doc \subseteq Visible(replica[c])

\* The server has still to answer the client's SyncStep1, or what the client
\* does not have of the document is under way to it.
CatchesUp(c) ==
    \/ /\ FirstIsStep1(Current(c)) /\ pc[Current(c)] = "idle"
       /\ Knows(replica[c], Head(up[Current(c)]).sv)
    \/ Visible(doc) \subseteq replica[c] \cup told[Current(c)] \cup UNION tasks

\* The server has still to ask a writer back, or the writer to reply, or what
\* the document does not have is under way to it.
Delivers(c) ==
    Current(c) \notin readOnly =>
        \/ FirstIsStep1(Current(c))
        \/ asked[Current(c)] # {}
        \/ \A o \in replica[c] \ doc : \E i \in Awaiting(up[Current(c)]) : o \in up[Current(c)][i].ops

\* What is unanswered is under way.
Counts(c) ==
    unanswered[c] = IF c \in Connected THEN Cardinality(Awaiting(up[Current(c)])) ELSE 0

Exchange ==
    /\ readOnly \subseteq Connections
    /\ unanswered \in [Clients -> Nat]
    /\ OfDoc /\ HeldBack
    /\ \A c \in Connected : CatchesUp(c) /\ Delivers(c)
    /\ \A c \in Clients : Counts(c)

\* What keeps a client catching up: its queue only gets longer, what was
\* under way to it still is, or has come, and what is new is about to be
\* broadcast.
LEMMA StillCatchesUp ==
    ASSUME NEW c \in Clients, CatchesUp(c), Types, Current(c)' = Current(c),
           Current(c) \in Connections,
           \/ up'[Current(c)] = up[Current(c)]
           \/ \E m \in Messages : up'[Current(c)] = Append(up[Current(c)], m),
           pc'[Current(c)] = pc[Current(c)],
           replica[c] \subseteq replica'[c],
           told[Current(c)] \cup UNION tasks
             \subseteq replica'[c] \cup told'[Current(c)] \cup UNION tasks',
           Visible(doc)' \subseteq Visible(doc) \cup UNION tasks'
    PROVE  CatchesUp(c)'
<1> DEFINE k == Current(c)
<1>1. up[k] \in Seq(Messages)
  BY DEF Types
<1>2. CASE /\ FirstIsStep1(k) /\ pc[k] = "idle"
           /\ Knows(replica[c], Head(up[k]).sv)
  <2>1. up'[k] # <<>> /\ Head(up'[k]) = Head(up[k])
    <3>1. \A m \in Messages : Append(up[k], m) # <<>> /\ Head(Append(up[k], m)) = Head(up[k])
      BY <1>1, <1>2, AppendProperties, HeadTailAppend, EmptySeq, LenProperties DEF FirstIsStep1
    <3> QED BY <1>2, <3>1 DEF FirstIsStep1
  <2>2. FirstIsStep1(k)'
    BY <1>2, <2>1 DEF FirstIsStep1
  <2>3. Knows(replica'[c], Head(up'[k]).sv)
    BY <1>2, <2>1, KnowsOwn
  <2> QED BY <1>2, <2>2, <2>3 DEF CatchesUp
<1>3. CASE Visible(doc) \subseteq replica[c] \cup told[k] \cup UNION tasks
  <2>1. Visible(doc)' \subseteq replica'[c] \cup told'[k] \cup UNION tasks'
    BY <1>3
  <2> QED BY <2>1 DEF CatchesUp
<1> QED BY <1>2, <1>3 DEF CatchesUp

\* What keeps a client delivering: its queue only gets longer, a request is
\* not lost, and it has nothing new to deliver.
LEMMA StillDelivers ==
    ASSUME NEW c \in Clients, Delivers(c), Types, Current(c)' = Current(c),
           Current(c) \in Connections,
           \/ up'[Current(c)] = up[Current(c)]
           \/ \E m \in Messages : m.type # "step1" /\ up'[Current(c)] = Append(up[Current(c)], m),
           Current(c) \in readOnly => Current(c) \in readOnly',
           asked[Current(c)] # {} => asked'[Current(c)] # {},
           replica'[c] \ doc' \subseteq replica[c] \ doc
    PROVE  Delivers(c)'
<1> DEFINE k == Current(c)
<1> SUFFICES ASSUME k \notin readOnly'
             PROVE  \/ FirstIsStep1(k)'
                    \/ asked'[k] # {}
                    \/ \A o \in replica'[c] \ doc' : \E i \in Awaiting(up'[k]) : o \in up'[k][i].ops
  BY DEF Delivers
<1>1. up[k] \in Seq(Messages)
  BY DEF Types
<1>2. /\ up[k] # <<>> => up'[k] # <<>> /\ Head(up'[k]) = Head(up[k])
      /\ \A i \in Awaiting(up[k]) : i \in Awaiting(up'[k]) /\ up'[k][i] = up[k][i]
  <2>1. CASE up'[k] = up[k]
    BY <2>1
  <2>2. ASSUME NEW m \in Messages, m.type # "step1", up'[k] = Append(up[k], m)
        PROVE  /\ up[k] # <<>> => up'[k] # <<>> /\ Head(up'[k]) = Head(up[k])
               /\ \A i \in Awaiting(up[k]) : i \in Awaiting(up'[k]) /\ up'[k][i] = up[k][i]
    <3>1. /\ up[k] # <<>> => Append(up[k], m) # <<>> /\ Head(Append(up[k], m)) = Head(up[k])
          /\ \A i \in Awaiting(up[k]) :
                i \in Awaiting(Append(up[k], m)) /\ Append(up[k], m)[i] = up[k][i]
      <4> HIDE DEF k
      <4> QED BY <1>1, <2>2, AwaitingMore
    <3> QED BY <2>2, <3>1
  <2> QED BY <2>1, <2>2
<1>3. CASE FirstIsStep1(k)
  BY <1>2, <1>3 DEF FirstIsStep1
<1>4. CASE \A o \in replica[c] \ doc : \E i \in Awaiting(up[k]) : o \in up[k][i].ops
  BY <1>2, <1>4
<1> QED BY <1>3, <1>4 DEF Delivers

\* Who is connected, and reached.
LEMMA ConnectedIs ==
    ASSUME Types
    PROVE  /\ \A c \in Connected :
                 /\ c \in online /\ c \in Clients
                 /\ Current(c) \in Connections /\ Current(c)[1] = c /\ Current(c) \in registered
                 /\ Current(c) \in Reached
           /\ \A k \in Reached : k[1] \in Connected /\ k = Current(k[1])
           /\ \A c, d : Current(c) = Current(d) => c = d
BY CurrentIs DEF Connected, Types, Reached, Current

\* A queue with nothing but a SyncStep1.
LEMMA JustStep1 ==
    ASSUME NEW m, m.type = "step1"
    PROVE  Awaiting(<<m>>) = {} /\ Cardinality(Awaiting(<<m>>)) = 0
<1>1. Awaiting(<<m>>) = {}
  BY DEF Awaiting
<1> QED BY <1>1, FS_EmptySet

\* A new connection starts with a SyncStep1.
LEMMA ConnectExchange ==
    ASSUME IInv, IInv', Exchange, NEW c \in Clients, Connect(c)
    PROVE  Exchange'
<1> DEFINE k == <<c, socket[c] + 1>>
           m == Step1(StateVector(replica[c]))
<1>0. /\ Types /\ Types' /\ OnlyUsed /\ HalfAnswered
      /\ readOnly \subseteq Connections /\ unanswered \in [Clients -> Nat]
      /\ OfDoc /\ HeldBack
      /\ \A d \in Connected : CatchesUp(d) /\ Delivers(d)
      /\ \A d \in Clients : Counts(d)
  BY DEF IInv, Core, Exchange
<1>1. /\ socket[c] \in Nat /\ socket[c] < Sockets[c] /\ socket' = [socket EXCEPT ![c] = @ + 1]
      /\ c \notin online /\ online' = online \cup {c} /\ registered' = registered \cup {k}
      /\ readOnly \subseteq readOnly' /\ readOnly' \subseteq readOnly \cup {k}
      /\ up' = [up EXCEPT ![k] = <<m>>]
      /\ UNCHANGED <<doc, told, asked, pc, tasks, replica, unanswered>>
  BY <1>0 DEF Connect, Types, statuses
<1>2. k \in Connections /\ k[1] = c /\ k[2] = socket[c] + 1
  BY <1>1, Shapes, SyncAssumption
<1>3. up[k] = <<>> /\ pc[k] = "idle" /\ up'[k] = <<m>>
  <2>1. ~ k[2] <= socket[k[1]]
    BY <1>1, <1>2
  <2>2. up[k] = <<>>
    BY <1>0, <1>2, <2>1 DEF OnlyUsed
  <2>3. pc[k] = "idle"
    BY <1>0, <1>2, <2>2 DEF HalfAnswered, FirstIsStep1
  <2> QED BY <1>0, <1>1, <1>2, <2>2, <2>3 DEF Types
<1>4. Current(c)' = k /\ \A d \in Clients \ {c} : Current(d)' = Current(d) /\ Current(d) # k
  BY <1>0, <1>1 DEF Types, Current
<1>5. c \notin Connected /\ c \in Connected'
      /\ \A d \in Clients \ {c} : d \in Connected' <=> d \in Connected
  BY <1>1, <1>4 DEF Connected
<1>6. m.type = "step1" /\ m.sv = StateVector(replica[c]) /\ Head(<<m>>) = m /\ <<m>> # <<>>
  BY DEF Step1
<1> HIDE DEF k, m
<1>7. ASSUME NEW d \in Connected' PROVE CatchesUp(d)' /\ Delivers(d)'
  <2>1. CASE d = c
    <3>1. FirstIsStep1(Current(c))'
      BY <1>3, <1>4, <1>6 DEF FirstIsStep1
    <3>2. Knows(replica'[c], Head(up'[Current(c)']).sv)
      BY <1>1, <1>3, <1>4, <1>6, KnowsOwn
    <3>3. pc'[Current(c)'] = "idle"
      BY <1>1, <1>3, <1>4
    <3> QED BY <2>1, <3>1, <3>2, <3>3 DEF CatchesUp, Delivers
  <2>2. CASE d # c
    <3>1. d \in Connected /\ d \in Clients /\ Current(d) \in Connections
          /\ Current(d)' = Current(d) /\ Current(d) # k
      BY <1>0, <1>4, <1>5, <2>2, ConnectedIs DEF Connected, Types
    <3>2. up'[Current(d)] = up[Current(d)]
      BY <1>0, <1>1, <3>1 DEF Types
    <3>3. CatchesUp(d)'
      BY <1>0, <1>1, <3>1, <3>2, StillCatchesUp
    <3>4. Delivers(d)'
      BY <1>0, <1>1, <3>1, <3>2, StillDelivers
    <3> QED BY <3>3, <3>4
  <2> QED BY <2>1, <2>2
<1>8. ASSUME NEW d \in Clients PROVE Counts(d)'
  <2>1. CASE d = c
    <3>1. unanswered[c] = 0
      BY <1>0, <1>5 DEF Counts
    <3> QED BY <1>1, <1>3, <1>4, <1>5, <1>6, <2>1, <3>1, JustStep1 DEF Counts
  <2>2. CASE d # c
    <3>1. d \in Connected => Current(d) \in Connections
      BY <1>0, ConnectedIs
    <3>2. d \in Connected => up'[Current(d)] = up[Current(d)]
      BY <1>0, <1>1, <1>4, <2>2, <3>1 DEF Types
    <3> QED BY <1>0, <1>1, <1>4, <1>5, <2>2, <3>2 DEF Counts
  <2> QED BY <2>1, <2>2
<1>9. OfDoc' /\ HeldBack'
  BY <1>0, <1>1 DEF OfDoc, HeldBack
<1>10. readOnly' \subseteq Connections
  BY <1>0, <1>1, <1>2
<1> QED BY <1>0, <1>1, <1>7, <1>8, <1>9, <1>10 DEF Exchange

\* What a client sends is one more to be answered, if it is connected.
LEMMA SendExchange ==
    ASSUME Types, Exchange, NEW c \in online, NEW m \in Messages, m.type # "step1",
           SendUpdate(c, m), UNCHANGED <<registered, socket, online>>
    PROVE  /\ unanswered' \in [Clients -> Nat]
           /\ Connected' = Connected /\ \A d : Current(d)' = Current(d)
           /\ up'[Current(c)] = Append(up[Current(c)], m)
           /\ \A k \in Connections : k # Current(c) => up'[k] = up[k]
           /\ \A d \in Clients : Counts(d)'
<1>0. c \in Clients /\ Current(c) \in Connections /\ up \in [Connections -> Seq(Messages)]
  BY CurrentIs DEF Types
<1>1. /\ up' = [up EXCEPT ![Current(c)] = Append(@, m)]
      /\ unanswered' = IF Current(c) \in registered THEN [unanswered EXCEPT ![c] = @ + 1] ELSE unanswered
  BY DEF SendUpdate
<1>2. Connected' = Connected /\ \A d : Current(d)' = Current(d)
  BY DEF Connected, Current
<1>3. unanswered \in [Clients -> Nat] /\ \A d \in Clients : Counts(d)
  BY DEF Exchange
<1>4. up'[Current(c)] = Append(up[Current(c)], m)
      /\ \A k \in Connections : k # Current(c) => up'[k] = up[k]
  BY <1>0, <1>1
<1>5. unanswered' \in [Clients -> Nat]
  BY <1>0, <1>1, <1>3
<1>6. ASSUME NEW d \in Clients PROVE Counts(d)'
  <2>1. CASE d = c
    <3>1. unanswered'[c] = IF c \in Connected THEN unanswered[c] + 1 ELSE unanswered[c]
      BY <1>0, <1>1, <1>3 DEF Connected
    <3>2. Cardinality(Awaiting(up'[Current(c)])) = Cardinality(Awaiting(up[Current(c)])) + 1
      <4>1. up[Current(c)] \in Seq(Messages)
        BY <1>0
      <4> QED BY <1>4, <4>1, AwaitingMore
    <3> QED BY <1>2, <1>3, <2>1, <3>1, <3>2 DEF Counts
  <2>2. CASE d # c
    <3>1. unanswered'[d] = unanswered[d]
      BY <1>0, <1>1, <1>3, <2>2
    <3>2. d \in Connected => Current(d) \in Connections /\ Current(d) # Current(c)
      BY <2>2, ConnectedIs
    <3> QED BY <1>2, <1>3, <1>4, <3>1, <3>2 DEF Counts
  <2> QED BY <2>1, <2>2
<1> QED BY <1>2, <1>4, <1>5, <1>6

\* What a client changes is visible to it, and it sends it.
LEMMA ChangeExchange ==
    ASSUME IInv, IInv', Exchange, NEW c \in Clients, NEW o \in Ops, Change(c, o),
           o \in Visible(replica[c] \cup {o})
    PROVE  Exchange'
<1>0. /\ Types /\ Types'
      /\ readOnly \subseteq Connections /\ unanswered \in [Clients -> Nat]
      /\ OfDoc /\ HeldBack
      /\ \A d \in Connected : CatchesUp(d) /\ Delivers(d)
      /\ \A d \in Clients : Counts(d)
  BY DEF IInv, Core, Exchange
<1>1. /\ replica' = [replica EXCEPT ![c] = @ \cup {o}]
      /\ c \in online => SendUpdate(c, Update({o}))
      /\ c \notin online => UNCHANGED <<up, unanswered>>
      /\ UNCHANGED <<doc, registered, readOnly, told, asked, pc, tasks, socket, online>>
  BY DEF Change
<1>2. Update({o}) \in Messages /\ Update({o}).type # "step1" /\ Update({o}).ops = {o}
  BY MessageTypes
<1>3. Connected' = Connected /\ \A d : Current(d)' = Current(d)
  BY <1>1 DEF Connected, Current
<1>4. /\ replica'[c] = replica[c] \cup {o}
      /\ \A d \in Clients : d # c => replica'[d] = replica[d]
      /\ \A d \in Clients : replica[d] \subseteq replica'[d]
  BY <1>0, <1>1 DEF Types
<1>5. unanswered' \in [Clients -> Nat] /\ \A d \in Clients : Counts(d)'
  <2>1. CASE c \in online
    BY <1>0, <1>1, <1>2, <2>1, SendExchange
  <2>2. CASE c \notin online
    BY <1>0, <1>1, <1>3, <2>2 DEF Counts
  <2> QED BY <2>1, <2>2
<1>6. ASSUME NEW d \in Connected
      PROVE  /\ d \in Clients /\ d \in online /\ Current(d) \in Connections
             /\ d # c => up'[Current(d)] = up[Current(d)]
             /\ d = c => up'[Current(d)] = Append(up[Current(d)], Update({o}))
  <2>1. d \in Clients /\ d \in online /\ Current(d) \in Connections /\ (d # c => Current(d) # Current(c))
    BY <1>0, ConnectedIs
  <2>2. CASE c \in online
    BY <1>0, <1>1, <1>2, <2>1, <2>2, SendExchange
  <2>3. CASE c \notin online
    BY <1>1, <2>1, <2>3
  <2> QED BY <2>1, <2>2, <2>3
<1>7. ASSUME NEW d \in Connected PROVE CatchesUp(d)'
  BY <1>0, <1>1, <1>2, <1>3, <1>4, <1>6, StillCatchesUp
<1>8. ASSUME NEW d \in Connected PROVE Delivers(d)'
  <2>1. CASE d # c
    BY <1>0, <1>1, <1>3, <1>4, <1>6, <2>1, StillDelivers
  <2>2. CASE d = c
    <3> DEFINE k == Current(c)
    <3>1. up'[k] = Append(up[k], Update({o})) /\ up[k] \in Seq(Messages)
      BY <1>0, <1>6, <2>2 DEF Types
    <3>2. /\ up[k] # <<>> => up'[k] # <<>> /\ Head(up'[k]) = Head(up[k])
          /\ \E i \in Awaiting(up'[k]) : up'[k][i] = Update({o})
          /\ \A i \in Awaiting(up[k]) : i \in Awaiting(up'[k]) /\ up'[k][i] = up[k][i]
      <4> DEFINE m == Update({o})
      <4>1. m \in Messages /\ m.type # "step1"
        BY <1>2
      <4> HIDE DEF k, m
      <4>2. /\ up[k] # <<>> => Append(up[k], m) # <<>> /\ Head(Append(up[k], m)) = Head(up[k])
            /\ \E i \in Awaiting(Append(up[k], m)) : Append(up[k], m)[i] = m
            /\ \A i \in Awaiting(up[k]) :
                  i \in Awaiting(Append(up[k], m)) /\ Append(up[k], m)[i] = up[k][i]
        BY <3>1, <4>1, AwaitingMore
      <4>3. up'[k] = Append(up[k], m)
        BY <3>1 DEF m
      <4> QED BY <4>2, <4>3 DEF m
    <3>3. CASE k \in readOnly \/ FirstIsStep1(k) \/ asked[k] # {}
      BY <1>1, <1>3, <2>2, <3>2, <3>3 DEF Delivers, FirstIsStep1
    <3>4. CASE \A p \in replica[c] \ doc : \E i \in Awaiting(up[k]) : p \in up[k][i].ops
      <4>1. ASSUME NEW p \in replica'[c] \ doc' PROVE \E i \in Awaiting(up'[k]) : p \in up'[k][i].ops
        BY <1>1, <1>2, <1>4, <3>2, <3>4, <4>1
      <4> QED BY <1>3, <2>2, <4>1 DEF Delivers
    <3> QED BY <1>0, <2>2, <3>3, <3>4 DEF Delivers
  <2> QED BY <2>1, <2>2
<1>9. HeldBack'
  <2>1. ASSUME NEW d \in Clients PROVE replica'[d] \ doc' \subseteq Visible(replica'[d])
    <3>1. Visible(replica[d]) \subseteq Visible(replica'[d])
      BY <1>0, <1>4, VisibleGrows DEF Types
    <3> QED BY <1>0, <1>1, <1>4, <3>1 DEF HeldBack
  <2>2. \A d \in Clients : Visible(replica[d])' = Visible(replica'[d])
    BY DEF Visible, StateVector, Has
  <2> QED BY <2>1, <2>2 DEF HeldBack
<1>10. OfDoc'
  BY <1>0, <1>1 DEF OfDoc
<1> QED BY <1>0, <1>1, <1>3, <1>5, <1>7, <1>8, <1>9, <1>10 DEF Exchange

\* A client inserts behind what it can see.
LEMMA InsertExchange ==
    ASSUME IInv, IInv', Exchange, NEW c \in Clients, Insert(c)
    PROVE  Exchange'
<1> DEFINE s == StateVector(replica[c])[c]
           o == <<"ins", <<c, s + 1>>>>
           S == replica[c] \cup {o}
<1>1. s \in Nat /\ s + 1 <= Edits[c] /\ Change(c, o) /\ Edits[c] \in Nat
  BY StateVectorType, SyncAssumption DEF Insert
<1>2. o \in Ops /\ Author(o) = c /\ Number(o) = s + 1
  <2>1. s + 1 \in Nat /\ s + 1 # 0
    BY <1>1
  <2>2. o \in Ops
    BY <1>1, <2>1, Shapes
  <2> QED BY <2>2 DEF Author, Number
<1>3. ASSUME NEW i \in 1..(s + 1) PROVE Has(S, c, i)
  <2>1. CASE i = s + 1
    BY <2>1 DEF Has
  <2>2. CASE i # s + 1
    <3>1. i \in 1..Edits[c] /\ i <= s
      BY <1>1, <2>2
    <3>2. Has(replica[c], c, i)
      BY <3>1, Counted
    <3> QED BY <3>2 DEF Has
  <2> QED BY <2>1, <2>2
<1>4. s + 1 \in 1..Edits[c]
  BY <1>1
<1> HIDE DEF s
<1>5. s + 1 <= StateVector(S)[c]
  BY <1>3, <1>4, CountedIff
<1>6. o \in Visible(S)
  BY <1>2, <1>5 DEF Visible
<1> QED BY <1>1, <1>2, <1>6, ChangeExchange

\* A client deletes what it can see.
LEMMA DeleteExchange ==
    ASSUME IInv, IInv', Exchange, NEW c \in Clients, Delete(c)
    PROVE  Exchange'
<1>1. PICK id : <<"ins", id>> \in Visible(replica[c]) /\ Change(c, <<"del", id>>)
  BY DEF Delete
<1> DEFINE o == <<"del", id>>
           S == replica[c] \cup {o}
<1>2. replica[c] \subseteq Ops
  BY DEF IInv, Core, Types
<1>3. <<"ins", id>> \in Ops
  BY <1>1, <1>2 DEF Visible
<1>4. o \in Ops /\ Author(o) = Author(<<"ins", id>>) /\ Number(o) = Number(<<"ins", id>>)
  BY <1>3 DEF Ops, Author, Number
<1>5. <<"ins", id>> \in Visible(S)
  BY <1>1, <1>2, <1>4, VisibleGrows
<1>6. o \in Visible(S)
  BY <1>4, <1>5 DEF Visible
<1> QED BY <1>1, <1>4, <1>6, ChangeExchange

\* What a client is sent is in the document.
LEMMA DeliverExchange ==
    ASSUME IInv, IInv', Exchange, NEW c \in Clients, Deliver(c)
    PROVE  Exchange'
<1>0. /\ Types /\ Types'
      /\ readOnly \subseteq Connections /\ unanswered \in [Clients -> Nat]
      /\ OfDoc /\ HeldBack
      /\ \A d \in Connected : CatchesUp(d) /\ Delivers(d)
      /\ \A d \in Clients : Counts(d)
  BY DEF IInv, Core, Exchange
<1>1. /\ c \in online
      /\ replica' = [replica EXCEPT ![c] = @ \cup told[Current(c)]]
      /\ told' = [told EXCEPT ![Current(c)] = {}]
      /\ UNCHANGED <<doc, registered, readOnly, up, asked, pc, tasks, socket, online, unanswered>>
  BY DEF Deliver, statuses
<1>2. Current(c) \in Connections
  BY <1>0, <1>1, CurrentIs
<1>3. Connected' = Connected /\ \A d : Current(d)' = Current(d)
  BY <1>1 DEF Connected, Current
<1>4. /\ replica'[c] = replica[c] \cup told[Current(c)]
      /\ \A d \in Clients : d # c => replica'[d] = replica[d]
      /\ \A d \in Clients : replica[d] \subseteq replica'[d] /\ replica'[d] \subseteq replica[d] \cup doc
  BY <1>0, <1>1, <1>2 DEF Types, OfDoc
<1>5. \A k \in Connections : k # Current(c) => told'[k] = told[k]
  BY <1>0, <1>1 DEF Types
<1>6. ASSUME NEW d \in Connected PROVE CatchesUp(d)' /\ Delivers(d)'
  <2>1. d \in Clients /\ Current(d) \in Connections /\ (d # c => Current(d) # Current(c))
    BY <1>0, ConnectedIs
  <2>2. told[Current(d)] \subseteq replica'[d] \cup told'[Current(d)]
    BY <1>4, <1>5, <2>1
  <2>3. CatchesUp(d)'
    BY <1>0, <1>1, <1>3, <1>4, <2>1, <2>2, StillCatchesUp
  <2>4. Delivers(d)'
    BY <1>0, <1>1, <1>3, <1>4, <2>1, StillDelivers
  <2> QED BY <2>3, <2>4
<1>7. \A d \in Clients : Counts(d)'
  BY <1>0, <1>1, <1>3 DEF Counts
<1>8. HeldBack'
  <2>1. ASSUME NEW d \in Clients PROVE replica'[d] \ doc' \subseteq Visible(replica'[d])
    <3>1. Visible(replica[d]) \subseteq Visible(replica'[d])
      BY <1>0, <1>4, VisibleGrows DEF Types
    <3> QED BY <1>0, <1>1, <1>4, <3>1 DEF HeldBack
  <2>2. \A d \in Clients : Visible(replica[d])' = Visible(replica'[d])
    BY DEF Visible, StateVector, Has
  <2> QED BY <2>1, <2>2 DEF HeldBack
<1>9. OfDoc'
  BY <1>0, <1>1 DEF OfDoc, Types
<1> QED BY <1>0, <1>1, <1>3, <1>6, <1>7, <1>8, <1>9 DEF Exchange

\* A reply contains whatever the document does not have.
LEMMA ReplyExchange ==
    ASSUME IInv, IInv', Exchange, NEW c \in Clients, Reply(c)
    PROVE  Exchange'
<1> DEFINE k == Current(c)
<1>0. /\ Types /\ Types'
      /\ readOnly \subseteq Connections /\ unanswered \in [Clients -> Nat]
      /\ OfDoc /\ HeldBack
      /\ \A d \in Connected : CatchesUp(d) /\ Delivers(d)
      /\ \A d \in Clients : Counts(d)
  BY DEF IInv, Core, Exchange
<1>1. PICK sv \in asked[k] :
        /\ asked' = [asked EXCEPT ![k] = @ \ {sv}]
        /\ SendUpdate(c, Step2(Diff(replica[c], sv)))
  BY DEF Reply
<1>2. c \in online /\ UNCHANGED <<doc, registered, readOnly, told, pc, tasks, replica, socket, online>>
  BY DEF Reply, clients
<1> DEFINE ops == Diff(replica[c], sv)
           m == Step2(ops)
<1>3. k \in Connections /\ sv \in [Clients -> Nat]
  BY <1>0, <1>2, CurrentIs DEF Types
<1>4. m \in Messages /\ m.type # "step1" /\ m.ops = ops
  <2>1. ops \in SUBSET Ops
    BY <1>0 DEF Types, Diff, Visible
  <2> QED BY <2>1, MessageTypes
<1>5. replica[c] \ doc \subseteq ops
  <2>1. Knows(doc, sv)
    BY <1>0, <1>3 DEF OfDoc
  <2>2. Visible(replica[c]) \subseteq ops \cup doc
    BY <1>0, <1>3, <2>1, DiffRest DEF Types
  <2> QED BY <1>0, <2>2 DEF HeldBack
<1>6. Connected' = Connected /\ \A d : Current(d)' = Current(d)
  BY <1>2 DEF Connected, Current
<1> HIDE DEF m, ops
<1>7. /\ unanswered' \in [Clients -> Nat]
      /\ up'[k] = Append(up[k], m)
      /\ \A j \in Connections : j # k => up'[j] = up[j]
      /\ \A d \in Clients : Counts(d)'
  <2>1. SendUpdate(c, m)
    BY <1>1 DEF m, ops
  <2> QED BY <1>0, <1>2, <1>4, <2>1, SendExchange
<1>8. ASSUME NEW d \in Connected PROVE CatchesUp(d)' /\ Delivers(d)'
  <2>1. d \in Clients /\ Current(d) \in Connections /\ (d # c => Current(d) # k)
    BY <1>0, ConnectedIs
  <2>2. up'[Current(d)] \in {up[Current(d)], Append(up[Current(d)], m)}
    BY <1>7, <2>1
  <2>3. CatchesUp(d)'
    BY <1>0, <1>2, <1>4, <1>6, <2>1, <2>2, StillCatchesUp
  <2>4. CASE d # c
    <3>1. asked'[Current(d)] = asked[Current(d)] /\ up'[Current(d)] = up[Current(d)]
      BY <1>0, <1>1, <1>7, <2>1, <2>4 DEF Types
    <3>2. Delivers(d)'
      BY <1>0, <1>2, <1>6, <2>1, <3>1, StillDelivers
    <3> QED BY <2>3, <3>2
  <2>5. CASE d = c
    <3>1. up[k] \in Seq(Messages)
      BY <1>0, <1>3 DEF Types
    <3>2. \E i \in Awaiting(up'[k]) : up'[k][i] = m
      <4> HIDE DEF k
      <4>1. \E i \in Awaiting(Append(up[k], m)) : Append(up[k], m)[i] = m
        BY <1>4, <3>1, AwaitingMore
      <4> QED BY <1>7, <4>1
    <3>3. \A o \in replica'[c] \ doc' : \E i \in Awaiting(up'[k]) : o \in up'[k][i].ops
      BY <1>2, <1>4, <1>5, <3>2
    <3>4. Delivers(d)'
      BY <1>6, <2>5, <3>3 DEF Delivers
    <3> QED BY <2>3, <3>4
  <2> QED BY <2>4, <2>5
<1>9. OfDoc'
  <2>1. \A j \in Connections : asked'[j] \subseteq asked[j]
    BY <1>0, <1>1 DEF Types
  <2> QED BY <1>0, <1>2, <2>1 DEF OfDoc
<1>10. HeldBack'
  BY <1>0, <1>2 DEF HeldBack
<1> QED BY <1>0, <1>2, <1>6, <1>7, <1>8, <1>9, <1>10 DEF Exchange

\* A client that is off line is owed nothing, and owes nothing.
LEMMA DropExchange ==
    ASSUME IInv, IInv', Exchange, NEW c \in Clients, Drop(c)
    PROVE  Exchange'
<1>0. /\ Types /\ Types'
      /\ readOnly \subseteq Connections /\ unanswered \in [Clients -> Nat]
      /\ OfDoc /\ HeldBack
      /\ \A d \in Connected : CatchesUp(d) /\ Delivers(d)
      /\ \A d \in Clients : Counts(d)
  BY DEF IInv, Core, Exchange
<1>1. PICK n : up' = [up EXCEPT ![Current(c)] = SubSeq(@, 1, n)]
  BY DEF Drop
<1>2. /\ c \in online /\ online' = online \ {c}
      /\ told' = [told EXCEPT ![Current(c)] = {}]
      /\ asked' = [asked EXCEPT ![Current(c)] = {}]
      /\ unanswered' = [unanswered EXCEPT ![c] = 0]
      /\ UNCHANGED <<doc, registered, readOnly, pc, tasks, replica, socket>>
  BY DEF Drop
<1>3. \A d : Current(d)' = Current(d)
  BY <1>2 DEF Current
<1>4. Connected' = Connected \ {c}
  BY <1>2, <1>3 DEF Connected
<1>5. unanswered' \in [Clients -> Nat] /\ unanswered'[c] = 0
      /\ \A d \in Clients : d # c => unanswered'[d] = unanswered[d]
  BY <1>0, <1>2 DEF Types
<1>6. ASSUME NEW d \in Connected \ {c}
      PROVE  /\ d \in Clients /\ Current(d) \in Connections
             /\ up'[Current(d)] = up[Current(d)] /\ told'[Current(d)] = told[Current(d)]
             /\ asked'[Current(d)] = asked[Current(d)]
  <2>1. d \in Clients /\ Current(d) \in Connections /\ Current(d) # Current(c)
    BY <1>0, ConnectedIs
  <2> QED BY <1>0, <1>1, <1>2, <2>1 DEF Types
<1>7. ASSUME NEW d \in Connected \ {c} PROVE CatchesUp(d)' /\ Delivers(d)'
  <2>1. CatchesUp(d)'
    BY <1>0, <1>2, <1>3, <1>6, StillCatchesUp
  <2>2. Delivers(d)'
    BY <1>0, <1>2, <1>3, <1>6, StillDelivers
  <2> QED BY <2>1, <2>2
<1>8. \A d \in Clients : Counts(d)'
  BY <1>0, <1>3, <1>4, <1>5, <1>6 DEF Counts
<1>9. OfDoc'
  <2>1. \A k \in Connections : told'[k] \subseteq told[k] /\ asked'[k] \subseteq asked[k]
    BY <1>0, <1>2 DEF Types
  <2> QED BY <1>0, <1>2, <2>1 DEF OfDoc
<1>10. HeldBack'
  BY <1>0, <1>2 DEF HeldBack
<1> QED BY <1>0, <1>2, <1>4, <1>5, <1>7, <1>8, <1>9, <1>10 DEF Exchange
--------------------------------------------------------------------------------
\* What the server tells a connected client reaches it.
LEMMA TellsConnected ==
    ASSUME Types, NEW K, NEW ops, Tell(K, ops)
    PROVE  /\ \A k \in Connections : told[k] \subseteq told'[k] /\ told'[k] \subseteq told[k] \cup ops
           /\ \A c \in Connected : Current(c) \in K => ops \subseteq told'[Current(c)]
BY ConnectedIs DEF Tell, Types

\* The answer to a SyncStep1 brings whatever the client does not have.
LEMMA AnswerExchange ==
    ASSUME IInv, IInv', Exchange, NEW k \in Connections, Answer(k)
    PROVE  Exchange'
<1> DEFINE sv == Head(up[k]).sv
<1>0. /\ Types /\ Types'
      /\ readOnly \subseteq Connections /\ unanswered \in [Clients -> Nat]
      /\ OfDoc /\ HeldBack
      /\ \A d \in Connected : CatchesUp(d) /\ Delivers(d)
      /\ \A d \in Clients : Counts(d)
  BY DEF IInv, Core, Exchange
<1>1. /\ up[k] # <<>> /\ Head(up[k]).type = "step1"
      /\ Tell({k}, Diff(doc, sv)) /\ pc' = [pc EXCEPT ![k] = "answered"]
      /\ UNCHANGED <<doc, registered, readOnly, up, asked, tasks, replica, socket, online, unanswered>>
  BY DEF Answer, InHand, clients, statuses
<1>2. sv \in [Clients -> Nat]
  <2>1. Head(up[k]) \in Messages
    BY <1>0, <1>1, HeadTailProperties DEF Types
  <2> QED BY <1>1, <2>1, MessageTypes
<1>3. Connected' = Connected /\ \A d : Current(d)' = Current(d)
  BY <1>1 DEF Connected, Current
<1>4. /\ \A j \in Connections : told[j] \subseteq told'[j] /\ told'[j] \subseteq told[j] \cup Diff(doc, sv)
      /\ \A d \in Connected : Current(d) = k => Diff(doc, sv) \subseteq told'[k]
  BY <1>0, <1>1, TellsConnected
<1>5. ASSUME NEW d \in Connected PROVE CatchesUp(d)' /\ Delivers(d)'
  <2>1. d \in Clients /\ Current(d) \in Connections
    BY <1>0, ConnectedIs
  <2>2. Delivers(d)'
    BY <1>0, <1>1, <1>3, <2>1, StillDelivers
  <2>3. CASE Visible(doc) \subseteq replica[d] \cup told[Current(d)] \cup UNION tasks
    <3>1. Visible(doc) \subseteq replica[d] \cup told'[Current(d)] \cup UNION tasks
      BY <1>4, <2>1, <2>3
    <3>2. Visible(doc)' = Visible(doc)
      BY <1>1 DEF Visible, StateVector, Has
    <3> QED BY <1>1, <1>3, <2>2, <3>1, <3>2 DEF CatchesUp
  <2>4. CASE /\ FirstIsStep1(Current(d)) /\ pc[Current(d)] = "idle"
             /\ Knows(replica[d], Head(up[Current(d)]).sv)
    <3>1. CASE Current(d) # k
      <4>1. pc'[Current(d)] = pc[Current(d)]
        BY <1>1, <2>1, <2>4, <3>1 DEF IInv, HalfAnswered
      <4> QED BY <1>1, <1>3, <2>2, <2>4, <4>1 DEF CatchesUp, FirstIsStep1
    <3>2. CASE Current(d) = k
      <4>1. Visible(doc) \subseteq Diff(doc, sv) \cup replica[d]
        BY <1>0, <1>2, <2>4, <3>2, DiffRest DEF Types
      <4>2. Visible(doc) \subseteq replica[d] \cup told'[Current(d)] \cup UNION tasks
        BY <1>4, <3>2, <4>1
      <4>3. Visible(doc)' = Visible(doc)
        BY <1>1 DEF Visible, StateVector, Has
      <4> QED BY <1>1, <1>3, <2>2, <4>2, <4>3 DEF CatchesUp
    <3> QED BY <3>1, <3>2
  <2> QED BY <1>0, <2>3, <2>4 DEF CatchesUp
<1>6. \A d \in Clients : Counts(d)'
  BY <1>0, <1>1, <1>3 DEF Counts
<1>7. OfDoc'
  <2>1. Diff(doc, sv) \subseteq doc
    BY DEF Diff, Visible
  <2> QED BY <1>0, <1>1, <1>4, <2>1 DEF OfDoc
<1>8. HeldBack'
  BY <1>0, <1>1 DEF HeldBack
<1> QED BY <1>0, <1>1, <1>3, <1>5, <1>6, <1>7, <1>8 DEF Exchange

\* A writer is asked for what the document does not have.
LEMMA AskBackExchange ==
    ASSUME IInv, IInv', Exchange, NEW k \in Connections, AskBack(k)
    PROVE  Exchange'
<1>0. /\ Types /\ Types'
      /\ readOnly \subseteq Connections /\ unanswered \in [Clients -> Nat]
      /\ OfDoc /\ HeldBack
      /\ \A d \in Connected : CatchesUp(d) /\ Delivers(d)
      /\ \A d \in Clients : Counts(d)
  BY DEF IInv, Core, Exchange
<1>1. /\ pc[k] = "answered" /\ FirstIsStep1(k)
      /\ asked' = IF k \in Reached THEN [asked EXCEPT ![k] = @ \cup {StateVector(doc)}] ELSE asked
      /\ up' = [up EXCEPT ![k] = Tail(@)] /\ pc' = [pc EXCEPT ![k] = "idle"]
      /\ UNCHANGED <<doc, registered, readOnly, told, tasks, replica, socket, online, unanswered>>
  BY DEF AskBack, Pop, clients, statuses, IInv, HalfAnswered
<1>2. up[k] \in Seq(Messages) /\ up[k] # <<>> /\ up'[k] = Tail(up[k])
      /\ \A j \in Connections : j # k => up'[j] = up[j] /\ pc'[j] = pc[j]
  BY <1>0, <1>1 DEF Types, FirstIsStep1, IInv, HalfAnswered
<1>3. Connected' = Connected /\ \A d : Current(d)' = Current(d)
  BY <1>1 DEF Connected, Current
<1>4. /\ \A j \in Connections : asked[j] \subseteq asked'[j] /\ asked'[j] \subseteq asked[j] \cup {StateVector(doc)}
      /\ k \in Reached => StateVector(doc) \in asked'[k]
  BY <1>0, <1>1 DEF Types
<1>5. ASSUME NEW d \in Connected PROVE CatchesUp(d)' /\ Delivers(d)'
  <2>1. d \in Clients /\ Current(d) \in Connections /\ Current(d) \in Reached
    BY <1>0, ConnectedIs
  <2>2. CASE Current(d) # k
    <3>1. CatchesUp(d)'
      BY <1>0, <1>1, <1>2, <1>3, <2>1, <2>2, StillCatchesUp
    <3>2. Delivers(d)'
      BY <1>0, <1>1, <1>2, <1>3, <1>4, <2>1, <2>2, StillDelivers
    <3> QED BY <3>1, <3>2
  <2>3. CASE Current(d) = k
    <3>1. Visible(doc) \subseteq replica[d] \cup told[k] \cup UNION tasks
      BY <1>0, <1>1, <2>3 DEF CatchesUp
    <3>2. Visible(doc)' = Visible(doc)
      BY <1>1 DEF Visible, StateVector, Has
    <3>3. CatchesUp(d)'
      BY <1>1, <1>3, <2>3, <3>1, <3>2 DEF CatchesUp
    <3>4. asked'[k] # {}
      BY <1>4, <2>1, <2>3
    <3>5. Delivers(d)'
      BY <1>3, <2>3, <3>4 DEF Delivers
    <3> QED BY <3>3, <3>5
  <2> QED BY <2>2, <2>3
<1>6. ASSUME NEW d \in Clients PROVE Counts(d)'
  <2>1. Cardinality(Awaiting(up[k])) = Cardinality(Awaiting(up'[k]))
    <3>1. Cardinality(Awaiting(up[k])) = Cardinality(Awaiting(Tail(up[k]))) + 0
      BY <1>1, <1>2, AwaitingLess DEF FirstIsStep1
    <3>2. Tail(up[k]) \in Seq(Messages)
      BY <1>2, HeadTailProperties
    <3>3. Cardinality(Awaiting(Tail(up[k]))) \in Nat
      BY <3>2, AwaitingType
    <3> QED BY <1>2, <3>1, <3>3
  <2>2. d \in Connected => Current(d) \in Connections
    BY <1>0, ConnectedIs
  <2>3. d \in Connected => Cardinality(Awaiting(up'[Current(d)])) = Cardinality(Awaiting(up[Current(d)]))
    BY <1>2, <2>1, <2>2
  <2> QED BY <1>0, <1>1, <1>3, <2>3 DEF Counts
<1>7. OfDoc'
  BY <1>0, <1>1, <1>4, KnowsOwn DEF OfDoc
<1>8. HeldBack'
  BY <1>0, <1>1 DEF HeldBack
<1> QED BY <1>0, <1>1, <1>3, <1>5, <1>6, <1>7, <1>8 DEF Exchange

\* A message that gets a status leaves the queue.
LEMMA StatusExchange ==
    ASSUME Types, Exchange, NEW k \in Connections, up[k] # <<>>, Head(up[k]).type # "step1", Pop(k),
           unanswered' = IF k \in Reached THEN [unanswered EXCEPT ![k[1]] = @ - 1] ELSE unanswered,
           UNCHANGED <<registered, socket, online>>
    PROVE  /\ unanswered' \in [Clients -> Nat]
           /\ Connected' = Connected /\ \A d : Current(d)' = Current(d)
           /\ up[k] \in Seq(Messages) /\ up'[k] = Tail(up[k])
           /\ \A j \in Connections : j # k => up'[j] = up[j]
           /\ \A d \in Clients : Counts(d)'
<1>0. unanswered \in [Clients -> Nat] /\ up \in [Connections -> Seq(Messages)]
      /\ \A d \in Clients : Counts(d)
  BY DEF Types, Exchange
<1>1. Connected' = Connected /\ \A d : Current(d)' = Current(d)
  BY DEF Connected, Current
<1>2. up[k] \in Seq(Messages) /\ up'[k] = Tail(up[k]) /\ \A j \in Connections : j # k => up'[j] = up[j]
  BY <1>0 DEF Pop
<1>3. Cardinality(Awaiting(up[k])) = Cardinality(Awaiting(up'[k])) + 1
      /\ Cardinality(Awaiting(up'[k])) \in Nat
  <2>1. Tail(up[k]) \in Seq(Messages)
    BY <1>2, HeadTailProperties
  <2>2. Cardinality(Awaiting(Tail(up[k]))) \in Nat
    BY <2>1, AwaitingType
  <2>3. Cardinality(Awaiting(up[k])) = Cardinality(Awaiting(Tail(up[k]))) + 1
    BY <1>2, AwaitingLess
  <2> QED BY <1>2, <2>2, <2>3
<1>4. CASE k \in Reached
  <2> DEFINE c == k[1]
  <2>1. c \in Clients /\ c \in Connected /\ k = Current(c)
    BY <1>4, ConnectedIs
  <2>2. unanswered[c] = Cardinality(Awaiting(up[k]))
    BY <1>0, <2>1 DEF Counts
  <2>3. unanswered[c] - 1 = Cardinality(Awaiting(up'[k])) /\ unanswered[c] - 1 \in Nat
    BY <1>3, <2>2
  <2>4. unanswered' = [unanswered EXCEPT ![c] = @ - 1]
    BY <1>4
  <2>5. unanswered' \in [Clients -> Nat] /\ unanswered'[c] = unanswered[c] - 1
        /\ \A d \in Clients : d # c => unanswered'[d] = unanswered[d]
    BY <1>0, <2>1, <2>3, <2>4
  <2>6. ASSUME NEW d \in Clients PROVE Counts(d)'
    <3>1. CASE d = c
      BY <1>1, <2>1, <2>3, <2>5, <3>1 DEF Counts
    <3>2. CASE d # c
      <4>1. d \in Connected => Current(d) \in Connections /\ Current(d) # k
        BY <2>1, <3>2, ConnectedIs
      <4> QED BY <1>0, <1>1, <1>2, <2>5, <3>2, <4>1 DEF Counts
    <3> QED BY <3>1, <3>2
  <2> QED BY <1>1, <1>2, <2>5, <2>6
<1>5. CASE k \notin Reached
  <2>1. unanswered' = unanswered
    BY <1>5
  <2>2. \A d \in Connected : Current(d) \in Connections /\ Current(d) # k
    BY <1>5, ConnectedIs
  <2>3. \A d \in Clients : Counts(d)'
    BY <1>0, <1>1, <1>2, <2>1, <2>2 DEF Counts
  <2> QED BY <1>0, <1>1, <1>2, <2>1, <2>3
<1> QED BY <1>4, <1>5

\* What becomes visible in the document is about to be broadcast, and what
\* a writer sent is there.
LEMMA ApplyExchange ==
    ASSUME IInv, IInv', Exchange, NEW k \in Connections, Apply(k)
    PROVE  Exchange'
<1> DEFINE ops == Head(up[k]).ops
<1>0. /\ Types /\ Types'
      /\ readOnly \subseteq Connections /\ unanswered \in [Clients -> Nat]
      /\ OfDoc /\ HeldBack
      /\ \A d \in Connected : CatchesUp(d) /\ Delivers(d)
      /\ \A d \in Clients : Counts(d)
  BY DEF IInv, Core, Exchange
<1>1. /\ up[k] # <<>> /\ Head(up[k]).type # "step1" /\ k \notin readOnly
      /\ Receive(ops) /\ Pop(k)
      /\ unanswered' = IF k \in Reached THEN [unanswered EXCEPT ![k[1]] = @ - 1] ELSE unanswered
      /\ UNCHANGED <<registered, told, asked, pc, readOnly, replica, socket, online>>
  BY DEF Apply, InHand, SendStatus, statuses, clients
<1>2. /\ unanswered' \in [Clients -> Nat]
      /\ Connected' = Connected /\ \A d : Current(d)' = Current(d)
      /\ up[k] \in Seq(Messages) /\ up'[k] = Tail(up[k])
      /\ \A j \in Connections : j # k => up'[j] = up[j]
      /\ \A d \in Clients : Counts(d)'
  BY <1>0, <1>1, StatusExchange
<1>3. doc' = doc \cup ops
  BY <1>1 DEF Receive
<1>4. /\ UNION tasks \subseteq UNION tasks'
      /\ Visible(doc') \subseteq Visible(doc) \cup UNION tasks'
      /\ \A u \in tasks' : u \in tasks \/ u \subseteq doc'
  <2> DEFINE news == Visible(doc') \ Visible(doc)
  <2>1. tasks' = IF news = {} THEN tasks ELSE tasks \cup {news}
    BY <1>1 DEF Receive
  <2>2. news \subseteq doc'
    BY DEF Visible
  <2>3. Visible(doc') \subseteq Visible(doc) \cup news
    OBVIOUS
  <2> HIDE DEF news
  <2>4. UNION tasks \subseteq UNION tasks' /\ news \subseteq UNION tasks'
    BY <2>1
  <2> QED BY <2>1, <2>2, <2>3, <2>4
<1>5. Visible(doc)' = Visible(doc')
  BY DEF Visible, StateVector, Has
<1>6. ASSUME NEW d \in Connected PROVE CatchesUp(d)' /\ Delivers(d)'
  <2>1. d \in Clients /\ Current(d) \in Connections
    BY <1>0, ConnectedIs
  <2>2. CASE Current(d) # k
    <3>1. CatchesUp(d)'
      BY <1>0, <1>1, <1>2, <1>4, <1>5, <2>1, <2>2, StillCatchesUp
    <3>2. Delivers(d)'
      BY <1>0, <1>1, <1>2, <1>3, <2>1, <2>2, StillDelivers
    <3> QED BY <3>1, <3>2
  <2>3. CASE Current(d) = k
    <3>1. ~ FirstIsStep1(k)
      BY <1>1 DEF FirstIsStep1
    <3>2. CatchesUp(d)'
      <4>1. Visible(doc) \subseteq replica[d] \cup told[k] \cup UNION tasks
        BY <1>0, <2>3, <3>1 DEF CatchesUp
      <4>2. Visible(doc)' \subseteq replica'[d] \cup told'[k] \cup UNION tasks'
        BY <1>1, <1>4, <1>5, <4>1
      <4> QED BY <1>2, <2>3, <4>2 DEF CatchesUp
    <3>3. Delivers(d)'
      <4>1. CASE asked[k] # {}
        BY <1>1, <1>2, <2>3, <4>1 DEF Delivers
      <4>2. CASE asked[k] = {}
        <5>1. \A o \in replica[d] \ doc : \E i \in Awaiting(up[k]) : o \in up[k][i].ops
          BY <1>0, <1>1, <2>3, <3>1, <4>2 DEF Delivers
        <5>2. ASSUME NEW o \in replica'[d] \ doc' PROVE \E i \in Awaiting(up'[k]) : o \in up'[k][i].ops
          <6>1. o \in replica[d] \ doc /\ o \notin ops
            BY <1>1, <1>3, <5>2
          <6>2. PICK i \in Awaiting(up[k]) : o \in up[k][i].ops
            BY <5>1, <6>1
          <6>3. i - 1 \in Awaiting(Tail(up[k])) /\ Tail(up[k])[i - 1] = up[k][i]
            BY <1>1, <1>2, <6>1, <6>2, AwaitingLess
          <6> QED BY <1>2, <6>2, <6>3
        <5> QED BY <1>2, <2>3, <5>2 DEF Delivers
      <4> QED BY <4>1, <4>2
    <3> QED BY <3>2, <3>3
  <2> QED BY <2>2, <2>3
<1>7. OfDoc'
  BY <1>0, <1>1, <1>3, <1>4, KnowsOwn DEF OfDoc
<1>8. HeldBack'
  BY <1>0, <1>1, <1>3 DEF HeldBack
<1> QED BY <1>0, <1>1, <1>2, <1>6, <1>7, <1>8 DEF Exchange

\* A reader gets its status; it owes nothing.
LEMMA ReaderExchange ==
    ASSUME IInv, IInv', Exchange, NEW k \in Connections, Refuse(k) \/ Compare(k)
    PROVE  Exchange'
<1>0. /\ Types /\ Types'
      /\ readOnly \subseteq Connections /\ unanswered \in [Clients -> Nat]
      /\ OfDoc /\ HeldBack
      /\ \A d \in Connected : CatchesUp(d) /\ Delivers(d)
      /\ \A d \in Clients : Counts(d)
  BY DEF IInv, Core, Exchange
<1>1. /\ up[k] # <<>> /\ Head(up[k]).type # "step1" /\ k \in readOnly /\ Pop(k)
      /\ unanswered' = IF k \in Reached THEN [unanswered EXCEPT ![k[1]] = @ - 1] ELSE unanswered
      /\ UNCHANGED <<doc, registered, told, asked, pc, tasks, readOnly, replica, socket, online>>
  BY DEF Refuse, Compare, InHand, SendStatus, statuses, clients
<1>2. /\ unanswered' \in [Clients -> Nat]
      /\ Connected' = Connected /\ \A d : Current(d)' = Current(d)
      /\ \A j \in Connections : j # k => up'[j] = up[j]
      /\ \A d \in Clients : Counts(d)'
  BY <1>0, <1>1, StatusExchange
<1>3. ASSUME NEW d \in Connected PROVE CatchesUp(d)' /\ Delivers(d)'
  <2>1. d \in Clients /\ Current(d) \in Connections
    BY <1>0, ConnectedIs
  <2>2. CASE Current(d) # k
    <3>1. CatchesUp(d)'
      BY <1>0, <1>1, <1>2, <2>1, <2>2, StillCatchesUp
    <3>2. Delivers(d)'
      BY <1>0, <1>1, <1>2, <2>1, <2>2, StillDelivers
    <3> QED BY <3>1, <3>2
  <2>3. CASE Current(d) = k
    <3>1. Visible(doc) \subseteq replica[d] \cup told[k] \cup UNION tasks
      BY <1>0, <1>1, <2>3 DEF CatchesUp, FirstIsStep1
    <3>2. Visible(doc)' = Visible(doc)
      BY <1>1 DEF Visible, StateVector, Has
    <3>3. CatchesUp(d)'
      BY <1>1, <1>2, <2>3, <3>1, <3>2 DEF CatchesUp
    <3>4. Delivers(d)'
      BY <1>1, <1>2, <2>3 DEF Delivers
    <3> QED BY <3>3, <3>4
  <2> QED BY <2>2, <2>3
<1>4. OfDoc' /\ HeldBack'
  BY <1>0, <1>1 DEF OfDoc, HeldBack
<1> QED BY <1>0, <1>1, <1>2, <1>3, <1>4 DEF Exchange

\* A connection that is closed is owed nothing, and owes nothing.
LEMMA CloseExchange ==
    ASSUME IInv, IInv', Exchange, NEW k \in Connections, Reject(k) \/ RemoveConnection(k)
    PROVE  Exchange'
<1>0. /\ Types /\ Types'
      /\ readOnly \subseteq Connections /\ unanswered \in [Clients -> Nat]
      /\ OfDoc /\ HeldBack
      /\ \A d \in Connected : CatchesUp(d) /\ Delivers(d)
      /\ \A d \in Clients : Counts(d)
  BY DEF IInv, Core, Exchange
<1>1. /\ registered' = registered \ {k}
      /\ unanswered' = IF k = Current(k[1]) THEN [unanswered EXCEPT ![k[1]] = 0] ELSE unanswered
      /\ up' \in {up, [up EXCEPT ![k] = Tail(@)]}
      /\ UNCHANGED <<doc, told, asked, pc, tasks, readOnly, replica, socket, online>>
  BY DEF Reject, RemoveConnection, Close, Pop, clients
<1>2. \A d : Current(d)' = Current(d)
  BY <1>1 DEF Current
<1>3. k[1] \in Clients /\ \A d : Current(d) = k => d = k[1]
  BY Shapes DEF Current
<1>4. \A d : d \in Connected' <=> d \in Connected /\ Current(d) # k
  BY <1>1, <1>2 DEF Connected
<1>5. /\ unanswered' \in [Clients -> Nat]
      /\ k = Current(k[1]) => unanswered'[k[1]] = 0
      /\ \A d \in Clients : Current(d) # k => unanswered'[d] = unanswered[d]
  BY <1>0, <1>1, <1>3
<1>6. ASSUME NEW d \in Connected'
      PROVE  /\ d \in Connected /\ d \in Clients /\ Current(d) \in Connections
             /\ up'[Current(d)] = up[Current(d)]
  BY <1>0, <1>1, <1>4, ConnectedIs DEF Types
<1>7. ASSUME NEW d \in Connected' PROVE CatchesUp(d)' /\ Delivers(d)'
  <2>1. CatchesUp(d)'
    BY <1>0, <1>1, <1>2, <1>6, StillCatchesUp
  <2>2. Delivers(d)'
    BY <1>0, <1>1, <1>2, <1>6, StillDelivers
  <2> QED BY <2>1, <2>2
<1>8. ASSUME NEW d \in Clients PROVE Counts(d)'
  <2>1. CASE Current(d) = k
    <3>1. d \notin Connected' /\ unanswered'[d] = 0
      BY <1>3, <1>4, <1>5, <2>1
    <3> QED BY <3>1 DEF Counts
  <2>2. CASE Current(d) # k
    BY <1>0, <1>2, <1>4, <1>5, <1>6, <2>2 DEF Counts
  <2> QED BY <2>1, <2>2
<1>9. OfDoc' /\ HeldBack'
  BY <1>0, <1>1 DEF OfDoc, HeldBack
<1> QED BY <1>0, <1>1, <1>5, <1>7, <1>8, <1>9 DEF Exchange

\* A broadcast reaches everybody who is connected.
LEMMA BroadcastExchange ==
    ASSUME IInv, IInv', Exchange, NEW u \in tasks, Broadcast(u)
    PROVE  Exchange'
<1>0. /\ Types /\ Types'
      /\ readOnly \subseteq Connections /\ unanswered \in [Clients -> Nat]
      /\ OfDoc /\ HeldBack
      /\ \A d \in Connected : CatchesUp(d) /\ Delivers(d)
      /\ \A d \in Clients : Counts(d)
  BY DEF IInv, Core, Exchange
<1>1. /\ tasks' = tasks \ {u} /\ Tell(Connections, u)
      /\ UNCHANGED <<doc, registered, readOnly, up, asked, pc, replica, socket, online, unanswered>>
  BY DEF Broadcast, clients, statuses
<1>2. Connected' = Connected /\ \A d : Current(d)' = Current(d)
  BY <1>1 DEF Connected, Current
<1>3. /\ \A j \in Connections : told[j] \subseteq told'[j] /\ told'[j] \subseteq told[j] \cup u
      /\ \A d \in Connected : Current(d) \in Connections => u \subseteq told'[Current(d)]
  BY <1>0, <1>1, TellsConnected
<1>4. UNION tasks \subseteq u \cup UNION tasks'
  BY <1>1
<1>5. ASSUME NEW d \in Connected PROVE CatchesUp(d)' /\ Delivers(d)'
  <2>1. d \in Clients /\ Current(d) \in Connections
    BY <1>0, ConnectedIs
  <2>2. told[Current(d)] \cup UNION tasks \subseteq told'[Current(d)] \cup UNION tasks'
    BY <1>3, <1>4, <2>1
  <2>3. Visible(doc)' = Visible(doc)
    BY <1>1 DEF Visible, StateVector, Has
  <2>4. CatchesUp(d)'
    BY <1>0, <1>1, <1>2, <2>1, <2>2, <2>3, StillCatchesUp
  <2>5. Delivers(d)'
    BY <1>0, <1>1, <1>2, <2>1, StillDelivers
  <2> QED BY <2>4, <2>5
<1>6. \A d \in Clients : Counts(d)'
  BY <1>0, <1>1, <1>2 DEF Counts
<1>7. OfDoc'
  BY <1>0, <1>1, <1>3 DEF OfDoc
<1>8. HeldBack'
  BY <1>0, <1>1 DEF HeldBack
<1> QED BY <1>0, <1>1, <1>2, <1>5, <1>6, <1>7, <1>8 DEF Exchange
--------------------------------------------------------------------------------
\* Nothing is under way initially.
LEMMA InitExchange == Init => Exchange
<1> SUFFICES ASSUME Init PROVE Exchange
  OBVIOUS
<1>1. Connected = {}
  BY DEF Init, Connected
<1>2. OfDoc /\ HeldBack
  BY DEF Init, OfDoc, HeldBack
<1> QED BY <1>1, <1>2 DEF Init, Exchange, Counts

\* Every step keeps the exchange going.
LEMMA StepExchange == IInv /\ IInv' /\ Exchange /\ [Next]_vars => Exchange'
<1> SUFFICES ASSUME IInv, IInv', Exchange, [Next]_vars PROVE Exchange'
  OBVIOUS
<1>1. ASSUME NEW c \in Clients, Client(c) PROVE Exchange'
  BY <1>1, ConnectExchange, InsertExchange, DeleteExchange, DeliverExchange, ReplyExchange,
     DropExchange DEF Client
<1>2. ASSUME NEW k \in Connections, Handle(k) \/ RemoveConnection(k) PROVE Exchange'
  BY <1>2, AnswerExchange, AskBackExchange, ApplyExchange, ReaderExchange, CloseExchange DEF Handle
<1>3. ASSUME NEW u \in tasks, Broadcast(u) PROVE Exchange'
  BY <1>3, BroadcastExchange
<1>4. CASE UNCHANGED vars
  <2>1. UNCHANGED <<doc, registered, readOnly, up, told, asked, pc, tasks, replica, socket, online,
                    unanswered>>
    BY <1>4 DEF vars
  <2>2. Connected' = Connected /\ \A d : Current(d)' = Current(d)
    BY <2>1 DEF Connected, Current
  <2>3. \A d \in Clients : Counts(d)'
    BY <2>1, <2>2 DEF Exchange, Counts
  <2>4. OfDoc' /\ HeldBack'
    BY <2>1 DEF Exchange, OfDoc, HeldBack
  <2>5. Types
    BY DEF IInv, Core
  <2>6. ASSUME NEW d \in Connected PROVE CatchesUp(d)' /\ Delivers(d)'
    <3>1. d \in Clients /\ Current(d) \in Connections /\ CatchesUp(d) /\ Delivers(d)
      BY <2>5, ConnectedIs DEF Exchange
    <3>2. Visible(doc)' = Visible(doc)
      BY <2>1 DEF Visible, StateVector, Has
    <3>3. CatchesUp(d)'
      BY <2>1, <2>2, <2>5, <3>1, <3>2, StillCatchesUp
    <3>4. Delivers(d)'
      BY <2>1, <2>2, <2>5, <3>1, StillDelivers
    <3> QED BY <3>3, <3>4
  <2> QED BY <2>1, <2>2, <2>3, <2>4, <2>6 DEF Exchange
<1> QED BY <1>1, <1>2, <1>3, <1>4 DEF Next

\* What is missing somewhere is always under way.
THEOREM NothingIsLost == Spec => []Exchange
BY Invariance, InitExchange, StepExchange, PTL DEF Spec

\* The types; and a client never gets more statuses than it sent updates.
THEOREM TypeCorrect == Spec => []TypeOK
<1>1. IInv /\ Exchange => TypeOK
  BY DEF IInv, Core, Types, HalfAnswered, Exchange, TypeOK
<1> QED BY <1>1, Invariance, NothingIsLost, PTL

\* When nothing is under way a connected client shows what the document holds,
\* and a writer nothing else (message_receiver.rs:166-267,
\* hocuspocus.rs:371-386).
THEOREM Convergence == Spec => []Converged
<1>1. ASSUME IInv, Exchange, Quiet, NEW c \in Connected
      PROVE  /\ Visible(doc) \subseteq Visible(replica[c])
             /\ Current(c) \notin readOnly => Visible(replica[c]) = Visible(doc)
  <2>1. Types /\ CatchesUp(c) /\ Delivers(c)
    BY <1>1 DEF IInv, Core, Exchange
  <2>2. c \in Clients /\ Current(c) \in Connections
    BY <2>1, ConnectedIs
  <2>3. up[Current(c)] = <<>> /\ told[Current(c)] = {} /\ asked[Current(c)] = {} /\ tasks = {}
    BY <1>1, <2>2 DEF Quiet
  <2>4. ~ FirstIsStep1(Current(c))
    BY <2>3 DEF FirstIsStep1
  <2>5. doc \in SUBSET Ops /\ replica[c] \in SUBSET Ops
    BY <2>1, <2>2 DEF Types
  <2>6. Visible(doc) \subseteq replica[c]
    BY <2>1, <2>3, <2>4 DEF CatchesUp
  <2>7. Visible(doc) \subseteq Visible(replica[c])
    BY <2>5, <2>6, VisibleWithin
  <2>8. ASSUME Current(c) \notin readOnly PROVE Visible(replica[c]) \subseteq Visible(doc)
    <3>1. Awaiting(<<>>) = {}
      BY DEF Awaiting
    <3>2. replica[c] \subseteq doc
      BY <2>1, <2>3, <2>4, <2>8, <3>1 DEF Delivers
    <3> QED BY <2>5, <3>2, VisibleGrows
  <2> QED BY <2>7, <2>8
<1>2. IInv /\ Exchange => Converged
  BY <1>1 DEF Converged
<1> QED BY <1>2, Invariance, NothingIsLost, PTL

\* ... and every update it sent got its status (message_receiver.rs:209-267).
THEOREM UpdatesAreAnswered == Spec => []EveryUpdateAnswered
<1>1. ASSUME IInv, Exchange, Quiet, NEW c \in Connected PROVE unanswered[c] = 0
  <2>1. c \in Clients /\ Current(c) \in Connections
    BY <1>1, ConnectedIs DEF IInv, Core
  <2>2. up[Current(c)] = <<>>
    BY <1>1, <2>1 DEF Quiet
  <2>3. Awaiting(<<>>) = {} /\ Cardinality({}) = 0
    BY FS_EmptySet DEF Awaiting
  <2> QED BY <1>1, <2>1, <2>2, <2>3 DEF Exchange, Counts
<1>2. IInv /\ Exchange => EveryUpdateAnswered
  BY <1>1 DEF EveryUpdateAnswered
<1> QED BY <1>2, Invariance, NothingIsLost, PTL
================================================================================
