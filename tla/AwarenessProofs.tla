---------------------------- MODULE AwarenessProofs ----------------------------
(***************************************************************************)
(* Proofs about Awareness: no connection is ahead of the server, a         *)
(* newcomer is charged to its connection, and what a connection was not    *)
(* told is about to be said, for any number of clients, connections and    *)
(* updates.                                                                *)
(***************************************************************************)
EXTENDS Awareness, SequenceTheorems, TLAPS

\* Whoever is there has been counted.
Proper == {e \in Entry : e.up => e.clock # 0}
Sound == [Clients -> Proper]

Types ==
    /\ TypeOK
    /\ aware \in Sound /\ own \in Sound
    /\ inbox \in [Connections -> Seq(Sound)]
    /\ parting \in [Connections -> Sound] /\ told \in [Connections -> Sound]

\* The server knows what the update m says.
Covers(m) == \A d \in Clients : Below(m[d], aware[d])

\* What is said to the connections is covered when it is said.
Merged ==
    /\ NeverAhead
    /\ \A k \in Connections :
        /\ pc[k] \in {"applied", "charged"} => Covers(Head(inbox[k]))
        /\ Covers(parting[k])

Heard(d) == aware[d].clock # 0

\* A client says of others only what the server heard of before.
From(c) == {m \in Sound : \A d \in Clients : d # c /\ m[d].clock # 0 => Heard(d)}

\* Nobody is heard of before its own first connection says so.
FirstHand ==
    /\ \A k \in Connections :
        /\ inbox[k] \in Seq(From(k[1]))
        /\ inbox[k] # <<>> => k[2] <= socket[k[1]]
    /\ \A c \in Clients : socket[c] = 0 => ~ Heard(c)

\* Who is charged was heard of, and who is not heard of yet is about to be
\* charged by whoever brings it.
Charges ==
    /\ \A k \in Registered : \A d \in charged[k] : Heard(d)
    /\ \A k \in Connections :
        /\ \A d \in removed[k] : Heard(d)
        /\ pc[k] = "applied" => \A d \in fresh[k] : Heard(d)
        /\ pc[k] = "decoded" => \A d \in Clients :
              /\ d \in fresh[k] => Head(inbox[k])[d].clock # 0
              /\ Head(inbox[k])[d].clock # 0 => Heard(d) \/ d \in fresh[k]
    /\ \A k \in Registered :
        k[2] = 1 /\ socket[k[1]] = 1 /\ Heard(k[1]) =>
            k[1] \in charged[k] \/ (pc[k] = "applied" /\ k[1] \in fresh[k])

IInv == Types /\ Merged /\ FirstHand /\ Charges
--------------------------------------------------------------------------------
\* Entries are ordered, and a merge is the least entry above both.
LEMMA Order ==
    /\ Unknown \in Proper
    /\ \A e \in Proper : Below(e, e) /\ Below(Unknown, e)
    /\ \A e, f, g \in Proper : Below(e, f) /\ Below(f, g) => Below(e, g)
    /\ \A e, f \in Proper : Below(e, f) => (e.clock # 0 => f.clock # 0)
    /\ \A e, f \in Proper : Join(e, f) \in {e, f} /\ Below(e, Join(e, f)) /\ Below(f, Join(e, f))
<1>1. \A e \in Proper : e.clock \in Nat /\ e.up \in BOOLEAN /\ (e.up => e.clock # 0)
  BY DEF Proper, Entry
<1>2. Unknown \in Proper
  BY DEF Unknown, Proper, Entry
<1>3. \A e \in Proper : Below(e, e) /\ Below(Unknown, e)
  BY <1>1 DEF Below, Unknown
<1>4. \A e, f, g \in Proper : Below(e, f) /\ Below(f, g) => Below(e, g)
  BY <1>1 DEF Below
<1>5. \A e, f \in Proper : Below(e, f) => (e.clock # 0 => f.clock # 0)
  BY <1>1 DEF Below
<1>6. \A e, f \in Proper : Below(e, f) \/ Below(f, e)
  BY <1>1 DEF Below
<1> QED BY <1>2, <1>3, <1>4, <1>5, <1>6 DEF Join

\* A merge of updates is above both, and below whatever is above both.
LEMMA MergeIs ==
    ASSUME NEW f \in Sound, NEW m \in Sound
    PROVE  /\ Merge(f, m) \in Sound
           /\ \A d \in Clients : Below(f[d], Merge(f, m)[d]) /\ Below(m[d], Merge(f, m)[d])
           /\ \A d \in Clients : Merge(f, m)[d] \in {f[d], m[d]}
<1>1. \A d \in Clients : f[d] \in Proper /\ m[d] \in Proper /\ Merge(f, m)[d] = Join(f[d], m[d])
  BY DEF Merge, Sound
<1>2. \A d \in Clients : Merge(f, m)[d] \in Proper
  BY <1>1, Order
<1>3. Merge(f, m) \in Sound
  BY <1>2 DEF Merge, Sound
<1> QED BY <1>1, <1>3, Order

\* Part of an update.
LEMMA OnlyIs ==
    ASSUME NEW f \in Sound, NEW D
    PROVE  /\ Only(f, D) \in Sound
           /\ \A d \in Clients : Only(f, D)[d] = IF d \in D THEN f[d] ELSE Unknown
           /\ \A d \in Clients : Below(Only(f, D)[d], f[d])
<1>1. \A d \in Clients : f[d] \in Proper
  BY DEF Sound
<1>2. \A d \in Clients : Only(f, D)[d] = IF d \in D THEN f[d] ELSE Unknown
  BY DEF Only
<1>3. Only(f, D) \in Sound
  BY <1>1, Order DEF Only, Sound
<1> QED BY <1>1, <1>2, <1>3, Order

\* Nobody is an update.
LEMMA NobodyIs == Nobody \in Sound /\ \A d \in Clients : Nobody[d] = Unknown
BY Order DEF Nobody, Sound

\* Sound updates are updates.
LEMMA SoundIs == Sound \subseteq Updates /\ \A f \in Sound, d \in Clients : f[d] \in Proper
BY DEF Sound, Updates, Proper

\* The shape of connections.
LEMMA Shapes ==
    /\ \A k \in Connections : k[1] \in Clients /\ k[2] \in Nat /\ k[2] # 0 /\ k = <<k[1], k[2]>>
    /\ \A c \in Clients, i \in Nat : i # 0 /\ i <= Sockets[c] => <<c, i>> \in Connections
BY AwarenessAssumption DEF Connections

\* The current connection of a client that is on line.
LEMMA CurrentIs ==
    ASSUME TypeOK, NEW c \in online
    PROVE  /\ c \in Clients /\ Current(c) \in Connections
           /\ Current(c)[1] = c /\ Current(c)[2] = socket[c]
<1>1. c \in Clients /\ socket[c] \in Nat /\ socket[c] > 0 /\ socket[c] <= Sockets[c]
  BY DEF TypeOK
<1>2. socket[c] # 0
  BY <1>1
<1> QED BY <1>1, <1>2, Shapes DEF Current

\* Whatever the server learns, what it knew is covered.
LEMMA Grows ==
    ASSUME aware \in Sound, aware' \in Sound, \A d \in Clients : Below(aware[d], aware'[d])
    PROVE  /\ \A m \in Sound : Covers(m) => Covers(m)'
           /\ \A d \in Clients : Heard(d) => Heard(d)'
           /\ \A c : From(c) \subseteq From(c)'
<1>1. \A d \in Clients : aware[d] \in Proper /\ aware'[d] \in Proper
  BY SoundIs
<1>2. \A m \in Sound, d \in Clients : Below(m[d], aware[d]) => Below(m[d], aware'[d])
  BY <1>1, SoundIs, Order
<1>3. \A d \in Clients : Heard(d) => Heard(d)'
  BY <1>1, Order DEF Heard
<1>4. \A c : From(c) \subseteq From(c)'
  BY <1>3 DEF From
<1> QED BY <1>2, <1>3, <1>4 DEF Covers
--------------------------------------------------------------------------------
\* The invariant holds initially.
LEMMA InitIInv == Init => IInv
<1> SUFFICES ASSUME Init PROVE IInv
  OBVIOUS
<1>1. Types
  <2>1. TypeOK
    BY NobodyIs, SoundIs, AwarenessAssumption, EmptySeq DEF Init, TypeOK, Registered
  <2> QED BY <2>1, NobodyIs, EmptySeq DEF Init, Types
<1>2. Merged
  <2>1. Below(Unknown, Unknown)
    BY Order
  <2> QED BY <2>1, NobodyIs DEF Init, Merged, NeverAhead, Covers
<1>3. FirstHand
  <2>1. Unknown.clock = 0
    BY DEF Unknown
  <2> QED BY <2>1, NobodyIs, EmptySeq DEF Init, FirstHand, Heard
<1>4. Charges
  BY DEF Init, Charges, Registered
<1> QED BY <1>1, <1>2, <1>3, <1>4 DEF IInv
--------------------------------------------------------------------------------
\* A client says m over its current connection.
LEMMA SayIInv ==
    ASSUME IInv, NEW c \in online, NEW m \in From(c), Say(c, m), own' \in Sound,
           UNCHANGED <<aware, charged, pc, fresh, leaving, removed, parting, told,
                       socket, online, known>>
    PROVE  IInv'
<1>0. TypeOK /\ Types /\ Merged /\ FirstHand /\ Charges
  BY DEF IInv, Types
<1>1. c \in Clients /\ Current(c) \in Connections /\ Current(c)[1] = c /\ Current(c)[2] = socket[c]
  BY <1>0, CurrentIs
<1>2. /\ inbox' = [inbox EXCEPT ![Current(c)] = Append(@, m)]
      /\ inbox \in [Connections -> Seq(Sound)] /\ m \in Sound
  BY <1>0 DEF Types, Say, From
<1>3. Append(inbox[Current(c)], m) \in Seq(Sound) /\ Append(inbox[Current(c)], m) \in Seq(From(c))
  BY <1>0, <1>1, <1>2, AppendProperties DEF FirstHand
<1>4. ASSUME NEW k \in Connections, inbox[k] # <<>>
      PROVE  inbox'[k] # <<>> /\ Head(inbox'[k]) = Head(inbox[k])
  <2>1. CASE k = Current(c)
    <3>1. Head(Append(inbox[k], m)) = Head(inbox[k])
      BY <1>2, <1>4, HeadTailAppend
    <3>2. Append(inbox[k], m) # <<>>
      BY <1>2, <1>4, AppendProperties, EmptySeq, LenProperties
    <3> QED BY <1>2, <2>1, <3>1, <3>2
  <2> QED BY <1>2, <1>4, <2>1
<1>5. \A k \in Connections : pc[k] \in {"decoded", "applied", "charged"} =>
        inbox'[k] # <<>> /\ Head(inbox'[k]) = Head(inbox[k])
  BY <1>0, <1>4 DEF TypeOK
<1>6. inbox' \in [Connections -> Seq(Sound)]
  BY <1>1, <1>2, <1>3
<1>7. Types'
  <2>1. inbox' \in [Connections -> Seq(Updates)]
    BY <1>6, SoundIs, SeqMonotonic
  <2>2. TypeOK'
    BY <1>0, <1>5, <2>1, SoundIs DEF TypeOK, Registered
  <2> QED BY <1>0, <1>6, <2>2 DEF Types
<1>8. Merged'
  BY <1>0, <1>5 DEF Merged, NeverAhead, Covers
<1>9. FirstHand'
  <2>1. \A d : From(d)' = From(d) /\ Heard(d)' = Heard(d)
    BY DEF From, Heard
  <2>2. ASSUME NEW k \in Connections
        PROVE  inbox'[k] \in Seq(From(k[1])') /\ (inbox'[k] # <<>> => k[2] <= socket'[k[1]])
    <3>1. CASE k = Current(c)
      <4>1. socket[c] <= socket[c]
        BY <1>0, <1>1 DEF TypeOK
      <4> QED BY <1>1, <1>2, <1>3, <2>1, <3>1, <4>1
    <3> QED BY <1>0, <1>2, <2>1, <3>1 DEF FirstHand
  <2> QED BY <1>0, <2>1, <2>2 DEF FirstHand
<1>10. Charges'
  BY <1>0, <1>5 DEF Charges, Heard, Registered
<1> QED BY <1>7, <1>8, <1>9, <1>10 DEF IInv

\* What a client says of itself.
LEMMA OfItself ==
    ASSUME NEW c \in Clients, NEW f \in Sound
    PROVE  Only(f, {c}) \in From(c)
<1>1. Unknown.clock = 0
  BY DEF Unknown
<1> QED BY <1>1, OnlyIs DEF From

\* Own entries are announced over the current connection.
LEMMA AnnounceIInv == ASSUME IInv, NEW c \in Clients, Announce(c) PROVE IInv'
<1>1. c \in online /\ own \in Sound /\ aware \in Sound
  BY DEF Announce, IInv, Types
<1>2. PICK up \in {TRUE, ~ own[c].up} : own' = [own EXCEPT ![c] = [clock |-> @.clock + 1, up |-> up]]
  BY DEF Announce
<1>3. own' \in Sound
  <2>1. own[c].clock \in Nat /\ own[c].up \in BOOLEAN
    BY <1>1, SoundIs DEF Proper, Entry
  <2>2. own[c].clock + 1 \in Nat /\ own[c].clock + 1 # 0
    BY <2>1
  <2>3. up \in BOOLEAN
    BY <2>1
  <2>4. [clock |-> own[c].clock + 1, up |-> up] \in Proper
    BY <2>2, <2>3 DEF Proper, Entry
  <2> QED BY <1>1, <1>2, <2>4 DEF Sound
<1>4. Only(own', {c}) \in From(c)
  BY <1>3, OfItself
<1> QED BY <1>1, <1>3, <1>4, SayIInv DEF Announce

\* A client that was withdrawn comes back.
LEMMA ReactIInv == ASSUME IInv, NEW c \in Clients, React(c) PROVE IInv'
<1> DEFINE e == told[Current(c)][c]
<1>1. c \in online /\ own \in Sound /\ told \in [Connections -> Sound] /\ TypeOK
  BY DEF React, IInv, Types
<1>2. own' = [own EXCEPT ![c] = [clock |-> e.clock + 1, up |-> TRUE]]
  BY DEF React
<1>3. e.clock \in Nat
  BY <1>1, CurrentIs, SoundIs DEF Proper, Entry
<1>4. [clock |-> e.clock + 1, up |-> TRUE] \in Proper
  BY <1>3 DEF Proper, Entry
<1>5. own' \in Sound
  BY <1>1, <1>2, <1>4 DEF Sound
<1>6. Only(own', {c}) \in From(c)
  BY <1>5, OfItself
<1> QED BY <1>1, <1>5, <1>6, SayIInv DEF React

\* What a client was told the server had heard of.
LEMMA EchoIInv == ASSUME IInv, NEW c \in Clients, Echo(c) PROVE IInv'
<1>1. /\ c \in online /\ told \in [Connections -> Sound] /\ own \in Sound /\ TypeOK
      /\ aware \in Sound /\ NeverAhead /\ own' = own
  BY DEF Echo, IInv, Types, Merged, client
<1> DEFINE f == told[Current(c)]
<1>2. PICK d \in Clients \ {c} : Say(c, Only(f, {d}))
  BY DEF Echo
<1>3. f \in Sound /\ \A a \in Clients : Below(f[a], aware[a])
  BY <1>1, CurrentIs DEF NeverAhead
<1>4. Only(f, {d}) \in From(c)
  <2>1. \A a \in Clients : f[a].clock # 0 => Heard(a)
    BY <1>1, <1>3, SoundIs, Order DEF Heard
  <2>2. Unknown.clock = 0
    BY DEF Unknown
  <2> QED BY <1>3, <2>1, <2>2, OnlyIs DEF From
<1> QED BY <1>1, <1>2, <1>4, SayIInv DEF Echo, client
\* A new connection: nothing is charged to it yet, and if it is the first of
\* its client the server has not heard of that client.
LEMMA ConnectIInv == ASSUME IInv, NEW c \in Clients, Connect(c) PROVE IInv'
<1> DEFINE k == <<c, socket[c] + 1>>
<1> DEFINE q == IF own[c].up THEN <<Only(own, {c})>> ELSE <<>>
<1>0. TypeOK /\ Types /\ Merged /\ FirstHand /\ Charges
  BY DEF IInv, Types
<1>1. /\ c \notin online /\ socket[c] < Sockets[c]
      /\ socket' = [socket EXCEPT ![c] = @ + 1] /\ online' = online \cup {c}
      /\ charged' = [j \in Registered \cup {k} |-> IF j = k THEN {} ELSE charged[j]]
      /\ pc' = [pc EXCEPT ![k] = "added"]
      /\ inbox' = [inbox EXCEPT ![k] = q]
      /\ known' = [known EXCEPT ![k] = aware]
      /\ UNCHANGED <<aware, fresh, leaving, removed, parting, told, own>>
  BY DEF Connect
<1>2. /\ socket[c] \in Nat /\ Sockets[c] \in Nat /\ socket \in [Clients -> Nat]
      /\ socket[c] + 1 \in Nat /\ socket[c] + 1 # 0 /\ socket[c] + 1 <= Sockets[c]
      /\ socket[c] + 1 > 0
  <2>1. socket \in [Clients -> Nat] /\ Sockets \in [Clients -> Nat]
    BY <1>0, AwarenessAssumption DEF TypeOK
  <2>2. socket[c] \in Nat /\ Sockets[c] \in Nat
    BY <2>1
  <2> QED BY <1>1, <2>1, <2>2
<1>3. k \in Connections /\ k[1] = c /\ k[2] = socket[c] + 1
  BY <1>2, Shapes
<1>4. q \in Seq(Sound) /\ q \in Seq(From(c))
  <2>1. Only(own, {c}) \in Sound /\ Only(own, {c}) \in From(c)
    BY <1>0, OnlyIs, OfItself DEF Types
  <2> QED BY <2>1, EmptySeq
<1>5. inbox' \in [Connections -> Seq(Sound)]
  BY <1>0, <1>1, <1>3, <1>4 DEF Types
<1>6. \A j \in Connections : pc'[j] # "added" => pc'[j] = pc[j] /\ inbox'[j] = inbox[j]
  BY <1>0, <1>1, <1>3 DEF TypeOK, Types
<1>7. \A d \in Clients : socket'[d] = IF d = c THEN socket[c] + 1 ELSE socket[d]
  BY <1>1, <1>2
<1>8. Types'
  <2>1. inbox' \in [Connections -> Seq(Updates)]
    BY <1>5, SoundIs, SeqMonotonic
  <2>2. \A d \in Clients : socket'[d] \in Nat /\ socket'[d] <= Sockets[d]
    BY <1>0, <1>2, <1>7 DEF TypeOK
  <2>3. socket' \in [Clients -> Nat]
    BY <1>1, <1>2
  <2>4. online' \subseteq Clients /\ \A d \in online' : socket'[d] > 0
    BY <1>0, <1>1, <1>2, <1>7 DEF TypeOK
  <2>5. DOMAIN charged' = Registered \cup {k} /\ charged' \in [Registered \cup {k} -> SUBSET Clients]
    BY <1>0, <1>1 DEF TypeOK
  <2>6. Registered' \subseteq Connections /\ charged' \in [Registered' -> SUBSET Clients]
    BY <1>0, <1>3, <2>5 DEF TypeOK, Registered
  <2>7. known' \in [Connections -> Updates]
    BY <1>0, <1>1, <1>3, SoundIs DEF TypeOK
  <2>8. pc' \in [Connections -> {"new", "added", "idle", "decoded", "applied", "charged"}]
    BY <1>0, <1>1, <1>3 DEF TypeOK
  <2>9. \A j \in Connections : pc'[j] \in {"decoded", "applied", "charged"} => inbox'[j] # <<>>
    BY <1>0, <1>6 DEF TypeOK
  <2>10. TypeOK'
    BY <1>0, <1>1, <2>1, <2>2, <2>3, <2>4, <2>6, <2>7, <2>8, <2>9 DEF TypeOK
  <2> QED BY <1>0, <1>1, <1>5, <2>10 DEF Types
<1>9. Merged'
  BY <1>0, <1>1, <1>6 DEF Merged, NeverAhead, Covers
<1>10. FirstHand'
  <2>1. \A d : From(d)' = From(d) /\ Heard(d)' = Heard(d)
    BY <1>1 DEF From, Heard
  <2>2. ASSUME NEW j \in Connections
        PROVE  inbox'[j] \in Seq(From(j[1])') /\ (inbox'[j] # <<>> => j[2] <= socket'[j[1]])
    <3>1. CASE j = k
      <4>1. socket'[c] = k[2] /\ k[2] \in Nat
        BY <1>2, <1>3, <1>7
      <4>2. k[2] <= socket'[c]
        BY <4>1
      <4>3. inbox'[j] = q
        BY <1>0, <1>1, <1>3, <3>1 DEF Types
      <4> QED BY <1>3, <1>4, <2>1, <3>1, <4>2, <4>3
    <3>2. CASE j # k
      <4>1. inbox'[j] = inbox[j] /\ j[1] \in Clients /\ j[2] \in Nat
        BY <1>0, <1>1, <1>3, <3>2, Shapes DEF Types
      <4>2. inbox[j] # <<>> => j[2] <= socket[j[1]]
        BY <1>0 DEF FirstHand
      <4>3. socket[j[1]] \in Nat /\ socket'[j[1]] \in Nat /\ socket[j[1]] <= socket'[j[1]]
        BY <1>2, <1>7, <4>1
      <4>4. inbox[j] # <<>> => j[2] <= socket'[j[1]]
        BY <4>1, <4>2, <4>3
      <4> QED BY <1>0, <2>1, <4>1, <4>4 DEF FirstHand
    <3> QED BY <3>1, <3>2
  <2>3. \A d \in Clients : socket'[d] = 0 => socket[d] = 0
    BY <1>2, <1>7
  <2> QED BY <1>0, <2>1, <2>2, <2>3 DEF FirstHand
<1>11. Charges'
  <2>1. \A d : Heard(d)' = Heard(d)
    BY <1>1 DEF Heard
  <2>2. Registered' = Registered \cup {k} /\ charged'[k] = {}
        /\ \A j \in Registered : j # k => charged'[j] = charged[j]
    BY <1>1 DEF Registered
  <2>3. \A j \in Registered' : \A d \in charged'[j] : Heard(d)'
    BY <1>0, <2>1, <2>2 DEF Charges
  <2>4. ASSUME NEW j \in Registered', j[2] = 1, socket'[j[1]] = 1, Heard(j[1])'
        PROVE  j[1] \in charged'[j] \/ (pc'[j] = "applied" /\ j[1] \in fresh'[j])
    <3>1. CASE j = k
      <4>1. socket[c] = 0
        BY <1>2, <1>3, <2>4, <3>1
      <4> QED BY <1>0, <1>3, <2>1, <2>4, <3>1, <4>1 DEF FirstHand
    <3>2. CASE j # k
      <4>1. j \in Registered /\ j \in Connections /\ j[1] \in Clients /\ j = <<j[1], j[2]>>
        BY <1>0, <2>2, <3>2, Shapes DEF TypeOK
      <4>2. j[1] # c
        <5>1. SUFFICES ASSUME j[1] = c PROVE FALSE
          OBVIOUS
        <5>2. socket[c] + 1 = 1
          BY <1>7, <2>4, <4>1, <5>1
        <5> QED BY <2>4, <3>2, <4>1, <5>1, <5>2
      <4>3. socket[j[1]] = 1 /\ pc'[j] = pc[j] /\ fresh' = fresh /\ charged'[j] = charged[j]
        BY <1>0, <1>1, <1>3, <1>7, <2>2, <2>4, <3>2, <4>1, <4>2 DEF TypeOK
      <4> QED BY <1>0, <2>1, <2>4, <4>1, <4>3 DEF Charges
    <3> QED BY <3>1, <3>2
  <2>5. ASSUME NEW j \in Connections
        PROVE  /\ \A d \in removed'[j] : Heard(d)'
               /\ pc'[j] = "applied" => \A d \in fresh'[j] : Heard(d)'
               /\ pc'[j] = "decoded" => \A d \in Clients :
                     /\ d \in fresh'[j] => Head(inbox'[j])[d].clock # 0
                     /\ Head(inbox'[j])[d].clock # 0 => Heard(d)' \/ d \in fresh'[j]
    <3>1. removed' = removed /\ fresh' = fresh
      BY <1>1
    <3>2. pc'[j] \in {"applied", "decoded"} => pc'[j] = pc[j] /\ inbox'[j] = inbox[j]
      BY <1>6
    <3> QED BY <1>0, <2>1, <3>1, <3>2 DEF Charges
  <2> QED BY <2>3, <2>4, <2>5 DEF Charges
<1> QED BY <1>8, <1>9, <1>10, <1>11 DEF IInv

\* The front of a queue, when the rest is cut off somewhere behind it.
LEMMA CutBehind ==
    ASSUME NEW S, NEW q \in Seq(S), NEW n \in 0..Len(q), n > 0
    PROVE  SubSeq(q, 1, n) # <<>> /\ Head(SubSeq(q, 1, n)) = Head(q)
<1>1. Len(q) \in Nat /\ n \in Nat /\ n <= Len(q) /\ n # 0
  BY LenProperties
<1>2. 1 <= n /\ 1 \in 1..n /\ n \in Int /\ n - 1 + 1 = n /\ \A i \in 1..n : i \in 1..Len(q)
  BY <1>1
<1>3. \A i \in 1..n : q[i] \in S
  BY <1>2, ElementOfSeq
<1>4. SubSeq(q, 1, n) \in Seq(S)
  BY <1>2, <1>3, SubSeqProperties
<1>5. Len(SubSeq(q, 1, n)) = n /\ SubSeq(q, 1, n)[1] = q[1]
  BY <1>2, <1>3, SubSeqProperties
<1>6. SubSeq(q, 1, n) # <<>> /\ q # <<>>
  BY <1>1, <1>4, <1>5, EmptySeq
<1> QED BY <1>4, <1>5, <1>6, HeadTailProperties

\* What is under way is lost, but not what is in hand.
LEMMA DropIInv == ASSUME IInv, NEW c \in Clients, Drop(c) PROVE IInv'
<1>0. TypeOK /\ Types /\ Merged /\ FirstHand /\ Charges
  BY DEF IInv, Types
<1> DEFINE k == Current(c)
<1>1. /\ c \in online /\ online' = online \ {c}
      /\ told' = IF k \in Registered THEN told ELSE Forgotten(k)
      /\ UNCHANGED <<aware, charged, pc, fresh, leaving, removed, parting, own, socket, known>>
  BY DEF Drop
<1>2. PICK n \in 0..Len(inbox[k]) :
        /\ pc[k] \notin {"added", "idle"} => n > 0
        /\ inbox' = [inbox EXCEPT ![k] = SubSeq(@, 1, n)]
  BY DEF Drop
<1>3. k \in Connections /\ k[1] = c /\ inbox[k] \in Seq(Sound) /\ inbox[k] \in Seq(From(c))
  BY <1>0, <1>1, CurrentIs DEF Types, FirstHand
<1>4. Len(inbox[k]) \in Nat /\ n \in Nat /\ n <= Len(inbox[k]) /\ n \in Int /\ 1 \in Int
  BY <1>3, LenProperties
<1>5. \A i \in 1..n : i \in 1..Len(inbox[k])
  BY <1>4
<1>6. SubSeq(inbox[k], 1, n) \in Seq(Sound) /\ SubSeq(inbox[k], 1, n) \in Seq(From(c))
  <2>1. \A i \in 1..n : inbox[k][i] \in Sound /\ inbox[k][i] \in From(c)
    BY <1>3, <1>5, ElementOfSeq
  <2> QED BY <1>4, <2>1, SubSeqProperties
<1>7. ASSUME pc[k] \notin {"added", "idle"}
      PROVE  SubSeq(inbox[k], 1, n) # <<>> /\ Head(SubSeq(inbox[k], 1, n)) = Head(inbox[k])
  BY <1>2, <1>3, <1>7, CutBehind
<1>8. \A j \in Connections : pc[j] \in {"decoded", "applied", "charged"} =>
        inbox'[j] # <<>> /\ Head(inbox'[j]) = Head(inbox[j])
  BY <1>0, <1>2, <1>3, <1>7 DEF TypeOK, Types
<1>9. inbox' \in [Connections -> Seq(Sound)]
  BY <1>0, <1>2, <1>3, <1>6 DEF Types
<1>10. told' \in [Connections -> Sound] /\ \A j \in Connections, d \in Clients : told'[j][d] \in {told[j][d], Unknown}
  BY <1>0, <1>1, <1>3, NobodyIs DEF Types, Forgotten
<1>11. Types'
  <2>1. inbox' \in [Connections -> Seq(Updates)]
    BY <1>9, SoundIs, SeqMonotonic
  <2>2. TypeOK'
    BY <1>0, <1>1, <1>8, <1>10, <2>1, SoundIs DEF TypeOK, Registered
  <2> QED BY <1>0, <1>1, <1>9, <1>10, <2>2 DEF Types
<1>12. Merged'
  <2>1. \A d \in Clients : Below(Unknown, aware[d])
    BY <1>0, SoundIs, Order DEF Types
  <2>2. NeverAhead'
    BY <1>0, <1>1, <1>10, <2>1 DEF Merged, NeverAhead
  <2> QED BY <1>0, <1>1, <1>8, <2>2 DEF Merged, Covers
<1>13. FirstHand'
  <2>1. \A d : From(d)' = From(d) /\ Heard(d)' = Heard(d)
    BY <1>1 DEF From, Heard
  <2>2. \A j \in Connections : inbox'[j] # <<>> => inbox[j] # <<>>
    <3>1. inbox[k] = <<>> => n = 0
      BY <1>4, EmptySeq
    <3>2. n = 0 => SubSeq(inbox[k], 1, n) = <<>>
      OBVIOUS
    <3> QED BY <1>0, <1>2, <3>1, <3>2 DEF Types
  <2>3. \A j \in Connections : inbox'[j] \in Seq(From(j[1]))
    BY <1>0, <1>2, <1>3, <1>6 DEF FirstHand, Types
  <2> QED BY <1>0, <1>1, <2>1, <2>2, <2>3 DEF FirstHand
<1>14. Charges'
  BY <1>0, <1>1, <1>8 DEF Charges, Heard, Registered
<1> QED BY <1>11, <1>12, <1>13, <1>14 DEF IInv
--------------------------------------------------------------------------------
\* What the server knows it may say.
LEMMA Told ==
    ASSUME Types, NeverAhead, NEW k \in Connections, NEW m \in Sound, Covers(m)
    PROVE  /\ Merge(told[k], m) \in Sound
           /\ \A d \in Clients : Below(Merge(told[k], m)[d], aware[d])
<1>1. told[k] \in Sound /\ \A d \in Clients : Below(told[k][d], aware[d])
  BY DEF Types, NeverAhead
<1> QED BY <1>1, MergeIs DEF Covers

\* It may say it to everybody.
LEMMA ToldAll ==
    ASSUME Types, NeverAhead, NEW m \in Sound, Covers(m), TellAll(m)
    PROVE  /\ told' \in [Connections -> Sound]
           /\ \A k \in Connections, d \in Clients : Below(told'[k][d], aware[d])
<1>1. told' = [k \in Connections |-> IF k \in Registered THEN Merge(told[k], m) ELSE told[k]]
  BY DEF TellAll
<1>2. ASSUME NEW k \in Connections
      PROVE  told'[k] \in Sound /\ \A d \in Clients : Below(told'[k][d], aware[d])
  <2>1. CASE k \in Registered
    BY <1>1, <2>1, Told
  <2>2. CASE k \notin Registered
    BY <1>1, <2>2 DEF Types, NeverAhead
  <2> QED BY <2>1, <2>2
<1> QED BY <1>1, <1>2

\* The message in hand.
LEMMA InHand ==
    ASSUME IInv, NEW k \in Connections, inbox[k] # <<>>
    PROVE  /\ Head(inbox[k]) \in Sound /\ Head(inbox[k]) \in From(k[1])
           /\ \A d \in Clients : Head(inbox[k])[d] \in Proper
           /\ Tail(inbox[k]) \in Seq(Sound) /\ Tail(inbox[k]) \in Seq(From(k[1]))
<1>1. inbox[k] \in Seq(Sound) /\ inbox[k] \in Seq(From(k[1]))
  BY DEF IInv, Types, FirstHand
<1> QED BY <1>1, HeadTailProperties, SoundIs

\* A new connection is told what is known.
LEMMA InitAwarenessIInv == ASSUME IInv, NEW k \in Connections, InitAwareness(k) PROVE IInv'
<1>0. TypeOK /\ Types /\ Merged /\ FirstHand /\ Charges
  BY DEF IInv, Types
<1>1. /\ pc[k] = "added" /\ pc' = [pc EXCEPT ![k] = "idle"]
      /\ UNCHANGED <<aware, charged, inbox, fresh, leaving, removed, parting, own, socket, online, known>>
  BY DEF InitAwareness, Goto, client
<1>2. PICK D \in {Named(aware), {d \in Clients : aware[d].up}} :
        told' = IF k \in Registered
                  THEN [told EXCEPT ![k] = Merge(@, Only(aware, D))]
                  ELSE told
  BY DEF InitAwareness
<1>3. Only(aware, D) \in Sound /\ Covers(Only(aware, D))
  BY <1>0, OnlyIs DEF Types, Covers
<1>4. told' \in [Connections -> Sound] /\ \A j \in Connections, d \in Clients : Below(told'[j][d], aware[d])
  <2>1. Merge(told[k], Only(aware, D)) \in Sound
        /\ \A d \in Clients : Below(Merge(told[k], Only(aware, D))[d], aware[d])
    BY <1>0, <1>3, Told DEF Merged
  <2> QED BY <1>0, <1>2, <2>1 DEF Types, Merged, NeverAhead
<1>5. \A j \in Connections : pc'[j] # "idle" => pc'[j] = pc[j]
  BY <1>0, <1>1 DEF TypeOK
<1>6. Types'
  <2>1. pc' \in [Connections -> {"new", "added", "idle", "decoded", "applied", "charged"}]
    BY <1>0, <1>1 DEF TypeOK
  <2>2. TypeOK'
    BY <1>0, <1>1, <1>4, <1>5, <2>1, SoundIs DEF TypeOK, Registered
  <2> QED BY <1>0, <1>1, <1>4, <2>2 DEF Types
<1>7. Merged'
  BY <1>0, <1>1, <1>4, <1>5 DEF Merged, NeverAhead, Covers
<1>8. FirstHand'
  BY <1>0, <1>1 DEF FirstHand, From, Heard
<1>9. Charges'
  <2>1. \A j \in Registered : pc[j] = "applied" => pc'[j] = "applied"
    BY <1>0, <1>1 DEF TypeOK
  <2> QED BY <1>0, <1>1, <1>5, <2>1 DEF Charges, Heard, Registered
<1> QED BY <1>6, <1>7, <1>8, <1>9 DEF IInv

\* Who is in the update and was not heard of yet is noted.
LEMMA AddedIInv == ASSUME IInv, NEW k \in Connections, Added(k) PROVE IInv'
<1>0. TypeOK /\ Types /\ Merged /\ FirstHand /\ Charges
  BY DEF IInv, Types
<1>1. /\ pc[k] = "idle" /\ inbox[k] # <<>> /\ pc' = [pc EXCEPT ![k] = "decoded"]
      /\ fresh' = [fresh EXCEPT ![k] = {d \in Named(Head(inbox[k])) : aware[d].clock = 0}]
      /\ UNCHANGED <<aware, charged, inbox, leaving, removed, parting, told, own, socket, online, known>>
  BY DEF Added, Goto, client
<1>2. \A j \in Connections : j # k => pc'[j] = pc[j] /\ fresh'[j] = fresh[j]
  BY <1>0, <1>1 DEF TypeOK
<1>3. pc'[k] = "decoded" /\ fresh'[k] = {d \in Named(Head(inbox[k])) : aware[d].clock = 0}
  BY <1>0, <1>1 DEF TypeOK
<1>4. \A d \in Clients : d \in Named(Head(inbox[k])) <=> Head(inbox[k])[d].clock # 0
  <2>1. \A d \in Clients : Head(inbox[k])[d].clock \in Nat
    BY <1>1, InHand DEF Proper, Entry
  <2>2. \A n \in Nat : n > 0 <=> n # 0
    OBVIOUS
  <2>3. \A d \in Clients : Head(inbox[k])[d].clock > 0 <=> Head(inbox[k])[d].clock # 0
    BY <2>1, <2>2
  <2> QED BY <2>3 DEF Named
<1>5. Types'
  <2>1. fresh' \in [Connections -> SUBSET Clients]
    BY <1>0, <1>1 DEF TypeOK, Named
  <2>2. pc' \in [Connections -> {"new", "added", "idle", "decoded", "applied", "charged"}]
    BY <1>0, <1>1 DEF TypeOK
  <2>3. TypeOK'
    BY <1>0, <1>1, <1>2, <2>1, <2>2 DEF TypeOK, Registered
  <2> QED BY <1>0, <1>1, <2>3 DEF Types
<1>6. Merged'
  BY <1>0, <1>1, <1>2, <1>3 DEF Merged, NeverAhead, Covers
<1>7. FirstHand'
  BY <1>0, <1>1 DEF FirstHand, From, Heard
<1>8. Charges'
  <2>1. \A d \in Clients :
          /\ d \in fresh'[k] => Head(inbox[k])[d].clock # 0
          /\ Head(inbox[k])[d].clock # 0 => Heard(d) \/ d \in fresh'[k]
    BY <1>3, <1>4 DEF Heard
  <2>2. \A j \in Registered : j \in Connections
    BY <1>0 DEF TypeOK
  <2>3. \A j \in Registered :
          j[2] = 1 /\ socket[j[1]] = 1 /\ Heard(j[1]) =>
            j[1] \in charged[j] \/ (pc'[j] = "applied" /\ j[1] \in fresh'[j])
    BY <1>0, <1>1, <1>2, <2>2 DEF Charges
  <2> QED BY <1>0, <1>1, <1>2, <1>3, <2>1, <2>3 DEF Charges, Heard, Registered
<1> QED BY <1>5, <1>6, <1>7, <1>8 DEF IInv

\* An update that names somebody for the first time comes from the first
\* connection of that client.
LEMMA ApplyIInv == ASSUME IInv, NEW k \in Connections, Apply(k) PROVE IInv'
<1> DEFINE m == Head(inbox[k])
<1>0. TypeOK /\ Types /\ Merged /\ FirstHand /\ Charges
  BY DEF IInv, Types
<1>1. /\ pc[k] = "decoded" /\ pc' = [pc EXCEPT ![k] = "applied"]
      /\ aware' = Merge(aware, m)
      /\ UNCHANGED <<charged, inbox, fresh, leaving, removed, parting, told, own, socket, online, known>>
  BY DEF Apply, Goto, client
<1>2. inbox[k] # <<>>
  BY <1>0, <1>1 DEF TypeOK
<1>3. m \in Sound /\ m \in From(k[1]) /\ aware \in Sound
  BY <1>0, <1>2, InHand DEF Types
<1>4. aware' \in Sound /\ \A d \in Clients : Below(aware[d], aware'[d]) /\ Below(m[d], aware'[d])
  BY <1>1, <1>3, MergeIs
<1>5. /\ \A u \in Sound : Covers(u) => Covers(u)'
      /\ \A d \in Clients : Heard(d) => Heard(d)'
      /\ \A c : From(c) \subseteq From(c)'
  BY <1>3, <1>4, Grows
<1>6. \A d \in Clients : Heard(d)' => Heard(d) \/ m[d].clock # 0
  <2>1. \A d \in Clients : aware'[d] \in {aware[d], m[d]}
    BY <1>1, <1>3, MergeIs
  <2> QED BY <2>1 DEF Heard
<1>7. \A d \in Clients : m[d].clock # 0 => Heard(d)'
  BY <1>3, <1>4, SoundIs, Order DEF Heard
<1>8. pc'[k] = "applied" /\ \A j \in Connections : j # k => pc'[j] = pc[j]
  BY <1>0, <1>1 DEF TypeOK
<1>9. Types'
  <2>1. pc' \in [Connections -> {"new", "added", "idle", "decoded", "applied", "charged"}]
    BY <1>0, <1>1 DEF TypeOK
  <2>2. TypeOK'
    BY <1>0, <1>1, <1>2, <1>4, <1>8, <2>1, SoundIs DEF TypeOK, Registered
  <2> QED BY <1>0, <1>1, <1>4, <2>2 DEF Types
<1>10. Merged'
  <2>1. ASSUME NEW j \in Connections PROVE Covers(told[j])' /\ Covers(parting[j])'
    <3>1. Covers(told[j]) /\ Covers(parting[j])
      BY <1>0 DEF Merged, NeverAhead, Covers
    <3>2. told[j] \in Sound /\ parting[j] \in Sound /\ told' = told /\ parting' = parting
      BY <1>0, <1>1 DEF Types
    <3> QED BY <1>5, <3>1, <3>2 DEF Covers
  <2>2. NeverAhead'
    BY <2>1 DEF NeverAhead, Covers
  <2>3. ASSUME NEW j \in Connections, pc'[j] \in {"applied", "charged"} PROVE Covers(Head(inbox[j]))'
    <3>1. CASE j = k
      BY <1>1, <1>4, <3>1 DEF Covers
    <3>2. CASE j # k
      <4>1. Covers(Head(inbox[j])) /\ inbox[j] # <<>>
        BY <1>0, <1>8, <2>3, <3>2 DEF Merged, TypeOK
      <4>2. Head(inbox[j]) \in Sound
        BY <4>1, InHand
      <4> QED BY <1>1, <1>5, <4>1, <4>2 DEF Covers
    <3> QED BY <3>1, <3>2
  <2> QED BY <2>1, <2>2, <2>3 DEF Merged, Covers
<1>11. k[1] \in Clients /\ k[2] \in Nat /\ k[2] # 0 /\ k[2] <= socket[k[1]] /\ k = <<k[1], k[2]>>
  BY <1>0, <1>2, Shapes DEF FirstHand
<1>12. \A d \in Clients : Heard(d)' /\ ~ Heard(d) => d = k[1] /\ m[d].clock # 0
  BY <1>3, <1>6 DEF From
<1>13. FirstHand'
  <2>1. \A j \in Connections : inbox'[j] \in Seq(From(j[1])') /\ (inbox'[j] # <<>> => j[2] <= socket'[j[1]])
    BY <1>0, <1>1, <1>5, SeqMonotonic DEF FirstHand
  <2>2. ASSUME NEW c \in Clients, socket[c] = 0 PROVE ~ Heard(c)'
    <3>1. ~ Heard(c)
      BY <1>0, <2>2 DEF FirstHand
    <3>2. c = k[1] => socket[c] # 0
      BY <1>0, <1>11 DEF TypeOK
    <3> QED BY <1>12, <2>2, <3>1, <3>2
  <2> QED BY <1>1, <2>1, <2>2 DEF FirstHand
<1>14. Charges'
  <2>1. \A j \in Registered : \A d \in charged[j] : Heard(d)'
    <3>1. \A j \in Registered : charged[j] \subseteq Clients
      BY <1>0 DEF TypeOK
    <3> QED BY <1>0, <1>5, <3>1 DEF Charges
  <2>2. ASSUME NEW j \in Connections
        PROVE  /\ \A d \in removed[j] : Heard(d)'
               /\ pc'[j] = "applied" => \A d \in fresh[j] : Heard(d)'
               /\ pc'[j] = "decoded" => \A d \in Clients :
                     /\ d \in fresh[j] => Head(inbox[j])[d].clock # 0
                     /\ Head(inbox[j])[d].clock # 0 => Heard(d)' \/ d \in fresh[j]
    <3>1. removed[j] \subseteq Clients /\ fresh[j] \subseteq Clients
      BY <1>0 DEF TypeOK
    <3>2. \A d \in removed[j] : Heard(d)'
      BY <1>0, <1>5, <3>1 DEF Charges
    <3>3. ASSUME pc'[j] = "applied", NEW d \in fresh[j] PROVE Heard(d)'
      <4>1. CASE j = k
        <5>1. m[d].clock # 0
          BY <1>0, <1>1, <3>1, <3>3, <4>1 DEF Charges
        <5> QED BY <1>7, <3>1, <3>3, <5>1
      <4>2. CASE j # k
        BY <1>0, <1>5, <1>8, <3>1, <3>3, <4>2 DEF Charges
      <4> QED BY <4>1, <4>2
    <3>4. ASSUME pc'[j] = "decoded", NEW d \in Clients
          PROVE  /\ d \in fresh[j] => Head(inbox[j])[d].clock # 0
                 /\ Head(inbox[j])[d].clock # 0 => Heard(d)' \/ d \in fresh[j]
      <4>1. pc[j] = "decoded"
        BY <1>8, <3>4
      <4> QED BY <1>0, <1>5, <4>1 DEF Charges
    <3> QED BY <3>2, <3>3, <3>4
  <2>3. ASSUME NEW j \in Registered, j[2] = 1, socket[j[1]] = 1, Heard(j[1])'
        PROVE  j[1] \in charged[j] \/ (pc'[j] = "applied" /\ j[1] \in fresh[j])
    <3>0. j \in Connections /\ j[1] \in Clients /\ j = <<j[1], j[2]>>
      BY <1>0, Shapes DEF TypeOK
    <3>1. CASE Heard(j[1])
      <4>1. j[1] \in charged[j] \/ (pc[j] = "applied" /\ j[1] \in fresh[j])
        BY <1>0, <2>3, <3>1 DEF Charges
      <4> QED BY <1>1, <1>8, <3>0, <4>1
    <3>2. CASE ~ Heard(j[1])
      <4>1. j[1] = k[1] /\ m[j[1]].clock # 0
        BY <1>12, <2>3, <3>0, <3>2
      <4>2. k[2] = 1
        BY <1>11, <2>3, <4>1
      <4>3. j = k
        BY <1>11, <2>3, <3>0, <4>1, <4>2
      <4>4. j[1] \in fresh[k]
        BY <1>0, <1>1, <3>0, <3>2, <4>1 DEF Charges
      <4> QED BY <1>8, <4>3, <4>4
    <3> QED BY <3>1, <3>2
  <2> QED BY <1>1, <2>1, <2>2, <2>3 DEF Charges, Registered
<1> QED BY <1>9, <1>10, <1>13, <1>14 DEF IInv
\* The newcomers are charged to the connection, if it is still there.
LEMMA ChargeIInv == ASSUME IInv, NEW k \in Connections, Charge(k) PROVE IInv'
<1>0. TypeOK /\ Types /\ Merged /\ FirstHand /\ Charges
  BY DEF IInv, Types
<1>1. /\ pc[k] = "applied" /\ pc' = [pc EXCEPT ![k] = "charged"]
      /\ charged' = [j \in Registered |-> charged[j] \cup (IF j = k THEN fresh[k] ELSE {})]
      /\ fresh' = [fresh EXCEPT ![k] = {}]
      /\ UNCHANGED <<aware, inbox, leaving, removed, parting, told, own, socket, online, known>>
  BY DEF Charge, Goto, client
<1>2. \A j \in Connections : j # k => pc'[j] = pc[j] /\ fresh'[j] = fresh[j]
  BY <1>0, <1>1 DEF TypeOK
<1>3. pc'[k] = "charged" /\ fresh'[k] = {}
  BY <1>0, <1>1 DEF TypeOK
<1>4. Registered' = Registered /\ Registered \subseteq Connections
  BY <1>0, <1>1 DEF TypeOK, Registered
<1>5. \A j \in Registered : charged'[j] = charged[j] \cup (IF j = k THEN fresh[k] ELSE {})
  BY <1>1
<1>6. Types'
  <2>1. charged' \in [Registered -> SUBSET Clients]
    BY <1>0, <1>1 DEF TypeOK
  <2>2. fresh' \in [Connections -> SUBSET Clients]
    BY <1>0, <1>1 DEF TypeOK
  <2>3. pc' \in [Connections -> {"new", "added", "idle", "decoded", "applied", "charged"}]
    BY <1>0, <1>1 DEF TypeOK
  <2>4. TypeOK'
    BY <1>0, <1>1, <1>2, <1>4, <2>1, <2>2, <2>3 DEF TypeOK
  <2> QED BY <1>0, <1>1, <2>4 DEF Types
<1>7. Merged'
  BY <1>0, <1>1, <1>2 DEF Merged, NeverAhead, Covers
<1>8. FirstHand'
  BY <1>0, <1>1 DEF FirstHand, From, Heard
<1>9. Charges'
  <2>1. \A d : Heard(d)' = Heard(d)
    BY <1>1 DEF Heard
  <2>2. ASSUME NEW j \in Registered, NEW d \in charged'[j] PROVE Heard(d)
    <3>1. CASE d \in charged[j]
      BY <1>0, <3>1 DEF Charges
    <3>2. CASE d \notin charged[j]
      <4>1. d \in fresh[k]
        BY <1>5, <2>2, <3>2
      <4> QED BY <1>0, <1>1, <4>1 DEF Charges
    <3> QED BY <3>1, <3>2
  <2>3. ASSUME NEW j \in Registered, j[2] = 1, socket[j[1]] = 1, Heard(j[1])
        PROVE  j[1] \in charged'[j] \/ (pc'[j] = "applied" /\ j[1] \in fresh'[j])
    <3>1. j[1] \in charged[j] \/ (pc[j] = "applied" /\ j[1] \in fresh[j])
      BY <1>0, <2>3 DEF Charges
    <3> QED BY <1>2, <1>4, <1>5, <3>1
  <2> QED BY <1>0, <1>1, <1>2, <1>3, <1>4, <2>1, <2>2, <2>3 DEF Charges
<1> QED BY <1>6, <1>7, <1>8, <1>9 DEF IInv

\* The update, which is in, is sent on, and taken off the queue.
LEMMA BroadcastIInv == ASSUME IInv, NEW k \in Connections, Broadcast(k) PROVE IInv'
<1>0. TypeOK /\ Types /\ Merged /\ FirstHand /\ Charges
  BY DEF IInv, Types
<1>1. /\ pc[k] = "charged" /\ pc' = [pc EXCEPT ![k] = "idle"]
      /\ TellAll(Head(inbox[k])) /\ inbox' = [inbox EXCEPT ![k] = Tail(@)]
      /\ UNCHANGED <<aware, charged, fresh, leaving, removed, parting, own, socket, online, known>>
  BY DEF Broadcast, Goto, client
<1>2. inbox[k] # <<>> /\ Covers(Head(inbox[k]))
  BY <1>0, <1>1 DEF TypeOK, Merged
<1>3. Head(inbox[k]) \in Sound /\ Tail(inbox[k]) \in Seq(Sound) /\ Tail(inbox[k]) \in Seq(From(k[1]))
  BY <1>2, InHand
<1>4. told' \in [Connections -> Sound] /\ \A j \in Connections, d \in Clients : Below(told'[j][d], aware[d])
  BY <1>0, <1>1, <1>2, <1>3, ToldAll DEF Merged
<1>5. pc'[k] = "idle" /\ \A j \in Connections : j # k => pc'[j] = pc[j] /\ inbox'[j] = inbox[j]
  BY <1>0, <1>1 DEF TypeOK
<1>6. inbox' \in [Connections -> Seq(Sound)]
  BY <1>0, <1>1, <1>3 DEF Types
<1>7. Types'
  <2>1. inbox' \in [Connections -> Seq(Updates)]
    BY <1>6, SoundIs, SeqMonotonic
  <2>2. pc' \in [Connections -> {"new", "added", "idle", "decoded", "applied", "charged"}]
    BY <1>0, <1>1 DEF TypeOK
  <2>3. TypeOK'
    BY <1>0, <1>1, <1>4, <1>5, <2>1, <2>2, SoundIs DEF TypeOK, Registered
  <2> QED BY <1>0, <1>1, <1>4, <1>6, <2>3 DEF Types
<1>8. Merged'
  BY <1>0, <1>1, <1>4, <1>5 DEF Merged, NeverAhead, Covers
<1>9. FirstHand'
  <2>1. \A d : From(d)' = From(d) /\ Heard(d)' = Heard(d)
    BY <1>1 DEF From, Heard
  <2>2. \A j \in Connections : inbox'[j] \in Seq(From(j[1]))
    BY <1>0, <1>1, <1>3, <1>5 DEF FirstHand, Types
  <2>3. \A j \in Connections : inbox'[j] # <<>> => inbox[j] # <<>>
    BY <1>2, <1>5
  <2> QED BY <1>0, <1>1, <2>1, <2>2, <2>3 DEF FirstHand
<1>10. Charges'
  <2>1. \A j \in Registered : j \in Connections
    BY <1>0 DEF TypeOK
  <2> QED BY <1>0, <1>1, <1>5, <2>1 DEF Charges, Heard, Registered
<1> QED BY <1>7, <1>8, <1>9, <1>10 DEF IInv

\* A connection is removed, and owes its clients' withdrawal.
LEMMA RemoveIInv == ASSUME IInv, NEW k \in Connections, RemoveConnection(k) PROVE IInv'
<1>0. TypeOK /\ Types /\ Merged /\ FirstHand /\ Charges
  BY DEF IInv, Types
<1>1. /\ k \in Registered
      /\ charged' = [j \in Registered \ {k} |-> charged[j]]
      /\ removed' = [removed EXCEPT ![k] = charged[k]]
      /\ leaving' = [leaving EXCEPT ![k] = IF charged[k] = {} THEN "no" ELSE "withdrawing"]
      /\ told' = IF Working(k) THEN told ELSE Forgotten(k)
      /\ known' = [known EXCEPT ![k] = Nobody]
      /\ UNCHANGED <<aware, inbox, pc, fresh, parting, own, socket, online>>
  BY DEF RemoveConnection, client
<1>2. told' \in [Connections -> Sound] /\ \A j \in Connections, d \in Clients : told'[j][d] \in {told[j][d], Unknown}
  BY <1>0, <1>1, NobodyIs DEF Types, Forgotten
<1>3. Registered' = Registered \ {k} /\ \A j \in Registered' : charged'[j] = charged[j]
  BY <1>1 DEF Registered
<1>4. charged[k] \subseteq Clients
  BY <1>0, <1>1 DEF TypeOK
<1>5. Types'
  <2>1. Registered' \subseteq Connections /\ charged' \in [Registered' -> SUBSET Clients]
    BY <1>0, <1>1, <1>3 DEF TypeOK
  <2>2. removed' \in [Connections -> SUBSET Clients]
    BY <1>0, <1>1, <1>4 DEF TypeOK
  <2>3. leaving' \in [Connections -> {"no", "withdrawing", "announcing"}]
    BY <1>0, <1>1 DEF TypeOK
  <2>4. known' \in [Connections -> Updates]
    BY <1>0, <1>1, NobodyIs, SoundIs DEF TypeOK
  <2>5. TypeOK'
    BY <1>0, <1>1, <1>2, <2>1, <2>2, <2>3, <2>4, SoundIs DEF TypeOK
  <2> QED BY <1>0, <1>1, <1>2, <2>5 DEF Types
<1>6. Merged'
  <2>1. \A d \in Clients : Below(Unknown, aware[d])
    BY <1>0, SoundIs, Order DEF Types
  <2>2. NeverAhead'
    BY <1>0, <1>1, <1>2, <2>1 DEF Merged, NeverAhead
  <2> QED BY <1>0, <1>1, <2>2 DEF Merged, Covers
<1>7. FirstHand'
  BY <1>0, <1>1 DEF FirstHand, From, Heard
<1>8. Charges'
  <2>1. \A j \in Connections : \A d \in removed'[j] : Heard(d)
    BY <1>0, <1>1 DEF Charges, TypeOK
  <2> QED BY <1>0, <1>1, <1>3, <2>1 DEF Charges, Heard
<1> QED BY <1>5, <1>6, <1>7, <1>8 DEF IInv

\* A withdrawal is above all that was known of the client.
LEMMA WithdrawIInv == ASSUME IInv, NEW k \in Connections, Withdraw(k) PROVE IInv'
<1>0. TypeOK /\ Types /\ Merged /\ FirstHand /\ Charges
  BY DEF IInv, Types
<1>1. /\ aware' = [d \in Clients |-> IF d \in removed[k]
                                       THEN [clock |-> aware[d].clock + 1, up |-> FALSE]
                                       ELSE aware[d]]
      /\ parting' = [parting EXCEPT ![k] = Only(aware', removed[k])]
      /\ removed' = [removed EXCEPT ![k] = {}]
      /\ leaving' = [leaving EXCEPT ![k] = "announcing"]
      /\ UNCHANGED <<charged, inbox, pc, fresh, told, own, socket, online, known>>
  BY DEF Withdraw, client
<1>2. ASSUME NEW d \in Clients
      PROVE  /\ aware'[d] \in Proper /\ Below(aware[d], aware'[d])
             /\ Heard(d)' => Heard(d)
  <2>1. CASE d \in removed[k]
    <3> DEFINE n == aware[d].clock
    <3>1. n \in Nat
      BY <1>0, SoundIs DEF Types, Proper, Entry
    <3>2. aware'[d] = [clock |-> n + 1, up |-> FALSE]
      BY <1>1, <2>1
    <3>3. n + 1 \in Nat /\ n < n + 1
      BY <3>1
    <3>4. aware'[d] \in Proper
      BY <3>2, <3>3 DEF Proper, Entry
    <3>5. Below(aware[d], aware'[d])
      BY <3>2, <3>3 DEF Below
    <3>6. Heard(d)
      BY <1>0, <2>1 DEF Charges
    <3> QED BY <3>4, <3>5, <3>6
  <2>2. CASE d \notin removed[k]
    <3>1. aware'[d] = aware[d] /\ aware[d] \in Proper
      BY <1>0, <1>1, <2>2, SoundIs DEF Types
    <3> QED BY <3>1, Order DEF Heard
  <2> QED BY <2>1, <2>2
<1>3. aware \in Sound /\ aware' \in Sound
  BY <1>0, <1>1, <1>2 DEF Types, Sound
<1>4. /\ \A u \in Sound : Covers(u) => Covers(u)'
      /\ \A d \in Clients : Heard(d)' <=> Heard(d)
      /\ \A c : From(c) \subseteq From(c)'
  BY <1>2, <1>3, Grows
<1>5. Only(aware', removed[k]) \in Sound /\ \A d \in Clients : Below(Only(aware', removed[k])[d], aware'[d])
  BY <1>3, OnlyIs
<1>6. parting' \in [Connections -> Sound]
  BY <1>0, <1>1, <1>5 DEF Types
<1>7. Types'
  <2>1. removed' \in [Connections -> SUBSET Clients]
    BY <1>0, <1>1 DEF TypeOK
  <2>2. leaving' \in [Connections -> {"no", "withdrawing", "announcing"}]
    BY <1>0, <1>1 DEF TypeOK
  <2>3. TypeOK'
    BY <1>0, <1>1, <1>3, <1>6, <2>1, <2>2, SoundIs DEF TypeOK, Registered
  <2> QED BY <1>0, <1>1, <1>3, <1>6, <2>3 DEF Types
<1>8. Merged'
  <2>1. ASSUME NEW j \in Connections PROVE Covers(told[j])'
    <3>1. Covers(told[j]) /\ told[j] \in Sound /\ told' = told
      BY <1>0, <1>1 DEF Merged, NeverAhead, Covers, Types
    <3> QED BY <1>4, <3>1 DEF Covers
  <2>2. ASSUME NEW j \in Connections PROVE Covers(parting[j])'
    <3>1. CASE j = k
      BY <1>0, <1>1, <1>5, <3>1 DEF Covers, Types
    <3>2. CASE j # k
      <4>1. parting'[j] = parting[j] /\ parting[j] \in Sound /\ Covers(parting[j])
        BY <1>0, <1>1, <3>2 DEF Merged, Types
      <4> QED BY <1>4, <4>1 DEF Covers
    <3> QED BY <3>1, <3>2
  <2>3. ASSUME NEW j \in Connections, pc[j] \in {"applied", "charged"} PROVE Covers(Head(inbox[j]))'
    <3>1. Covers(Head(inbox[j])) /\ inbox[j] # <<>> /\ inbox' = inbox
      BY <1>0, <1>1, <2>3 DEF Merged, TypeOK
    <3>2. Head(inbox[j]) \in Sound
      BY <3>1, InHand
    <3> QED BY <1>4, <3>1, <3>2 DEF Covers
  <2> QED BY <1>1, <2>1, <2>2, <2>3 DEF Merged, NeverAhead, Covers
<1>9. FirstHand'
  <2>1. \A j \in Connections : inbox[j] \in Seq(From(j[1])')
    BY <1>0, <1>4, SeqMonotonic DEF FirstHand
  <2> QED BY <1>0, <1>1, <1>4, <2>1 DEF FirstHand
<1>10. Charges'
  <2>1. \A j \in Registered : j[1] \in Clients /\ charged[j] \subseteq Clients
    BY <1>0, Shapes DEF TypeOK
  <2>2. \A j \in Connections : removed'[j] \subseteq removed[j] /\ removed[j] \subseteq Clients /\ fresh[j] \subseteq Clients
    BY <1>0, <1>1 DEF TypeOK
  <2> QED BY <1>0, <1>1, <1>4, <2>1, <2>2 DEF Charges, Registered
<1> QED BY <1>7, <1>8, <1>9, <1>10 DEF IInv

\* The withdrawal is announced.
LEMMA PartIInv == ASSUME IInv, NEW k \in Connections, AnnounceParting(k) PROVE IInv'
<1>0. TypeOK /\ Types /\ Merged /\ FirstHand /\ Charges
  BY DEF IInv, Types
<1>1. /\ TellAll(parting[k])
      /\ leaving' = [leaving EXCEPT ![k] = "no"]
      /\ parting' = [parting EXCEPT ![k] = Nobody]
      /\ UNCHANGED <<aware, charged, inbox, pc, fresh, removed, own, socket, online, known>>
  BY DEF AnnounceParting, client
<1>2. parting[k] \in Sound /\ Covers(parting[k])
  BY <1>0 DEF Types, Merged
<1>3. told' \in [Connections -> Sound] /\ \A j \in Connections, d \in Clients : Below(told'[j][d], aware[d])
  BY <1>0, <1>1, <1>2, ToldAll DEF Merged
<1>4. parting' \in [Connections -> Sound]
  BY <1>0, <1>1, NobodyIs DEF Types
<1>5. Types'
  <2>1. leaving' \in [Connections -> {"no", "withdrawing", "announcing"}]
    BY <1>0, <1>1 DEF TypeOK
  <2>2. TypeOK'
    BY <1>0, <1>1, <1>3, <1>4, <2>1, SoundIs DEF TypeOK, Registered
  <2> QED BY <1>0, <1>1, <1>3, <1>4, <2>2 DEF Types
<1>6. Merged'
  <2>1. \A d \in Clients : Below(Nobody[d], aware[d])
    BY <1>0, NobodyIs, SoundIs, Order DEF Types
  <2>2. \A j \in Connections : parting'[j] \in {parting[j], Nobody}
    BY <1>0, <1>1 DEF Types
  <2>3. \A j \in Connections, d \in Clients : Below(parting'[j][d], aware[d])
    BY <1>0, <2>1, <2>2 DEF Merged, Covers
  <2> QED BY <1>0, <1>1, <1>3, <2>3 DEF Merged, NeverAhead, Covers
<1>7. FirstHand'
  BY <1>0, <1>1 DEF FirstHand, From, Heard
<1>8. Charges'
  BY <1>0, <1>1 DEF Charges, Heard, Registered
<1> QED BY <1>5, <1>6, <1>7, <1>8 DEF IInv
--------------------------------------------------------------------------------
\* Every step keeps the invariant.
LEMMA StepIInv == IInv /\ [Next]_vars => IInv'
<1> SUFFICES ASSUME IInv, [Next]_vars PROVE IInv'
  OBVIOUS
<1>1. ASSUME NEW c \in Clients, Client(c) PROVE IInv'
  BY <1>1, ConnectIInv, AnnounceIInv, ReactIInv, EchoIInv, DropIInv DEF Client
<1>2. ASSUME NEW k \in Connections, InitAwareness(k) \/ Handle(k) \/ RemoveConnection(k) \/ Part(k)
      PROVE  IInv'
  BY <1>2, InitAwarenessIInv, AddedIInv, ApplyIInv, ChargeIInv, BroadcastIInv, RemoveIInv,
     WithdrawIInv, PartIInv DEF Handle, Part
<1>3. CASE UNCHANGED vars
  <2>0. UNCHANGED <<aware, charged, inbox, pc, fresh, leaving, removed, parting, told,
                    own, socket, online, known>>
    BY <1>3 DEF vars
  <2>1. Types'
    BY <2>0 DEF IInv, Types, TypeOK, Registered
  <2>2. Merged'
    BY <2>0 DEF IInv, Merged, NeverAhead, Covers
  <2>3. FirstHand'
    BY <2>0 DEF IInv, FirstHand, From, Heard
  <2>4. Charges'
    BY <2>0 DEF IInv, Charges, Heard, Registered
  <2> QED BY <2>1, <2>2, <2>3, <2>4 DEF IInv
<1> QED BY <1>1, <1>2, <1>3 DEF Next

\* The invariant, always.
THEOREM Invariance == Spec => []IInv
BY InitIInv, StepIInv, PTL DEF Spec

\* The types, and that a message is in hand exactly while one is being handled
\* (document.rs:295-338).
THEOREM TypeCorrect == Spec => []TypeOK
<1>1. IInv => TypeOK
  BY DEF IInv, Types
<1> QED BY <1>1, Invariance, PTL

\* No connection is told what the server does not know (document.rs:295-338).
THEOREM NobodyIsAhead == Spec => []NeverAhead
<1>1. IInv => NeverAhead
  BY DEF IInv, Merged
<1> QED BY <1>1, Invariance, PTL

\* The presence of a client that has used one connection is charged to it
\* (document.rs:315-333).
THEOREM NewcomersAreCharged == Spec => []FirstIsCharged
<1>1. ASSUME IInv, NEW c \in Clients, socket[c] = 1, Current(c) \in Registered,
             aware[c].clock > 0, pc[Current(c)] # "applied"
      PROVE  c \in charged[Current(c)]
  <2>1. Current(c)[1] = c /\ Current(c)[2] = 1
    BY <1>1 DEF Current
  <2>2. Heard(c)
    <3>1. aware[c].clock \in Nat
      BY <1>1, SoundIs DEF IInv, Types, Proper, Entry
    <3> QED BY <1>1, <3>1 DEF Heard
  <2> QED BY <1>1, <2>1, <2>2 DEF IInv, Charges
<1>2. IInv => FirstIsCharged
  BY <1>1 DEF FirstIsCharged
<1> QED BY <1>2, Invariance, PTL
--------------------------------------------------------------------------------
(* What a connection was not told yet is about to be said.  This holds on  *)
(* top of IInv, and is shown from it and its next value.                   *)

\* The handler of j, or its removal, is about to say what the server knows of d.
AboutToSay(j, d) ==
    \/ pc[j] \in {"applied", "charged"} /\ Below(aware[d], Head(inbox[j])[d])
    \/ leaving[j] = "announcing" /\ Below(aware[d], parting[j][d])

OwedTo(k, d) ==
    \/ Below(aware[d], told[k][d])
    \/ aware[d] = known[k][d] /\ (pc[k] = "added" \/ ~ aware[d].up)
    \/ \E j \in Connections : AboutToSay(j, d)

\* A connection is registered once, and announces its parting after that.
Departures ==
    /\ \A k \in Connections : k \in Registered \/ leaving[k] # "no" => k[2] <= socket[k[1]]
    /\ \A k \in Registered : leaving[k] = "no"

Debts == Departures /\ \A k \in Registered, d \in Clients : OwedTo(k, d)

\* The facts of IInv that a step from it uses.
LEMMA Entries ==
    ASSUME IInv
    PROVE  /\ TypeOK /\ Types /\ Registered \subseteq Connections
           /\ \A d \in Clients : aware[d] \in Proper
           /\ \A k \in Connections : told[k] \in Sound /\ parting[k] \in Sound
           /\ \A k \in Connections, d \in Clients : told[k][d] \in Proper /\ parting[k][d] \in Proper
           /\ \A k \in Connections : pc[k] \in {"decoded", "applied", "charged"} =>
                 /\ inbox[k] # <<>> /\ k[2] <= socket[k[1]]
                 /\ Head(inbox[k]) \in Sound
                 /\ \A d \in Clients : Head(inbox[k])[d] \in Proper
<1>1. TypeOK /\ Types /\ Registered \subseteq Connections
  BY DEF IInv, Types, TypeOK
<1>2. \A k \in Connections : pc[k] \in {"decoded", "applied", "charged"} => inbox[k] # <<>>
  BY <1>1 DEF TypeOK
<1>3. \A k \in Connections : inbox[k] # <<>> => k[2] <= socket[k[1]]
  BY DEF IInv, FirstHand
<1> QED BY <1>1, <1>2, <1>3, InHand, SoundIs DEF Types

\* What is about to be said stays so while nobody says it.
LEMMA StillSaid ==
    ASSUME NEW j \in Connections, NEW d \in Clients, AboutToSay(j, d),
           aware'[d] = aware[d],
           pc[j] \in {"applied", "charged"} =>
               pc'[j] \in {"applied", "charged"} /\ Head(inbox'[j]) = Head(inbox[j]),
           leaving[j] = "announcing" => leaving'[j] = "announcing" /\ parting'[j] = parting[j]
    PROVE  AboutToSay(j, d)'
BY DEF AboutToSay

\* What is owed stays owed, when what is about to be said stays so or is said.
LEMMA StillOwed ==
    ASSUME IInv, IInv', NEW k \in Connections, NEW d \in Clients, OwedTo(k, d),
           aware'[d] = aware[d], known'[k] = known[k],
           Below(told[k][d], told'[k][d]),
           pc[k] = "added" => pc'[k] = "added" \/ ~ aware[d].up \/ Below(aware[d], told'[k][d]),
           \A j \in Connections :
               AboutToSay(j, d) => AboutToSay(j, d)' \/ Below(aware[d], told'[k][d])
    PROVE  OwedTo(k, d)'
<1>1. CASE Below(aware[d], told[k][d])
  <2>1. aware[d] \in Proper /\ told[k][d] \in Proper /\ told'[k][d] \in Proper
    BY Entries, SoundIs DEF IInv, Types
  <2>2. Below(aware[d], told'[k][d])
    BY <1>1, <2>1, Order
  <2> QED BY <2>2 DEF OwedTo
<1>2. CASE aware[d] = known[k][d] /\ (pc[k] = "added" \/ ~ aware[d].up)
  BY <1>2 DEF OwedTo
<1>3. CASE \E j \in Connections : AboutToSay(j, d)
  BY <1>3 DEF OwedTo
<1> QED BY <1>1, <1>2, <1>3 DEF OwedTo

\* A broadcast of m: who is registered is not told less, and is told m.
LEMMA EverybodyTold ==
    ASSUME IInv, NEW m \in Sound, TellAll(m), NEW k \in Registered, NEW d \in Clients
    PROVE  Below(told[k][d], told'[k][d]) /\ Below(m[d], told'[k][d]) /\ told'[k][d] \in Proper
<1>1. k \in Connections /\ told[k] \in Sound
  BY Entries
<1>2. told'[k] = Merge(told[k], m)
  BY <1>1 DEF TellAll
<1> QED BY <1>1, <1>2, MergeIs, SoundIs

\* Initially nobody is connected.
LEMMA InitDebts == Init => Debts
BY DEF Init, Debts, Departures, Registered
--------------------------------------------------------------------------------
\* The queues behind the messages in hand change, and nothing is said.
LEMMA SilentDebts ==
    ASSUME IInv, IInv', Debts,
           \A k \in Registered : told'[k] = told[k],
           \A j \in Connections : pc[j] \in {"applied", "charged"} => Head(inbox'[j]) = Head(inbox[j]),
           UNCHANGED <<aware, charged, pc, leaving, parting, socket, known>>
    PROVE  Debts'
<1>1. Registered' = Registered /\ Registered \subseteq Connections
  BY Entries DEF Registered
<1>2. Departures'
  BY <1>1 DEF Debts, Departures
<1>3. ASSUME NEW k \in Registered, NEW d \in Clients PROVE OwedTo(k, d)'
  <2>1. OwedTo(k, d) /\ k \in Connections
    BY <1>1 DEF Debts
  <2>2. Below(told[k][d], told'[k][d])
    BY <2>1, Entries, Order
  <2>3. \A j \in Connections : AboutToSay(j, d) => AboutToSay(j, d)'
    BY StillSaid
  <2> QED BY <2>1, <2>2, <2>3, StillOwed
<1> QED BY <1>1, <1>2, <1>3 DEF Debts

\* A client says m.
LEMMA SayDebts ==
    ASSUME IInv, IInv', Debts, NEW c \in online, NEW m \in Sound, Say(c, m),
           UNCHANGED <<aware, charged, pc, leaving, parting, told, socket, known>>
    PROVE  Debts'
<1>1. Current(c) \in Connections /\ inbox \in [Connections -> Seq(Sound)]
  BY Entries, CurrentIs DEF Types
<1>2. inbox' = [inbox EXCEPT ![Current(c)] = Append(@, m)]
  BY DEF Say
<1>3. ASSUME NEW j \in Connections, pc[j] \in {"applied", "charged"}
      PROVE  Head(inbox'[j]) = Head(inbox[j])
  <2>1. inbox[j] # <<>> /\ inbox[j] \in Seq(Sound)
    BY <1>1, <1>3, Entries
  <2>2. Head(Append(inbox[j], m)) = Head(inbox[j])
    BY <2>1, HeadTailAppend
  <2> QED BY <1>1, <1>2, <2>2
<1> QED BY <1>3, SilentDebts

\* The announcements of clients.
LEMMA ClientsDebts ==
    ASSUME IInv, IInv', Debts, NEW c \in Clients, Announce(c) \/ React(c) \/ Echo(c)
    PROVE  Debts'
<1>1. own' \in Sound /\ TypeOK
  BY Entries DEF IInv, Types
<1>2. CASE Announce(c)
  <2>1. Only(own', {c}) \in Sound
    BY <1>1, OnlyIs
  <2> QED BY <1>2, <2>1, SayDebts DEF Announce
<1>3. CASE React(c)
  <2>1. Only(own', {c}) \in Sound
    BY <1>1, OnlyIs
  <2> QED BY <1>3, <2>1, SayDebts DEF React
<1>4. CASE Echo(c)
  <2>1. c \in online /\ told[Current(c)] \in Sound
    BY <1>1, <1>4, Entries, CurrentIs DEF Echo
  <2>2. PICK d \in Clients \ {c} : Say(c, Only(told[Current(c)], {d}))
    BY <1>4 DEF Echo
  <2>3. Only(told[Current(c)], {d}) \in Sound
    BY <2>1, OnlyIs
  <2> QED BY <1>4, <2>1, <2>2, <2>3, SayDebts DEF Echo, client
<1> QED BY <1>2, <1>3, <1>4

\* Who connects knows nothing yet, and is owed what the server knows.
LEMMA ConnectDebts == ASSUME IInv, IInv', Debts, NEW c \in Clients, Connect(c) PROVE Debts'
<1> DEFINE k == <<c, socket[c] + 1>>
<1>1. /\ socket[c] < Sockets[c]
      /\ socket' = [socket EXCEPT ![c] = @ + 1]
      /\ charged' = [j \in Registered \cup {k} |-> IF j = k THEN {} ELSE charged[j]]
      /\ pc' = [pc EXCEPT ![k] = "added"]
      /\ \A j \in Connections : j # k => inbox'[j] = inbox[j]
      /\ known' = [known EXCEPT ![k] = aware]
      /\ UNCHANGED <<aware, leaving, parting, told>>
  BY Entries DEF Connect, Types
<1>2. socket \in [Clients -> Nat] /\ Sockets[c] \in Nat /\ socket[c] \in Nat
  BY Entries, AwarenessAssumption DEF TypeOK
<1>3. socket[c] + 1 \in Nat /\ socket[c] + 1 # 0 /\ socket[c] + 1 <= Sockets[c]
      /\ ~ (socket[c] + 1 <= socket[c])
  BY <1>1, <1>2
<1>4. k \in Connections /\ k[1] = c /\ k[2] = socket[c] + 1
  BY <1>3, Shapes
<1>5. pc[k] \notin {"applied", "charged"} /\ k \notin Registered /\ leaving[k] = "no"
  BY <1>3, <1>4, Entries DEF Debts, Departures
<1>6. /\ pc'[k] = "added" /\ known'[k] = aware
      /\ \A j \in Connections : j # k => pc'[j] = pc[j] /\ known'[j] = known[j]
  BY <1>1, <1>4, Entries DEF TypeOK
<1>7. Registered' = Registered \cup {k} /\ Registered \subseteq Connections
  BY <1>1, Entries DEF Registered
<1>8. Departures'
  <2>1. ASSUME NEW j \in Connections, j \in Registered' \/ leaving[j] # "no"
        PROVE  j[2] <= socket'[j[1]]
    <3>0. j[1] \in Clients /\ j[2] \in Nat /\ socket[j[1]] \in Nat
      BY <1>2, Shapes
    <3>1. CASE j = k
      <4>1. socket'[c] = socket[c] + 1 /\ socket[c] + 1 <= socket[c] + 1
        BY <1>1, <1>2, <1>3
      <4> QED BY <1>4, <3>1, <4>1
    <3>2. CASE j # k
      <4>1. j[2] <= socket[j[1]]
        BY <1>7, <2>1, <3>2 DEF Debts, Departures
      <4>2. socket'[j[1]] \in {socket[j[1]], socket[j[1]] + 1}
        BY <1>1, <1>2, <3>0
      <4> QED BY <3>0, <4>1, <4>2
    <3> QED BY <3>1, <3>2
  <2>2. \A j \in Registered' : leaving[j] = "no"
    BY <1>5, <1>7 DEF Debts, Departures
  <2> QED BY <1>1, <2>1, <2>2 DEF Departures
<1>9. ASSUME NEW j \in Registered', NEW d \in Clients PROVE OwedTo(j, d)'
  <2>1. CASE j = k
    BY <1>1, <1>6, <2>1 DEF OwedTo
  <2>2. CASE j # k
    <3>1. j \in Registered /\ j \in Connections /\ OwedTo(j, d)
      BY <1>7, <2>2 DEF Debts
    <3>2. Below(told[j][d], told'[j][d])
      BY <1>1, <3>1, Entries, Order
    <3>3. \A i \in Connections : AboutToSay(i, d) => AboutToSay(i, d)'
      <4>1. ASSUME NEW i \in Connections, AboutToSay(i, d) PROVE AboutToSay(i, d)'
        <5>1. i # k
          BY <1>5, <4>1 DEF AboutToSay
        <5>2. pc'[i] = pc[i] /\ inbox'[i] = inbox[i] /\ leaving' = leaving /\ parting' = parting
          BY <1>1, <1>6, <5>1
        <5> QED BY <1>1, <4>1, <5>2, StillSaid
      <4> QED BY <4>1
    <3>4. aware' = aware /\ known'[j] = known[j] /\ pc'[j] = pc[j]
      BY <1>1, <1>6, <2>2, <3>1
    <3> QED BY <3>1, <3>2, <3>3, <3>4, StillOwed
  <2> QED BY <2>1, <2>2
<1> QED BY <1>8, <1>9 DEF Debts

\* What a client was told is forgotten only when it is not registered either.
LEMMA DropDebts == ASSUME IInv, IInv', Debts, NEW c \in Clients, Drop(c) PROVE Debts'
<1> DEFINE k == Current(c)
<1>1. /\ c \in online
      /\ told' = IF k \in Registered THEN told ELSE Forgotten(k)
      /\ UNCHANGED <<aware, charged, pc, leaving, parting, socket, known>>
  BY DEF Drop
<1>2. PICK n \in 0..Len(inbox[k]) :
        /\ pc[k] \notin {"added", "idle"} => n > 0
        /\ inbox' = [inbox EXCEPT ![k] = SubSeq(@, 1, n)]
  BY DEF Drop
<1>3. k \in Connections /\ inbox \in [Connections -> Seq(Sound)] /\ Registered \subseteq Connections
      /\ told \in [Connections -> Sound]
  BY <1>1, Entries, CurrentIs DEF Types
<1>4. ASSUME NEW j \in Connections, pc[j] \in {"applied", "charged"}
      PROVE  Head(inbox'[j]) = Head(inbox[j])
  <2>1. CASE j = k
    <3>1. Head(SubSeq(inbox[k], 1, n)) = Head(inbox[k])
      BY <1>2, <1>3, <1>4, <2>1, CutBehind
    <3> QED BY <1>2, <1>3, <2>1, <3>1
  <2>2. CASE j # k
    BY <1>2, <1>3, <2>2
  <2> QED BY <2>1, <2>2
<1>5. \A j \in Registered : told'[j] = told[j]
  BY <1>1, <1>3 DEF Forgotten
<1> QED BY <1>1, <1>4, <1>5, SilentDebts
--------------------------------------------------------------------------------
\* A new connection is told all that is up; what was withdrawn before it came
\* it need not know.
LEMMA InitAwarenessDebts == ASSUME IInv, IInv', Debts, NEW k \in Connections, InitAwareness(k) PROVE Debts'
<1>1. /\ pc[k] = "added" /\ pc' = [pc EXCEPT ![k] = "idle"]
      /\ UNCHANGED <<aware, charged, inbox, leaving, parting, socket, known>>
  BY DEF InitAwareness, Goto, client
<1>2. PICK D \in {Named(aware), {d \in Clients : aware[d].up}} :
        told' = IF k \in Registered
                  THEN [told EXCEPT ![k] = Merge(@, Only(aware, D))]
                  ELSE told
  BY DEF InitAwareness
<1>3. Registered' = Registered /\ Registered \subseteq Connections
  BY <1>1, Entries DEF Registered
<1>4. Departures'
  BY <1>1, <1>3 DEF Debts, Departures
<1>5. \A j \in Connections : j # k => pc'[j] = pc[j]
  BY <1>1, Entries DEF TypeOK
<1>6. \A d \in Clients : aware[d].up => d \in D
  <2>1. \A d \in Clients : aware[d].up => aware[d].clock \in Nat /\ aware[d].clock # 0
    BY Entries DEF Proper, Entry
  <2>2. \A d \in Clients : aware[d].up => aware[d].clock > 0
    BY <2>1
  <2> QED BY <1>2, <2>2 DEF Named
<1>7. ASSUME NEW j \in Registered, NEW d \in Clients PROVE OwedTo(j, d)'
  <2>1. j \in Connections /\ OwedTo(j, d) /\ told[j] \in Sound /\ aware \in Sound
        /\ told \in [Connections -> Sound]
    BY <1>3, Entries DEF Debts, Types
  <2>2. Below(told[j][d], told'[j][d]) /\ (j = k /\ aware[d].up => Below(aware[d], told'[j][d]))
    <3>1. CASE j = k
      <4>1. told'[j] = Merge(told[j], Only(aware, D)) /\ Only(aware, D) \in Sound
        BY <1>2, <2>1, <3>1, OnlyIs
      <4>2. aware[d].up => Only(aware, D)[d] = aware[d]
        BY <1>6, <2>1, OnlyIs
      <4> QED BY <2>1, <4>1, <4>2, MergeIs
    <3>2. CASE j # k
      <4>1. told'[j] = told[j] /\ told[j][d] \in Proper
        BY <1>2, <2>1, <3>2, SoundIs
      <4> QED BY <3>2, <4>1, Order
    <3> QED BY <3>1, <3>2
  <2>3. \A i \in Connections : AboutToSay(i, d) => AboutToSay(i, d)'
    <3>1. \A i \in Connections : pc[i] \in {"applied", "charged"} => pc'[i] = pc[i]
      BY <1>1, <1>5
    <3> QED BY <1>1, <3>1 DEF AboutToSay
  <2>4. pc[j] = "added" => pc'[j] = "added" \/ ~ aware[d].up \/ Below(aware[d], told'[j][d])
    BY <1>5, <2>1, <2>2
  <2> QED BY <1>1, <2>1, <2>2, <2>3, <2>4, StillOwed
<1> QED BY <1>3, <1>4, <1>7 DEF Debts

\* The handler's steps before and after the update is applied.
LEMMA HandDebts == ASSUME IInv, IInv', Debts, NEW k \in Connections, Added(k) \/ Charge(k) PROVE Debts'
<1>1. /\ pc[k] \in {"idle", "applied"}
      /\ pc' = [pc EXCEPT ![k] = IF pc[k] = "idle" THEN "decoded" ELSE "charged"]
      /\ UNCHANGED <<aware, inbox, leaving, parting, told, socket, known>>
      /\ Registered' = Registered
  BY DEF Added, Charge, Goto, client, Registered
<1>2. Registered \subseteq Connections /\ \A j \in Connections : pc'[j] # pc[j] =>
        j = k /\ pc'[k] = IF pc[k] = "idle" THEN "decoded" ELSE "charged"
  BY <1>1, Entries DEF TypeOK
<1>3. Departures'
  BY <1>1 DEF Debts, Departures
<1>4. ASSUME NEW j \in Registered, NEW d \in Clients PROVE OwedTo(j, d)'
  <2>1. OwedTo(j, d) /\ j \in Connections
    BY <1>2 DEF Debts
  <2>2. Below(told[j][d], told'[j][d])
    BY <1>1, <2>1, Entries, Order
  <2>3. pc[j] = "added" => pc'[j] = "added"
    BY <1>1, <1>2, <2>1
  <2>4. \A i \in Connections : pc[i] \in {"applied", "charged"} => pc'[i] \in {"applied", "charged"}
    BY <1>1, <1>2
  <2>5. \A i \in Connections : AboutToSay(i, d) => AboutToSay(i, d)'
    BY <1>1, <2>4 DEF AboutToSay
  <2> QED BY <1>1, <2>1, <2>2, <2>3, <2>5, StillOwed
<1> QED BY <1>1, <1>3, <1>4 DEF Debts

\* An entry is what it was, or that of the update, which is about to be said.
LEMMA ApplyDebts == ASSUME IInv, IInv', Debts, NEW k \in Connections, Apply(k) PROVE Debts'
<1>1. /\ pc[k] = "decoded" /\ pc' = [pc EXCEPT ![k] = "applied"]
      /\ aware' = Merge(aware, Head(inbox[k]))
      /\ UNCHANGED <<charged, inbox, leaving, parting, told, socket, known>>
  BY DEF Apply, Goto, client
<1>2. pc'[k] = "applied" /\ \A j \in Connections : j # k => pc'[j] = pc[j]
  BY <1>1, Entries DEF TypeOK
<1>3. Registered' = Registered /\ Registered \subseteq Connections
  BY <1>1, Entries DEF Registered
<1>4. Departures'
  BY <1>1, <1>3 DEF Debts, Departures
<1>5. ASSUME NEW j \in Registered, NEW d \in Clients PROVE OwedTo(j, d)'
  <2>1. OwedTo(j, d) /\ j \in Connections /\ aware \in Sound /\ Head(inbox[k]) \in Sound
    BY <1>1, <1>3, Entries DEF Debts, Types
  <2>2. CASE aware'[d] = aware[d]
    <3>1. Below(told[j][d], told'[j][d])
      BY <1>1, <2>1, Entries, Order
    <3>2. pc[j] = "added" => pc'[j] = "added"
      BY <1>1, <1>2, <2>1
    <3>3. \A i \in Connections : pc[i] \in {"applied", "charged"} => pc'[i] = pc[i]
      BY <1>1, <1>2
    <3>4. \A i \in Connections : AboutToSay(i, d) => AboutToSay(i, d)'
      BY <1>1, <2>2, <3>3 DEF AboutToSay
    <3> QED BY <1>1, <2>1, <2>2, <3>1, <3>2, <3>4, StillOwed
  <2>3. CASE aware'[d] = Head(inbox[k])[d]
    <3>1. Below(Head(inbox[k])[d], Head(inbox[k])[d])
      BY <2>1, SoundIs, Order
    <3>2. AboutToSay(k, d)'
      BY <1>1, <1>2, <2>3, <3>1 DEF AboutToSay
    <3> QED BY <3>2 DEF OwedTo
  <2> QED BY <1>1, <2>1, <2>2, <2>3, MergeIs
<1> QED BY <1>3, <1>4, <1>5 DEF Debts

\* The update in hand is said.
LEMMA BroadcastDebts == ASSUME IInv, IInv', Debts, NEW k \in Connections, Broadcast(k) PROVE Debts'
<1> DEFINE m == Head(inbox[k])
<1>1. /\ pc[k] = "charged" /\ pc' = [pc EXCEPT ![k] = "idle"]
      /\ TellAll(m) /\ inbox' = [inbox EXCEPT ![k] = Tail(@)]
      /\ UNCHANGED <<aware, charged, leaving, parting, socket, known>>
  BY DEF Broadcast, Goto, client
<1>2. \A j \in Connections : j # k => pc'[j] = pc[j] /\ inbox'[j] = inbox[j]
  BY <1>1, Entries DEF TypeOK, Types
<1>3. Registered' = Registered /\ Registered \subseteq Connections
  BY <1>1, Entries DEF Registered
<1>4. Departures'
  BY <1>1, <1>3 DEF Debts, Departures
<1>5. ASSUME NEW j \in Registered, NEW d \in Clients PROVE OwedTo(j, d)'
  <2>1. OwedTo(j, d) /\ j \in Connections /\ m \in Sound
    BY <1>1, <1>3, Entries DEF Debts
  <2>2. Below(told[j][d], told'[j][d]) /\ Below(m[d], told'[j][d]) /\ told'[j][d] \in Proper
    BY <1>1, <2>1, EverybodyTold
  <2>3. pc[j] = "added" => pc'[j] = "added"
    BY <1>1, <1>2, <2>1
  <2>4. ASSUME NEW i \in Connections, AboutToSay(i, d)
        PROVE  AboutToSay(i, d)' \/ Below(aware[d], told'[j][d])
    <3>1. CASE leaving[i] = "announcing" /\ Below(aware[d], parting[i][d])
      BY <1>1, <3>1 DEF AboutToSay
    <3>2. CASE pc[i] \in {"applied", "charged"} /\ Below(aware[d], Head(inbox[i])[d])
      <4>1. CASE i = k
        <5>1. aware[d] \in Proper /\ m[d] \in Proper /\ Below(aware[d], m[d])
          BY <1>1, <3>2, <4>1, Entries
        <5> QED BY <2>2, <5>1, Order
      <4>2. CASE i # k
        BY <1>1, <1>2, <3>2, <4>2 DEF AboutToSay
      <4> QED BY <4>1, <4>2
    <3> QED BY <2>4, <3>1, <3>2 DEF AboutToSay
  <2> QED BY <1>1, <2>1, <2>2, <2>3, <2>4, StillOwed
<1> QED BY <1>3, <1>4, <1>5 DEF Debts

\* A connection that is removed is owed nothing any more.
LEMMA RemoveDebts == ASSUME IInv, IInv', Debts, NEW k \in Connections, RemoveConnection(k) PROVE Debts'
<1>1. /\ k \in Registered
      /\ charged' = [j \in Registered \ {k} |-> charged[j]]
      /\ leaving' = [leaving EXCEPT ![k] = IF charged[k] = {} THEN "no" ELSE "withdrawing"]
      /\ told' = IF Working(k) THEN told ELSE Forgotten(k)
      /\ known' = [known EXCEPT ![k] = Nobody]
      /\ UNCHANGED <<aware, inbox, pc, parting, socket>>
  BY DEF RemoveConnection, client
<1>2. Registered' = Registered \ {k} /\ Registered \subseteq Connections
  BY <1>1, Entries DEF Registered
<1>3. leaving[k] = "no" /\ k[2] <= socket[k[1]]
  BY <1>1 DEF Debts, Departures
<1>4. \A j \in Connections : j # k => leaving'[j] = leaving[j] /\ known'[j] = known[j] /\ told'[j] = told[j]
  BY <1>1, Entries DEF TypeOK, Types, Forgotten
<1>5. Departures'
  BY <1>1, <1>2, <1>3, <1>4 DEF Debts, Departures
<1>6. ASSUME NEW j \in Registered', NEW d \in Clients PROVE OwedTo(j, d)'
  <2>1. OwedTo(j, d) /\ j \in Connections /\ j # k
    BY <1>2 DEF Debts
  <2>2. Below(told[j][d], told'[j][d])
    BY <1>4, <2>1, Entries, Order
  <2>3. \A i \in Connections : AboutToSay(i, d) => AboutToSay(i, d)'
    <3>1. \A i \in Connections : leaving[i] = "announcing" => leaving'[i] = "announcing"
      BY <1>3, <1>4
    <3> QED BY <1>1, <3>1 DEF AboutToSay
  <2> QED BY <1>1, <1>4, <2>1, <2>2, <2>3, StillOwed
<1> QED BY <1>5, <1>6 DEF Debts

\* An entry is what it was, or withdrawn, which is about to be announced.
LEMMA WithdrawDebts == ASSUME IInv, IInv', Debts, NEW k \in Connections, Withdraw(k) PROVE Debts'
<1>1. /\ leaving[k] = "withdrawing"
      /\ aware' = [d \in Clients |-> IF d \in removed[k]
                                       THEN [clock |-> aware[d].clock + 1, up |-> FALSE]
                                       ELSE aware[d]]
      /\ parting' = [parting EXCEPT ![k] = Only(aware', removed[k])]
      /\ leaving' = [leaving EXCEPT ![k] = "announcing"]
      /\ UNCHANGED <<charged, inbox, pc, told, socket, known>>
  BY DEF Withdraw, client
<1>2. leaving'[k] = "announcing" /\ parting'[k] = Only(aware', removed[k])
      /\ \A j \in Connections : j # k => leaving'[j] = leaving[j] /\ parting'[j] = parting[j]
  BY <1>1, Entries DEF TypeOK
<1>3. Registered' = Registered /\ Registered \subseteq Connections /\ k \notin Registered
  BY <1>1, Entries DEF Registered, Debts, Departures
<1>4. Departures'
  BY <1>1, <1>2, <1>3 DEF Debts, Departures
<1>5. ASSUME NEW j \in Registered, NEW d \in Clients PROVE OwedTo(j, d)'
  <2>1. OwedTo(j, d) /\ j \in Connections /\ aware' \in Sound
    BY <1>3 DEF Debts, IInv, Types
  <2>2. CASE d \in removed[k]
    <3>1. parting'[k][d] = aware'[d] /\ aware'[d] \in Proper
      BY <1>2, <2>1, <2>2, OnlyIs, SoundIs
    <3>2. Below(aware'[d], parting'[k][d])
      BY <3>1, Order
    <3>3. AboutToSay(k, d)'
      BY <1>2, <3>2 DEF AboutToSay
    <3> QED BY <3>3 DEF OwedTo
  <2>3. CASE d \notin removed[k]
    <3>1. aware'[d] = aware[d]
      BY <1>1, <2>3
    <3>2. Below(told[j][d], told'[j][d])
      BY <1>1, <2>1, Entries, Order
    <3>3. \A i \in Connections : leaving[i] = "announcing" =>
            leaving'[i] = "announcing" /\ parting'[i] = parting[i]
      BY <1>1, <1>2
    <3>4. \A i \in Connections : AboutToSay(i, d) => AboutToSay(i, d)'
      BY <1>1, <3>1, <3>3 DEF AboutToSay
    <3> QED BY <1>1, <2>1, <3>1, <3>2, <3>4, StillOwed
  <2> QED BY <2>2, <2>3
<1> QED BY <1>3, <1>4, <1>5 DEF Debts

\* The withdrawal is said.
LEMMA PartDebts == ASSUME IInv, IInv', Debts, NEW k \in Connections, AnnounceParting(k) PROVE Debts'
<1>1. /\ TellAll(parting[k])
      /\ leaving' = [leaving EXCEPT ![k] = "no"]
      /\ parting' = [parting EXCEPT ![k] = Nobody]
      /\ UNCHANGED <<aware, charged, inbox, pc, socket, known>>
  BY DEF AnnounceParting, client
<1>2. leaving'[k] = "no"
      /\ \A j \in Connections : j # k => leaving'[j] = leaving[j] /\ parting'[j] = parting[j]
  BY <1>1, Entries DEF TypeOK
<1>3. Registered' = Registered /\ Registered \subseteq Connections
  BY <1>1, Entries DEF Registered
<1>4. Departures'
  BY <1>1, <1>2, <1>3 DEF Debts, Departures
<1>5. ASSUME NEW j \in Registered, NEW d \in Clients PROVE OwedTo(j, d)'
  <2>1. OwedTo(j, d) /\ j \in Connections /\ parting[k] \in Sound
    BY <1>3, Entries DEF Debts
  <2>2. /\ Below(told[j][d], told'[j][d]) /\ Below(parting[k][d], told'[j][d])
        /\ told'[j][d] \in Proper
    BY <1>1, <2>1, EverybodyTold
  <2>3. ASSUME NEW i \in Connections, AboutToSay(i, d)
        PROVE  AboutToSay(i, d)' \/ Below(aware[d], told'[j][d])
    <3>1. CASE i = k /\ Below(aware[d], parting[k][d])
      <4>1. aware[d] \in Proper /\ parting[k][d] \in Proper
        BY Entries
      <4> QED BY <2>2, <3>1, <4>1, Order
    <3>2. CASE pc[i] \in {"applied", "charged"} /\ Below(aware[d], Head(inbox[i])[d])
      BY <1>1, <3>2 DEF AboutToSay
    <3>3. CASE i # k
      BY <1>1, <1>2, <2>3, <3>3 DEF AboutToSay
    <3> QED BY <2>3, <3>1, <3>2, <3>3 DEF AboutToSay
  <2> QED BY <1>1, <2>1, <2>2, <2>3, StillOwed
<1> QED BY <1>3, <1>4, <1>5 DEF Debts
--------------------------------------------------------------------------------
\* Every step keeps what is owed.
LEMMA StepDebts == IInv /\ IInv' /\ Debts /\ [Next]_vars => Debts'
<1> SUFFICES ASSUME IInv, IInv', Debts, [Next]_vars PROVE Debts'
  OBVIOUS
<1>1. ASSUME NEW c \in Clients, Client(c) PROVE Debts'
  BY <1>1, ConnectDebts, ClientsDebts, DropDebts DEF Client
<1>2. ASSUME NEW k \in Connections, InitAwareness(k) \/ Handle(k) \/ RemoveConnection(k) \/ Part(k)
      PROVE  Debts'
  BY <1>2, InitAwarenessDebts, HandDebts, ApplyDebts, BroadcastDebts, RemoveDebts,
     WithdrawDebts, PartDebts DEF Handle, Part
<1>3. CASE UNCHANGED vars
  <2>0. UNCHANGED <<aware, charged, inbox, pc, leaving, parting, told, socket, known>>
    BY <1>3 DEF vars
  <2> QED BY <2>0, SilentDebts
<1> QED BY <1>1, <1>2, <1>3 DEF Next

\* What a registered connection was not told is about to be said, always
\* (document.rs:183-212, 295-352).
THEOREM NothingIsForgotten == Spec => []Debts
<1>1. Init => IInv /\ Debts
  BY InitIInv, InitDebts
<1>2. IInv /\ Debts /\ [Next]_vars => IInv' /\ Debts'
  BY StepIInv, StepDebts
<1> QED BY <1>1, <1>2, PTL DEF Spec

\* When nothing is under way every connection was told what the server knows
\* (document.rs:183-212, 295-352).
THEOREM EverybodyKnows == Spec => []PeersAgree
<1>1. \A e, f \in Proper : Below(e, f) /\ Below(f, e) => e = f
  <2>1. \A e, f \in Proper : Below(e, f) /\ Below(f, e) => e.clock = f.clock /\ e.up = f.up
    <3>1. \A e \in Proper : e.clock \in Nat /\ e.up \in BOOLEAN
      BY DEF Proper, Entry
    <3> QED BY <3>1 DEF Below
  <2> QED BY <2>1 DEF Proper, Entry
<1>2. ASSUME IInv, Debts, Quiet, NEW k \in Registered, NEW d \in Clients
      PROVE  told[k][d] = aware[d] \/ (~ aware[d].up /\ aware[d] = known[k][d])
  <2>1. k \in Connections /\ OwedTo(k, d) /\ aware[d] \in Proper /\ told[k][d] \in Proper
    BY <1>2, Entries DEF Debts
  <2>2. Below(told[k][d], aware[d])
    BY <1>2, <2>1 DEF IInv, Merged, NeverAhead
  <2>3. \A j \in Connections : ~ AboutToSay(j, d)
    BY <1>2 DEF Quiet, AboutToSay
  <2>4. pc[k] # "added"
    BY <1>2, <2>1 DEF Quiet
  <2> QED BY <1>1, <2>1, <2>2, <2>3, <2>4 DEF OwedTo
<1>3. IInv /\ Debts => PeersAgree
  BY <1>2 DEF PeersAgree
<1> QED BY <1>3, Invariance, NothingIsForgotten, PTL
================================================================================
