-------------------------- MODULE ClientSessionProofs --------------------------
(***************************************************************************)
(* Proofs about ClientSession, for any number of keys, connections and     *)
(* messages: a connection in a document is known to its session, and a key *)
(* that is established without a connection is about to be released.       *)
(*                                                                         *)
(* What keeps the sessions of a key apart is `established`: as long as a   *)
(* connection was not forgotten altogether its key is established, so that *)
(* no other connection is set up for it, unless the key was closed twice.  *)
(***************************************************************************)
EXTENDS ClientSession, SequenceTheorems, TLAPS

\* The connections that were set up.
Made == {c \in Conns : keyOf[c] # None}

\* A callback of c is done, or was lost with the session.
Over(c) == \E a \in Closers : callback[c][a] \in {"done", "lost"}

\* A callback of c has removed the key from document_connections.
Past(c) == \E a \in Closers : callback[c][a] \in {"queue", "established", "done", "lost"}

Handling == {"insert", "check", "drain", "deliver", "process", "processed"}

\* The types; what the reader has in hand while it needs it.
Shape ==
    /\ TypeOK
    /\ queue \in [Keys -> Seq(Kinds) \cup {None}]
    /\ rpc \notin {"idle", "ending", "ended"} => key \in Keys /\ kind \in Kinds
    /\ rpc \in Handling => conn \in Made
    /\ rpc = "insert" => keyOf[conn] = key
    /\ rpc \in {"process", "processed"} => todo # <<>>
    /\ rpc = "ended" => ready = "closed"

\* Only a connection that was set up is in a document, closed or forgotten, in
\* this order.
Removals ==
    /\ live \subseteq Made
    /\ \A c \in live, a \in Closers : callback[c][a] = "none"
    /\ \A c \in Conns, a \in Closers : callback[c][a] # "none" => c \in Made
    /\ \A a \in Closers : toClose[a] \subseteq Made
    /\ \A a \in Closers : closing[a] # None =>
           closing[a] \in Made /\ callback[closing[a]][a] = "none"

Entering == {"getPayload", "hooks", "setup", "creating"}
Claiming == {"establish", "cleanEstablished", "cleanPayload", "cleanQueue"} \cup Entering

\* A key is established until its connection is forgotten altogether, so that
\* it has one connection at a time.
OneAtATime ==
    /\ \A c \in Made : keyOf[c] \in established \/ Over(c) \/ ClosedTwice(keyOf[c])
    /\ \A c, d \in Made : keyOf[c] = keyOf[d] =>
           c = d \/ Over(c) \/ Over(d) \/ ClosedTwice(keyOf[c])
    /\ rpc \in Claiming =>
           \A c \in Made : keyOf[c] = key => Over(c) \/ ClosedTwice(key)
    /\ rpc \in Entering => key \in established \/ ClosedTwice(key)

\* A connection is in document_connections until its callback removes it; and a
\* message is queued, and a connection inserted, only when no other connection
\* of its key is there.
Tracked ==
    /\ \A c \in Made :
        \/ map[keyOf[c]] = c \/ Past(c) \/ ClosedTwice(keyOf[c])
        \/ rpc = "insert" /\ conn = c
    /\ rpc \in {"queueing", "payload", "examine", "push"} =>
           \A c \in Made : keyOf[c] = key => Past(c) \/ ClosedTwice(key)
    /\ rpc = "insert" =>
           \A c \in Made : keyOf[c] = key => c = conn \/ Past(c) \/ ClosedTwice(key)

Excused(k) == ready # "open" \/ ClosedTwice(k)

\* A key with a queue has its payload, which its setup will find; but the setup
\* that drains the queue may be overtaken by the callback.
Paid ==
    /\ \A c \in Made :
        \/ queue[keyOf[c]] = None \/ Past(c) \/ Excused(keyOf[c])
        \/ rpc \in {"insert", "check", "drain"} /\ key = keyOf[c]
    /\ \A k \in Keys :
        \/ queue[k] = None \/ k \in payloads \/ Excused(k)
        \/ rpc \in {"payload", "cleanQueue", "insert", "check", "drain"} /\ key = k
    /\ rpc \in {"examine", "push", "establish", "getPayload", "setup"} =>
           key \in payloads \/ Excused(key)

\* Whoever established a key is setting it up, or has a connection that will
\* release it.
Released ==
    \A k \in established :
        \/ \E c \in Made : keyOf[c] = k /\ ~ Over(c)
        \/ rpc \in Entering \cup {"cleanEstablished"} /\ key = k
        \/ Excused(k) \/ k \in halted

\* At the end of the session every connection is closed.
Leaving ==
    /\ rpc = "ending" => \A c \in live :
           c \in toClose["reader"] \/ closing["reader"] = c \/ ClosedTwice(keyOf[c])
    /\ rpc = "ended" => \A c \in live : ClosedTwice(keyOf[c])

IInv == Shape /\ Removals /\ OneAtATime /\ Tracked /\ Paid /\ Released /\ Leaving
--------------------------------------------------------------------------------
\* The invariant holds initially.
LEMMA InitIInv == Init => IInv
<1> SUFFICES ASSUME Init PROVE IInv
  OBVIOUS
<1>0. None \notin Conns /\ None \notin Keys /\ MaxMessages \in Nat
  BY SessionAssumption
<1>1. Made = {}
  BY DEF Init, Made
<1>2. Shape
  <2>1. received \in 0..MaxMessages
    BY <1>0 DEF Init
  <2>2. TypeOK
    BY <1>0, <2>1, EmptySeq DEF Init, TypeOK, RPCs, InProgress
  <2> QED BY <2>2 DEF Init, Shape, Handling
<1>3. Removals
  BY <1>1 DEF Init, Removals
<1>4. OneAtATime
  BY <1>1 DEF Init, OneAtATime, Claiming, Entering
<1>5. Tracked
  BY <1>1 DEF Init, Tracked
<1>6. Paid
  BY <1>1 DEF Init, Paid
<1>7. Released
  BY <1>1 DEF Init, Released
<1>8. Leaving
  BY DEF Init, Leaving
<1> QED BY <1>2, <1>3, <1>4, <1>5, <1>6, <1>7, <1>8 DEF IInv
--------------------------------------------------------------------------------
\* What the reader looks for in the map.
LEMMA Mapping ==
    ASSUME TypeOK
    PROVE  /\ Mapped \subseteq Made
           /\ \A k \in Keys : map[k] # None => map[k] \in Made
<1>0. None \notin Keys
  BY SessionAssumption
<1>1. map \in [Keys -> Conns \cup {None}]
  BY DEF TypeOK
<1>2. \A k \in Keys : map[k] # None => map[k] \in Conns /\ keyOf[map[k]] = k
  BY <1>1 DEF TypeOK
<1>3. \A k \in Keys : map[k] # None => map[k] \in Made
  BY <1>0, <1>2 DEF Made
<1>4. Range(map) = {map[k] : k \in Keys}
  BY <1>1 DEF Range
<1>5. Mapped \subseteq Made
  BY <1>3, <1>4 DEF Mapped
<1> QED BY <1>3, <1>5

\* The steps of the reader that set up nothing.
LEMMA ShapeOfReader ==
    ASSUME Shape, Removals,
           \/ \E m \in Kinds, k \in Keys : Receive(m, k)
           \/ Lookup \/ Queueing \/ Payload \/ Examine \/ Push \/ Establish \/ GetPayload
           \/ Accept \/ Deny \/ CleanEstablished \/ CleanPayload \/ CleanQueue
           \/ ClosedAll \/ Drain \/ Deliver \/ Processed
    PROVE  Shape'
<1>0. TypeOK /\ None \notin Keys /\ None \notin Conns
  BY SessionAssumption DEF Shape
<1>a. Made' = Made
  BY DEF Receive, Lookup, Queueing, Payload, Examine, Push, Establish, GetPayload, Accept, Deny,
         CleanEstablished, CleanPayload, CleanQueue, ClosedAll, Drain, Deliver, Processed,
         Made, otherVars
<1> USE DEF sessionVars, readerVars, closeVars, otherVars, Idle, Goto, RPCs, Kinds, Handling
<1>1. ASSUME NEW m \in Kinds, NEW k \in Keys, Receive(m, k) PROVE Shape'
  <2>1. received' \in 0..MaxMessages
    BY <1>0, <1>1, SessionAssumption DEF Receive, TypeOK
  <2>2. TypeOK'
    BY <1>0, <1>1, <2>1 DEF Receive, TypeOK
  <2> QED BY <1>1, <2>2 DEF Shape, Receive
<1>2. CASE Lookup
  <2>1. key \in Keys /\ kind \in Kinds /\ Plain[key] \in Keys
    BY <1>2, SessionAssumption DEF Shape, Lookup
  <2>2. conn' \in Conns \cup {None} /\ (rpc' = "process" => conn' \in Made /\ todo' = <<kind>>)
    BY <1>0, <1>2, <2>1, Mapping DEF Lookup, TypeOK, Made
  <2>3. <<kind>> \in Seq(Kinds) /\ <<kind>> # <<>>
    BY <2>1
  <2>4. todo' \in Seq(Kinds)
    BY <1>0, <1>2, <2>3 DEF Lookup, TypeOK
  <2>5. /\ \/ rpc' = "process" /\ reading' = TRUE
           \/ rpc' = "queueing" /\ reading' = reading
        /\ UNCHANGED <<queue, payloads, established, halted, ready, live, keyOf, map, key, kind,
                       toClose, closing, ping, callback, received>>
    BY <1>2 DEF Lookup
  <2>6. TypeOK'
    BY <1>0, <2>2, <2>4, <2>5 DEF TypeOK
  <2> QED BY <1>a, <2>1, <2>2, <2>3, <2>5, <2>6 DEF Shape
<1>3. CASE Queueing \/ Payload \/ Examine
  <2>1. <<>> \in Seq(Kinds)
    BY EmptySeq
  <2>2. queue' \in [Keys -> Seq(Kinds) \cup {None}]
    BY <1>3, <2>1 DEF Shape, Queueing, Payload, Examine
  <2>3. payloads' \subseteq Keys /\ UNCHANGED <<established, halted>>
    BY <1>0, <1>3 DEF Shape, TypeOK, Queueing, Payload, Examine
  <2>4. rpc \notin {"idle", "ending", "ended"} /\ rpc' \notin {"insert", "process", "processed", "ended"}
        /\ rpc' \in RPCs /\ rpc' \notin Handling
    BY <1>3 DEF Queueing, Payload, Examine
  <2>5. UNCHANGED <<ready, live, keyOf, map, key, kind, conn, todo, reading, toClose, closing,
                    ping, callback, received>>
    BY <1>3 DEF Queueing, Payload, Examine
  <2>6. TypeOK'
    BY <1>0, <2>2, <2>3, <2>4, <2>5 DEF TypeOK
  <2> QED BY <2>2, <2>4, <2>5, <2>6 DEF Shape
<1>4. CASE Push \/ CleanQueue
  <2>1. key \in Keys /\ kind \in Kinds
    BY <1>4 DEF Shape, Push, CleanQueue
  <2>2. \A q \in Seq(Kinds) : Append(q, kind) \in Seq(Kinds)
    BY <2>1, AppendProperties
  <2>3. queue' \in [Keys -> Seq(Kinds) \cup {None}]
    BY <1>4, <2>1, <2>2 DEF Shape, Push, CleanQueue
  <2>4. rpc' = "idle" /\ key' = None /\ kind' = None /\ conn' = None
        /\ UNCHANGED <<payloads, established, halted, ready, live, keyOf, map, todo, reading, toClose,
                       closing, ping, callback, received>>
    BY <1>4 DEF Push, CleanQueue
  <2>5. TypeOK'
    BY <1>0, <2>3, <2>4 DEF TypeOK
  <2> QED BY <2>3, <2>4, <2>5 DEF Shape
<1>5. CASE Establish \/ GetPayload \/ Accept \/ Deny \/ CleanEstablished \/ CleanPayload
  <2>1. key \in Keys
    BY <1>5 DEF Shape, Establish, GetPayload, Accept, Deny, CleanEstablished, CleanPayload
  <2>2. payloads' \subseteq Keys /\ established' \subseteq Keys /\ halted' \subseteq Keys
    BY <1>0, <1>5, <2>1 DEF TypeOK, Establish, GetPayload, Accept, Deny, CleanEstablished, CleanPayload
  <2>3. /\ rpc \notin {"idle", "ending", "ended"}
        /\ \/ rpc' = "idle" /\ key' = None /\ kind' = None /\ conn' = None
           \/ /\ rpc' \in {"getPayload", "hooks", "creating", "setup", "cleanEstablished", "cleanPayload",
                            "cleanQueue"}
              /\ UNCHANGED <<key, kind, conn>>
    BY <1>5 DEF Establish, GetPayload, Accept, Deny, CleanEstablished, CleanPayload
  <2>4. UNCHANGED <<queue, ready, live, keyOf, map, todo, reading, toClose, closing,
                    ping, callback, received>>
    BY <1>5 DEF Establish, GetPayload, Accept, Deny, CleanEstablished, CleanPayload
  <2>5. TypeOK'
    BY <1>0, <2>2, <2>3, <2>4 DEF TypeOK
  <2> QED BY <2>3, <2>4, <2>5 DEF Shape
<1>6. CASE ClosedAll \/ Drain \/ Deliver \/ Processed
  <2>1. /\ rpc \notin {"idle", "ending", "ended"}
        /\ rpc = "processed" => todo # <<>>
        /\ key \in Keys /\ kind \in Kinds
        /\ rpc \in {"drain", "deliver", "processed"} => conn \in Made
    BY <1>6 DEF Shape, ClosedAll, Drain, Deliver, Processed
  <2>2. todo' \in Seq(Kinds)
    <3>1. todo # <<>> => Tail(todo) \in Seq(Kinds)
      BY <1>0, HeadTailProperties DEF TypeOK
    <3>2. <<>> \in Seq(Kinds)
      BY EmptySeq
    <3>3. queue[key] # None => queue[key] \in Seq(Kinds)
      BY <2>1 DEF Shape
    <3> QED BY <1>0, <1>6, <2>1, <3>1, <3>2, <3>3 DEF TypeOK, ClosedAll, Drain, Deliver, Processed
  <2>3. queue' \in [Keys -> Seq(Kinds) \cup {None}]
    BY <1>6 DEF Shape, ClosedAll, Drain, Deliver, Processed
  <2>4. \/ rpc' = "idle" /\ key' = None /\ kind' = None /\ conn' = None
        \/ /\ rpc' \in {"deliver", "process"} /\ conn \in Made
           /\ rpc' = "process" => todo' # <<>>
           /\ UNCHANGED <<key, kind, conn>>
    BY <1>6, <2>1 DEF ClosedAll, Drain, Deliver, Processed
  <2>5. reading' \in BOOLEAN
    BY <1>0, <1>6 DEF TypeOK, ClosedAll, Drain, Deliver, Processed
  <2>6. UNCHANGED <<payloads, established, halted, ready, live, keyOf, map, toClose, closing,
                    ping, callback, received>>
    BY <1>6 DEF ClosedAll, Drain, Deliver, Processed
  <2>7. TypeOK'
    BY <1>0, <2>2, <2>3, <2>4, <2>5, <2>6 DEF TypeOK
  <2> QED BY <1>a, <2>1, <2>3, <2>4, <2>6, <2>7 DEF Shape
<1> QED BY <1>1, <1>2, <1>3, <1>4, <1>5, <1>6

\* The steps that set a connection up or close connections.
LEMMA ShapeOfConnections ==
    ASSUME Shape, Removals,
           \/ \E c \in Conns : AddConnection(c)
           \/ Insert \/ Check \/ Process \/ SocketEnds \/ SessionEnds
    PROVE  Shape'
<1>0. TypeOK /\ None \notin Keys /\ None \notin Conns /\ Mapped \subseteq Made /\ Made \subseteq Conns
  BY SessionAssumption, Mapping DEF Shape, Made
<1> USE DEF sessionVars, readerVars, closeVars, otherVars, Idle, Goto, RPCs, Kinds, Handling
<1>1. ASSUME NEW c \in Conns, AddConnection(c) PROVE Shape'
  <2>1. /\ key \in Keys /\ kind \in Kinds /\ keyOf[c] = None
        /\ keyOf' = [keyOf EXCEPT ![c] = key] /\ conn' = c /\ rpc' = "insert"
        /\ live' = live \cup {c}
        /\ UNCHANGED <<queue, payloads, established, halted, ready, map, key, kind, todo, reading, toClose, closing,
                       ping, callback, received>>
    BY <1>1 DEF Shape, AddConnection, Fresh
  <2>2. keyOf' \in [Conns -> Keys \cup {None}] /\ keyOf'[c] = key
        /\ \A d \in Conns : keyOf[d] # None => keyOf'[d] = keyOf[d]
    BY <1>0, <2>1 DEF TypeOK
  <2>3. \A k \in Keys : map[k] # None => keyOf'[map[k]] = k
    BY <1>0, <2>2 DEF TypeOK
  <2>4. TypeOK'
    BY <1>0, <2>1, <2>2, <2>3 DEF TypeOK
  <2> QED BY <1>0, <2>1, <2>2, <2>4 DEF Shape, Made
<1>2. CASE Insert
  <2>1. /\ key \in Keys /\ kind \in Kinds /\ conn \in Made /\ keyOf[conn] = key
        /\ map' = [map EXCEPT ![key] = conn] /\ rpc' = "check"
        /\ UNCHANGED <<queue, payloads, established, halted, ready, live, keyOf, key, kind, conn, todo, reading,
                       toClose, closing, ping, callback, received>>
    BY <1>2 DEF Shape, Insert
  <2>2. map' \in [Keys -> Conns \cup {None}] /\ \A k \in Keys : map'[k] # None => keyOf[map'[k]] = k
    BY <1>0, <2>1 DEF TypeOK
  <2>3. TypeOK'
    BY <1>0, <2>1, <2>2 DEF TypeOK
  <2> QED BY <2>1, <2>3 DEF Shape, Made
<1>3. CASE Check \/ Process
  <2>1. /\ key \in Keys /\ kind \in Kinds /\ conn \in Made
        /\ rpc = "process" => todo # <<>>
        /\ rpc' \in {"drain", "closingAll", "processed"} /\ (rpc' = "processed" => rpc = "process")
        /\ toClose' \in {toClose, [toClose EXCEPT !["reader"] = Mapped], [toClose EXCEPT !["reader"] = {conn}]}
        /\ reading' \in {reading, TRUE}
        /\ UNCHANGED <<queue, payloads, established, halted, ready, live, keyOf, map, key, kind, conn, todo,
                       closing, ping, callback, received>>
    BY <1>3 DEF Shape, Check, Process, CloseMapped
  <2>2. toClose' \in [Closers -> SUBSET Conns]
    <3>1. Mapped \subseteq Conns /\ {conn} \subseteq Conns /\ toClose \in [Closers -> SUBSET Conns]
      BY <1>0, <2>1 DEF TypeOK
    <3> QED BY <2>1, <3>1
  <2>3. reading' \in BOOLEAN
    BY <1>0, <2>1 DEF TypeOK
  <2>4. TypeOK'
    BY <1>0, <2>1, <2>2, <2>3 DEF TypeOK
  <2> QED BY <2>1, <2>4 DEF Shape, Made
<1>4. CASE SocketEnds
  <2>1. /\ rpc' = "ending" /\ toClose' = [toClose EXCEPT !["reader"] = Mapped] /\ reading' = TRUE
        /\ UNCHANGED <<queue, payloads, established, halted, ready, live, keyOf, map, key, kind, conn, todo,
                       closing, ping, callback, received>>
    BY <1>4 DEF SocketEnds, CloseMapped
  <2>2. toClose' \in [Closers -> SUBSET Conns]
    BY <1>0, <2>1 DEF TypeOK
  <2>3. TypeOK'
    BY <1>0, <2>1, <2>2 DEF TypeOK
  <2> QED BY <2>1, <2>3 DEF Shape
<1>5. CASE SessionEnds
  <2>1. /\ rpc' = "ended" /\ reading' = FALSE /\ ping' = "ended" /\ ready' = "closed"
        /\ toClose' = [toClose EXCEPT !["ping"] = {}]
        /\ closing' = [closing EXCEPT !["ping"] = None]
        /\ UNCHANGED <<queue, payloads, established, halted, live, keyOf, map, key, kind, conn, todo,
                       callback, received>>
    BY <1>5 DEF SessionEnds
  <2>2. toClose' \in [Closers -> SUBSET Conns] /\ closing' \in [Closers -> Conns \cup {None}]
    BY <1>0, <2>1 DEF TypeOK
  <2>3. TypeOK'
    BY <1>0, <2>1, <2>2 DEF TypeOK
  <2> QED BY <2>1, <2>3 DEF Shape
<1> QED BY <1>1, <1>2, <1>3, <1>4, <1>5

Stages == {"none", "spawned", "done", "lost"} \cup InProgress

\* The steps of the timeout task, of the closers and of the callbacks.
LEMMA ShapeOfOthers ==
    ASSUME Shape, Removals,
           \/ Timeout \/ TimeoutEnds \/ SinkCloses
           \/ \E a \in Closers : CloserStep(a)
           \/ \E c \in Conns, a \in Closers : CallbackStep(c, a)
    PROVE  Shape'
<1>0. TypeOK /\ None \notin Keys /\ None \notin Conns /\ Mapped \subseteq Made /\ Made \subseteq Conns
  BY SessionAssumption, Mapping DEF Shape, Made
<1> USE DEF sessionVars, readerVars, closeVars, otherVars
<1>1. CASE Timeout \/ TimeoutEnds \/ SinkCloses
  <2>1. /\ toClose' \in {toClose, [toClose EXCEPT !["ping"] = Mapped]}
        /\ ping' \in {ping, "closing", "ended"}
        /\ ready' = ready \/ (ready = "open" /\ ready' = "closing")
        /\ UNCHANGED <<queue, payloads, established, halted, live, keyOf, map, rpc, key, kind, conn, todo,
                       reading, closing, callback, received>>
    BY <1>1 DEF Timeout, TimeoutEnds, SinkCloses, CloseMapped
  <2>2. toClose' \in [Closers -> SUBSET Conns]
    BY <1>0, <2>1 DEF TypeOK
  <2>3. TypeOK'
    BY <1>0, <2>1, <2>2 DEF TypeOK
  <2> QED BY <2>1, <2>3 DEF Shape, Made
<1>2. ASSUME NEW a \in Closers, CloserStep(a) PROVE Shape'
  <2>1. /\ toClose' \in [Closers -> SUBSET Conns]
        /\ closing' \in [Closers -> Conns \cup {None}]
        /\ live' \subseteq Conns
        /\ callback' \in [Conns -> [Closers -> Stages]]
    <3>1. ASSUME NEW c \in Conns, FindOne(a, c)
          PROVE  /\ toClose' \in [Closers -> SUBSET Conns]
                 /\ closing' \in [Closers -> Conns \cup {None}]
                 /\ UNCHANGED <<live, callback>>
      BY <1>0, <3>1 DEF FindOne, TypeOK
    <3>2. CASE RemoveOne(a)
      <4>1. closing[a] \in Conns /\ callback \in [Conns -> [Closers -> Stages]]
        BY <1>0, <3>2 DEF RemoveOne, TypeOK, Stages
      <4>2. callback' \in [Conns -> [Closers -> Stages]]
        BY <3>2, <4>1 DEF RemoveOne, Stages
      <4> QED BY <1>0, <3>2, <4>2 DEF RemoveOne, TypeOK
    <3> QED BY <1>0, <1>2, <3>1, <3>2 DEF CloserStep, TypeOK, Stages
  <2>2. UNCHANGED <<queue, payloads, established, halted, ready, keyOf, map, rpc, key, kind, conn, todo,
                    reading, ping, received>>
    BY <1>2 DEF CloserStep, FindOne, RemoveOne
  <2>3. TypeOK'
    BY <1>0, <2>1, <2>2 DEF TypeOK, Stages
  <2> QED BY <2>2, <2>3 DEF Shape, Made
<1>3. ASSUME NEW c \in Conns, NEW a \in Closers, CallbackStep(c, a) PROVE Shape'
  <2>1. PICK s \in {"waiting", "lost", "payload", "map", "queue", "established", "done"} :
          callback' = [callback EXCEPT ![c][a] = s]
    BY <1>3 DEF CallbackStep, Step, Upgrade, Wait, ForgetPayload, ForgetConnection, ForgetQueue,
                ForgetEstablished
  <2>2. callback' \in [Conns -> [Closers -> Stages]]
    BY <1>0, <2>1 DEF TypeOK, Stages, InProgress
  <2>3. /\ payloads' \subseteq payloads /\ established' \subseteq established /\ halted' \subseteq halted
        /\ map' \in {map, [map EXCEPT ![keyOf[c]] = None]}
        /\ queue' \in {queue, [queue EXCEPT ![keyOf[c]] = None]}
        /\ UNCHANGED <<ready, live, keyOf, rpc, key, kind, conn, todo, reading, toClose, closing,
                       ping, received>>
    BY <1>3 DEF CallbackStep, Step, Upgrade, Wait, ForgetPayload, ForgetConnection, ForgetQueue,
                ForgetEstablished
  <2>4. /\ map' \in [Keys -> Conns \cup {None}]
        /\ \A k \in Keys : map'[k] # None => keyOf[map'[k]] = k
        /\ queue' \in [Keys -> Seq(Kinds) \cup {None}]
    BY <1>0, <2>3 DEF TypeOK, Shape
  <2>5. TypeOK'
    BY <1>0, <2>2, <2>3, <2>4 DEF TypeOK, Stages
  <2> QED BY <2>3, <2>4, <2>5 DEF Shape, Made
<1> QED BY <1>1, <1>2, <1>3

\* Every step keeps the shape.
LEMMA StepShape == ASSUME Shape, Removals, [Next]_vars PROVE Shape'
<1>1. CASE UNCHANGED vars
  BY <1>1 DEF vars, sessionVars, readerVars, closeVars, otherVars, Shape, TypeOK, Made
<1>2. CASE Next
  BY <1>2, ShapeOfReader, ShapeOfConnections, ShapeOfOthers DEF Next, ReaderStep
<1> QED BY <1>1, <1>2
--------------------------------------------------------------------------------
\* Which steps change the history of the connections, and how.
LEMMA Histories ==
    ASSUME Shape, Removals, [Next]_vars
    PROVE  \/ UNCHANGED <<keyOf, callback>>
           \/ \E c \in Conns : AddConnection(c)
           \/ \E a \in Closers : RemoveOne(a)
           \/ \E c \in Conns, a \in Closers : CallbackStep(c, a)
<1>1. CASE UNCHANGED vars
  BY <1>1 DEF vars, closeVars, otherVars
<1>2. CASE \/ \E m \in Kinds, k \in Keys : Receive(m, k)
           \/ Lookup \/ Queueing \/ Payload \/ Examine \/ Push \/ Establish \/ GetPayload
           \/ Accept \/ Deny \/ CleanEstablished \/ CleanPayload \/ CleanQueue
  BY <1>2 DEF Receive, Lookup, Queueing, Payload, Examine, Push, Establish, GetPayload, Accept, Deny,
              CleanEstablished, CleanPayload, CleanQueue, closeVars, otherVars
<1>3. CASE \/ Insert \/ Check \/ ClosedAll \/ Drain \/ Deliver \/ Process \/ Processed
           \/ SocketEnds \/ SessionEnds \/ Timeout \/ TimeoutEnds \/ SinkCloses
           \/ \E c \in Conns, a \in Closers : FindOne(a, c)
  BY <1>3 DEF Insert, Check, ClosedAll, Drain, Deliver, Process, Processed, SocketEnds, SessionEnds,
              Timeout, TimeoutEnds, SinkCloses, FindOne, closeVars, otherVars
<1> QED BY <1>1, <1>2, <1>3 DEF Next, ReaderStep, CloserStep

Later == {"waiting", "lost", "payload", "map", "queue", "established", "done"}

\* A step of a callback.
LEMMA CallbackIs ==
    ASSUME Shape, NEW c \in Conns, NEW a \in Closers, CallbackStep(c, a)
    PROVE  /\ UNCHANGED <<keyOf, live, toClose, closing, rpc, key, conn, ready>>
           /\ \A d \in Conns, b \in Closers :
                 ~ (d = c /\ b = a) => callback'[d][b] = callback[d][b]
           /\ callback[c][a] \notin {"none", "done", "lost"}
           /\ callback'[c][a] \in Later
           /\ callback[c][a] \in {"queue", "established"} => callback'[c][a] \in {"established", "done"}
           /\ callback'[c][a] \in {"done", "lost"} => callback[c][a] = "established" \/ rpc = "ended"
<1>0. callback \in [Conns -> [Closers -> Stages]]
  BY DEF Shape, TypeOK, Stages
<1>1. PICK s, t :
        /\ callback[c][a] = s /\ callback' = [callback EXCEPT ![c][a] = t]
        /\ <<s, t>> \in {<<"spawned", "waiting">>, <<"spawned", "lost">>, <<"waiting", "payload">>,
                         <<"payload", "map">>, <<"map", "queue">>, <<"queue", "established">>,
                         <<"established", "done">>}
        /\ t = "lost" => rpc = "ended"
  BY DEF CallbackStep, Step, Upgrade, Alive, Wait, ForgetPayload, ForgetConnection, ForgetQueue,
         ForgetEstablished
<1>2. callback'[c][a] = t /\ \A d \in Conns, b \in Closers :
        ~ (d = c /\ b = a) => callback'[d][b] = callback[d][b]
  BY <1>0, <1>1
<1>3. UNCHANGED <<keyOf, live, toClose, closing, rpc, key, conn, ready>>
  BY DEF CallbackStep, Step, Upgrade, Wait, ForgetPayload, ForgetConnection, ForgetQueue,
         ForgetEstablished, readerVars, otherVars
<1> QED BY <1>1, <1>2, <1>3 DEF Later

\* What was, is: a key is given once, and a callback only goes forward.
LEMMA Forward ==
    ASSUME Shape, Removals, [Next]_vars
    PROVE  /\ \A c \in Made : c \in Made' /\ keyOf'[c] = keyOf[c] /\ keyOf[c] \in Keys
           /\ \A c \in Conns : Over(c) => Over(c)'
           /\ \A c \in Conns : Past(c) => Past(c)'
           /\ \A k \in Keys : ClosedTwice(k) => ClosedTwice(k)'
<1>0. /\ callback \in [Conns -> [Closers -> Stages]] /\ None \notin Keys
      /\ keyOf \in [Conns -> Keys \cup {None}]
  BY SessionAssumption DEF Shape, TypeOK, Stages
<1>1. \A c \in Made : c \in Made' /\ keyOf'[c] = keyOf[c] /\ keyOf[c] \in Keys
  <2>1. keyOf' = keyOf \/ \E c \in Conns : keyOf[c] = None /\ key \in Keys /\ keyOf' = [keyOf EXCEPT ![c] = key]
    BY Histories, CallbackIs DEF AddConnection, Fresh, RemoveOne, otherVars, Shape
  <2> QED BY <1>0, <2>1 DEF Made
<1>2. ASSUME NEW c \in Conns, NEW a \in Closers, callback'[c][a] # callback[c][a]
      PROVE  /\ callback'[c][a] # "none" /\ callback[c][a] \notin {"done", "lost"}
             /\ callback[c][a] \in {"queue", "established"} => callback'[c][a] \in {"established", "done"}
  <2>1. CASE \E b \in Closers : RemoveOne(b)
    <3>1. PICK b \in Closers : RemoveOne(b)
      BY <2>1
    <3>2. closing[b] \in Conns /\ callback[closing[b]][b] = "none"
      BY <3>1 DEF RemoveOne, Removals, Made
    <3>3. callback' = [callback EXCEPT ![closing[b]][b] = "spawned"]
      BY <3>1 DEF RemoveOne
    <3>4. closing[b] = c /\ b = a /\ callback'[c][a] = "spawned"
      BY <1>0, <1>2, <3>2, <3>3
    <3> QED BY <3>2, <3>4
  <2>2. CASE \E d \in Conns, b \in Closers : CallbackStep(d, b)
    <3>1. PICK d \in Conns, b \in Closers : CallbackStep(d, b)
      BY <2>2
    <3>2. d = c /\ b = a
      BY <1>2, <3>1, CallbackIs
    <3> QED BY <3>1, <3>2, CallbackIs DEF Later
  <2>3. CASE UNCHANGED <<keyOf, callback>> \/ \E d \in Conns : AddConnection(d)
    BY <1>2, <2>3 DEF AddConnection
  <2> QED BY <2>1, <2>2, <2>3, Histories
<1>3. \A c \in Conns : Over(c) => Over(c)'
  BY <1>2 DEF Over
<1>4. \A c \in Conns : Past(c) => Past(c)'
  BY <1>2 DEF Past
<1>5. ASSUME NEW k \in Keys, ClosedTwice(k) PROVE ClosedTwice(k)'
  <2>1. PICK c \in Conns : keyOf[c] = k /\ \A a \in Closers : callback[c][a] # "none"
    BY <1>5 DEF ClosedTwice
  <2>2. keyOf'[c] = k
    BY <1>0, <1>1, <2>1 DEF Made
  <2> QED BY <1>2, <2>1, <2>2 DEF ClosedTwice
<1> QED BY <1>1, <1>3, <1>4, <1>5

\* Only what was set up is removed and forgotten.
LEMMA StepRemovals == ASSUME Shape, Removals, [Next]_vars PROVE Removals'
<1>0. /\ TypeOK /\ None \notin Conns /\ None \notin Keys /\ Mapped \subseteq Made
      /\ callback \in [Conns -> [Closers -> Stages]] /\ Made \subseteq Conns
      /\ keyOf \in [Conns -> Keys \cup {None}]
      /\ toClose \in [Closers -> SUBSET Conns] /\ closing \in [Closers -> Conns \cup {None}]
  BY SessionAssumption, Mapping DEF Shape, TypeOK, Stages, Made
<1>1. \A c \in Made : c \in Made' /\ keyOf'[c] = keyOf[c]
  BY Forward
<1>2. ASSUME NEW c \in Conns, AddConnection(c) PROVE Removals'
  <2>1. key \in Keys /\ keyOf' = [keyOf EXCEPT ![c] = key] /\ live' = live \cup {c} /\ keyOf[c] = None
        /\ UNCHANGED <<callback, toClose, closing>>
    BY <1>2 DEF AddConnection, Fresh, Shape
  <2>2. c \in Made' /\ c \notin Made
    BY <1>0, <2>1 DEF Made
  <2> QED BY <1>0, <1>1, <2>1, <2>2 DEF Removals
<1>3. ASSUME NEW a \in Closers, RemoveOne(a) PROVE Removals'
  <2>1. /\ live' = live \ {closing[a]} /\ closing' = [closing EXCEPT ![a] = None]
        /\ callback' = [callback EXCEPT ![closing[a]][a] = "spawned"]
        /\ UNCHANGED <<keyOf, toClose>> /\ closing[a] \in Made
    BY <1>3 DEF RemoveOne, otherVars, Removals
  <2>2. \A c \in Conns, b \in Closers :
          callback'[c][b] = IF c = closing[a] /\ b = a THEN "spawned" ELSE callback[c][b]
    BY <1>0, <2>1
  <2>3. \A b \in Closers : b # a => closing'[b] = closing[b]
    BY <1>0, <2>1
  <2>4. closing'[a] = None
    BY <1>0, <2>1
  <2> QED BY <1>0, <1>1, <2>1, <2>2, <2>3, <2>4 DEF Removals
<1>4. ASSUME NEW c \in Conns, NEW a \in Closers, FindOne(a, c) PROVE Removals'
  <2>1. /\ toClose' = [toClose EXCEPT ![a] = @ \ {c}]
        /\ closing' = IF c \in live THEN [closing EXCEPT ![a] = c] ELSE closing
        /\ UNCHANGED <<live, callback, keyOf>>
    BY <1>4 DEF FindOne, otherVars
  <2>2. \A b \in Closers : toClose'[b] \subseteq toClose[b]
    BY <1>0, <2>1
  <2>3. \A b \in Closers : closing'[b] = closing[b] \/ (closing'[b] = c /\ c \in live)
    BY <1>0, <2>1
  <2> QED BY <1>0, <1>1, <2>1, <2>2, <2>3 DEF Removals
<1>5. ASSUME NEW c \in Conns, NEW a \in Closers, CallbackStep(c, a) PROVE Removals'
  <2>1. /\ UNCHANGED <<keyOf, live, toClose, closing>> /\ callback[c][a] # "none"
        /\ \A d \in Conns, b \in Closers :
              ~ (d = c /\ b = a) => callback'[d][b] = callback[d][b]
    BY <1>5, CallbackIs
  <2>2. c \in Made /\ c \notin live
    BY <2>1 DEF Removals
  <2> QED BY <1>0, <1>1, <2>1, <2>2 DEF Removals, Made
<1>6. ASSUME UNCHANGED <<live, keyOf, callback>>,
             \A b \in Closers : toClose'[b] \subseteq Made,
             \A b \in Closers : closing'[b] \in {closing[b], None}
      PROVE  Removals'
  <2>1. Made' = Made
    BY <1>6 DEF Made
  <2>2. \A b \in Closers : closing'[b] # None => closing'[b] = closing[b]
    BY <1>6
  <2> QED BY <1>6, <2>1, <2>2 DEF Removals
<1>7. CASE UNCHANGED vars
  BY <1>6, <1>7 DEF vars, closeVars, otherVars, Removals
<1>8. CASE \/ \E m \in Kinds, k \in Keys : Receive(m, k)
           \/ Lookup \/ Queueing \/ Payload \/ Examine \/ Push \/ Establish \/ GetPayload
           \/ Accept \/ Deny \/ CleanEstablished \/ CleanPayload \/ CleanQueue
           \/ Insert \/ ClosedAll \/ Drain \/ Deliver \/ Processed \/ TimeoutEnds \/ SinkCloses
  <2>1. UNCHANGED <<live, keyOf, callback, toClose, closing>>
    BY <1>8 DEF Receive, Lookup, Queueing, Payload, Examine, Push, Establish, GetPayload, Accept, Deny,
                CleanEstablished, CleanPayload, CleanQueue, Insert, ClosedAll, Drain, Deliver, Processed,
                TimeoutEnds, SinkCloses, closeVars, otherVars
  <2> QED BY <1>6, <2>1 DEF Removals
<1>9. CASE Check \/ Process \/ SocketEnds \/ SessionEnds \/ Timeout
  <2>1. /\ UNCHANGED <<live, keyOf, callback>>
        /\ \/ toClose' = toClose
           \/ \E b \in Closers : toClose' = [toClose EXCEPT ![b] = Mapped]
           \/ conn \in Made /\ toClose' = [toClose EXCEPT !["reader"] = {conn}]
           \/ toClose' = [toClose EXCEPT !["ping"] = {}]
        /\ closing' = closing \/ closing' = [closing EXCEPT !["ping"] = None]
    BY <1>9 DEF Check, Process, SocketEnds, SessionEnds, Timeout, CloseMapped, Closers, otherVars, Shape,
                Handling
  <2>2. {conn} \subseteq Made \/ conn \notin Made
    OBVIOUS
  <2>3. \A b \in Closers : toClose[b] \subseteq Made
    BY DEF Removals
  <2>4. \A b \in Closers : toClose'[b] \subseteq Made
    BY <1>0, <2>1, <2>2, <2>3
  <2>5. \A b \in Closers : closing'[b] \in {closing[b], None}
    BY <1>0, <2>1
  <2> QED BY <1>6, <2>1, <2>4, <2>5
<1> QED BY <1>2, <1>3, <1>4, <1>5, <1>7, <1>8, <1>9 DEF Next, ReaderStep, CloserStep
--------------------------------------------------------------------------------
\* A connection with two callbacks was closed twice.
LEMMA Twice ==
    ASSUME Shape, NEW c \in Conns, NEW a \in Closers, callback[c][a] # "none",
           \/ callback[c][a] = "established" /\ Over(c)
           \/ callback[c][a] \in {"spawned", "waiting", "payload", "map"} /\ Past(c)
    PROVE  ClosedTwice(keyOf[c])
<1>1. PICK b \in Closers : b # a /\ callback[c][b] # "none"
  BY DEF Over, Past
<1>2. \A d \in Closers : callback[c][d] # "none"
  BY <1>1 DEF Closers
<1> QED BY <1>2 DEF ClosedTwice

\* How a key is claimed and released.
LEMMA Claims ==
    ASSUME Shape, Removals, [Next]_vars
    PROVE  /\ \/ established' = established
              \/ Establish \/ CleanEstablished
              \/ \E c \in Conns, a \in Closers : ForgetEstablished(c, a)
           /\ \/ halted' = halted \/ Establish
              \/ \E c \in Conns, a \in Closers : ForgetEstablished(c, a)
           /\ rpc' \in Claiming => key' = key /\ (rpc \in Claiming \/ Examine)
           /\ rpc' \in Entering => rpc \in Entering \/ Establish
<1> USE DEF Claiming, Entering
<1>1. CASE UNCHANGED vars
  BY <1>1 DEF vars, sessionVars, readerVars
<1>2. CASE Establish \/ CleanEstablished \/ Examine
  BY <1>2 DEF Establish, CleanEstablished, Examine, sessionVars, Idle, Goto
<1>3. CASE \/ \E m \in Kinds, k \in Keys : Receive(m, k)
           \/ Lookup \/ Queueing \/ Payload \/ Push \/ GetPayload
           \/ Accept \/ Deny \/ CleanPayload \/ CleanQueue
  BY <1>3 DEF Receive, Lookup, Queueing, Payload, Push, GetPayload, Accept, Deny,
              CleanPayload, CleanQueue, sessionVars, Idle, Goto
<1>4. CASE \/ \E c \in Conns : AddConnection(c)
           \/ Insert \/ Check \/ ClosedAll \/ Drain \/ Deliver \/ Process \/ Processed
           \/ SocketEnds \/ SessionEnds
  BY <1>4 DEF AddConnection, Insert, Check, ClosedAll, Drain, Deliver, Process, Processed, SocketEnds,
              SessionEnds, sessionVars, Idle, Goto
<1>5. CASE \/ Timeout \/ TimeoutEnds \/ SinkCloses
           \/ \E a \in Closers : CloserStep(a)
           \/ \E c \in Conns, a \in Closers : CallbackStep(c, a)
  BY <1>5 DEF Timeout, TimeoutEnds, SinkCloses, CloserStep, FindOne, RemoveOne, CallbackStep, Step,
              Upgrade, Wait, ForgetPayload, ForgetConnection, ForgetQueue, ForgetEstablished,
              sessionVars, readerVars
<1> QED BY <1>1, <1>2, <1>3, <1>4, <1>5 DEF Next, ReaderStep

\* What a step sets up.
LEMMA Setup ==
    ASSUME Shape, Removals, [Next]_vars, NEW c \in Made', c \notin Made
    PROVE  AddConnection(c) /\ c \in Conns /\ keyOf'[c] = key /\ key \in Keys
<1>1. c \in Conns
  BY DEF Made
<1>2. PICK d \in Conns : AddConnection(d)
  BY <1>1, Histories, CallbackIs DEF Made, RemoveOne, otherVars
<1>3. keyOf' = [keyOf EXCEPT ![d] = key] /\ key \in Keys /\ keyOf \in [Conns -> Keys \cup {None}]
  BY <1>2 DEF AddConnection, Shape, TypeOK
<1>4. d = c
  BY <1>1, <1>3 DEF Made
<1> QED BY <1>1, <1>2, <1>3, <1>4

\* A key is established until its connection is forgotten, and has one
\* connection at a time.
LEMMA StepOneAtATime ==
    ASSUME Shape, Removals, OneAtATime, [Next]_vars PROVE OneAtATime'
<1>0. \A c \in Made : /\ c \in Made' /\ c \in Conns /\ keyOf'[c] = keyOf[c] /\ keyOf[c] \in Keys
                      /\ Over(c) => Over(c)'
  BY Forward DEF Made
<1>1. \A k \in Keys : ClosedTwice(k) => ClosedTwice(k)'
  BY Forward
<1>2. ASSUME NEW c \in Made' PROVE (keyOf[c] \in established \/ Over(c) \/ ClosedTwice(keyOf[c]))'
  <2>1. CASE c \notin Made
    <3>1. AddConnection(c) /\ keyOf'[c] = key /\ key \in Keys
      BY <2>1, Setup
    <3>2. key \in established \/ ClosedTwice(key)
      BY <3>1 DEF AddConnection, OneAtATime, Entering
    <3>3. established' = established
      BY <3>1 DEF AddConnection, sessionVars
    <3> QED BY <1>1, <3>1, <3>2, <3>3
  <2>2. CASE c \in Made
    <3>1. keyOf[c] \in established \/ Over(c) \/ ClosedTwice(keyOf[c])
      BY <2>2 DEF OneAtATime
    <3>2. SUFFICES ASSUME keyOf[c] \in established PROVE keyOf[c] \in established' \/ Over(c)' \/ ClosedTwice(keyOf[c])'
      BY <1>0, <1>1, <2>2, <3>1
    <3>3. CASE established' = established \/ Establish
      BY <3>2, <3>3 DEF Establish
    <3>4. CASE CleanEstablished
      BY <1>0, <1>1, <2>2, <3>2, <3>4 DEF CleanEstablished, OneAtATime, Claiming
    <3>5. ASSUME NEW d \in Conns, NEW a \in Closers, ForgetEstablished(d, a)
          PROVE  keyOf[c] \in established' \/ Over(c)' \/ ClosedTwice(keyOf[c])'
      <4>1. established' = established \ {keyOf[d]} /\ callback[d][a] = "established"
            /\ callback' = [callback EXCEPT ![d][a] = "done"]
        BY <3>5 DEF ForgetEstablished, Step
      <4>2. d \in Made
        BY <4>1 DEF Removals
      <4>3. SUFFICES ASSUME keyOf[c] = keyOf[d] PROVE Over(c)' \/ ClosedTwice(keyOf[c])'
        BY <3>2, <4>1
      <4>4. callback \in [Conns -> [Closers -> Stages]]
        BY DEF Shape, TypeOK, Stages
      <4>5. Over(d)'
        BY <4>1, <4>4 DEF Over
      <4>6. Over(d) => ClosedTwice(keyOf[d])
        BY <4>1, Twice
      <4> QED BY <1>0, <1>1, <2>2, <4>2, <4>3, <4>5, <4>6 DEF OneAtATime
    <3> QED BY <3>3, <3>4, <3>5, Claims
  <2> QED BY <2>1, <2>2
<1>3. ASSUME NEW c \in Made', NEW d \in Made', keyOf'[c] = keyOf'[d]
      PROVE  c = d \/ Over(c)' \/ Over(d)' \/ ClosedTwice(keyOf[c])'
  <2>1. CASE c \in Made /\ d \in Made
    BY <1>0, <1>1, <1>3, <2>1 DEF OneAtATime
  <2>2. ASSUME NEW x \in Made', NEW y \in Made', keyOf'[x] = keyOf'[y], x \notin Made
        PROVE  x = y \/ Over(y)' \/ ClosedTwice(keyOf[x])'
    <3>1. AddConnection(x) /\ keyOf'[x] = key /\ key \in Keys
      BY <2>2, Setup
    <3>2. CASE y \in Made
      BY <1>0, <1>1, <2>2, <3>1, <3>2 DEF AddConnection, OneAtATime, Claiming, Entering
    <3>3. CASE y \notin Made
      <4>1. AddConnection(y)
        BY <3>3, Setup
      <4>2. conn' = x /\ conn' = y
        BY <3>1, <4>1 DEF AddConnection
      <4> QED BY <4>2
    <3> QED BY <3>2, <3>3
  <2> QED BY <1>3, <2>1, <2>2
<1>4. ASSUME rpc' \in Claiming, NEW c \in Made', keyOf'[c] = key'
      PROVE  Over(c)' \/ ClosedTwice(key)'
  <2>1. key' = key /\ (rpc \in Claiming \/ Examine)
    BY <1>4, Claims
  <2>2. c \in Made
    <3>1. ~ AddConnection(c)
      BY <1>4 DEF AddConnection, Claiming, Entering
    <3> QED BY <1>4, <3>1, Setup
  <2>3. CASE rpc \in Claiming
    BY <1>0, <1>1, <1>4, <2>1, <2>2, <2>3 DEF OneAtATime
  <2>4. CASE Examine
    <3>1. key \notin established
      BY <1>4, <2>4 DEF Examine, Claiming, Entering
    <3> QED BY <1>0, <1>1, <1>4, <2>1, <2>2, <3>1 DEF OneAtATime
  <2> QED BY <2>1, <2>3, <2>4
<1>5. ASSUME rpc' \in Entering PROVE key' \in established' \/ ClosedTwice(key)'
  <2>1. key' = key /\ key \in Keys
    <3>1. rpc' \in Claiming /\ rpc' \notin {"idle", "ending", "ended"}
      BY <1>5 DEF Claiming, Entering
    <3> QED BY <3>1, StepShape, Claims DEF Shape
  <2>2. CASE Establish
    BY <2>1, <2>2 DEF Establish
  <2>3. CASE rpc \in Entering
    <3>1. key \in established \/ ClosedTwice(key)
      BY <2>3 DEF OneAtATime
    <3>2. SUFFICES ASSUME key \in established PROVE key \in established' \/ ClosedTwice(key)'
      BY <1>1, <2>1, <3>1
    <3>3. ~ CleanEstablished
      BY <2>3 DEF CleanEstablished, Entering
    <3>4. ASSUME NEW d \in Conns, NEW a \in Closers, ForgetEstablished(d, a)
          PROVE  key \in established' \/ ClosedTwice(key)'
      <4>1. established' = established \ {keyOf[d]} /\ callback[d][a] = "established"
        BY <3>4 DEF ForgetEstablished, Step
      <4>2. d \in Made
        BY <4>1 DEF Removals
      <4>3. Over(d) => ClosedTwice(keyOf[d])
        BY <4>1, Twice
      <4>4. keyOf[d] = key => ClosedTwice(key)
        BY <2>3, <4>2, <4>3 DEF OneAtATime, Claiming
      <4> QED BY <1>1, <2>1, <3>2, <4>1, <4>4
    <3> QED BY <3>2, <3>3, <3>4, <2>2, <2>1, Claims
  <2> QED BY <1>5, <2>2, <2>3, Claims
<1> QED BY <1>2, <1>3, <1>4, <1>5 DEF OneAtATime
--------------------------------------------------------------------------------
Queueings == {"queueing", "payload", "examine", "push"}

\* How document_connections changes, and where it is looked at.
LEMMA Maps ==
    ASSUME Shape, Removals, [Next]_vars
    PROVE  /\ map' = map \/ Insert \/ \E c \in Conns, a \in Closers : ForgetConnection(c, a)
           /\ rpc = "insert" => Insert \/ (rpc' = "insert" /\ UNCHANGED <<key, conn>>)
           /\ rpc' = "insert" => rpc = "insert" \/ \E c \in Conns : AddConnection(c)
           /\ rpc' \in Queueings =>
                 key' = key /\ (rpc \in Queueings \/ (Lookup /\ map[key] = None))
<1> USE DEF Queueings
<1>1. CASE UNCHANGED vars
  BY <1>1 DEF vars, readerVars
<1>2. CASE Lookup \/ Insert \/ \E c \in Conns : AddConnection(c)
  BY <1>2 DEF Lookup, Insert, AddConnection
<1>3. CASE \/ \E m \in Kinds, k \in Keys : Receive(m, k)
           \/ Queueing \/ Payload \/ Examine \/ Push \/ Establish \/ GetPayload
           \/ Accept \/ Deny \/ CleanEstablished \/ CleanPayload \/ CleanQueue
  BY <1>3 DEF Receive, Queueing, Payload, Examine, Push, Establish, GetPayload, Accept, Deny,
              CleanEstablished, CleanPayload, CleanQueue, Idle, Goto
<1>4. CASE \/ Check \/ ClosedAll \/ Drain \/ Deliver \/ Process \/ Processed
           \/ SocketEnds \/ SessionEnds
  BY <1>4 DEF Check, ClosedAll, Drain, Deliver, Process, Processed, SocketEnds, SessionEnds, Idle, Goto
<1>5. CASE \/ Timeout \/ TimeoutEnds \/ SinkCloses
           \/ \E a \in Closers : CloserStep(a)
           \/ \E c \in Conns, a \in Closers : CallbackStep(c, a)
  BY <1>5 DEF Timeout, TimeoutEnds, SinkCloses, CloserStep, FindOne, RemoveOne, CallbackStep, Step,
              Upgrade, Wait, ForgetPayload, ForgetConnection, ForgetQueue, ForgetEstablished, readerVars
<1> QED BY <1>1, <1>2, <1>3, <1>4, <1>5 DEF Next, ReaderStep

\* A connection that is forgotten was Over or is Past.
LEMMA OverIsPast == \A c : Over(c) => Past(c)
BY DEF Over, Past

\* A connection stays in the map until its own callback takes it out.
LEMMA StepTracked ==
    ASSUME Shape, Removals, OneAtATime, Tracked, [Next]_vars PROVE Tracked'
<1>0. \A c \in Made : /\ c \in Made' /\ c \in Conns /\ keyOf'[c] = keyOf[c] /\ keyOf[c] \in Keys
                      /\ Past(c) => Past(c)'
  BY Forward DEF Made
<1>1. \A k \in Keys : ClosedTwice(k) => ClosedTwice(k)'
  BY Forward
<1>2. map \in [Keys -> Conns \cup {None}] /\ None \notin Conns
      /\ callback \in [Conns -> [Closers -> Stages]]
  BY SessionAssumption DEF Shape, TypeOK, Stages
<1>3. ASSUME NEW c \in Made'
      PROVE  \/ map'[keyOf'[c]] = c \/ Past(c)' \/ ClosedTwice(keyOf[c])'
             \/ rpc' = "insert" /\ conn' = c
  <2>1. CASE c \notin Made
    BY <2>1, Setup DEF AddConnection
  <2>2. CASE c \in Made /\ rpc = "insert" /\ conn = c
    <3>1. CASE Insert
      <4>1. map' = [map EXCEPT ![key] = conn] /\ keyOf[c] = key
        BY <2>2, <3>1 DEF Insert, Shape
      <4> QED BY <1>0, <1>2, <2>2, <4>1
    <3> QED BY <2>2, <3>1, Maps
  <2>3. CASE c \in Made /\ (Past(c) \/ ClosedTwice(keyOf[c]))
    BY <1>0, <1>1, <2>3
  <2>4. CASE c \in Made /\ map[keyOf[c]] = c
    <3>1. CASE map' = map
      BY <1>0, <2>4, <3>1
    <3>2. CASE Insert
      <4>1. map' = [map EXCEPT ![key] = conn] /\ rpc = "insert"
        BY <3>2 DEF Insert
      <4>2. keyOf[c] = key => c = conn \/ Past(c) \/ ClosedTwice(key)
        BY <2>4, <4>1 DEF Tracked
      <4> QED BY <1>0, <1>1, <1>2, <2>4, <4>1, <4>2
    <3>3. ASSUME NEW d \in Conns, NEW a \in Closers, ForgetConnection(d, a)
          PROVE  map'[keyOf'[c]] = c \/ Past(c)' \/ ClosedTwice(keyOf[c])'
      <4>1. map' = [map EXCEPT ![keyOf[d]] = None] /\ callback[d][a] = "map"
            /\ callback' = [callback EXCEPT ![d][a] = "queue"]
        BY <3>3 DEF ForgetConnection, Step
      <4>2. d \in Made /\ Past(d)'
        BY <1>2, <4>1 DEF Removals, Past
      <4>3. Past(d) => ClosedTwice(keyOf[d])
        BY <4>1, Twice
      <4>4. keyOf[c] = keyOf[d] => c = d \/ Past(c) \/ ClosedTwice(keyOf[c])
        BY <2>4, <4>2, <4>3, OverIsPast DEF OneAtATime
      <4> QED BY <1>0, <1>1, <1>2, <2>4, <4>1, <4>2, <4>4
    <3> QED BY <3>1, <3>2, <3>3, Maps
  <2> QED BY <2>1, <2>2, <2>3, <2>4 DEF Tracked
<1>4. ASSUME rpc' \in Queueings, NEW c \in Made', keyOf'[c] = key'
      PROVE  Past(c)' \/ ClosedTwice(key)'
  <2>1. key' = key /\ (rpc \in Queueings \/ (Lookup /\ map[key] = None))
    BY <1>4, Maps
  <2>2. c \in Made
    <3>1. ~ AddConnection(c)
      BY <1>4 DEF AddConnection, Queueings
    <3> QED BY <1>4, <3>1, Setup
  <2>3. CASE rpc \in Queueings
    BY <1>0, <1>1, <1>4, <2>1, <2>2, <2>3 DEF Tracked, Queueings
  <2>4. CASE Lookup /\ map[key] = None
    <3>1. rpc # "insert" /\ map[keyOf[c]] # c
      BY <1>0, <1>2, <1>4, <2>1, <2>2, <2>4 DEF Lookup
    <3> QED BY <1>0, <1>1, <1>4, <2>1, <2>2, <3>1 DEF Tracked
  <2> QED BY <2>1, <2>3, <2>4
<1>5. ASSUME rpc' = "insert", NEW c \in Made', keyOf'[c] = key'
      PROVE  c = conn' \/ Past(c)' \/ ClosedTwice(key)'
  <2>1. CASE \E d \in Conns : AddConnection(d)
    <3>1. PICK d \in Conns : AddConnection(d)
      BY <2>1
    <3>2. key' = key /\ conn' = d /\ rpc = "creating"
      BY <3>1 DEF AddConnection
    <3>3. CASE c \notin Made
      BY <3>3, Setup DEF AddConnection
    <3>4. CASE c \in Made
      BY <1>0, <1>1, <1>5, <3>2, <3>4, OverIsPast DEF OneAtATime, Claiming, Entering
    <3> QED BY <3>3, <3>4
  <2>2. CASE rpc = "insert" /\ ~ \E d \in Conns : AddConnection(d)
    <3>1. UNCHANGED <<key, conn>>
      BY <1>5, <2>2, Maps DEF Insert
    <3>2. c \in Made
      BY <2>2, Setup
    <3> QED BY <1>0, <1>1, <1>5, <2>2, <3>1, <3>2 DEF Tracked
  <2> QED BY <1>5, <2>1, <2>2, Maps
<1> QED BY <1>3, <1>4, <1>5 DEF Tracked, Queueings
--------------------------------------------------------------------------------
Connecting == {"insert", "check", "drain"}
Paying == {"examine", "push", "establish", "getPayload", "setup"}

\* How the queues and payloads change, and where the reader goes meanwhile.
LEMMA Queues ==
    ASSUME Shape, Removals, [Next]_vars
    PROVE  /\ \/ queue' = queue \/ Queueing \/ Push \/ CleanQueue \/ Drain
              \/ \E c \in Conns, a \in Closers : ForgetQueue(c, a)
           /\ \/ payloads' = payloads \/ Payload \/ Accept \/ CleanPayload
              \/ \E c \in Conns, a \in Closers : ForgetPayload(c, a)
           /\ rpc \in Connecting =>
                 Drain \/ (Check /\ ready # "open") \/ (rpc' \in Connecting /\ key' = key)
           /\ rpc = "payload" => Payload \/ (rpc' = "payload" /\ key' = key)
           /\ rpc = "cleanQueue" => CleanQueue \/ (rpc' = "cleanQueue" /\ key' = key)
           /\ rpc' \in Paying => key' = key /\ (rpc \in Paying \/ Payload \/ Accept \/ Queueing)
           /\ ready # "open" => ready' # "open"
<1> USE DEF Connecting, Paying
<1>1. CASE UNCHANGED vars
  BY <1>1 DEF vars, sessionVars, readerVars, otherVars
<1>2. CASE Queueing \/ Payload \/ Push \/ Accept \/ CleanPayload \/ CleanQueue \/ Drain
  BY <1>2 DEF Queueing, Payload, Push, Accept, CleanPayload, CleanQueue, Drain, otherVars, Idle
<1>3. CASE \/ \E m \in Kinds, k \in Keys : Receive(m, k)
           \/ Lookup \/ Examine \/ Establish \/ GetPayload \/ Deny \/ CleanEstablished
  BY <1>3 DEF Receive, Lookup, Examine, Establish, GetPayload, Deny, CleanEstablished, sessionVars,
              otherVars, Idle, Goto
<1>4. CASE \/ \E c \in Conns : AddConnection(c)
           \/ Insert \/ Check \/ ClosedAll \/ Deliver \/ Process \/ Processed
           \/ SocketEnds \/ SessionEnds
  BY <1>4 DEF AddConnection, Insert, Check, ClosedAll, Deliver, Process, Processed, SocketEnds,
              SessionEnds, sessionVars, otherVars, Idle, Goto
<1>5. CASE \/ Timeout \/ TimeoutEnds \/ SinkCloses
           \/ \E a \in Closers : CloserStep(a)
  BY <1>5 DEF Timeout, TimeoutEnds, SinkCloses, CloserStep, FindOne, RemoveOne,
              sessionVars, readerVars, otherVars
<1>6. CASE \E c \in Conns, a \in Closers : CallbackStep(c, a)
  <2>1. PICK c \in Conns, a \in Closers : CallbackStep(c, a)
    BY <1>6
  <2>2. UNCHANGED <<rpc, key, ready>>
    BY <2>1, CallbackIs
  <2>3. queue' = queue \/ ForgetQueue(c, a)
    BY <2>1 DEF CallbackStep, Upgrade, Wait, ForgetPayload, ForgetConnection, ForgetEstablished, sessionVars
  <2>4. payloads' = payloads \/ ForgetPayload(c, a)
    BY <2>1 DEF CallbackStep, Upgrade, Wait, ForgetQueue, ForgetConnection, ForgetEstablished, sessionVars
  <2> QED BY <2>2, <2>3, <2>4
<1> QED BY <1>1, <1>2, <1>3, <1>4, <1>5, <1>6 DEF Next, ReaderStep

\* A queue is begun by the reader alone, and emptied by the setup.
LEMMA Begun ==
    ASSUME Shape, Removals, [Next]_vars
    PROVE  /\ \A k \in Keys : queue'[k] # None => queue[k] # None \/ (Queueing /\ k = key)
           /\ CleanQueue \/ Drain => queue'[key] = None
<1>0. queue \in [Keys -> Seq(Kinds) \cup {None}]
  BY DEF Shape
<1>1. ASSUME NEW k \in Keys, queue'[k] # None PROVE queue[k] # None \/ (Queueing /\ k = key)
  <2>1. CASE queue' = queue
    BY <1>1, <2>1
  <2>2. CASE Queueing
    BY <1>0, <1>1, <2>2 DEF Queueing
  <2>3. CASE Push \/ CleanQueue \/ Drain
    BY <1>0, <1>1, <2>3 DEF Push, CleanQueue, Drain
  <2>4. ASSUME NEW c \in Conns, NEW a \in Closers, ForgetQueue(c, a) PROVE queue[k] # None
    BY <1>0, <1>1, <2>4 DEF ForgetQueue
  <2> QED BY <2>1, <2>2, <2>3, <2>4, Queues
<1>2. CleanQueue \/ Drain => queue'[key] = None
  BY <1>0 DEF CleanQueue, Drain, Shape
<1> QED BY <1>1, <1>2

\* The setup of a key finds its payload, unless the websocket is closing or the
\* key was closed twice.
LEMMA StepPaid ==
    ASSUME Shape, Removals, OneAtATime, Tracked, Paid, [Next]_vars PROVE Paid'
<1>0. \A c \in Made : /\ c \in Made' /\ c \in Conns /\ keyOf'[c] = keyOf[c] /\ keyOf[c] \in Keys
                      /\ Past(c) => Past(c)'
  BY Forward DEF Made
<1>1. \A k \in Keys : Excused(k) => Excused(k)'
  BY Forward, Queues DEF Excused
<1>2. \A k \in Keys : ClosedTwice(k) => Excused(k)'
  BY Forward DEF Excused
<1>3. ASSUME NEW k \in Keys, rpc \in Connecting, key = k
      PROVE  queue'[k] = None \/ Excused(k)' \/ (rpc' \in Connecting /\ key' = k)
  BY <1>1, <1>3, Queues, Begun DEF Excused
<1>4. ASSUME NEW c \in Made'
      PROVE  \/ queue'[keyOf'[c]] = None \/ Past(c)' \/ Excused(keyOf[c])'
             \/ rpc' \in Connecting /\ key' = keyOf'[c]
  <2>1. CASE c \notin Made
    BY <2>1, Setup DEF AddConnection, Connecting
  <2>2. CASE c \in Made
    <3>1. CASE Past(c) \/ Excused(keyOf[c])
      BY <1>0, <1>1, <2>2, <3>1
    <3>2. CASE rpc \in Connecting /\ key = keyOf[c]
      BY <1>0, <1>3, <2>2, <3>2
    <3>3. CASE queue[keyOf[c]] = None
      <4>1. SUFFICES ASSUME Queueing, keyOf[c] = key PROVE Past(c)' \/ Excused(keyOf[c])'
        BY <1>0, <2>2, <3>3, Begun
      <4>2. Past(c) \/ ClosedTwice(key)
        BY <2>2, <4>1 DEF Queueing, Tracked
      <4> QED BY <1>0, <1>2, <2>2, <4>1, <4>2
    <3> QED BY <2>2, <3>1, <3>2, <3>3 DEF Paid, Connecting
  <2> QED BY <2>1, <2>2
<1>5. ASSUME NEW k \in Keys
      PROVE  \/ queue'[k] = None \/ k \in payloads' \/ Excused(k)'
             \/ rpc' \in {"payload", "cleanQueue"} \cup Connecting /\ key' = k
  <2>1. CASE queue[k] = None
    <3>1. CASE Queueing /\ k = key
      <4>1. rpc' = "payload" /\ key' = k
        BY <2>1, <3>1 DEF Queueing
      <4> QED BY <4>1
    <3> QED BY <2>1, <3>1, Begun
  <2>2. CASE k \in payloads
    <3>1. CASE payloads' = payloads \/ Payload \/ Accept
      BY <2>2, <3>1 DEF Payload, Accept
    <3>2. CASE CleanPayload
      BY <2>2, <3>2 DEF CleanPayload
    <3>3. ASSUME NEW d \in Conns, NEW a \in Closers, ForgetPayload(d, a), keyOf[d] = k
          PROVE  \/ queue'[k] = None \/ Excused(k)'
                 \/ rpc' \in Connecting /\ key' = k
      <4>1. callback[d][a] = "payload" /\ UNCHANGED <<queue, rpc, key>>
        BY <3>3 DEF ForgetPayload, Step, readerVars
      <4>2. d \in Made
        BY <4>1 DEF Removals
      <4>3. Past(d) => ClosedTwice(k)
        BY <3>3, <4>1, Twice
      <4> QED BY <1>1, <1>2, <3>3, <4>1, <4>2, <4>3 DEF Paid, Connecting
    <3>4. ASSUME NEW d \in Conns, NEW a \in Closers, ForgetPayload(d, a), keyOf[d] # k
          PROVE  k \in payloads'
      BY <2>2, <3>4 DEF ForgetPayload
    <3> QED BY <3>1, <3>2, <3>3, <3>4, Queues
  <2>3. CASE Excused(k)
    BY <1>1, <2>3
  <2>4. CASE rpc = "payload" /\ key = k
    BY <2>4, Queues DEF Payload
  <2>5. CASE rpc = "cleanQueue" /\ key = k
    BY <2>5, Queues, Begun
  <2>6. CASE rpc \in Connecting /\ key = k
    BY <1>3, <2>6
  <2> QED BY <2>1, <2>2, <2>3, <2>4, <2>5, <2>6 DEF Paid, Connecting
<1>6. ASSUME rpc' \in Paying PROVE key' \in payloads' \/ Excused(key)'
  <2>1. key' = key /\ (rpc \in Paying \/ Payload \/ Accept \/ Queueing)
    BY <1>6, Queues
  <2>2. key \in Keys
    <3>1. rpc' \notin {"idle", "ending", "ended"}
      BY <1>6 DEF Paying
    <3> QED BY <2>1, <3>1, StepShape DEF Shape
  <2>3. CASE Payload \/ Accept
    BY <2>1, <2>3 DEF Payload, Accept
  <2>4. CASE Queueing
    <3>1. queue[key] # None /\ payloads' = payloads /\ rpc = "queueing"
      BY <1>6, <2>4 DEF Queueing, Paying
    <3> QED BY <1>1, <2>1, <2>2, <3>1 DEF Paid
  <2>5. CASE rpc \in Paying
    <3>1. CASE Excused(key)
      BY <1>1, <2>1, <2>2, <3>1
    <3>2. CASE key \in payloads
      <4>1. ~ CleanPayload
        BY <2>5 DEF CleanPayload, Paying
      <4>2. ASSUME NEW d \in Conns, NEW a \in Closers, ForgetPayload(d, a)
            PROVE  key \in payloads' \/ ClosedTwice(key)
        <5>1. payloads' = payloads \ {keyOf[d]} /\ callback[d][a] = "payload"
          BY <4>2 DEF ForgetPayload, Step
        <5>2. d \in Made
          BY <5>1 DEF Removals
        <5>3. Past(d) => ClosedTwice(keyOf[d])
          BY <5>1, Twice
        <5>4. rpc \in Claiming \/ rpc \in Queueings
          BY <2>5 DEF Paying, Claiming, Entering, Queueings
        <5>5. keyOf[d] = key => Past(d) \/ ClosedTwice(key)
          BY <5>2, <5>4, OverIsPast DEF OneAtATime, Tracked, Queueings
        <5> QED BY <3>2, <5>1, <5>3, <5>5
      <4> QED BY <1>2, <2>1, <2>2, <2>3, <3>2, <4>1, <4>2, Queues
    <3> QED BY <2>5, <3>1, <3>2 DEF Paid, Paying
  <2> QED BY <2>1, <2>3, <2>4, <2>5
<1> QED BY <1>4, <1>5, <1>6 DEF Paid, Connecting, Paying
--------------------------------------------------------------------------------
Owning == Entering \cup {"cleanEstablished"}

\* How the reader leaves the setup of a key.
LEMMA Leaves ==
    ASSUME Shape, Removals, [Next]_vars, rpc \in Owning
    PROVE  \/ rpc' \in Owning /\ key' = key
           \/ CleanEstablished
           \/ GetPayload /\ key \notin payloads
           \/ \E c \in Conns : AddConnection(c)
<1> USE DEF Owning, Entering
<1>1. CASE UNCHANGED vars
  BY <1>1 DEF vars, readerVars
<1>2. CASE GetPayload \/ Accept \/ Deny
  BY <1>2 DEF GetPayload, Accept, Deny, Goto
<1>3. ASSUME \/ \E m \in Kinds, k \in Keys : Receive(m, k)
             \/ Lookup \/ Queueing \/ Payload \/ Examine \/ Push \/ Establish
             \/ CleanPayload \/ CleanQueue
             \/ Insert \/ Check \/ ClosedAll \/ Drain \/ Deliver \/ Process \/ Processed
             \/ SocketEnds \/ SessionEnds
      PROVE  FALSE
  BY <1>3 DEF Receive, Lookup, Queueing, Payload, Examine, Push, Establish, CleanPayload, CleanQueue,
              Insert, Check, ClosedAll, Drain, Deliver, Process, Processed, SocketEnds, SessionEnds
<1>4. CASE \/ Timeout \/ TimeoutEnds \/ SinkCloses
           \/ \E a \in Closers : CloserStep(a)
           \/ \E c \in Conns, a \in Closers : CallbackStep(c, a)
  <2>1. UNCHANGED <<rpc, key>>
    BY <1>4, CallbackIs DEF Timeout, TimeoutEnds, SinkCloses, CloserStep, FindOne, RemoveOne, readerVars
  <2> QED BY <2>1
<1> QED BY <1>1, <1>2, <1>3, <1>4 DEF Next, ReaderStep

\* Somebody is going to release every established key.
LEMMA StepReleased ==
    ASSUME Shape, Removals, Paid, Released, [Next]_vars PROVE Released'
<1>0. \A c \in Made : /\ c \in Made' /\ c \in Conns /\ keyOf'[c] = keyOf[c] /\ keyOf[c] \in Keys
  BY Forward DEF Made
<1>1. \A k \in Keys : Excused(k) => Excused(k)'
  BY Forward, Queues DEF Excused
<1>2. callback \in [Conns -> [Closers -> Stages]] /\ established \subseteq Keys
  BY DEF Shape, TypeOK, Stages
<1> SUFFICES ASSUME NEW k \in established'
             PROVE  \/ \E c \in Made' : keyOf'[c] = k /\ ~ Over(c)'
                    \/ rpc' \in Owning /\ key' = k
                    \/ Excused(k)' \/ k \in halted'
  BY DEF Released, Owning
<1>3. CASE Establish
  <2>1. /\ established' = established \cup {key} /\ halted \subseteq halted'
        /\ (rpc' = "getPayload" /\ key' = key) \/ key \in halted'
        /\ UNCHANGED <<keyOf, callback, ready>>
    BY <1>3 DEF Establish, Goto, closeVars, otherVars
  <2>2. CASE k = key
    BY <2>1, <2>2 DEF Owning, Entering
  <2>3. CASE k \in established
    <3>1. rpc \notin Owning
      BY <1>3 DEF Establish, Owning, Entering
    <3>2. (\E c \in Made : keyOf[c] = k /\ ~ Over(c)) \/ Excused(k) \/ k \in halted
      BY <2>3, <3>1 DEF Released, Owning
    <3> QED BY <1>0, <1>1, <1>2, <2>1, <2>3, <3>2 DEF Over
  <2> QED BY <2>1, <2>2, <2>3
<1>4. CASE k \in established
  <2>0. k \in Keys
    BY <1>2, <1>4
  <2>1. ASSUME NEW c \in Made, keyOf[c] = k, ~ Over(c)
        PROVE  ~ Over(c)' \/ Excused(k)'
    <3>1. SUFFICES ASSUME NEW a \in Closers, callback'[c][a] \in {"done", "lost"}
                   PROVE  Excused(k)'
      BY DEF Over
    <3>2. callback[c][a] \notin {"done", "lost"} /\ c \in Conns
      BY <1>0, <2>1 DEF Over
    <3>3. PICK d \in Conns, b \in Closers : CallbackStep(d, b)
      <4>1. ~ \E b \in Closers : RemoveOne(b)
        <5>1. SUFFICES ASSUME NEW b \in Closers, RemoveOne(b) PROVE callback'[c][a] \notin {"done", "lost"}
          BY <3>1
        <5>2. callback'[c][a] \in {callback[c][a], "spawned"}
          BY <1>2, <3>2, <5>1 DEF RemoveOne
        <5> QED BY <3>2, <5>2
      <4>2. ~ \E d \in Conns : AddConnection(d)
        BY <3>1, <3>2 DEF AddConnection
      <4> QED BY <3>1, <3>2, <4>1, <4>2, Histories
    <3>4. d = c /\ b = a
      BY <3>1, <3>2, <3>3, CallbackIs
    <3>5. callback[c][a] = "established" \/ rpc = "ended"
      BY <3>1, <3>3, <3>4, CallbackIs
    <3>6. CASE rpc = "ended"
      BY <1>1, <2>0, <3>6 DEF Shape, Excused
    <3>7. CASE callback[c][a] = "established"
      <4>1. ForgetEstablished(c, a)
        BY <3>3, <3>4, <3>7 DEF CallbackStep, Step, Upgrade, Wait, ForgetPayload, ForgetConnection, ForgetQueue
      <4>2. k \notin established'
        BY <2>1, <4>1 DEF ForgetEstablished
      <4> QED BY <4>2
    <3> QED BY <3>5, <3>6, <3>7
  <2>2. CASE \E c \in Made : keyOf[c] = k /\ ~ Over(c)
    BY <1>0, <2>1, <2>2
  <2>3. CASE rpc \in Owning /\ key = k
    <3>1. ~ CleanEstablished
      BY <2>3 DEF CleanEstablished
    <3>2. ASSUME GetPayload, key \notin payloads PROVE Excused(k)'
      BY <1>1, <2>0, <2>3, <3>2 DEF GetPayload, Paid
    <3>3. ASSUME NEW c \in Conns, AddConnection(c)
          PROVE  c \in Made' /\ keyOf'[c] = k /\ ~ Over(c)'
      <4>1. keyOf[c] = None /\ keyOf' = [keyOf EXCEPT ![c] = key] /\ callback' = callback
        BY <3>3 DEF AddConnection, Fresh
      <4>2. keyOf \in [Conns -> Keys \cup {None}] /\ None \notin Keys
        BY SessionAssumption DEF Shape, TypeOK
      <4>3. keyOf'[c] = k /\ c \in Made' /\ c \notin Made
        BY <2>0, <2>3, <4>1, <4>2 DEF Made
      <4>4. \A a \in Closers : callback'[c][a] = "none"
        BY <4>1, <4>3 DEF Removals
      <4> QED BY <4>3, <4>4 DEF Over
    <3> QED BY <2>3, <3>1, <3>2, <3>3, Leaves
  <2>4. CASE Excused(k)
    BY <1>1, <2>0, <2>4
  <2>5. CASE k \in halted
    <3>1. halted' = halted \/ Establish
          \/ \E d \in Conns, a \in Closers : ForgetEstablished(d, a)
      BY Claims
    <3>2. ASSUME NEW d \in Conns, NEW a \in Closers, ForgetEstablished(d, a)
          PROVE  k \in halted'
      BY <2>5, <3>2 DEF ForgetEstablished
    <3> QED BY <2>5, <3>1, <3>2 DEF Establish
  <2> QED BY <1>4, <2>2, <2>3, <2>4, <2>5 DEF Released, Owning
<1>5. k \in established \/ Establish
  BY Claims DEF CleanEstablished, ForgetEstablished
<1> QED BY <1>3, <1>4, <1>5
--------------------------------------------------------------------------------
\* What happens while the session ends.
LEMMA Ends ==
    ASSUME Shape, Removals, [Next]_vars, rpc' \in {"ending", "ended"}
    PROVE  /\ live' \subseteq live
           /\ \/ SocketEnds \/ SessionEnds
              \/ /\ rpc' = rpc
                 /\ \/ UNCHANGED <<live, closing>> /\ toClose'["reader"] = toClose["reader"]
                    \/ \E a \in Closers : RemoveOne(a)
                    \/ \E a \in Closers, c \in Conns : FindOne(a, c)
<1>1. CASE UNCHANGED vars
  BY <1>1 DEF vars, closeVars, readerVars
<1>2. CASE SocketEnds \/ SessionEnds
  BY <1>2 DEF SocketEnds, SessionEnds
<1>3. ASSUME \/ \E m \in Kinds, k \in Keys : Receive(m, k)
             \/ Lookup \/ Queueing \/ Payload \/ Examine \/ Push \/ Establish \/ GetPayload
             \/ Accept \/ Deny \/ CleanEstablished \/ CleanPayload \/ CleanQueue
             \/ \E c \in Conns : AddConnection(c)
             \/ Insert \/ Check \/ ClosedAll \/ Drain \/ Deliver \/ Process \/ Processed
      PROVE  rpc' \notin {"ending", "ended"}
  BY <1>3 DEF Receive, Lookup, Queueing, Payload, Examine, Push, Establish, GetPayload, Accept, Deny,
              CleanEstablished, CleanPayload, CleanQueue, AddConnection, Insert, Check, ClosedAll, Drain,
              Deliver, Process, Processed, Idle, Goto
<1>4. CASE Timeout \/ TimeoutEnds \/ SinkCloses
  <2>1. toClose \in [Closers -> SUBSET Conns] /\ rpc' = rpc /\ UNCHANGED <<live, closing>>
        /\ toClose' \in {toClose, [toClose EXCEPT !["ping"] = Mapped]}
    BY <1>4 DEF Timeout, TimeoutEnds, SinkCloses, CloseMapped, closeVars, readerVars, Shape, TypeOK
  <2>2. toClose'["reader"] = toClose["reader"]
    BY <2>1 DEF Closers
  <2> QED BY <2>1, <2>2
<1>5. CASE \E a \in Closers : CloserStep(a)
  BY <1>5 DEF CloserStep, FindOne, RemoveOne, readerVars
<1>6. CASE \E c \in Conns, a \in Closers : CallbackStep(c, a)
  BY <1>6, CallbackIs
<1> QED BY <1>1, <1>2, <1>3, <1>4, <1>5, <1>6 DEF Next, ReaderStep

\* The end of the session closes every connection it knows.
LEMMA StepLeaving ==
    ASSUME Shape, Removals, Tracked, Leaving, [Next]_vars PROVE Leaving'
<1>0. \A c \in live : /\ c \in Made /\ c \in Conns /\ keyOf'[c] = keyOf[c] /\ keyOf[c] \in Keys
                      /\ ClosedTwice(keyOf[c]) => ClosedTwice(keyOf[c])'
  BY Forward DEF Made, Removals
<1>1. /\ toClose \in [Closers -> SUBSET Conns] /\ closing \in [Closers -> Conns \cup {None}]
      /\ map \in [Keys -> Conns \cup {None}] /\ None \notin Conns /\ "reader" \in Closers
  BY SessionAssumption DEF Shape, TypeOK, Closers
<1>2. ASSUME rpc' = "ending", NEW c \in live'
      PROVE  c \in toClose'["reader"] \/ closing'["reader"] = c \/ ClosedTwice(keyOf[c])'
  <2>0. c \in live
    BY <1>2, Ends
  <2>1. CASE SocketEnds
    <3>1. toClose'["reader"] = Mapped /\ rpc = "idle"
      BY <1>1, <2>1 DEF SocketEnds, CloseMapped
    <3>2. ~ Past(c)
      BY <2>0 DEF Past, Removals
    <3>3. map[keyOf[c]] = c \/ ClosedTwice(keyOf[c])
      BY <1>0, <2>0, <3>1, <3>2 DEF Tracked
    <3>4. map[keyOf[c]] = c => c \in Mapped
      BY <1>0, <1>1, <2>0 DEF Mapped, Range
    <3> QED BY <1>0, <2>0, <3>1, <3>3, <3>4
  <2>2. ASSUME rpc = "ending"
        PROVE  c \in toClose["reader"] \/ closing["reader"] = c \/ ClosedTwice(keyOf[c])
    BY <2>0, <2>2 DEF Leaving
  <2>3. CASE rpc = "ending" /\ UNCHANGED closing /\ toClose'["reader"] = toClose["reader"]
    BY <1>0, <2>0, <2>2, <2>3
  <2>4. ASSUME rpc = "ending", NEW a \in Closers, RemoveOne(a)
        PROVE  c \in toClose'["reader"] \/ closing'["reader"] = c \/ ClosedTwice(keyOf[c])'
    <3>1. closing' = [closing EXCEPT ![a] = None] /\ toClose' = toClose /\ c # closing[a]
      BY <2>4 DEF RemoveOne
    <3> QED BY <1>0, <1>1, <2>0, <2>2, <2>4, <3>1
  <2>5. ASSUME rpc = "ending", NEW a \in Closers, NEW d \in Conns, FindOne(a, d)
        PROVE  c \in toClose'["reader"] \/ closing'["reader"] = c \/ ClosedTwice(keyOf[c])'
    <3>1. /\ closing[a] = None
          /\ toClose' = [toClose EXCEPT ![a] = @ \ {d}]
          /\ closing' = IF d \in live THEN [closing EXCEPT ![a] = d] ELSE closing
      BY <2>5 DEF FindOne
    <3>2. CASE a # "reader"
      <4>1. toClose'["reader"] = toClose["reader"] /\ closing'["reader"] = closing["reader"]
        BY <1>1, <3>1, <3>2
      <4> QED BY <1>0, <2>0, <2>2, <2>5, <4>1
    <3>3. CASE a = "reader"
      <4>1. closing["reader"] # c /\ toClose'["reader"] = toClose["reader"] \ {d}
        BY <1>0, <1>1, <2>0, <3>1, <3>3
      <4>2. d = c => closing'["reader"] = c
        BY <1>1, <2>0, <3>1, <3>3
      <4> QED BY <1>0, <2>0, <2>2, <2>5, <4>1, <4>2
    <3> QED BY <3>2, <3>3
  <2>6. ~ SessionEnds
    BY <1>2 DEF SessionEnds
  <2> QED BY <1>2, <2>1, <2>3, <2>4, <2>5, <2>6, Ends
<1>3. ASSUME rpc' = "ended", NEW c \in live' PROVE ClosedTwice(keyOf[c])'
  <2>0. c \in live /\ ~ SocketEnds
    BY <1>3, Ends DEF SocketEnds
  <2>1. CASE SessionEnds
    <3>1. rpc = "ending" /\ toClose["reader"] = {} /\ closing["reader"] = None
      BY <2>1 DEF SessionEnds, Closed
    <3> QED BY <1>0, <1>1, <2>0, <3>1 DEF Leaving
  <2>2. CASE rpc = "ended"
    BY <1>0, <2>0, <2>2 DEF Leaving
  <2> QED BY <1>3, <2>0, <2>1, <2>2, Ends
<1> QED BY <1>2, <1>3 DEF Leaving
--------------------------------------------------------------------------------
\* Every step keeps the invariant.
LEMMA StepIInv == ASSUME IInv, [Next]_vars PROVE IInv'
BY StepShape, StepRemovals, StepOneAtATime, StepTracked, StepPaid, StepReleased, StepLeaving DEF IInv

\* The invariant holds in every state of the session.
THEOREM Invariance == Spec => []IInv
BY InitIInv, StepIInv, PTL DEF Spec

\* The maps of the session and the variables of its reader have their types,
\* and a key stands for a connection that was set up for it
\* (client_connection.rs:21-31).
THEOREM TypeCorrect == Spec => []TypeOK
<1>1. IInv => TypeOK
  BY DEF IInv, Shape
<1> QED BY <1>1, Invariance, PTL

\* A connection in a document is known to its session, which alone can close
\* it, unless the key was closed twice (client_connection.rs:437-440).
THEOREM KnownToItsSession == Spec => []LiveIsTracked
<1>1. ASSUME IInv PROVE LiveIsTracked
  <2>1. ASSUME NEW c \in live
        PROVE  map[keyOf[c]] = c \/ (rpc = "insert" /\ conn = c) \/ ClosedTwice(keyOf[c])
    <3>1. c \in Made /\ ~ Past(c)
      BY <1>1, <2>1 DEF IInv, Removals, Made, Past
    <3> QED BY <1>1, <3>1 DEF IInv, Tracked
  <2> QED BY <2>1 DEF LiveIsTracked
<1> QED BY <1>1, Invariance, PTL

\* The end of the socket closes every connection of the session, also one that
\* the timeout task was closing or that was being set up
\* (client_connection.rs:100-113, 550-555).
THEOREM NothingIsLeft == Spec => []EndedLeavesNothing
<1>1. IInv => EndedLeavesNothing
  BY DEF IInv, Leaving, EndedLeavesNothing
<1> QED BY <1>1, Invariance, PTL

\* A key that is established without a connection, so that every authentication
\* of it is queued (client_connection.rs:201), is about to be released by a
\* callback; unless its authentication ended early, which leaves it established
\* (client_connection.rs:216-223), or it was closed twice.
THEOREM KeysAreReleased == Spec => []NotStuck
<1>1. ASSUME IInv PROVE NotStuck
  <2> SUFFICES ASSUME NEW k \in established \ halted, rpc = "idle", ready = "open", map[k] = None
               PROVE  \/ ClosedTwice(k)
                      \/ \E c \in Conns, a \in Closers :
                             keyOf[c] = k /\ callback[c][a] \in InProgress \cup {"spawned"}
    BY DEF NotStuck
  <2>1. SUFFICES ASSUME ~ ClosedTwice(k)
                 PROVE  \E c \in Conns, a \in Closers :
                            keyOf[c] = k /\ callback[c][a] \in InProgress \cup {"spawned"}
    OBVIOUS
  <2>2. PICK c \in Made : keyOf[c] = k /\ ~ Over(c)
    BY <1>1, <2>1 DEF IInv, Released, Excused, Entering
  <2>3. c \in Conns /\ c # None
    BY SessionAssumption, <2>2 DEF Made
  <2>4. Past(c)
    BY <1>1, <2>1, <2>2, <2>3 DEF IInv, Tracked
  <2>5. PICK a \in Closers : callback[c][a] \in {"queue", "established"}
    BY <2>2, <2>4 DEF Past, Over
  <2> QED BY <2>2, <2>3, <2>5 DEF InProgress
<1> QED BY <1>1, Invariance, PTL
--------------------------------------------------------------------------------
(* What becomes of the entries of document_connections.                    *)

\* From the lookup that found nothing to the insertion.
SettingUp == Queueings \cup Claiming \cup {"insert"}

\* Where a callback is that has still to remove the key.
ToForget == {"spawned", "waiting", "payload", "map"}

\* The reader alone fills the map, for a key it has found empty; nobody closes
\* the connection before; and who is in the map without being in a document has
\* a callback that will take it out.
Forgetting ==
    /\ rpc \in SettingUp => map[key] = None
    /\ rpc = "insert" =>
           conn \in live /\ \A a \in Closers : conn \notin toClose[a] /\ closing[a] # conn
    /\ \A c \in Made : map[keyOf[c]] = c =>
           \A a \in Closers : callback[c][a] \in ToForget \cup {"none", "lost"}
    /\ \A c \in Made \ live : \E a \in Closers : callback[c][a] # "none"
    /\ \A c \in Made, a \in Closers : callback[c][a] = "lost" => rpc = "ended"

\* Who closes what, and that the end is the end.
LEMMA Closings ==
    ASSUME Shape, Removals, [Next]_vars
    PROVE  /\ rpc = "ended" => rpc' = "ended"
           /\ \/ UNCHANGED <<live, toClose, closing>>
              \/ \E c \in Conns : AddConnection(c)
              \/ \E a \in Closers : RemoveOne(a) \/ \E c \in Conns : FindOne(a, c)
              \/ Timeout \/ (rpc # "insert" /\ rpc' # "insert" /\ UNCHANGED live)
<1>1. CASE UNCHANGED vars
  BY <1>1 DEF vars, closeVars, readerVars
<1>2. CASE \/ \E m \in Kinds, k \in Keys : Receive(m, k)
           \/ Lookup \/ Queueing \/ Payload \/ Examine \/ Push \/ Establish \/ GetPayload
           \/ Accept \/ Deny \/ CleanEstablished \/ CleanPayload \/ CleanQueue
  BY <1>2 DEF Receive, Lookup, Queueing, Payload, Examine, Push, Establish, GetPayload, Accept, Deny,
              CleanEstablished, CleanPayload, CleanQueue, closeVars
<1>3. CASE \/ \E c \in Conns : AddConnection(c)
           \/ Insert \/ ClosedAll \/ Drain \/ Deliver \/ Processed
  BY <1>3 DEF AddConnection, Insert, ClosedAll, Drain, Deliver, Processed, closeVars
<1>4. CASE Check \/ Process \/ SocketEnds \/ SessionEnds
  BY <1>4 DEF Check, Process, SocketEnds, SessionEnds
<1>5. CASE \/ Timeout \/ TimeoutEnds \/ SinkCloses
           \/ \E a \in Closers : CloserStep(a)
  BY <1>5 DEF Timeout, TimeoutEnds, SinkCloses, CloserStep, FindOne, RemoveOne, closeVars, readerVars
<1>6. CASE \E c \in Conns, a \in Closers : CallbackStep(c, a)
  BY <1>6, CallbackIs
<1> QED BY <1>1, <1>2, <1>3, <1>4, <1>5, <1>6 DEF Next, ReaderStep

\* The key being set up stays empty until the insertion.
LEMMA StillEmpty ==
    ASSUME Shape, Removals, Forgetting, [Next]_vars, rpc' \in SettingUp
    PROVE  map'[key'] = None
<1>1. key' = key /\ key \in Keys /\ map[key] = None
  <2>1. key' = key /\ (rpc \in SettingUp \/ (Lookup /\ map[key] = None))
    <3>1. CASE rpc' \in Queueings
      BY <3>1, Maps DEF SettingUp
    <3>2. CASE rpc' \in Claiming
      BY <3>2, Claims DEF SettingUp, Queueings, Examine
    <3>3. CASE rpc' = "insert"
      <4>1. (rpc = "insert" /\ ~ Insert) \/ \E c \in Conns : AddConnection(c)
        BY <3>3, Maps DEF Insert
      <4> QED BY <4>1, Maps DEF AddConnection, SettingUp, Claiming, Entering
    <3> QED BY <3>1, <3>2, <3>3 DEF SettingUp
  <2>2. rpc' \notin {"idle", "ending", "ended"}
    BY DEF SettingUp, Queueings, Claiming, Entering
  <2>3. key' \in Keys
    BY <2>2, StepShape DEF Shape
  <2> QED BY <2>1, <2>3 DEF Forgetting
<1>2. map \in [Keys -> Conns \cup {None}]
  BY DEF Shape, TypeOK
<1>3. ~ Insert
  BY DEF Insert, SettingUp, Queueings, Claiming, Entering
<1>4. ASSUME NEW c \in Conns, NEW a \in Closers, ForgetConnection(c, a) PROVE map'[key] = None
  BY <1>1, <1>2, <1>4 DEF ForgetConnection
<1> QED BY <1>1, <1>3, <1>4, Maps

\* The connection being inserted is in its document, and nobody closes it.
LEMMA StillOpen ==
    ASSUME Shape, Removals, Forgetting, [Next]_vars, rpc' = "insert"
    PROVE  conn' \in live' /\ \A a \in Closers : conn' \notin toClose'[a] /\ closing'[a] # conn'
<1>0. /\ toClose \in [Closers -> SUBSET Conns] /\ closing \in [Closers -> Conns \cup {None}]
      /\ map \in [Keys -> Conns \cup {None}] /\ None \notin Conns
  BY SessionAssumption DEF Shape, TypeOK
<1>1. CASE \E c \in Conns : AddConnection(c)
  <2>1. PICK c \in Conns : AddConnection(c)
    BY <1>1
  <2>2. conn' = c /\ c \in live' /\ UNCHANGED <<toClose, closing>> /\ c \notin Made
    BY <2>1 DEF AddConnection, Fresh, Made
  <2> QED BY <1>0, <2>1, <2>2 DEF Removals
<1>2. CASE ~ \E c \in Conns : AddConnection(c)
  <2>1. rpc = "insert" /\ UNCHANGED <<key, conn>>
    BY <1>2, Maps DEF Insert
  <2>2. /\ conn \in live /\ conn \in Conns /\ keyOf[conn] = key /\ map[key] = None
        /\ \A a \in Closers : conn \notin toClose[a] /\ closing[a] # conn
    BY <2>1 DEF Forgetting, SettingUp, Shape, Handling, Made
  <2>3. ASSUME NEW a \in Closers, NEW c \in Conns, FindOne(a, c)
        PROVE  conn \in live' /\ \A b \in Closers : conn \notin toClose'[b] /\ closing'[b] # conn
    BY <1>0, <2>2, <2>3 DEF FindOne
  <2>4. ASSUME NEW a \in Closers, RemoveOne(a)
        PROVE  conn \in live' /\ \A b \in Closers : conn \notin toClose'[b] /\ closing'[b] # conn
    BY <1>0, <2>2, <2>4 DEF RemoveOne
  <2>5. ASSUME Timeout
        PROVE  conn \in live' /\ \A b \in Closers : conn \notin toClose'[b] /\ closing'[b] # conn
    <3>1. conn \notin Mapped
      <4>1. ASSUME NEW k \in Keys, map[k] = conn PROVE FALSE
        <5>1. map[k] # None
          BY <1>0, <2>2, <4>1
        <5>2. keyOf[map[k]] = k
          BY <5>1 DEF Shape, TypeOK
        <5>3. k = key
          BY <2>2, <4>1, <5>2
        <5> QED BY <2>2, <4>1, <5>1, <5>3
      <4>2. Range(map) = {map[k] : k \in Keys}
        BY <1>0 DEF Range
      <4> QED BY <4>1, <4>2 DEF Mapped
    <3>2. UNCHANGED <<live, closing>> /\ toClose' = [toClose EXCEPT !["ping"] = Mapped]
      BY <2>5 DEF Timeout, CloseMapped
    <3> QED BY <1>0, <2>2, <3>1, <3>2
  <2> QED BY <1>2, <2>1, <2>2, <2>3, <2>4, <2>5, Closings
<1> QED BY <1>1, <1>2

\* A connection that is still in the map has not been taken out by a callback.
LEMMA StillMapped ==
    ASSUME Shape, Removals, Forgetting, [Next]_vars, NEW c \in Made', map'[keyOf'[c]] = c,
           NEW a \in Closers
    PROVE  callback'[c][a] \in ToForget \cup {"none", "lost"}
<1>0. /\ callback \in [Conns -> [Closers -> Stages]] /\ Made \subseteq Conns
      /\ map \in [Keys -> Conns \cup {None}] /\ None \notin Conns /\ c \in Conns
  BY SessionAssumption DEF Shape, TypeOK, Stages, Made
<1>1. CASE c \notin Made
  <2>1. AddConnection(c)
    BY <1>1, Setup
  <2>2. callback'[c] = callback[c] /\ callback[c][a] = "none"
    BY <1>0, <1>1, <2>1 DEF AddConnection, Removals
  <2> QED BY <2>2
<1>2. CASE c \in Made
  <2>1. keyOf'[c] = keyOf[c] /\ keyOf[c] \in Keys
    BY <1>2, Forward
  <2>2. CASE Insert
    <3>1. map' = [map EXCEPT ![key] = conn] /\ UNCHANGED callback /\ rpc = "insert"
      BY <2>2 DEF Insert, closeVars
    <3>2. c = conn => callback[c][a] = "none"
      BY <3>1 DEF Forgetting, Removals
    <3>3. c # conn => map[keyOf[c]] = c
      BY <1>0, <2>1, <3>1
    <3> QED BY <1>2, <3>1, <3>2, <3>3 DEF Forgetting
  <2>3. CASE ~ Insert
    <3>1. map[keyOf[c]] = c
      <4>1. ASSUME NEW d \in Conns, NEW b \in Closers, ForgetConnection(d, b)
            PROVE  map[keyOf[c]] = c
        <5>1. map' = [map EXCEPT ![keyOf[d]] = None]
          BY <4>1 DEF ForgetConnection
        <5> QED BY <1>0, <2>1, <5>1
      <4> QED BY <2>1, <2>3, <4>1, Maps
    <3>2. callback[c][a] \in ToForget \cup {"none", "lost"}
      BY <1>2, <3>1 DEF Forgetting
    <3>3. ASSUME NEW d \in Conns, NEW b \in Closers, CallbackStep(d, b)
          PROVE  callback'[c][a] \in ToForget \cup {"none", "lost"}
      <4>1. CASE d = c /\ b = a
        <5>1. ~ ForgetConnection(c, a)
          <6>1. ASSUME ForgetConnection(c, a) PROVE FALSE
            <7>1. map' = [map EXCEPT ![keyOf[c]] = None]
              BY <6>1 DEF ForgetConnection
            <7> QED BY <1>0, <2>1, <7>1
          <6> QED BY <6>1
        <5>2. Upgrade(c, a) \/ Wait(c, a) \/ ForgetPayload(c, a) \/ ForgetQueue(c, a)
              \/ ForgetEstablished(c, a)
          BY <3>3, <4>1, <5>1 DEF CallbackStep
        <5>3. PICK s, t : /\ callback[c][a] = s /\ callback' = [callback EXCEPT ![c][a] = t]
                          /\ <<s, t>> \in {<<"spawned", "waiting">>, <<"spawned", "lost">>,
                                           <<"waiting", "payload">>, <<"payload", "map">>,
                                           <<"queue", "established">>, <<"established", "done">>}
          BY <5>2 DEF Step, Upgrade, Wait, ForgetPayload, ForgetQueue, ForgetEstablished
        <5>4. callback'[c][a] = t
          BY <1>0, <5>3
        <5> QED BY <3>2, <5>3, <5>4 DEF ToForget
      <4>2. CASE ~ (d = c /\ b = a)
        BY <1>0, <3>2, <3>3, <4>2, CallbackIs
      <4> QED BY <4>1, <4>2
    <3>4. ASSUME NEW b \in Closers, RemoveOne(b)
          PROVE  callback'[c][a] \in ToForget \cup {"none", "lost"}
      <4>1. callback' = [callback EXCEPT ![closing[b]][b] = "spawned"] /\ closing[b] \in Conns
        BY <3>4 DEF RemoveOne, Removals, Made
      <4>2. callback'[c][a] = "spawned" \/ callback'[c][a] = callback[c][a]
        BY <1>0, <4>1
      <4> QED BY <3>2, <4>2 DEF ToForget
    <3> QED BY <3>2, <3>3, <3>4, Histories DEF AddConnection
  <2> QED BY <2>2, <2>3
<1> QED BY <1>1, <1>2

\* A connection that left its document has a callback.
LEMMA StillCalled ==
    ASSUME Shape, Removals, Forgetting, [Next]_vars, NEW c \in Made', c \notin live'
    PROVE  \E a \in Closers : callback'[c][a] # "none"
<1>0. /\ callback \in [Conns -> [Closers -> Stages]] /\ Made \subseteq Conns /\ c \in Conns
  BY DEF Shape, TypeOK, Stages, Made
<1>1. c \in Made
  <2>1. ~ AddConnection(c)
    BY DEF AddConnection
  <2> QED BY <2>1, Setup
<1>2. ASSUME NEW a \in Closers, RemoveOne(a) PROVE \E b \in Closers : callback'[c][b] # "none"
  <2>1. /\ callback' = [callback EXCEPT ![closing[a]][a] = "spawned"] /\ closing[a] \in Conns
        /\ live' = live \ {closing[a]}
    BY <1>2 DEF RemoveOne, Removals, Made
  <2>2. CASE c = closing[a]
    BY <1>0, <2>1, <2>2
  <2>3. CASE c # closing[a]
    <3>1. PICK b \in Closers : callback[c][b] # "none"
      BY <1>1, <2>1, <2>3 DEF Forgetting
    <3>2. callback'[c][b] = callback[c][b]
      BY <1>0, <2>1, <2>3
    <3> QED BY <3>1, <3>2
  <2> QED BY <2>2, <2>3
<1>3. ASSUME \A a \in Closers : ~ RemoveOne(a) PROVE \E b \in Closers : callback'[c][b] # "none"
  <2>1. c \notin live
    BY <1>3, Closings DEF AddConnection, FindOne, Timeout
  <2>2. PICK b \in Closers : callback[c][b] # "none"
    BY <1>1, <2>1 DEF Forgetting
  <2>3. ASSUME NEW d \in Conns, NEW a \in Closers, CallbackStep(d, a) PROVE callback'[c][b] # "none"
    BY <1>0, <2>2, <2>3, CallbackIs DEF Later
  <2> QED BY <1>3, <2>2, <2>3, Histories DEF AddConnection
<1> QED BY <1>2, <1>3

\* Only the end of the session loses a callback.
LEMMA StillLost ==
    ASSUME Shape, Removals, Forgetting, [Next]_vars, NEW c \in Made', NEW a \in Closers,
           callback'[c][a] = "lost"
    PROVE  rpc' = "ended"
<1>0. callback \in [Conns -> [Closers -> Stages]] /\ c \in Conns
  BY DEF Shape, TypeOK, Stages, Made
<1>1. callback[c][a] = "lost" => rpc = "ended"
  <2>1. callback[c][a] # "none" => c \in Made
    BY <1>0 DEF Removals
  <2> QED BY <2>1 DEF Forgetting
<1>2. ASSUME NEW d \in Conns, NEW b \in Closers, CallbackStep(d, b) PROVE rpc = "ended"
  <2>1. CASE d = c /\ b = a
    BY <1>2, <2>1, CallbackIs
  <2>2. CASE ~ (d = c /\ b = a)
    BY <1>0, <1>1, <1>2, <2>2, CallbackIs
  <2> QED BY <2>1, <2>2
<1>3. ASSUME NEW b \in Closers, RemoveOne(b) PROVE rpc = "ended"
  <2>1. callback' = [callback EXCEPT ![closing[b]][b] = "spawned"] /\ closing[b] \in Conns
    BY <1>3 DEF RemoveOne, Removals, Made
  <2>2. callback'[c][a] = "spawned" \/ callback'[c][a] = callback[c][a]
    BY <1>0, <2>1
  <2> QED BY <1>1, <2>2
<1>4. rpc = "ended"
  BY <1>1, <1>2, <1>3, Histories DEF AddConnection
<1> QED BY <1>4, Closings

\* The invariant of the entries.
THEOREM EntriesAreForgotten == Spec => []Forgetting
<1>1. Init => Forgetting
  BY DEF Init, Forgetting, Made, SettingUp, Queueings, Claiming, Entering
<1>2. ASSUME IInv, Forgetting, [Next]_vars PROVE Forgetting'
  <2>1. Shape /\ Removals
    BY <1>2 DEF IInv
  <2>2. rpc' \in SettingUp => map'[key'] = None
    BY <1>2, <2>1, StillEmpty
  <2>3. rpc' = "insert" =>
            conn' \in live' /\ \A a \in Closers : conn' \notin toClose'[a] /\ closing'[a] # conn'
    BY <1>2, <2>1, StillOpen
  <2>4. \A c \in Made' : map'[keyOf'[c]] = c =>
            \A a \in Closers : callback'[c][a] \in ToForget \cup {"none", "lost"}
    BY <1>2, <2>1, StillMapped
  <2>5. \A c \in Made' \ live' : \E a \in Closers : callback'[c][a] # "none"
    BY <1>2, <2>1, StillCalled
  <2>6. \A c \in Made', a \in Closers : callback'[c][a] = "lost" => rpc' = "ended"
    BY <1>2, <2>1, StillLost
  <2> QED BY <2>2, <2>3, <2>4, <2>5, <2>6 DEF Forgetting, SettingUp, Queueings, Claiming, Entering,
               ToForget
<1> QED BY <1>1, <1>2, Invariance, PTL DEF Spec

\* While the session lasts, a connection that was closed is in
\* document_connections only as long as a callback that will take it out is
\* under way: what KeyIsFreed needs besides fairness
\* (client_connection.rs:418-447).
NothingLingers ==
    \A k \in Keys : map[k] # None /\ map[k] \notin live =>
        rpc = "ended" \/ \E a \in Closers : callback[map[k]][a] \in ToForget

\* No closed connection is left in document_connections.
THEOREM ClosedIsForgotten == Spec => []NothingLingers
<1>1. ASSUME IInv, Forgetting, NEW k \in Keys, map[k] # None, map[k] \notin live
      PROVE  rpc = "ended" \/ \E a \in Closers : callback[map[k]][a] \in ToForget
  <2>1. map[k] \in Made /\ keyOf[map[k]] = k
    BY <1>1, Mapping DEF IInv, Shape, TypeOK
  <2>2. PICK a \in Closers : callback[map[k]][a] # "none"
    BY <1>1, <2>1 DEF Forgetting
  <2>3. callback[map[k]][a] \in ToForget \cup {"none", "lost"}
    BY <1>1, <2>1 DEF Forgetting
  <2> QED BY <1>1, <2>1, <2>2, <2>3 DEF Forgetting
<1>2. IInv /\ Forgetting => NothingLingers
  BY <1>1 DEF NothingLingers
<1> QED BY <1>2, Invariance, EntriesAreForgotten, PTL

\* An entry of document_connections is never replaced by another connection,
\* which would stay in its document without anybody to close it: what is under a
\* key is taken out before the next connection is inserted, whatever callbacks,
\* timeout and reader do meanwhile (client_connection.rs:141-157, 545-548).
THEOREM EntriesAreNotReplaced ==
    Spec => [][\A k \in Keys : map[k] # None => map'[k] \in {map[k], None}]_vars
<1>1. ASSUME IInv, Forgetting, [Next]_vars
      PROVE  [\A k \in Keys : map[k] # None => map'[k] \in {map[k], None}]_vars
  <2>1. map \in [Keys -> Conns \cup {None}]
    BY <1>1 DEF IInv, Shape, TypeOK
  <2>2. SUFFICES ASSUME NEW k \in Keys, map[k] # None PROVE map'[k] \in {map[k], None}
    OBVIOUS
  <2>3. CASE Insert
    <3>1. map' = [map EXCEPT ![key] = conn] /\ map[key] = None
      BY <1>1, <2>3 DEF Insert, Forgetting, SettingUp
    <3> QED BY <2>1, <2>2, <3>1
  <2>4. ASSUME NEW c \in Conns, NEW a \in Closers, ForgetConnection(c, a)
        PROVE  map'[k] \in {map[k], None}
    BY <2>1, <2>4 DEF ForgetConnection
  <2> QED BY <1>1, <2>3, <2>4, Maps DEF IInv
<1> QED BY <1>1, Invariance, EntriesAreForgotten, PTL DEF Spec
================================================================================
