----------------------------- MODULE ClientSession -----------------------------
(***************************************************************************)
(* The session of one websocket (client_connection.rs): its reader takes   *)
(* one message after the other, queues what comes before a document is     *)
(* authenticated, and sets up a Connection for each raw key (document name *)
(* and session id).  Beside it run the timeout task, which closes every    *)
(* connection of a silent client, and the close callback of each closed    *)
(* connection, which removes the key from four maps, one after the other.  *)
(*                                                                         *)
(* Every message has a readable name and type (the others only close the   *)
(* websocket); of a document the connections of this session matter.  The  *)
(* reader learns the end of its socket from a close frame or an error.     *)
(***************************************************************************)
EXTENDS Naturals, Sequences, Functions

CONSTANTS Keys,        \* raw keys
          Plain,       \* the key without session id of the same document
          Conns,       \* connection ids: bounds the connections set up
          MaxMessages, \* bounds the messages the client sends
          None

ASSUME SessionAssumption ==
    /\ Plain \in [Keys -> Keys]
    /\ None \notin Conns \cup Keys
    /\ MaxMessages \in Nat

Kinds == {"auth", "data", "close"}
Closers == {"reader", "ping"}

VARIABLES
    ready,       \* the state of the websocket
    live,        \* connections the documents have
    keyOf,       \* the key each connection was set up for
    map,         \* document_connections
    queue,       \* incoming_message_queue
    payloads,    \* hook_payloads
    established, \* document_connections_established
    halted,      \* for the properties: its keys whose authentication ended early
    rpc,         \* where the reader is
    key, kind,   \* the message it handles
    conn,        \* the connection it sets up or hands messages to
    todo,        \* the messages it hands over
    reading,     \* it holds document_connections for reading
    toClose,     \* what each closer has still to close
    closing,     \* what it has found in the document and goes to remove
    ping,        \* where the timeout task is
    callback,    \* where the callback of each close is
    received     \* how many messages were received

sessionVars == <<queue, payloads, established, halted>>
readerVars == <<rpc, key, kind, conn, todo, reading>>
closeVars == <<live, toClose, closing, callback>>
otherVars == <<ready, keyOf, ping, received>>
vars == <<sessionVars, readerVars, closeVars, otherVars, map>>

Init ==
    /\ ready = "open"
    /\ live = {} /\ keyOf = [c \in Conns |-> None]
    /\ map = [k \in Keys |-> None]
    /\ queue = [k \in Keys |-> None]
    /\ payloads = {} /\ established = {} /\ halted = {}
    /\ rpc = "idle" /\ key = None /\ kind = None /\ conn = None
    /\ todo = <<>> /\ reading = FALSE
    /\ toClose = [a \in Closers |-> {}] /\ closing = [a \in Closers |-> None]
    /\ ping = "asleep"
    /\ callback = [c \in Conns |-> [a \in Closers |-> "none"]]
    /\ received = 0

Mapped == Range(map) \ {None}

\* Nobody reads document_connections, so that it can be written.
Writable == ~ reading /\ ping # "closing"
--------------------------------------------------------------------------------
(* Connection::close, by the reader or by the timeout task.                *)

Closed(a) == toClose[a] = {} /\ closing[a] = None

\* has_connection ...
FindOne(a, c) ==
    /\ closing[a] = None /\ c \in toClose[a]
    /\ toClose' = [toClose EXCEPT ![a] = @ \ {c}]
    /\ closing' = IF c \in live THEN [closing EXCEPT ![a] = c] ELSE closing
    /\ UNCHANGED <<sessionVars, readerVars, live, callback, otherVars, map>>

\* ... remove_connection, which may find nothing any more, and the callbacks.
RemoveOne(a) ==
    /\ closing[a] # None
    /\ live' = live \ {closing[a]}
    /\ callback' = [callback EXCEPT ![closing[a]][a] = "spawned"]
    /\ closing' = [closing EXCEPT ![a] = None]
    /\ UNCHANGED <<sessionVars, readerVars, toClose, otherVars, map>>
--------------------------------------------------------------------------------
(* The reader: handle_message.  A definition introduced by "Variant" is    *)
(* never part of Next: it is a plausible mistake in the definition after   *)
(* it.                                                                     *)

Fresh(c) == keyOf[c] = None

\* The reader is done with the message.
Idle == rpc' = "idle" /\ key' = None /\ kind' = None /\ conn' = None

Goto(s) == rpc' = s /\ UNCHANGED <<key, kind, conn>>

Receive(m, k) ==
    /\ rpc = "idle" /\ received < MaxMessages
    /\ m = "auth" => \E c \in Conns : Fresh(c)
    /\ received' = received + 1
    /\ kind' = m /\ key' = k /\ rpc' = "lookup"
    /\ UNCHANGED <<sessionVars, closeVars, conn, todo, reading, ready, keyOf, ping, map>>

\* A connection of this key, or of the document: it gets the message while
\* the map is held.
Lookup ==
    /\ rpc = "lookup"
    /\ LET found == IF map[key] # None THEN map[key] ELSE map[Plain[key]]
       IN  IF found # None
             THEN conn' = found /\ todo' = <<kind>> /\ reading' = TRUE /\ rpc' = "process"
             ELSE rpc' = "queueing" /\ UNCHANGED <<conn, todo, reading>>
    /\ UNCHANGED <<sessionVars, closeVars, key, kind, otherVars, map>>

Queueing ==
    /\ rpc = "queueing"
    /\ IF queue[key] = None
         THEN queue' = [queue EXCEPT ![key] = <<>>] /\ rpc' = "payload"
         ELSE UNCHANGED queue /\ rpc' = "examine"
    /\ UNCHANGED <<payloads, established, halted, closeVars, key, kind, conn, todo, reading, otherVars, map>>

Payload ==
    /\ rpc = "payload"
    /\ payloads' = payloads \cup {key}
    /\ rpc' = "examine"
    /\ UNCHANGED <<queue, established, halted, closeVars, key, kind, conn, todo, reading, otherVars, map>>

Examine ==
    /\ rpc = "examine"
    /\ rpc' = IF kind # "auth" \/ key \in established THEN "push" ELSE "establish"
    /\ UNCHANGED <<sessionVars, closeVars, key, kind, conn, todo, reading, otherVars, map>>

\* The queue may have been removed meanwhile.
Push ==
    /\ rpc = "push"
    /\ IF queue[key] # None
         THEN queue' = [queue EXCEPT ![key] = Append(@, kind)]
         ELSE UNCHANGED queue
    /\ Idle
    /\ UNCHANGED <<payloads, established, halted, closeVars, todo, reading, otherVars, map>>

\* The key is established; the subtype and the token are read only then, and a
\* message that ends before them is dropped.
Establish ==
    /\ rpc = "establish"
    /\ established' = established \cup {key}
    /\ \/ Goto("getPayload") /\ UNCHANGED halted
       \/ Idle /\ halted' = halted \cup {key}
    /\ UNCHANGED <<queue, payloads, closeVars, todo, reading, otherVars, map>>

\* Without a payload the message is dropped.
GetPayload ==
    /\ rpc \in {"getPayload", "setup"}
    /\ IF key \notin payloads THEN Idle
       ELSE Goto(IF rpc = "setup" THEN "creating" ELSE "hooks")
    /\ UNCHANGED <<sessionVars, closeVars, todo, reading, otherVars, map>>

\* on_connect and on_authenticate accept the client: it is told.
Accept ==
    /\ rpc = "hooks"
    /\ payloads' = payloads \cup {key}
    /\ rpc' = "setup"
    /\ UNCHANGED <<queue, established, halted, closeVars, key, kind, conn, todo, reading, otherVars, map>>

\* One of them rejects it, or create_document fails: PermissionDenied is sent.
Deny ==
    /\ rpc \in {"hooks", "creating"}
    /\ rpc' = "cleanEstablished"
    /\ UNCHANGED <<sessionVars, closeVars, key, kind, conn, todo, reading,
                   ready, keyOf, ping, received, map>>

\* Variant: the key stays established.
CleanEstablishedNot ==
    /\ rpc = "cleanEstablished"
    /\ rpc' = "cleanPayload"
    /\ UNCHANGED <<sessionVars, closeVars, key, kind, conn, todo, reading, otherVars, map>>

\* cleanup_document_state
CleanEstablished ==
    /\ rpc = "cleanEstablished"
    /\ established' = established \ {key}
    /\ rpc' = "cleanPayload"
    /\ UNCHANGED <<queue, payloads, halted, closeVars, key, kind, conn, todo, reading, otherVars, map>>

CleanPayload ==
    /\ rpc = "cleanPayload"
    /\ payloads' = payloads \ {key}
    /\ rpc' = "cleanQueue"
    /\ UNCHANGED <<queue, established, halted, closeVars, key, kind, conn, todo, reading, otherVars, map>>

CleanQueue ==
    /\ rpc = "cleanQueue"
    /\ queue' = [queue EXCEPT ![key] = None]
    /\ Idle
    /\ UNCHANGED <<payloads, established, halted, closeVars, todo, reading, otherVars, map>>

\* create_document returns, and the connection is added to the document.
AddConnection(c) ==
    /\ rpc = "creating" /\ Fresh(c)
    /\ keyOf' = [keyOf EXCEPT ![c] = key]
    /\ live' = live \cup {c}
    /\ conn' = c
    /\ rpc' = "insert"
    /\ UNCHANGED <<sessionVars, toClose, closing, callback, key, kind, todo, reading,
                   ready, ping, received, map>>

\* Variant: the connection is stored under the name of the document.
InsertByName ==
    /\ rpc = "insert" /\ Writable
    /\ map' = [map EXCEPT ![Plain[key]] = conn]
    /\ rpc' = "check"
    /\ UNCHANGED <<sessionVars, closeVars, key, kind, conn, todo, reading, otherVars>>

\* Variant: the state of the websocket is checked before the connection is
\* stored.
InsertIfOpen ==
    /\ rpc = "insert" /\ Writable
    /\ IF ready = "open"
         THEN map' = [map EXCEPT ![key] = conn] /\ Goto("check")
         ELSE UNCHANGED map /\ Idle
    /\ UNCHANGED <<sessionVars, closeVars, todo, reading, otherVars>>

Insert ==
    /\ rpc = "insert" /\ Writable
    /\ map' = [map EXCEPT ![key] = conn]
    /\ rpc' = "check"
    /\ UNCHANGED <<sessionVars, closeVars, key, kind, conn, todo, reading, otherVars>>

CloseMapped(a) == toClose' = [toClose EXCEPT ![a] = Mapped]

\* The websocket is closing already: close_all.
Check ==
    /\ rpc = "check"
    /\ IF ready = "open"
         THEN rpc' = "drain" /\ UNCHANGED <<toClose, reading>>
         ELSE rpc' = "closingAll" /\ CloseMapped("reader") /\ reading' = TRUE
    /\ UNCHANGED <<sessionVars, live, closing, callback, key, kind, conn, todo, otherVars, map>>

ClosedAll ==
    /\ rpc = "closingAll" /\ Closed("reader")
    /\ reading' = FALSE
    /\ Idle
    /\ UNCHANGED <<sessionVars, closeVars, todo, otherVars, map>>

\* The messages that were queued.
Drain ==
    /\ rpc = "drain"
    /\ todo' = IF queue[key] = None THEN <<>> ELSE queue[key]
    /\ queue' = [queue EXCEPT ![key] = None]
    /\ rpc' = "deliver"
    /\ UNCHANGED <<payloads, established, halted, closeVars, key, kind, conn, reading, otherVars, map>>

\* They are handed over one by one; then the connected hook runs.
Deliver ==
    /\ rpc = "deliver"
    /\ IF todo = <<>> THEN Idle ELSE Goto("process")
    /\ UNCHANGED <<sessionVars, closeVars, todo, reading, otherVars, map>>

\* Connection::handle_message: a close message, a rejected token and any error
\* close the connection.
Process ==
    /\ rpc = "process"
    /\ \/ Head(todo) # "close" /\ UNCHANGED toClose
       \/ toClose' = [toClose EXCEPT !["reader"] = {conn}]
    /\ rpc' = "processed"
    /\ UNCHANGED <<sessionVars, live, closing, callback, key, kind, conn, todo, reading, otherVars, map>>

Processed ==
    /\ rpc = "processed" /\ Closed("reader")
    /\ todo' = Tail(todo)
    /\ reading' = FALSE
    /\ IF reading THEN Idle ELSE Goto("deliver")
    /\ UNCHANGED <<sessionVars, closeVars, otherVars, map>>

\* A close frame or an error ends the loop: handle_close ...
SocketEnds ==
    /\ rpc = "idle"
    /\ rpc' = "ending"
    /\ CloseMapped("reader") /\ reading' = TRUE
    /\ UNCHANGED <<sessionVars, live, closing, callback, key, kind, conn, todo, otherVars, map>>

\* ... which also aborts the timeout task.
SessionEnds ==
    /\ rpc = "ending" /\ Closed("reader")
    /\ rpc' = "ended" /\ reading' = FALSE
    /\ ping' = "ended"
    /\ toClose' = [toClose EXCEPT !["ping"] = {}]
    /\ closing' = [closing EXCEPT !["ping"] = None]
    /\ ready' = "closed"
    /\ UNCHANGED <<sessionVars, live, callback, key, kind, conn, todo, keyOf, received, map>>
--------------------------------------------------------------------------------
(* The timeout task, and the websocket.                                    *)

\* No message for too long, or none was taken while the hooks of one ran.
Timeout ==
    /\ ping = "asleep"
    /\ ping' = "closing"
    /\ CloseMapped("ping")
    /\ UNCHANGED <<sessionVars, readerVars, live, closing, callback, ready, keyOf, received, map>>

TimeoutEnds ==
    /\ ping = "closing" /\ Closed("ping")
    /\ ping' = "ended"
    /\ UNCHANGED <<sessionVars, readerVars, closeVars, ready, keyOf, received, map>>

\* The sink is closed by Hocuspocus::close_connections, or the writer ends.
SinkCloses ==
    /\ ready = "open"
    /\ ready' = "closing"
    /\ UNCHANGED <<sessionVars, readerVars, closeVars, keyOf, ping, received, map>>
--------------------------------------------------------------------------------
(* The close callback of c, spawned by closer a.                           *)

Step(c, a, from, to) ==
    /\ callback[c][a] = from
    /\ callback' = [callback EXCEPT ![c][a] = to]
    /\ UNCHANGED <<readerVars, live, toClose, closing, otherVars>>

InProgress == {"waiting", "payload", "map", "queue", "established"}

\* Somebody still holds the session.
Alive == rpc # "ended" \/ \E c \in Conns, a \in Closers : callback[c][a] \in InProgress

\* The callback holds the session weakly.
Upgrade(c, a) ==
    /\ Step(c, a, "spawned", IF Alive THEN "waiting" ELSE "lost")
    /\ UNCHANGED <<sessionVars, map>>

\* wait_for_pending_messages; then the disconnect hooks run.
Wait(c, a) ==
    /\ ~ (rpc \in {"process", "processed"} /\ conn = c)
    /\ Step(c, a, "waiting", "payload")
    /\ UNCHANGED <<sessionVars, map>>

ForgetPayload(c, a) ==
    /\ Step(c, a, "payload", "map")
    /\ payloads' = payloads \ {keyOf[c]}
    /\ UNCHANGED <<queue, established, halted, map>>

\* Variant: only a connection that the document still has is forgotten.
ForgetConnectionIfLive(c, a) ==
    /\ Writable
    /\ Step(c, a, "map", "queue")
    /\ map' = IF c \in live THEN [map EXCEPT ![keyOf[c]] = None] ELSE map
    /\ UNCHANGED sessionVars

\* The key is removed, whatever connection it stands for by now.
ForgetConnection(c, a) ==
    /\ Writable
    /\ Step(c, a, "map", "queue")
    /\ map' = [map EXCEPT ![keyOf[c]] = None]
    /\ UNCHANGED sessionVars

ForgetQueue(c, a) ==
    /\ Step(c, a, "queue", "established")
    /\ queue' = [queue EXCEPT ![keyOf[c]] = None]
    /\ UNCHANGED <<payloads, established, halted, map>>

ForgetEstablished(c, a) ==
    /\ Step(c, a, "established", "done")
    /\ established' = established \ {keyOf[c]}
    /\ halted' = halted \ {keyOf[c]}
    /\ UNCHANGED <<queue, payloads, map>>
--------------------------------------------------------------------------------
ReaderStep ==
    \/ Lookup \/ Queueing \/ Payload \/ Examine \/ Push
    \/ Establish \/ GetPayload \/ Accept \/ Deny
    \/ CleanEstablished \/ CleanPayload \/ CleanQueue
    \/ \E c \in Conns : AddConnection(c)
    \/ Insert \/ Check \/ ClosedAll \/ Drain \/ Deliver \/ Process \/ Processed
    \/ SessionEnds

CloserStep(a) == RemoveOne(a) \/ \E c \in Conns : FindOne(a, c)

CallbackStep(c, a) ==
    \/ Upgrade(c, a) \/ Wait(c, a)
    \/ ForgetPayload(c, a) \/ ForgetConnection(c, a)
    \/ ForgetQueue(c, a) \/ ForgetEstablished(c, a)

Next ==
    \/ \E m \in Kinds, k \in Keys : Receive(m, k)
    \/ ReaderStep \/ SocketEnds
    \/ Timeout \/ TimeoutEnds \/ SinkCloses
    \/ \E a \in Closers : CloserStep(a)
    \/ \E c \in Conns, a \in Closers : CallbackStep(c, a)

\* Tasks are polled until they end, the hooks they await return, and tokio's
\* locks are fair: whoever waits for a map that becomes free again and again
\* gets it.  The client and the clock do as they like.  Each message, task and
\* callback takes finitely many steps, so that none is left behind when some
\* step is always taken in the end.
Proceed == ReaderStep \/ TimeoutEnds \/ \E a \in Closers : CloserStep(a)

TakesTurn == Insert \/ \E c \in Conns, a \in Closers : CallbackStep(c, a)

Fairness == WF_vars(Proceed) /\ SF_vars(TakesTurn)

Spec == Init /\ [][Next]_vars /\ Fairness
--------------------------------------------------------------------------------
RPCs == {"idle", "lookup", "queueing", "payload", "examine", "push", "establish",
         "getPayload", "hooks", "setup", "creating", "cleanEstablished", "cleanPayload",
         "cleanQueue", "insert", "check", "closingAll", "drain", "deliver", "process",
         "processed", "ending", "ended"}

\* The types; and a key stands for a connection that was set up for it.
TypeOK ==
    /\ ready \in {"open", "closing", "closed"}
    /\ live \subseteq Conns
    /\ keyOf \in [Conns -> Keys \cup {None}]
    /\ map \in [Keys -> Conns \cup {None}]
    /\ \A k \in Keys : map[k] # None => keyOf[map[k]] = k
    /\ \A k \in Keys : queue[k] = None \/ queue[k] \in Seq(Kinds)
    /\ payloads \subseteq Keys /\ established \subseteq Keys /\ halted \subseteq Keys
    /\ rpc \in RPCs
    /\ key \in Keys \cup {None} /\ kind \in Kinds \cup {None}
    /\ conn \in Conns \cup {None}
    /\ todo \in Seq(Kinds)
    /\ reading \in BOOLEAN
    /\ toClose \in [Closers -> SUBSET Conns]
    /\ closing \in [Closers -> Conns \cup {None}]
    /\ ping \in {"asleep", "closing", "ended"}
    /\ callback \in [Conns -> [Closers ->
           {"none", "spawned", "done", "lost"} \cup InProgress]]
    /\ received \in 0..MaxMessages

\* The reader and the timeout task closed a connection of key k at the same
\* time: its callback runs twice.
ClosedTwice(k) ==
    \E c \in Conns : keyOf[c] = k /\ \A a \in Closers : callback[c][a] # "none"

\* A connection in a document is known to its session, which otherwise could
\* neither give it messages nor ever close it.  The callback removes whatever
\* stands under the key (client_connection.rs:437-440), which is a later
\* connection only after the key was closed twice.
LiveIsTracked ==
    \A c \in live :
        \/ map[keyOf[c]] = c
        \/ rpc = "insert" /\ conn = c
        \/ ClosedTwice(keyOf[c])

\* When the socket is gone no document has a connection of it, also if the
\* timeout task was closing them or the websocket closed during the setup
\* (client_connection.rs:100-113, 550-555); a document with a connection is
\* never unloaded.
EndedLeavesNothing ==
    rpc = "ended" => \A c \in live : ClosedTwice(keyOf[c])

\* A key is never stuck: when it is established without a connection, so that
\* every authentication is queued (client_connection.rs:201), some callback is
\* about to release it.  The exceptions: a closing websocket, whose setup left
\* the queue behind; a key that was closed twice; and one whose authentication
\* ended early, which nothing ever releases (client_connection.rs:216-223).
NotStuck ==
    \A k \in established \ halted :
        rpc = "idle" /\ ready = "open" /\ map[k] = None =>
            \/ ClosedTwice(k)
            \/ \E c \in Conns, a \in Closers :
                   keyOf[c] = k /\ callback[c][a] \in InProgress \cup {"spawned"}

\* A connection that was closed leaves the session, so that the client can
\* authenticate for the document again.
KeyIsFreed ==
    \A c \in Conns :
        keyOf[c] # None /\ c \notin live
            ~> rpc = "ended" \/ \A k \in Keys : map[k] # c
================================================================================
