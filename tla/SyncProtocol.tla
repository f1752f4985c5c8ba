----------------------------- MODULE SyncProtocol -----------------------------
(***************************************************************************)
(* The sync protocol of a Document and its clients (message_receiver.rs,   *)
(* document.rs, the update observer of hocuspocus.rs).                     *)
(*                                                                         *)
(* A document is a set of operations: insertions, numbered by their        *)
(* author, and deletions of insertions.  yrs and Yjs hold an operation     *)
(* back until the insertions of the same author before it are there.  The  *)
(* state vector counts insertions only.  The clients are Yjs providers:    *)
(* they edit, also off line, and start each connection with a SyncStep1.   *)
(***************************************************************************)
EXTENDS Naturals, Sequences, FiniteSets

CONSTANTS Clients,
          Modes,     \* whether a client's connections may be read-only
          Edits,     \* bound: how many insertions each client makes
          Deletable, \* bound: the insertions that are ever deleted
          Sockets,   \* bound: how often each client connects
          MaxOps     \* bound: how many operations there are

ASSUME SyncAssumption ==
    /\ Modes \in [Clients -> SUBSET BOOLEAN]
    /\ Edits \in [Clients -> Nat] /\ Sockets \in [Clients -> Nat]
    /\ MaxOps \in Nat

Connections == UNION {{c} \X (1..Sockets[c]) : c \in Clients}
Ids == UNION {{c} \X (1..Edits[c]) : c \in Clients}
Ops == {"ins", "del"} \X Ids

VARIABLES
    doc,        \* what the server received
    registered, \* the connections of the document
    readOnly,   \* those that on_authenticate made read-only
    up,         \* what a client sent over a connection: message_queue
    told,       \* the operations on their way to the client (SyncStep2, Update)
    asked,      \* the state vectors on their way to the client (SyncStep1)
    pc,         \* where the handling of a connection's messages is
    tasks,      \* the updates whose broadcast tasks have not run
    replica,    \* what each client has
    socket,     \* the connections each client made so far
    online,     \* the clients whose last connection works at their end
    unanswered, \* how many updates sent on it got no status, while it is
                \* registered
    overstated  \* history: the operations a connection got a positive status
                \* for that the document did not have

vars == <<doc, registered, readOnly, up, told, asked, pc, tasks, replica, socket, online,
          unanswered, overstated>>
statuses == <<unanswered, overstated>>
clients == <<readOnly, replica, socket, online>>

Has(S, c, n) == <<"ins", <<c, n>>>> \in S
StateVector(S) ==
    [c \in Clients |-> Cardinality({n \in 1..Edits[c] : \A i \in 1..n : Has(S, c, i)})]

\* The client and the number of the insertion an operation is about.
Author(o) == o[2][1]
Number(o) == o[2][2]

\* What is not held back.
Visible(S) == {o \in S : Number(o) <= StateVector(S)[Author(o)]}

\* encode_state_as_update: the insertions beyond the state vector, and all
\* the deletions.
Diff(S, sv) == {o \in Visible(S) : o[1] = "del" \/ Number(o) > sv[Author(o)]}

Step1(sv) == [type |-> "step1", sv |-> sv]
Step2(ops) == [type |-> "step2", ops |-> ops]
Update(ops) == [type |-> "update", ops |-> ops]

Current(c) == <<c, socket[c]>>

\* The connections that a frame of the server reaches.
Reached == {k \in registered : k[1] \in online /\ k = Current(k[1])}

Init ==
    /\ doc = {}
    /\ registered = {}
    /\ readOnly = {}
    /\ up = [k \in Connections |-> <<>>]
    /\ told = [k \in Connections |-> {}]
    /\ asked = [k \in Connections |-> {}]
    /\ pc = [k \in Connections |-> "idle"]
    /\ tasks = {}
    /\ replica = [c \in Clients |-> {}]
    /\ socket = [c \in Clients |-> 0]
    /\ online = {}
    /\ unanswered = [c \in Clients |-> 0]
    /\ overstated = [k \in Connections |-> {}]
--------------------------------------------------------------------------------
(* The clients *)

\* add_connection, and the message the provider starts with.
Connect(c) ==
    LET k == <<c, socket[c] + 1>> IN
    /\ c \notin online /\ socket[c] < Sockets[c]
    /\ socket' = [socket EXCEPT ![c] = @ + 1]
    /\ online' = online \cup {c}
    /\ registered' = registered \cup {k}
    /\ \E ro \in Modes[c] : readOnly' = IF ro THEN readOnly \cup {k} ELSE readOnly
    /\ up' = [up EXCEPT ![k] = <<Step1(StateVector(replica[c]))>>]
    /\ UNCHANGED <<doc, told, asked, pc, tasks, replica, statuses>>

SendUpdate(c, m) ==
    /\ up' = [up EXCEPT ![Current(c)] = Append(@, m)]
    /\ unanswered' = IF Current(c) \in registered
                       THEN [unanswered EXCEPT ![c] = @ + 1]
                       ELSE unanswered

\* A client changes its replica, and says so if it is on line.
Change(c, o) ==
    /\ Cardinality(UNION {replica[d] : d \in Clients}) < MaxOps
    /\ replica' = [replica EXCEPT ![c] = @ \cup {o}]
    /\ IF c \in online
         THEN SendUpdate(c, Update({o}))
         ELSE UNCHANGED <<up, unanswered>>
    /\ UNCHANGED <<doc, registered, readOnly, told, asked, pc, tasks, socket, online,
                   overstated>>

Insert(c) ==
    LET n == StateVector(replica[c])[c] + 1 IN
    /\ n <= Edits[c]
    /\ Change(c, <<"ins", <<c, n>>>>)

Delete(c) ==
    \E id \in Deletable :
        /\ <<"ins", id>> \in Visible(replica[c]) /\ <<"del", id>> \notin replica[c]
        /\ Change(c, <<"del", id>>)

\* A client merges what it was sent.
Deliver(c) ==
    LET k == Current(c) IN
    /\ c \in online /\ told[k] # {}
    /\ replica' = [replica EXCEPT ![c] = @ \cup told[k]]
    /\ told' = [told EXCEPT ![k] = {}]
    /\ UNCHANGED <<doc, registered, readOnly, up, asked, pc, tasks, socket, online,
                   statuses>>

\* A client answers a SyncStep1.
Reply(c) ==
    LET k == Current(c) IN
    /\ c \in online
    /\ \E sv \in asked[k] :
        /\ asked' = [asked EXCEPT ![k] = @ \ {sv}]
        /\ SendUpdate(c, Step2(Diff(replica[c], sv)))
    /\ UNCHANGED <<doc, registered, told, pc, tasks, clients, overstated>>

\* The network is gone, with the end of what was under way to the server and
\* all that was under way to the client; the server does not know yet.
Drop(c) ==
    LET k == Current(c) IN
    /\ c \in online
    /\ online' = online \ {c}
    /\ \E n \in 0..Len(up[k]) :
        /\ pc[k] = "idle" \/ n > 0
        /\ up' = [up EXCEPT ![k] = SubSeq(@, 1, n)]
    /\ told' = [told EXCEPT ![k] = {}]
    /\ asked' = [asked EXCEPT ![k] = {}]
    /\ unanswered' = [unanswered EXCEPT ![c] = 0]
    /\ UNCHANGED <<doc, registered, readOnly, pc, tasks, replica, socket, overstated>>
--------------------------------------------------------------------------------
(* The server.  A definition introduced by "Variant" is never part of     *)
(* Next: it is a plausible mistake in the definition after it.             *)

\* send_to_connection: only to a connection the document still has; what is
\* sent to one whose network is gone is lost.
Tell(K, ops) ==
    told' = [k \in Connections |-> IF k \in K \cap Reached THEN told[k] \cup ops ELSE told[k]]

\* A status changes only the client's count: it counts as soon as it is sent.
SendStatus(k, ok, ops) ==
    IF k \in Reached
      THEN /\ unanswered' = [unanswered EXCEPT ![k[1]] = @ - 1]
           /\ overstated' = [overstated EXCEPT ![k] = IF ok THEN @ \cup (ops \ doc') ELSE @]
      ELSE UNCHANGED statuses

InHand(k, types) == pc[k] = "idle" /\ up[k] # <<>> /\ Head(up[k]).type \in types
Pop(k) == up' = [up EXCEPT ![k] = Tail(@)]

\* Variant: the deletions of insertions the client knows are left out.
AnswerAsUpdated(k) ==
    /\ InHand(k, {"step1"})
    /\ Tell({k}, {o \in Visible(doc) : Number(o) > Head(up[k]).sv[Author(o)]})
    /\ pc' = [pc EXCEPT ![k] = "answered"]
    /\ UNCHANGED <<doc, registered, up, asked, tasks, clients, statuses>>

\* SyncStep1: what the client is missing.
Answer(k) ==
    /\ InHand(k, {"step1"})
    /\ Tell({k}, Diff(doc, Head(up[k]).sv))
    /\ pc' = [pc EXCEPT ![k] = "answered"]
    /\ UNCHANGED <<doc, registered, up, asked, tasks, clients, statuses>>

\* Then, as a request of its own, what the server is missing.
AskBack(k) ==
    /\ pc[k] = "answered"
    /\ asked' = IF k \in Reached
                  THEN [asked EXCEPT ![k] = @ \cup {StateVector(doc)}]
                  ELSE asked
    /\ Pop(k)
    /\ pc' = [pc EXCEPT ![k] = "idle"]
    /\ UNCHANGED <<doc, registered, told, tasks, clients, statuses>>

\* apply_update; its observer spawns the broadcast of what became visible.
Receive(ops) ==
    /\ doc' = doc \cup ops
    /\ tasks' = LET news == Visible(doc') \ Visible(doc)
                IN  IF news = {} THEN tasks ELSE tasks \cup {news}

\* Variant: only updates are refused to readers.
ApplyStep2(k) ==
    /\ InHand(k, {"step2", "update"})
    /\ k \in readOnly => Head(up[k]).type = "step2"
    /\ Receive(Head(up[k]).ops)
    /\ SendStatus(k, TRUE, Head(up[k]).ops)
    /\ Pop(k)
    /\ UNCHANGED <<registered, told, asked, pc, clients>>

\* Variant: a SyncStep2 is merged without an acknowledgement.
ApplyQuietly(k) ==
    /\ InHand(k, {"step2", "update"}) /\ k \notin readOnly
    /\ Receive(Head(up[k]).ops)
    /\ IF Head(up[k]).type = "step2"
         THEN UNCHANGED statuses
         ELSE SendStatus(k, TRUE, Head(up[k]).ops)
    /\ Pop(k)
    /\ UNCHANGED <<registered, told, asked, pc, clients>>

\* SyncStep2 and Update of a connection that may write.
Apply(k) ==
    /\ InHand(k, {"step2", "update"}) /\ k \notin readOnly
    /\ Receive(Head(up[k]).ops)
    /\ SendStatus(k, TRUE, Head(up[k]).ops)
    /\ Pop(k)
    /\ UNCHANGED <<registered, told, asked, pc, clients>>

\* Variant: goes on after the refusal, to the comparison.
RefuseAndCompare(k) ==
    /\ InHand(k, {"update"}) /\ k \in readOnly
    /\ doc' = doc
    /\ unanswered' = IF k \in Reached THEN [unanswered EXCEPT ![k[1]] = @ - 2] ELSE unanswered
    /\ Pop(k)
    /\ UNCHANGED <<registered, told, asked, pc, tasks, clients, overstated>>

\* An Update of a read-only connection.
Refuse(k) ==
    /\ InHand(k, {"update"}) /\ k \in readOnly
    /\ doc' = doc
    /\ SendStatus(k, FALSE, Head(up[k]).ops)
    /\ Pop(k)
    /\ UNCHANGED <<registered, told, asked, pc, tasks, clients>>

\* Variant: off by one, the last insertion is taken for known.
CompareLoosely(k) ==
    /\ InHand(k, {"step2"}) /\ k \in readOnly
    /\ doc' = doc
    /\ LET ops == Head(up[k]).ops
           novel == \E o \in ops : o[1] = "ins" /\ Number(o) > StateVector(doc)[Author(o)] + 1
       IN  SendStatus(k, ~ novel, ops)
    /\ Pop(k)
    /\ UNCHANGED <<registered, told, asked, pc, tasks, clients>>

\* A SyncStep2 of a read-only connection: its state vector against the
\* document's.
Compare(k) ==
    /\ InHand(k, {"step2"}) /\ k \in readOnly
    /\ doc' = doc
    /\ LET ops == Head(up[k]).ops
           novel == \E o \in ops : o[1] = "ins" /\ Number(o) > StateVector(doc)[Author(o)]
       IN  SendStatus(k, ~ novel, ops)
    /\ Pop(k)
    /\ UNCHANGED <<registered, told, asked, pc, tasks, clients>>

Close(k) ==
    /\ registered' = registered \ {k}
    /\ unanswered' = IF k = Current(k[1]) THEN [unanswered EXCEPT ![k[1]] = 0] ELSE unanswered

\* A hook rejects the message, or it cannot be decoded: the connection is
\* closed, but its queue goes on being processed.
Reject(k) ==
    /\ pc[k] = "idle" /\ up[k] # <<>>
    /\ Close(k)
    /\ Pop(k)
    /\ UNCHANGED <<doc, told, asked, pc, tasks, clients, overstated>>

\* The connection is closed for another reason.
RemoveConnection(k) ==
    /\ k \in registered
    /\ Close(k)
    /\ UNCHANGED <<doc, up, told, asked, pc, tasks, clients, overstated>>

\* A broadcast task: to every connection there is now, the author's too.
Broadcast(u) ==
    /\ tasks' = tasks \ {u}
    /\ Tell(Connections, u)
    /\ UNCHANGED <<doc, registered, up, asked, pc, clients, statuses>>
--------------------------------------------------------------------------------
Client(c) == Connect(c) \/ Insert(c) \/ Delete(c) \/ Deliver(c) \/ Reply(c) \/ Drop(c)
Handle(k) == Answer(k) \/ AskBack(k) \/ Apply(k) \/ Refuse(k) \/ Compare(k) \/ Reject(k)

Next ==
    \/ \E c \in Clients : Client(c)
    \/ \E k \in Connections : Handle(k) \/ RemoveConnection(k)
    \/ \E u \in tasks : Broadcast(u)

Spec == Init /\ [][Next]_vars
--------------------------------------------------------------------------------
Messages ==
    [type : {"step1"}, sv : [Clients -> Nat]]
        \cup [type : {"step2", "update"}, ops : SUBSET Ops]

\* The types; and a client never gets more statuses than it sent updates.
TypeOK ==
    /\ doc \subseteq Ops
    /\ registered \subseteq Connections /\ readOnly \subseteq Connections
    /\ up \in [Connections -> Seq(Messages)]
    /\ told \in [Connections -> SUBSET Ops]
    /\ asked \in [Connections -> SUBSET [Clients -> Nat]]
    /\ pc \in [Connections -> {"idle", "answered"}]
    /\ tasks \subseteq SUBSET Ops
    /\ replica \in [Clients -> SUBSET Ops]
    /\ socket \in [Clients -> Nat]
    /\ online \subseteq Clients
    /\ unanswered \in [Clients -> Nat]
    /\ overstated \in [Connections -> SUBSET Ops]

Reader(c) == \A i \in 1..socket[c] : <<c, i>> \in readOnly

\* A client all whose connections were read-only changed nothing: what it
\* inserted is neither in the document nor with another client
\* (message_receiver.rs:210-254).
ReadOnlyChangesNothing ==
    \A o \in Ops : Reader(Author(o)) /\ o[1] = "ins" =>
        /\ o \notin doc
        /\ \A c \in Clients : o \in replica[c] => c = Author(o)

\* What is acknowledged is in the document: all of what was sent over a
\* connection that may write, and otherwise the insertions among it
\* (message_receiver.rs:228-266).
AckIsTrue ==
    \A k \in Connections :
        IF k \in readOnly
          THEN \A o \in overstated[k] : o[1] = "del"
          ELSE overstated[k] = {}

Quiet == tasks = {} /\ \A k \in Connections : up[k] = <<>> /\ told[k] = {} /\ asked[k] = {}

Connected == {c \in online : Current(c) \in registered}

\* When nothing is under way a client that is connected shows what the
\* document holds, and a writer nothing else: whatever was lost with earlier
\* connections, rejected, or broadcast in another order than it was applied.
Converged ==
    Quiet => \A c \in Connected :
        /\ Visible(doc) \subseteq Visible(replica[c])
        /\ Current(c) \notin readOnly => Visible(replica[c]) = Visible(doc)

\* ... and every update it sent was answered by a status, which is how a
\* provider knows that there are no unsynced changes.
EveryUpdateAnswered == Quiet => \A c \in Connected : unanswered[c] = 0
================================================================================
