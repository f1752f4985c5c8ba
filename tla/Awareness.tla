------------------------------- MODULE Awareness -------------------------------
(***************************************************************************)
(* Awareness (presence) of a Document (document.rs, connection.rs): who is *)
(* there.  Clients announce entries with a clock, the server merges them   *)
(* and tells every connection; the clients first announced over a          *)
(* connection are charged to it, and withdrawn when it is removed.         *)
(*                                                                         *)
(* An entry is a clock and whether there is a state; the merge prefers the *)
(* higher clock and, at the same clock, the withdrawal (yrs).  Merging is  *)
(* idempotent and commutative, so what a client was told is the merge of   *)
(* the frames sent to it.  A client keeps its id when it connects again,   *)
(* and its old connection may stay registered until the server notices.    *)
(***************************************************************************)
EXTENDS Naturals, Sequences

CONSTANTS Clients,
          Speakers,  \* the clients with a presence of their own
          Sockets,   \* how often each client connects, at most
          MaxClock,  \* bound: how far a client counts of its own accord
          MaxInbox   \* bound: messages queued of one connection

ASSUME AwarenessAssumption ==
    /\ Speakers \subseteq Clients
    /\ Sockets \in [Clients -> Nat]
    /\ MaxClock \in Nat /\ MaxInbox \in Nat

\* The connections of a client are numbered as they are made.
Connections == UNION {{c} \X (1..Sockets[c]) : c \in Clients}

VARIABLES
    aware,     \* the awareness of the document; clock 0: it has no meta
    charged,   \* the registered connections, each with its clients
    inbox,     \* message_queue: the updates a connection received
    pc,        \* where the handling of a connection's messages is
    fresh,     \* `added` of the message in hand
    leaving,   \* where remove_connection is
    removed,   \* `removed` of remove_connection
    parting,   \* its update_data
    told,      \* what was sent over a connection, merged
    own,       \* the entry of each client for itself
    socket,    \* the connections each client made so far
    online,    \* the clients whose last connection works at their end
    known      \* history: `aware` when the connection was added

server == <<aware, charged, inbox, pc, fresh, leaving, removed, parting, told>>
client == <<own, socket, online>>
vars == <<aware, charged, inbox, pc, fresh, leaving, removed, parting, told,
          own, socket, online, known>>

Unknown == [clock |-> 0, up |-> FALSE]
Nobody == [d \in Clients |-> Unknown]

Below(e, f) == e.clock < f.clock \/ (e.clock = f.clock /\ (f.up => e.up))
Join(e, f) == IF Below(e, f) THEN f ELSE e

\* An update is a function on the clients, with clock 0 for those it leaves out.
Only(f, D) == [d \in Clients |-> IF d \in D THEN f[d] ELSE Unknown]
Named(m) == {d \in Clients : m[d].clock > 0}

Merge(f, m) == [d \in Clients |-> Join(f[d], m[d])]

Registered == DOMAIN charged
Current(c) == <<c, socket[c]>>
Working(k) == k[1] \in online /\ k = Current(k[1])

\* What was told over a connection that is gone at both ends.
Forgotten(k) == [told EXCEPT ![k] = Nobody]

Init ==
    /\ aware = Nobody
    /\ charged = [k \in {} |-> {}]
    /\ inbox = [k \in Connections |-> <<>>]
    /\ pc = [k \in Connections |-> "new"]
    /\ fresh = [k \in Connections |-> {}]
    /\ leaving = [k \in Connections |-> "no"]
    /\ removed = [k \in Connections |-> {}]
    /\ parting = [k \in Connections |-> Nobody]
    /\ told = [k \in Connections |-> Nobody]
    /\ own = Nobody
    /\ socket = [c \in Clients |-> 0]
    /\ online = {}
    /\ known = [k \in Connections |-> Nobody]
--------------------------------------------------------------------------------
(* The clients *)

Say(c, m) == inbox' = [inbox EXCEPT ![Current(c)] = Append(@, m)]

\* A client connects: add_connection.  The provider announces itself first.
Connect(c) ==
    LET k == <<c, socket[c] + 1>> IN
    /\ c \notin online /\ socket[c] < Sockets[c]
    /\ socket' = [socket EXCEPT ![c] = @ + 1]
    /\ online' = online \cup {c}
    /\ charged' = [j \in Registered \cup {k} |-> IF j = k THEN {} ELSE charged[j]]
    /\ pc' = [pc EXCEPT ![k] = "added"]
    /\ inbox' = [inbox EXCEPT ![k] = IF own[c].up THEN <<Only(own, {c})>> ELSE <<>>]
    /\ known' = [known EXCEPT ![k] = aware]
    /\ UNCHANGED <<aware, fresh, leaving, removed, parting, told, own>>

\* A client changes or renews its state, or withdraws it before it leaves.
Announce(c) ==
    /\ c \in Speakers \cap online /\ own[c].clock < MaxClock
    /\ Len(inbox[Current(c)]) < MaxInbox
    /\ \E up \in {TRUE, ~ own[c].up} :
        own' = [own EXCEPT ![c] = [clock |-> @.clock + 1, up |-> up]]
    /\ Say(c, Only(own', {c}))
    /\ UNCHANGED <<aware, charged, pc, fresh, leaving, removed, parting, told,
                   socket, online, known>>

\* A client told of its own withdrawal counts beyond it and announces itself.
React(c) ==
    LET e == told[Current(c)][c] IN
    /\ c \in online /\ own[c].up /\ ~ e.up /\ Below(own[c], e)
    /\ own' = [own EXCEPT ![c] = [clock |-> e.clock + 1, up |-> TRUE]]
    /\ Say(c, Only(own', {c}))
    /\ UNCHANGED <<aware, charged, pc, fresh, leaving, removed, parting, told,
                   socket, online, known>>

\* A provider sends on what it learns of the others.
Echo(c) ==
    /\ c \in online /\ Len(inbox[Current(c)]) < MaxInbox
    /\ \E d \in Clients \ {c} :
        /\ told[Current(c)][d].clock > 0
        /\ Say(c, Only(told[Current(c)], {d}))
    /\ UNCHANGED <<aware, charged, pc, fresh, leaving, removed, parting, told,
                   client, known>>

\* The network is gone, and with it what was under way to the server, but the
\* server has the connection still.
Drop(c) ==
    /\ c \in online
    /\ online' = online \ {c}
    /\ \E n \in 0..Len(inbox[Current(c)]) :
        /\ pc[Current(c)] \notin {"added", "idle"} => n > 0
        /\ inbox' = [inbox EXCEPT ![Current(c)] = SubSeq(@, 1, n)]
    /\ told' = IF Current(c) \in Registered THEN told ELSE Forgotten(Current(c))
    /\ UNCHANGED <<aware, charged, pc, fresh, leaving, removed, parting, own, socket, known>>
--------------------------------------------------------------------------------
(* The server.  A definition introduced by "Variant" is never part of     *)
(* Next: it is a plausible mistake in the definition after it.             *)

Goto(k, s) == pc' = [pc EXCEPT ![k] = s]

\* Send an update over every registered connection.
TellAll(m) ==
    told' = [k \in Connections |-> IF k \in Registered THEN Merge(told[k], m) ELSE told[k]]

\* The awareness is sent to a connection that was just added, unless that was
\* closed meanwhile; the entries without a state may be left out of it.
InitAwareness(k) ==
    /\ pc[k] = "added"
    /\ Goto(k, "idle")
    /\ \E D \in {Named(aware), {d \in Clients : aware[d].up}} :
        told' = IF k \in Registered
                  THEN [told EXCEPT ![k] = Merge(@, Only(aware, D))]
                  ELSE told
    /\ UNCHANGED <<aware, charged, inbox, fresh, leaving, removed, parting, client, known>>

\* Who is new in the update, after the hook (whose result counts for nothing).
Added(k) ==
    /\ pc[k] = "idle" /\ inbox[k] # <<>>
    /\ fresh' = [fresh EXCEPT ![k] = {d \in Named(Head(inbox[k])) : aware[d].clock = 0}]
    /\ Goto(k, "decoded")
    /\ UNCHANGED <<aware, charged, inbox, leaving, removed, parting, told, client, known>>

\* Variant: the update is taken off the queue as soon as it is applied.
ApplyAndPop(k) ==
    /\ pc[k] = "decoded"
    /\ aware' = Merge(aware, Head(inbox[k]))
    /\ inbox' = [inbox EXCEPT ![k] = Tail(@)]
    /\ Goto(k, "applied")
    /\ UNCHANGED <<charged, fresh, leaving, removed, parting, told, client, known>>

\* Variant: looks for what is new when the update is already in.
ApplyFirst(k) ==
    /\ pc[k] = "decoded"
    /\ aware' = Merge(aware, Head(inbox[k]))
    /\ fresh' = [fresh EXCEPT ![k] = {d \in Named(Head(inbox[k])) : aware'[d].clock = 0}]
    /\ Goto(k, "applied")
    /\ UNCHANGED <<charged, inbox, leaving, removed, parting, told, client, known>>

Apply(k) ==
    /\ pc[k] = "decoded"
    /\ aware' = Merge(aware, Head(inbox[k]))
    /\ Goto(k, "applied")
    /\ UNCHANGED <<charged, inbox, fresh, leaving, removed, parting, told, client, known>>

\* The new clients are charged to the connection, if it is still there.
Charge(k) ==
    /\ pc[k] = "applied"
    /\ charged' = [j \in Registered |-> charged[j] \cup (IF j = k THEN fresh[k] ELSE {})]
    /\ Goto(k, "charged")
    /\ fresh' = [fresh EXCEPT ![k] = {}]
    /\ UNCHANGED <<aware, inbox, leaving, removed, parting, told, client, known>>

\* Variant: tells the others before the update is applied.
BroadcastEarly(k) ==
    /\ pc[k] \in {"decoded", "charged"}
    /\ TellAll(Head(inbox[k]))
    /\ IF pc[k] = "charged"
         THEN Goto(k, "idle") /\ inbox' = [inbox EXCEPT ![k] = Tail(@)]
         ELSE UNCHANGED <<pc, inbox>>
    /\ UNCHANGED <<aware, charged, fresh, leaving, removed, parting, client, known>>

\* What is sent is the update as it came, not what became of it.
Broadcast(k) ==
    /\ pc[k] = "charged"
    /\ TellAll(Head(inbox[k]))
    /\ inbox' = [inbox EXCEPT ![k] = Tail(@)]
    /\ Goto(k, "idle")
    /\ UNCHANGED <<aware, charged, fresh, leaving, removed, parting, client, known>>

\* The first lock of remove_connection; with no clients it is over.
RemoveConnection(k) ==
    /\ k \in Registered
    /\ charged' = [j \in Registered \ {k} |-> charged[j]]
    /\ removed' = [removed EXCEPT ![k] = charged[k]]
    /\ leaving' = [leaving EXCEPT ![k] = IF charged[k] = {} THEN "no" ELSE "withdrawing"]
    /\ told' = IF Working(k) THEN told ELSE Forgotten(k)
    /\ known' = [known EXCEPT ![k] = Nobody]
    /\ UNCHANGED <<aware, inbox, pc, fresh, parting, client>>

\* remove_state: no state, at the next clock; and what is to be said of it.  (An
\* update that got between the two calls would be said too, by its handler.)
Withdraw(k) ==
    /\ leaving[k] = "withdrawing"
    /\ aware' = [d \in Clients |-> IF d \in removed[k]
                                     THEN [clock |-> aware[d].clock + 1, up |-> FALSE]
                                     ELSE aware[d]]
    /\ parting' = [parting EXCEPT ![k] = Only(aware', removed[k])]
    /\ removed' = [removed EXCEPT ![k] = {}]
    /\ leaving' = [leaving EXCEPT ![k] = "announcing"]
    /\ UNCHANGED <<charged, inbox, pc, fresh, told, client, known>>

\* Variant: the remaining connections are not told.
PartSilently(k) ==
    /\ leaving[k] = "announcing"
    /\ leaving' = [leaving EXCEPT ![k] = "no"]
    /\ parting' = [parting EXCEPT ![k] = Nobody]
    /\ UNCHANGED <<aware, charged, inbox, pc, fresh, removed, told, client, known>>

AnnounceParting(k) ==
    /\ leaving[k] = "announcing"
    /\ TellAll(parting[k])
    /\ leaving' = [leaving EXCEPT ![k] = "no"]
    /\ parting' = [parting EXCEPT ![k] = Nobody]
    /\ UNCHANGED <<aware, charged, inbox, pc, fresh, removed, client, known>>
--------------------------------------------------------------------------------
Client(c) == Connect(c) \/ Announce(c) \/ React(c) \/ Echo(c) \/ Drop(c)
Handle(k) == Added(k) \/ Apply(k) \/ Charge(k) \/ Broadcast(k)
Part(k) == Withdraw(k) \/ AnnounceParting(k)

Next ==
    \/ \E c \in Clients : Client(c)
    \/ \E k \in Connections : InitAwareness(k) \/ Handle(k) \/ RemoveConnection(k) \/ Part(k)

Spec == Init /\ [][Next]_vars
--------------------------------------------------------------------------------
Entry == [clock : Nat, up : BOOLEAN]
Updates == [Clients -> Entry]

\* The types; and a message is in hand exactly while one is being handled.
TypeOK ==
    /\ aware \in Updates
    /\ Registered \subseteq Connections /\ charged \in [Registered -> SUBSET Clients]
    /\ inbox \in [Connections -> Seq(Updates)]
    /\ pc \in [Connections -> {"new", "added", "idle", "decoded", "applied", "charged"}]
    /\ fresh \in [Connections -> SUBSET Clients]
    /\ leaving \in [Connections -> {"no", "withdrawing", "announcing"}]
    /\ removed \in [Connections -> SUBSET Clients]
    /\ parting \in [Connections -> Updates]
    /\ told \in [Connections -> Updates]
    /\ own \in Updates
    /\ socket \in [Clients -> Nat] /\ \A c \in Clients : socket[c] <= Sockets[c]
    /\ online \subseteq Clients /\ \A c \in online : socket[c] > 0
    /\ known \in [Connections -> Updates]
    /\ \A k \in Connections : pc[k] \in {"decoded", "applied", "charged"} => inbox[k] # <<>>

\* As long as a client has used a single connection, its presence is charged
\* to that connection as soon as the update is dealt with: an unclean
\* disconnect will be announced (document.rs:315-333).
FirstIsCharged ==
    \A c \in Clients :
        /\ socket[c] = 1 /\ Current(c) \in Registered
        /\ aware[c].clock > 0 /\ pc[Current(c)] # "applied"
        => c \in charged[Current(c)]

\* No connection is told what the server does not know: what a late or
\* repeated update says, the server has merged before it sends it on.
NeverAhead ==
    \A k \in Connections, d \in Clients : Below(told[k][d], aware[d])

Quiet ==
    \A k \in Connections : pc[k] \in {"new", "idle"} /\ inbox[k] = <<>> /\ leaving[k] = "no"

\* When nothing is under way every connection has been told what the server
\* knows, although updates are sent on as they came, by concurrent handlers,
\* and connections come and go meanwhile.  What was withdrawn before a
\* connection was added need not have been told to it.
PeersAgree ==
    Quiet => \A k \in Registered, d \in Clients :
        \/ told[k][d] = aware[d]
        \/ ~ aware[d].up /\ aware[d] = known[k][d]
================================================================================
