-------------------------------- MODULE WsWriter --------------------------------
(***************************************************************************)
(* The writer task of a websocket (server.rs): TungsteniteWebSocketSink    *)
(* hands commands to an unbounded channel, one task drains it, feeds the   *)
(* frames to the sink half of the socket and flushes when the channel runs *)
(* empty.                                                                  *)
(*                                                                         *)
(* Broadcasts, replies and closes come from any number of tasks; a call    *)
(* of send or close is named by the command it queues.                     *)
(***************************************************************************)
EXTENDS Naturals, Sequences

CONSTANTS Frames,       \* calls of send
          Closes,       \* calls of close
          None,
          SocketMayFail

Commands == Frames \cup Closes

ASSUME WriterAssumption ==
    /\ Frames \cap Closes = {} /\ None \notin Commands
    /\ SocketMayFail \in BOOLEAN

VARIABLES
    state,   \* the WsReadyState shared by the sink and the tasks
    reading, \* the handler of the socket has not left its read loop
    call,    \* where each call is
    channel, \* the commands in the channel
    writer,  \* where the writer task is
    cmd,     \* the command it has received
    fed,     \* what it has handed to the socket
    flushed  \* how much of that is flushed

vars == <<state, reading, call, channel, writer, cmd, fed, flushed>>

Init ==
    /\ state = "open" /\ reading = TRUE
    /\ call = [c \in Commands |-> "new"]
    /\ channel = <<>>
    /\ writer = "parked"
    /\ cmd = None
    /\ fed = <<>> /\ flushed = 0

Goto(c, s) == call' = [call EXCEPT ![c] = s]
--------------------------------------------------------------------------------
(* send and close.                                                         *)

\* The state is read ...
SendCheck(c) ==
    /\ c \in Frames /\ call[c] = "new"
    /\ Goto(c, IF state = "open" THEN "pushing" ELSE "ignored")
    /\ UNCHANGED <<state, reading, channel, writer, cmd, fed, flushed>>

CloseMark(c) ==
    /\ c \in Closes /\ call[c] = "new"
    /\ state' = "closing"
    /\ Goto(c, "pushing")
    /\ UNCHANGED <<reading, channel, writer, cmd, fed, flushed>>

\* ... before the command is pushed, which fails once the receiver is gone.
Push(c) ==
    /\ call[c] = "pushing"
    /\ IF writer = "gone"
         THEN Goto(c, "failed") /\ UNCHANGED channel
         ELSE Goto(c, "accepted") /\ channel' = Append(channel, c)
    /\ UNCHANGED <<state, reading, writer, cmd, fed, flushed>>

\* The call is never made: the task that would make it has dropped the sink,
\* which the handler of the socket holds until it leaves its read loop.
Withdraw(c) ==
    /\ call[c] = "new" /\ ~reading
    /\ Goto(c, "unmade")
    /\ UNCHANGED <<state, reading, channel, writer, cmd, fed, flushed>>

\* The handler leaves its read loop, whatever the writer is doing.
ReadEnds ==
    /\ reading
    /\ reading' = FALSE
    /\ state' = "closed"
    /\ UNCHANGED <<call, channel, writer, cmd, fed, flushed>>
--------------------------------------------------------------------------------
(* The writer task.  A definition introduced by "Variant" is never part of *)
(* Next: it is a plausible mistake in the definition after it.             *)

\* rx.recv
Receive ==
    /\ writer = "parked" /\ channel # <<>>
    /\ cmd' = Head(channel) /\ channel' = Tail(channel)
    /\ writer' = "have"
    /\ UNCHANGED <<state, reading, call, fed, flushed>>

\* Every sender is gone: recv returns None.
ReceiveNone ==
    /\ writer = "parked" /\ channel = <<>>
    /\ ~reading /\ \A c \in Commands : call[c] \notin {"new", "pushing"}
    /\ writer' = "stopping"
    /\ UNCHANGED <<state, reading, call, channel, cmd, fed, flushed>>

\* Variant: the command stays in hand.
FeedKeeping ==
    /\ cmd \in Frames
    /\ writer = "have"
    /\ fed' = Append(fed, cmd)
    /\ writer' = "fed"
    /\ UNCHANGED <<state, reading, call, channel, cmd, flushed>>

\* write.feed
Feed ==
    /\ cmd \in Frames
    /\ writer = "have"
    /\ fed' = Append(fed, cmd)
    /\ cmd' = None
    /\ writer' = "fed"
    /\ UNCHANGED <<state, reading, call, channel, flushed>>

FeedFails ==
    /\ SocketMayFail
    /\ writer = "have" /\ cmd \in Frames
    /\ writer' = "stopping"
    /\ UNCHANGED <<state, reading, call, channel, cmd, fed, flushed>>

\* Variant: the loop goes on after the close frame.
WriteCloseAndGoOn ==
    /\ writer = "have" /\ cmd \in Closes
    /\ fed' = Append(fed, cmd)
    /\ flushed' = Len(fed')
    /\ cmd' = None
    /\ writer' = "fed"
    /\ UNCHANGED <<state, reading, call, channel>>

\* What was fed is flushed, then the close frame is sent, and the loop ends.
WriteClose ==
    /\ writer = "have" /\ cmd \in Closes
    /\ fed' = Append(fed, cmd)
    /\ flushed' = Len(fed')
    /\ cmd' = None
    /\ writer' = "stopping"
    /\ UNCHANGED <<state, reading, call, channel>>

\* Both results are ignored.
WriteCloseFails ==
    /\ SocketMayFail
    /\ writer = "have" /\ cmd \in Closes
    /\ flushed' \in {flushed, Len(fed)}
    /\ writer' = "stopping"
    /\ UNCHANGED <<state, reading, call, channel, cmd, fed>>

\* Variant: nothing left to receive, nothing to flush.
TryReceiveAndPark ==
    /\ writer = "fed"
    /\ IF channel # <<>>
         THEN cmd' = Head(channel) /\ channel' = Tail(channel) /\ writer' = "have"
         ELSE writer' = "parked" /\ UNCHANGED <<cmd, channel>>
    /\ UNCHANGED <<state, reading, call, fed, flushed>>

\* Variant: the last command is taken first.
TryReceiveLast ==
    /\ writer = "fed"
    /\ IF channel # <<>>
         THEN /\ cmd' = channel[Len(channel)]
              /\ channel' = SubSeq(channel, 1, Len(channel) - 1)
              /\ writer' = "have"
         ELSE writer' = "flushing" /\ UNCHANGED <<cmd, channel>>
    /\ UNCHANGED <<state, reading, call, fed, flushed>>

\* rx.try_recv
TryReceive ==
    /\ writer = "fed"
    /\ IF channel # <<>>
         THEN cmd' = Head(channel) /\ channel' = Tail(channel) /\ writer' = "have"
         ELSE writer' = "flushing" /\ UNCHANGED <<cmd, channel>>
    /\ UNCHANGED <<state, reading, call, fed, flushed>>

Flush ==
    /\ writer = "flushing"
    /\ flushed' = Len(fed)
    /\ writer' = "parked"
    /\ UNCHANGED <<state, reading, call, channel, cmd, fed>>

FlushFails ==
    /\ SocketMayFail
    /\ writer = "flushing"
    /\ writer' = "stopping"
    /\ UNCHANGED <<state, reading, call, channel, cmd, fed, flushed>>

\* The state is set, and some time later the task drops the receiver.
Stop ==
    /\ writer = "stopping"
    /\ state' = "closed"
    /\ writer' = "stopped"
    /\ UNCHANGED <<reading, call, channel, cmd, fed, flushed>>

DropReceiver ==
    /\ writer = "stopped"
    /\ writer' = "gone"
    /\ UNCHANGED <<state, reading, call, channel, cmd, fed, flushed>>
--------------------------------------------------------------------------------
Call(c) == SendCheck(c) \/ CloseMark(c) \/ Push(c) \/ Withdraw(c)

Write ==
    \/ Receive \/ ReceiveNone
    \/ Feed \/ FeedFails
    \/ WriteClose \/ WriteCloseFails
    \/ TryReceive
    \/ Flush \/ FlushFails
    \/ Stop \/ DropReceiver

Next == Write \/ ReadEnds \/ \E c \in Commands : Call(c)

\* The writer task is polled as long as the socket takes what it writes.
Fairness == WF_vars(Write)

Spec == Init /\ [][Next]_vars /\ Fairness
--------------------------------------------------------------------------------
\* The types; and the writer has a command in hand only when it goes to write
\* it or has failed to.
TypeOK ==
    /\ state \in {"open", "closing", "closed"}
    /\ reading \in BOOLEAN
    /\ call \in [Commands -> {"new", "unmade", "pushing", "ignored", "accepted", "failed"}]
    /\ channel \in Seq(Commands)
    /\ writer \in {"parked", "have", "fed", "flushing", "stopping", "stopped", "gone"}
    /\ cmd \in Commands \cup {None}
    /\ fed \in Seq(Commands)
    /\ flushed \in 0..Len(fed)
    /\ writer = "have" => cmd # None
    /\ writer \in {"parked", "fed", "flushing"} => cmd = None

\* "Queued behind any already-buffered frames so they flush before the close
\* frame": the close frame is the last thing on the wire, and when it is there
\* everything before it is flushed, also when more than one task closes and
\* others go on sending (server.rs:202-210, 333-338).
CloseIsLast ==
    \A i \in 1..Len(fed) : fed[i] \in Closes => i = Len(fed) /\ flushed = Len(fed)

\* The commands that are accepted, in their order.
InHand == IF cmd = None THEN <<>> ELSE <<cmd>>

Ordered == INSTANCE OrderedDelivery WITH
    Items <- Commands, arrived <- fed \o InHand \o channel, dealt <- fed

\* "frames reach each client in exact send() order": what is written is the
\* beginning of what was accepted, whatever tasks send.
FramesInOrder == Ordered!SafeSpec

\* "idle messages still go out immediately": a frame that is accepted is
\* flushed unless the writer ends, also when no other frame follows.
FramesAreFlushed ==
    \A c \in Frames :
        call[c] = "accepted"
            ~> writer = "gone" \/ \E i \in 1..flushed : fed[i] = c
================================================================================
