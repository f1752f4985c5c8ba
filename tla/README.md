# A verification of hocuspocu-rs

hocuspocu-rs is a collaboration server: clients open websockets, authenticate
for documents, exchange Yjs updates, and the server stores the documents. This
directory holds TLA+ models of its concurrent core, the TLC configurations that
check them, and proofs for TLAPS. Paths such as `hocuspocus.rs` stand for
`src/hocuspocu-rs/src/hocuspocus.rs`.

    tlc -workers 2 -config MCDebouncer.cfg MCDebouncer.tla     # a run
    tlapm DebouncerProofs.tla                                  # a proof

`PROJECT.json` lists components, runs, mutants, the source lines of each
definition, findings, hazards and theorems.

## Inventory

| Component (file) | State | Operations | What makes it correct |
| --- | --- | --- | --- |
| Debouncer (`util/debounce.rs`) | `timers`, `running_executions`, both by id; spawned timer tasks | `debounce`, `execute_now`, `is_debounced`, `is_currently_executing` | work is coalesced, never dropped; deferral is bounded; an abort hits only work that has not begun |
| Registry (`hocuspocus.rs`) | `documents`, `loading_documents`, `unloading_documents`, by name | `create_document`, `load_document`, `unload_document` | one load at a time; nobody gets a half-loaded document; one instance per name; no entry left behind |
| Store pipeline (`hocuspocus.rs`, `direct_connection.rs`) | `save_mutex` of a document, stored copy | update observer, `store_document_hooks`, close callback, `disconnect` | every edit is stored; a store never overwrites a newer one; a document in use or unsaved stays |
| Connection (`connection.rs`) | `message_queue`, `processing`, callbacks, `closed` | `handle_message`, `close`, `wait_for_pending_messages` | messages in order, once, none stranded; disconnect after the message in hand |
| ClientConnection (`client_connection.rs`) | four maps by raw key, timeout task | `handle_message`, set-up, `handle_close`, cleanup | a document has only connections its session knows; nothing is left when the socket ends; no key is stuck |
| Websocket sink (`server.rs`) | `WsReadyState`, command channel, writer task | `send`, `close`, writer loop | frames in the order of `send`; nothing after a close frame; idle frames are flushed |
| Document (`document.rs`) | `connections`, direct count, awareness, `save_mutex` | add/remove connection, broadcasts, awareness updates | who is announced is also withdrawn; peers are told what the server knows, and nothing else |
| MessageReceiver (`message_receiver.rs`) | none | sync steps, awareness, stateless, close, token | read-only clients change nothing; acknowledgements are true; replicas agree at rest |
| Server (`server.rs`) | configuration, shutdown channel | `listen`, `destroy` | the flush of `destroy` stores what is pending; nobody waits in a circle |
| Hook runners, configuration (`hocuspocus.rs`, `types.rs`) | `configuration` under an `RwLock` | about thirty `hooks_*`, `configure` | no hook deadlocks with `configure` |
| Codec (`encoding.rs`, `incoming_message.rs`, `outgoing_message.rs`), `hocuspocu-rs-common` | none | var-ints, strings, builders | decode inverts encode |

### How they interact

A reader task per websocket (`Server::handle_websocket`) calls
`ClientConnection::handle_message`. Before authentication it queues; the
`Auth` message runs the hooks, `create_document`, `Document::add_connection`,
and stores a `Connection` under the raw key (document name, `\0`, session id).
Later messages go to that `Connection`, and through `MessageReceiver` to the
CRDT. The update observer spawns a task for each update: it broadcasts through
the sinks, runs `on_change` and calls `store_document_hooks`, which hands a
closure to the `Debouncer`. The closure stores under the `save_mutex` and spawns
an attempt to unload. Closing a connection removes it from the document and
spawns a callback, which runs `on_disconnect`, clears the session's maps and
spawns the attempt to flush or unload. A `DirectConnection` does the same from
inside the process, with a store of its own on `disconnect`.

### What is hard

All of this is tokio tasks on several threads; every `.await` on a lock, a hook
or a timer is a place where another task may go on. State is read under one
lock and used after it is released (the double check of `create_document`, the
four reads of `should_unload_document`, `has_connection` before
`remove_connection`), entries are removed by key rather than by identity
(timers, executions, loads, unloads, connections of a session), tasks are
aborted, closures are spawned and not awaited, and hooks of the user fail.
Nothing is persisted by the server itself. The hazards are listed, with their
lines and properties, in `PROJECT.json`.

## Modules

### Debouncer

One id, since no step touches two. A call of `debounce` or `execute_now` is an
element of `Calls` and `pc` follows it; the timer task that `debounce` spawns
goes on under the name of its caller. `timer` is the `timers` entry, `age` and
`left` are its start and the rest of each sleep in ticks, `running` is the
`running_executions` entry, a lock object named by the call that inserted it,
and `lock` what each call refers to. Which closure a call executes is left out:
all closures handed over for an id store the same document. `debounce` and `execute_now` up to the first
`await` that matters are one action each (they hold `timers` throughout); then
`Wake`, `Fire` (the task removes an entry by id), `Lookup`, `Acquire`, `Clear`
(only `run`), `Finish`. `JoinHandle::abort` drops a suspended task and only
marks one that is being polled: `AbortLeaves` chooses, `doomed` holds the marked
ones, `Cancel` drops one at a later await.

`Tick` waits for the sleeps that are over to be noticed and for their tasks to
remove their entries: time bounds are about the code, not about a runtime that
does not poll. The time a `debounce` caller waits for the `timers` mutex is not
counted.

### DocumentRegistry

One name. An opener is a caller of `create_document`; instance, load lock and
any unload it causes carry its name. Each `await` of `create_document` and
`unload_document` is a step, so that map reads and the acquisition of load locks
interleave as in the code. `result` is what the load lock protects; nobody holds
that lock during the load (`hocuspocus.rs:248-282`), so `AwaitLoad` is never
blocked and may find `None`. `LoadFail` starts the unload that line 353 awaits;
the sockets it closes show as `Close` steps, which may happen anyway. What the
store pipeline has pending is any value of `PendingReads`; `StorePipeline`
models that side. The short hold of the load lock while a result is written is
merged with the write.

### StorePipeline and StoredCopy

One instance, composed with `Debouncer` (`D == INSTANCE Debouncer`), whose calls
are here the update task of each edit, the close callback of each client and the
disconnect of each direct connection. The document is the set of edits in it
(`applied`), the stored copy likewise (`stored`); `Snapshot` encodes and
`StoreOk` writes later, because a store hook does both with awaits in between.
`At(c, s)` is call `c` inside the closure of `store_document_hooks`. The four
reads of `should_unload_document` are four steps of an unload task, asked up to
three times (`round`): by the spawned task, at the start of `unload_document` and
after its hook. `Dropped` is the abort of a task inside the closure; it frees the
`save_mutex`, as dropping the guard does. `UnloadImmediately` is
`configuration.unload_immediately`.

`StoredCopy` is what storing promises, whoever stores: the copy contains nothing
but edits of the document and never loses one, and a refusal touches neither.
`StorePipeline` implements it (`StoresInOrder`).

`Flushes` are calls of `flush_pending_stores`, which `Server::destroy` makes
(`hocuspocus.rs:91-100`). `FlushBegin` is `is_debounced`, `FlushNow` takes the entry
as `execute_now` does and finds one or not, and `FlushEnd` comes when the execution
has ended; until then no document is removed, since the flush holds `documents`.
`due` notes, for the property, which edits were handed to the debouncer before.

Simplifications: `on_store_document` writes everything it encoded or rejects;
an unload task that finds another one just ends (it waits for it in the code);
`is_save_mutex_locked` does not hold the mutex for the moment of its `try_lock`;
the count and the mutex that `disconnect` reads are read in one step, and
`unload_document` reads both again.

### MessageQueue and OrderedDelivery

`OrderedDelivery` is what a queue promises: items are dealt with once and in
order of arrival, and as long as there are some, one is dealt with. In this
repository each `Connection` has one caller of `handle_message`, the reader; the
method is public, takes `&Arc<Self>` and has a queue and a mutex of its own for
concurrent callers, and so the module has any number of them. `Push` is the
critical section of `handle_message`; a call that finds the queue empty takes
`processing` (`Lock`), and loops over `Look`, `Skip` or `Handle` and `Pop`. As in
the code a message stays at the front while it is processed, and a closed
connection goes on processing. `Ordered` maps `arrived` to what was dealt with
and what still waits (`Rest` leaves out the front while it is being popped).

### WsWriter

A call of `send` or `close` reads or sets the state, then pushes (two steps: the
lock on the state is released in between), or is never made (`Withdraw`, once
the handler has left its read loop, `ReadEnds`, and dropped its sink). The writer
is the loop of `handle_websocket`: `Receive`, `Feed`, `TryReceive`, `Flush`, `WriteClose`, `Stop`
(sets the state) and `DropReceiver` (from then on a push fails). A failure of
the socket is a choice, if `SocketMayFail`.

### ClientSession

The reader of one websocket, the timeout task and the close callbacks. `rpc`
is where the reader is in `handle_message`; each acquisition of one of the maps
is a step. `Plain` gives the key without session id, which the lookup falls back
to (`client_connection.rs:141`). A reader that hands over a message holds
`document_connections` for reading (`reading`), and so does the timeout task while
it closes; writers wait (`Writable`). `FindOne` and `RemoveOne` are the two
halves of `Connection::close`. A callback goes from `spawned` through `Upgrade`
(the session may be gone: `lost`), `Wait` and four removals. The messages of a
connection are in `MessageQueue`; here a message matters only by whether it
closes the connection.

Messages are well-formed, but for an authentication that ends before its token:
it is dropped after its key was established (`Establish`,
`client_connection.rs:209-223`), and `halted`, for the properties, notes that key
until it is released. The stream of a socket ends with a close frame or an
error, as tungstenite's does. The state of the websocket when the writer ends
by itself is `SinkCloses`.

### Awareness

One document. `aware` is its yrs awareness, `charged` the `clients` of each
`ConnectionEntry`, and the handling of an awareness message is four steps,
`Added`, `Apply`, `Charge`, `Broadcast`, one for each lock or await of
`apply_awareness_update`; `remove_connection` is three. Handlers of different
connections and the removals interleave. External, from how the code uses yrs
and from what providers send: an entry is a clock and whether there is a state;
merging takes the higher clock and prefers the withdrawal at the same clock
(`Below`), `remove_state` counts on and keeps the meta, `update()` may leave
out entries without a state. Merging is idempotent and commutative, so what a
connection was told is kept as the merge of the frames sent to it (`told`),
which also stands for frames that arrive late or repeated. A provider announces
itself first, echoes what it learns of others, and contradicts a withdrawal of
itself; clocks start at 1.

### SyncProtocol

One document and its providers, which edit on line and off line and begin each
connection with a SyncStep1. Operations are insertions, numbered by author, and
deletions; yrs and Yjs hold back what misses a predecessor (`Visible`), and
state vectors count insertions only, which `Compare` inherits. `Answer` and
`AskBack` are the two halves of a SyncStep1, `Apply`, `Refuse` and `Compare` the
three ways of a SyncStep2 or Update, `Broadcast` the task the observer spawns.
`Reject` is a hook that refuses a message: the connection is closed and the queue
goes on (`connection.rs:373-376`, `445-451`). Statuses, replies and broadcasts reach a
connection only while it is registered and its network works. What is on its way
to a client is merged at once, so it is kept as a set (`told`). A SyncStep1 counts
as one message; the update observer is not called for what is held back.

### Shutdown

The locks that `Server::destroy` shares with the tasks it meets: the configuration,
the documents, the execution locks of the debouncer and the save mutexes. Each
lock is a queue of holders and waiters in order of arrival (tokio's locks are
FIFO: a reader waits behind a waiting writer), and a request is granted when no
earlier one conflicts (`Holds`). `pc` names what each task awaits; `Exchange` drops
one guard and starts awaiting the next. `HookEnds` is the end of a hook runner,
which holds `configuration.read()` across all extensions. `running` is
`running_executions`, where `Enter` finds or inserts a lock object and `Finish`
removes whichever is there (`debounce.rs:85`, `119`), so that executions for one
document may be queued at different objects.

The module is about the order of the locks and nothing else; what decides
otherwise is left open. Once a timer was armed it may fire, and a flush or a close
callback may find its entry or not, at any time; `should_unload_document` may
answer as it likes, except that connections count. Each document is opened once,
and one task of each kind runs at a time for a document. Hooks are
assumed not to call the server: one that opens or unloads a document reads the
configuration again under its own guard, and with a `configure()` queued between
the two both would wait for ever; the model says nothing about such hooks.

## Runs

All expected to pass, unless a finding says otherwise. The mutants show that
each property can fail: the definition ending in the name given there
("Variant" in the modules) replaces the one after it.

| Run | Bounds | What it shows |
| --- | --- | --- |
| Debouncer | 4 calls, delay 1 or 0, max 2; deadlock checked | `BoundedDeferral`: less than max + delay. `NoDroppedWork`: outstanding work ends only by an execution. `WorkRuns`, `CallersReturn` |
| DocumentRegistry | 2 openers, 1 storer; all failures | `LoaderOwnsEntry`, `OnlyLoadedHandedOut`, `UnloadingEntryIsLive`, `CallsReturn` |
| StorePipeline | 3 edits, 1 client, debounce 0; everything may fail | `SaverIsStoring`, `NoEditForgotten`, `StoresInOrder` (refinement) |
| StorePipelineDirect | 1 edit, 1 client, 1 direct connection, 1 flush, two of these three at a time; debounce 1, unload at once; everything may fail; up to the store of the edit | `FlushedIsStored`, `EveryEditStored` |
| MessageQueue | 4 messages, 1 foreign | `NoneStranded`, `DisconnectAfterMessage`, `DeliversInOrder` (refinement, with liveness) |
| WsWriter | 3 frames, 2 closes; socket may fail | `CloseIsLast`, `FramesInOrder` (refinement), `FramesAreFlushed` |
| ClientSession | 2 keys of one document, 2 connections, 3 messages, which may end early | `LiveIsTracked`, `EndedLeavesNothing`, `NotStuck`, `KeyIsFreed` |
| Awareness | 1 client with 2 connections, 1 that watches; clocks to 2, 1 message queued each | `FirstIsCharged`, `NeverAhead`, `PeersAgree` |
| SyncProtocol | 1 writer with 2 connections, 1 client that may be read-only; 2 operations | `ReadOnlyChangesNothing`, `AckIsTrue`, `Converged`, `EveryUpdateAnswered` |
| Shutdown | 2 documents, 3 lock objects of the debouncer, 1 poll; at most 4 tasks under way, 2 of them storing | `NobodyWaitsInACircle` |
| RegistrySameDocument | 2 openers, nothing fails | fails: two callers get different instances |
| PipelineUnusedIsUnloaded | 1 edit, 1 client | fails: the one attempt to unload sees its own store executing |

Why the bounds are enough. Debouncer: an armed task, a call that replaces or
flushes it and one that arms behind an execution is the smallest company in which
every removal by id hits another's entry. Registry: two loads and three
unloads, so that an unload can overwrite and remove another's entry while a third
waits. Pipeline:
two executions overlap only with a third call: the first removes the lock
object the second waits for, and the third inserts another; that takes three
edits, and debounce 0, where every call executes itself. Timers that coalesce,
fire and are flushed are in the run with the direct connection, whose
`disconnect` unloads while the edit of the client is on its way, and four at a
time in the debouncer's. That run has two state constraints: it does not go on from
a state where the edit is stored or in a rejected store (`SomeEditUnstored`), where
both of its properties hold for good, as no step takes an edit out of either; and
of the client, the direct connection and the flush two take part (`TwoAtMost`, a
bound). Queue: one call that processes, one that finds the queue
non-empty, one that arrives as it empties and a message to skip. Writer: a
frame before, between and behind two closes. Session: a key that is set up,
closed by reader or timeout or both, and set up again under the same or the
other key. Awareness: the client with two connections is there under its old and
its new one while the other echoes what it was told of either, and clocks are
counted on by withdrawals beyond the bound. Sync: an update that is lost or
rejected, the one that depends on it, and the connection that makes up for
both; a reader whose edits nobody may have. Shutdown: one document is edited, left
and stored, the other is opened (`OneEdited`), and up to four tasks are under way
(`Few`), which is enough for circles through all kinds of lock. What is proved as
well, for any number, is under Proofs.

Two runs have a view and two a constraint, which leave out states that behave as
others do. `MCShutdown!View` forgets in which order readers that follow one another
queue for a lock: they do not conflict, so who is granted a lock and who waits for
whom is the same; and it tells the lock objects of the debouncer apart only by who
has queued for them. `MCSyncProtocol!View` keeps of the registered connections those
that frames reach (`Reached`): on any other one nothing can be sent or counted.
`MCDebouncer!InTurn` and `MCClientSession!InTurn` let calls begin, or connections be
made, in one order: they differ in their names only, so each behaviour is one of
those with the names exchanged.

Deadlock is checked for the debouncer, which has a step for the end of all work
(`Quiescent`). The other systems stop when their finite supply of calls, edits,
messages or connections is used up, and liveness properties say what must not
stay undone; `NobodyWaitsInACircle` says that it is not a deadlock that stops
`Shutdown`.

Some properties name exceptions, because the code has them. `PeersAgree`: what
had been withdrawn before a connection was added need not be told to it (`known`).
`Converged`: a reader keeps its own edits. `AckIsTrue`: of an answer to a SyncStep1
over a read-only connection only the insertions count. `FlushedIsStored`: stores an
extension refused; and where the flush found no entry, the edit is still to be
stored by a task that is past its sleep and that nobody can abort, or else a timer
task was aborted in the middle of its poll, which may take the entry of its
successor with it (`debounce.rs:67-70`).
`ClientSession`: a key whose connection was closed twice at the same time
(`ClosedTwice`, `connection.rs:261-266`; its second callback may forget a later
connection), a session whose websocket is closing (the early return at
`client_connection.rs:552-555` leaves the queue behind), a message dropped
because its payload was removed, and a key whose authentication ended early
(`halted`): the code leaves it established with nobody to release it.

## Fairness

Weak fairness of the steps of each spawned task and of each call that has begun:
tokio polls what is ready. `StorePipeline` and `ClientSession` state it for the
steps of all tasks together (`Proceed`, `TakesTurn`): each task takes finitely
many steps there, so that one that could go on for ever without being polled would
be the only one left, and it says the same. The hooks are the user's code and are assumed to
return, without which nothing can be promised. Strong fairness where a task waits
for a tokio mutex or the write side of an `RwLock` (`MessageQueue!Lock`,
`Callback`, `ClientSession!Insert` and the callbacks): both are FIFO-fair. `Tick`
is weakly fair: time goes on. Nothing obliges anybody to call, edit, connect,
close or fail, nor a socket to fail. `Awareness`, `SyncProtocol` and `Shutdown` state
safety only, of states at rest where that is what convergence means.

## Proofs

Each proof module extends its component (`ServerProofs` both modules of
`server.rs`, `WsWriter` and `Shutdown`); the theorems hold for all values of the
constants that satisfy the named assumption of the component (identities are
distinct, delays are natural numbers). Each follows the same argument: `IInv`
holds initially, one lemma per group of actions shows that a step preserves it,
and the last step is temporal.

- `DebouncerProofs`. `TimerIsPending` (an abort never hits work that has begun;
  proved here, no run repeats it) needs to know that inline calls and marked
  tasks are never asleep (`Kinds`), and `BoundedDeferral` is not inductive: the
  invariant is that age plus remaining sleep stays below the bound (`Budget`).
  `WorkIsNotDropped` is an action property: a step that ends the last call that
  bears work begins an execution.
- `DocumentRegistryProofs`. `OnlyLoadedHandedOut` needs what `result` is at each
  step (`ResultMatches`), `UnloadingEntryIsLive` that an opener's unload has not
  started before it is needed (`UnloadNotStarted`). `LoadsAreFinal`: what is in a
  load lock is not overwritten, so all who wait for a load learn the same.
- `StorePipelineProofs`. The debouncer's actions are used inside this module; that
  an abort hits only sleeping or woken calls comes from the same invariant as
  above. `NoEditForgotten` follows edit by edit: whoever takes work away from a
  call has it itself. `ImplementsStoredCopy`: the holder of the save mutex has a
  snapshot that contains all that is stored, and every step is one of `StoredCopy`
  or a stutter. `UsesDebouncer`: the pipeline
  implements the safety part of `Debouncer`; hence its bound on the deferral and
  `NoDroppedWork` hold of the debouncer as it is really used. `FlushStores`: an edit
  that was due when the flush began has a store ahead of it, which the flush takes
  over when it finds the entry and then awaits; where it finds none, the store is
  in nobody's entry, and so past its sleep.
- `MessageQueueProofs`, and `ServerProofs` about `WsWriter`. The invariants of the queues, and that
  the steps are steps of `OrderedDelivery` or stutter under the refinement
  mapping; lemmas on what appending to a sequence and moving its front do.
  `IdleIsFlushed`: what was accepted is in the channel, in hand or written, and the
  writer waits for a command only after a flush (`Carried`).
- `SyncProtocolProofs`. `ReadersChangeNothing`: what is `Barred` are the
  insertions of clients that never had a connection that may write; the
  invariant says that they are in no replica but their author's, in no message of
  somebody else, in no task and not in the document (`NothingBarred`, `OnlyUsed`).
  `AcksAreTrue`: a state vector counts a prefix, so that what it counts is there
  (`Counted`). That a step keeps both also needs that
  a SyncStep1 half answered is still at the front of its queue (`HalfAnswered`).
  `Convergence` and `UpdatesAreAnswered` speak of states at rest only; their
  inductive form (`Exchange`, proved on top of the other) says of every state
  where the missing operations are: a client has the document, or it is on its
  way down, or the client's SyncStep1 is still to be answered (`CatchesUp`); the
  document has what a writer has, or the writer is still to be asked or has a
  message on its way up that contains it (`Delivers`). That a client holds back
  only what the document has (`HeldBack`) makes the two replicas *show* the same
  when they hold the same, and `Counts` counts the messages that still deserve a
  status.
- `AwarenessProofs`. `NobodyIsAhead`: entries are ordered, `aware` only goes up in
  that order, and an update that has been applied stays covered by it until it is
  sent on (`Merged`); an entry with a state has a clock (`Proper`).
  `NewcomersAreCharged` needs that first: because a client can say of others only
  what it was told, nobody is heard of before its own first connection says so
  (`FirstHand`), and the handler of that update has noted it before it applies
  it (`Charges`). `EverybodyKnows` follows from `Debts`: what a connection was not
  told is said by somebody who has merged it and not broadcast yet, or is a
  withdrawal from before its time.
- `ClientSessionProofs`. What keeps the connections of a key apart is the set of
  established keys, and the invariant says how it does so: a key stays
  established until the callback of its connection removes it, which is the
  last thing it does (`OneAtATime`). Hence the entry of the key in
  `document_connections` belongs to that connection until its own callback
  removes it (`Tracked`), a key with a queue has the payload its set-up will look
  for (`Paid`), and whoever established a key is setting it up or has a callback
  ahead (`Released`). `Leaving` follows the loop that closes all connections at
  the end of the socket, which finds them because they are `Tracked`. A key that was
  closed twice is excepted throughout, as in the properties, and a `halted` one from
  `Released`. Without that exception
  hold `EntriesAreNotReplaced` and `ClosedIsForgotten`: the key that is being set up
  stays without an entry until the insertion, nobody can close the connection
  before, and a connection that left its document has a callback that has not yet
  come to the map as long as it is in it (`Forgetting`).
- `ServerProofs` about `Shutdown`. `NobodyDeadlocks`: the invariant says where a
  task of each kind can be (`Places`), that what it has in the queues of the locks
  is what its label needs, once each, and that all but one of these are granted:
  the last in the order documents, execution lock, save mutex, configuration
  (`Order`). Suppose some tasks wait in a circle, and one of them awaits the lock
  l. The first of those that do in the queue of l waits behind a task of the circle
  that has l and awaits a lock later in that order, and so on for ever, but there
  are four ranks. That the debouncer's lock objects are replaced by id does not
  matter: two of them are never held by one task. Hooks that call the server would
  break the order and are excluded (see the module's section).

Only model-checked: every liveness property (`WorkRuns`, `CallersReturn`,
`CallsReturn`, `EveryEditStored`, `FramesAreFlushed`, `KeyIsFreed`, the liveness
part of `DeliversInOrder`), which is out of the prover's reach; `IdleIsFlushed` and
`ClosedIsForgotten` are what two of them need besides fairness. The two properties
that are expected to fail are left to TLC as well.

## Not modelled

Codec, message builders and shared types: pure and sequential, messages are
records here. The accept loop and HTTP: I/O. The extensions: their outcomes are
choices, and they are assumed not to call the server from a hook that holds the
configuration. Stateless and token messages: they change no state of the server;
a query for awareness that comes over a websocket gets no answer, since
`process_messages` passes no `reply`. Two instances of one name that share a
debounce id and the stored copy: `SameDocument` shows how a second one arises; the
pipeline, the sync protocol and the shutdown look at one instance per name.

Observations without a run.

- Between an update and its `debounce` the pending store shows in no read of
  `should_unload_document` (`hocuspocus.rs:375-385`, `553-561`): a document can be
  unregistered while it contains an edit that is stored only later.
  `EveryEditStored` and `NoEditForgotten` hold all the same.
- A client that comes back under its id has meta left (`document.rs:318`) and is
  not charged to its new connection, whose unclean end announces nobody; the
  comment at `document.rs:202-207` has no such exception. Hence `FirstIsCharged`
  stops at the first connection.
- `message_receiver.rs:228-229` says "only if the update contains no novel data";
  state vectors do not count deletions, so a SyncStep2 with nothing but novel
  deletions is acknowledged (230-248). `AckIsTrue` says so.
- When `on_authenticate` fails the session sends PermissionDenied and the
  websocket stays open (`client_connection.rs:286`), while `src/README.md:96`
  says that it closes.
- A caller of `create_document` that loses the double check and finds no result
  fails with "Document load failed concurrently" (`hocuspocus.rs:263`) although no
  load failed.
- An authentication message that ends early leaves its key established without a
  connection (`client_connection.rs:216-223`): later messages of the key are queued
  and never answered. `NotStuck` excepts it by name.
- Stores that a timer or another execution took over are not awaited by `destroy`.
  A store shows in no read of `should_unload_document` between
  `debounce.rs:69` and `75`, between `126` and `105`, and, when an execution that ends
  has removed the entry (`85`, `119`), while another still waits at `80` or `108`. An
  unload in these gaps unregisters the document, and `on_destroy` may run before the
  store. Hence `FlushedIsStored` speaks of the end of the flush, and of nothing later.
- The observer passes `None` as origin (`hocuspocus.rs:383-384`), so that
  `should_skip_store_hooks` never skips.
- `destroy` returns at once when nothing is registered, also while a document is
  being loaded (`server.rs:268`).

## Plan

Done, in this order: `Debouncer`, `DocumentRegistry`, `StorePipeline` (composes
`Debouncer`), `OrderedDelivery`, `MessageQueue`, `WsWriter` (both implement
`OrderedDelivery`), `ClientSession`, `Awareness`, `SyncProtocol` and `Shutdown`, all
with their proofs, and `StoredCopy`, which `StorePipeline` implements.

Next:

1. `Lifecycle`: registry and pipeline with two instances of one name, loads that
   read the stored copy; abstract specification: a document that clients see
   never loses a stored edit.
