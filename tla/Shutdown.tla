-------------------------------- MODULE Shutdown --------------------------------
(***************************************************************************)
(* The locks that Server::destroy (server.rs) shares with the tasks it     *)
(* meets: the RwLocks Hocuspocus::configuration and Hocuspocus::documents, *)
(* the execution locks of the debouncer, and the save_mutex of each        *)
(* document.  The tasks that hold one of them while they await another are *)
(* all here: configure(), create_document, the update task of an edit, the *)
(* timer of the debouncer, the close callback of a connection,             *)
(* unload_document, and destroy.  (Other hooks read the configuration and  *)
(* hold nothing else; DirectConnection::disconnect awaits what an update   *)
(* task and an unload await, in that order; who waits for a load or an     *)
(* unload of somebody else holds nothing, see DocumentRegistry.)           *)
(*                                                                         *)
(* The point is the order in which locks are awaited and what is held      *)
(* meanwhile.  What the debouncer knows is left open: once a timer was     *)
(* armed for a document it may fire, and be found or not, at any time, and *)
(* so may an execution (Debouncer and StorePipeline have the details; a    *)
(* timer task that is aborted drops its requests and waits for nobody).    *)
(*                                                                         *)
(* Bounds: a document is opened once, by one task, and has one connection; *)
(* each kind of task runs once at a time for a document.                   *)
(***************************************************************************)
EXTENDS Integers, SequencesExt

CONSTANTS Documents,
          Executions, \* the lock objects the debouncer creates
          Attempts    \* how often destroy polls the number of documents

Words == {"configuration", "documents", "none"}

ASSUME ShutdownAssumption ==
    /\ Words \cap Documents = {} /\ Words \cap Executions = {}
    /\ Documents \cap Executions = {}
    /\ Attempts \in Nat

Destroy == <<"destroy", "server">>
Configure == <<"configure", "server">>
Kinds == {"open", "update", "timer", "close", "unload"}
Tasks == {Destroy, Configure} \cup (Kinds \X Documents)

\* A document stands for its save_mutex.
Locks == {"configuration", "documents"} \cup Documents \cup Executions

VARIABLES
    queue,      \* per lock, its holders and waiters in the order they came
    pc,         \* what each task awaits, or "idle"
    opened,     \* documents that were opened
    registered, \* the keys of Hocuspocus::documents
    connected,  \* documents that have a connection
    armed,      \* documents for which a timer was armed
    running,    \* Debouncer::running_executions
    execution,  \* the lock object each task has a reference to
    at,         \* the document destroy stores
    left,       \* the documents its flush has still to visit
    polls       \* how often destroy has polled

lockVars == <<queue, pc>>
docVars == <<opened, registered, connected>>
debVars == <<armed, running, execution>>
endVars == <<at, left, polls>>
shutdownVars == <<lockVars, docVars, debVars, endVars>>

ShutdownInit ==
    /\ queue \in [Locks -> {<<>>}]
    /\ pc \in [Tasks -> {"idle"}]
    /\ opened = {} /\ registered = {} /\ connected = {} /\ armed = {}
    /\ running \in [Documents -> {"none"}]
    /\ execution \in [Tasks -> {"none"}]
    /\ at = "none" /\ left = {} /\ polls = 0
--------------------------------------------------------------------------------
(* tokio's RwLock and Mutex serve requests in the order they arrive: one   *)
(* is granted when no earlier one conflicts with it.  A reader waits       *)
(* behind a writer that waits.                                             *)

Conflict(a, b) == "write" \in {a.mode, b.mode}

Holds(t, l) ==
    /\ \E i \in DOMAIN queue[l] : queue[l][i].task = t
    /\ \A i \in DOMAIN queue[l] :
         queue[l][i].task = t =>
           \A j \in 1..(i - 1) : ~ Conflict(queue[l][j], queue[l][i])

\* Where the one request of t is.
Position(requests, t) == CHOOSE i \in DOMAIN requests : requests[i].task = t

Take(q, l, t, mode) == [q EXCEPT ![l] = Append(@, [task |-> t, mode |-> mode])]
Drop(q, l, t) == [q EXCEPT ![l] = RemoveAt(@, Position(@, t))]

Go(t, next) == pc' = [pc EXCEPT ![t] = next]

\* Start awaiting l, holding what is held.
Await(t, l, mode, next) ==
    /\ Go(t, next)
    /\ queue' = Take(queue, l, t, mode)

\* Drop the guard of l and start awaiting m: nothing is awaited in between.
Exchange(t, l, m, mode, next) ==
    /\ Go(t, next)
    /\ queue' = Take(Drop(queue, l, t), m, t, mode)

Release(t, l, next) ==
    /\ Go(t, next)
    /\ queue' = Drop(queue, l, t)

\* A hook runner holds configuration.read() until every extension has
\* returned.  The step that takes a task out of such a label is the end of
\* the hooks.
HookEnds(t, label) == pc[t] = label /\ Holds(t, "configuration")
--------------------------------------------------------------------------------
(* configure().  A definition introduced by "Variant" is never part of     *)
(* Next: it is a plausible mistake in the definition after it, which the   *)
(* properties notice.                                                      *)

ConfigureBegin ==
    /\ pc[Configure] = "idle"
    /\ Await(Configure, "configuration", "write", "writing")
    /\ UNCHANGED <<docVars, debVars, endVars>>

ConfigureWrite ==
    /\ pc[Configure] = "writing" /\ Holds(Configure, "configuration")
    /\ Exchange(Configure, "configuration", "configuration", "read", "configured")
    /\ UNCHANGED <<docVars, debVars, endVars>>

ConfigureEnd ==
    /\ HookEnds(Configure, "configured")
    /\ Release(Configure, "configuration", "idle")
    /\ UNCHANGED <<docVars, debVars, endVars>>
--------------------------------------------------------------------------------
(* create_document and load_document                                       *)

OpenBegin(d) ==
    /\ d \notin opened
    /\ opened' = opened \cup {d}
    /\ Await(<<"open", d>>, "documents", "read", "lookup")
    /\ UNCHANGED <<registered, connected, debVars, endVars>>

\* The document is not registered; on_create_document and on_load_document.
OpenLookup(d) ==
    LET t == <<"open", d>> IN
    /\ \/ /\ pc[t] = "lookup" /\ Holds(t, "documents")
          /\ Exchange(t, "documents", "configuration", "read", "creating")
       \/ /\ HookEnds(t, "creating")
          /\ Exchange(t, "configuration", "configuration", "read", "loading")
    /\ UNCHANGED <<docVars, debVars, endVars>>

\* Variant: the guard of the configuration is kept while the connections of
\* the document that failed are closed.
LoadKeeping(d) ==
    LET t == <<"open", d>> IN
    /\ HookEnds(t, "loading")
    /\ \/ Exchange(t, "configuration", "configuration", "read", "loaded")
       \/ Await(t, "documents", "read", "abandoning")
    /\ UNCHANGED <<docVars, debVars, endVars>>

\* on_load_document succeeds, and after_load_document is next, or an extension
\* rejects it: the guard is dropped and close_connections reads the documents.
Load(d) ==
    LET t == <<"open", d>> IN
    /\ HookEnds(t, "loading")
    /\ \/ Exchange(t, "configuration", "configuration", "read", "loaded")
       \/ Exchange(t, "configuration", "documents", "read", "abandoning")
    /\ UNCHANGED <<docVars, debVars, endVars>>

\* close_connections finds no document of that name, nor does unload_document.
Abandon(d) ==
    LET t == <<"open", d>> IN
    /\ \/ /\ pc[t] = "abandoning" /\ Holds(t, "documents")
          /\ Exchange(t, "documents", "documents", "read", "dismissing")
       \/ /\ pc[t] = "dismissing" /\ Holds(t, "documents")
          /\ Release(t, "documents", "idle")
    /\ UNCHANGED <<docVars, debVars, endVars>>

Register(d) ==
    LET t == <<"open", d>> IN
    \/ /\ HookEnds(t, "loaded")
       /\ Exchange(t, "configuration", "documents", "write", "registering")
       /\ UNCHANGED <<docVars, debVars, endVars>>
    \/ /\ pc[t] = "registering" /\ Holds(t, "documents")
       /\ registered' = registered \cup {d}
       /\ Release(t, "documents", "connecting")
       /\ UNCHANGED <<opened, connected, debVars, endVars>>

\* Document::add_connection
Connect(d) ==
    /\ pc[<<"open", d>>] = "connecting"
    /\ connected' = connected \cup {d}
    /\ Go(<<"open", d>>, "idle")
    /\ UNCHANGED <<queue, opened, registered, debVars, endVars>>
--------------------------------------------------------------------------------
(* The store of a document                                                 *)

\* The document a task works for.
Doc(t) == IF t = Destroy THEN at ELSE t[2]

\* From the moment the timers entry is taken to the end of the execution.
Storing == {"entering", "queued", "saving", "storing", "stored", "finishing"}

\* An update is applied and the observer spawns the task that runs on_change.
Edit(d) ==
    /\ d \in connected /\ pc[<<"update", d>>] = "idle"
    /\ Await(<<"update", d>>, "configuration", "read", "changing")
    /\ UNCHANGED <<docVars, debVars, endVars>>

\* store_document_hooks reads the debounce times ...
UpdateTask(d) ==
    /\ HookEnds(<<"update", d>>, "changing")
    /\ Exchange(<<"update", d>>, "configuration", "configuration", "read", "timing")
    /\ UNCHANGED <<docVars, debVars, endVars>>

\* ... drops the configuration and calls debounce(), which arms a timer or, if
\* the first of the coalesced calls is too old, takes over the entry and runs
\* the store itself.
Debounce(d) ==
    LET t == <<"update", d>> IN
    /\ HookEnds(t, "timing")
    /\ \/ armed' = armed \cup {d} /\ Release(t, "configuration", "idle")
       \/ armed' = armed /\ Release(t, "configuration", "entering")
    /\ UNCHANGED <<docVars, running, execution, endVars>>

\* The timer has run down and its task takes the entry out of the map.
Fire(d) ==
    /\ d \in armed /\ pc[<<"timer", d>>] = "idle"
    /\ Go(<<"timer", d>>, "entering")
    /\ UNCHANGED <<queue, docVars, debVars, endVars>>

\* running_executions.entry(id).or_insert(new lock), and its lock is awaited.
Enter(t) ==
    LET d == Doc(t)
        Free == {o \in Executions : queue[o] = <<>>}
    IN
    /\ pc[t] = "entering"
    /\ IF running[d] = "none"
       THEN Free # {} /\ running' = [running EXCEPT ![d] = CHOOSE o \in Free : TRUE]
       ELSE running' = running
    /\ execution' = [execution EXCEPT ![t] = running'[d]]
    /\ Await(t, running'[d], "write", "queued")
    /\ UNCHANGED <<docVars, armed, endVars>>

\* The execution lock is held, and the closure runs: it takes the save_mutex,
\* and on_store_document starts.
Save(t) ==
    /\ \/ /\ pc[t] = "queued" /\ Holds(t, execution[t])
          /\ Await(t, Doc(t), "write", "saving")
       \/ /\ pc[t] = "saving" /\ Holds(t, Doc(t))
          /\ Await(t, "configuration", "read", "storing")
    /\ UNCHANGED <<docVars, debVars, endVars>>

\* An unload of d is spawned; one that has yet to start counts for both.
Spawned(f, d) == [f EXCEPT ![<<"unload", d>>] = IF @ = "idle" THEN "spawned" ELSE @]

\* The extensions have stored the document, and after_store_document is next;
\* or one rejects it: the closure ends, and the document stays unless the
\* rejection only ends the chain.
Store(t) ==
    /\ HookEnds(t, "storing")
    /\ \/ Exchange(t, "configuration", "configuration", "read", "stored")
       \/ /\ LET f == [pc EXCEPT ![t] = "finishing"] IN pc' \in {f, Spawned(f, Doc(t))}
          /\ queue' = Drop(Drop(queue, "configuration", t), Doc(t), t)
    /\ UNCHANGED <<docVars, debVars, endVars>>

\* The closure drops the save_mutex and spawns an unload.
StoreEnds(t) ==
    /\ HookEnds(t, "stored")
    /\ pc' = Spawned([pc EXCEPT ![t] = "finishing"], Doc(t))
    /\ queue' = Drop(Drop(queue, "configuration", t), Doc(t), t)
    /\ UNCHANGED <<docVars, debVars, endVars>>

\* Where a task goes on after a store: the flush visits the next document.
After(t) == IF t = Destroy THEN "flushing" ELSE "idle"

\* running_executions.remove(id), by id: whichever lock object is there.
Finish(t) ==
    /\ pc[t] = "finishing"
    /\ running' = [running EXCEPT ![Doc(t)] = "none"]
    /\ execution' = [execution EXCEPT ![t] = "none"]
    /\ Release(t, execution[t], After(t))
    /\ UNCHANGED <<docVars, armed, endVars>>
--------------------------------------------------------------------------------
(* The last connection leaves, and a document is unloaded                  *)

\* The connection is removed and its callback spawned, which runs
\* on_disconnect.
Disconnect(d) ==
    /\ d \in connected /\ pc[<<"close", d>>] = "idle"
    /\ connected' = connected \ {d}
    /\ Await(<<"close", d>>, "configuration", "read", "leaving")
    /\ UNCHANGED <<opened, registered, debVars, endVars>>

\* The callback of handle_connection: a pending store is run now or left to
\* its timer, which the configuration says; without one the document goes.
Left(d) ==
    LET t == <<"close", d>> IN
    /\ HookEnds(t, "leaving")
    /\ \/ d \in armed /\ Exchange(t, "configuration", "configuration", "read", "deciding")
       \/ Release(t, "configuration", "spawned")
    /\ UNCHANGED <<docVars, debVars, endVars>>

\* execute_now takes the entry, unless the store is left to the timer or there
\* is no entry any more.
Decide(d) ==
    LET t == <<"close", d>> IN
    /\ pc[t] = "deciding" /\ Holds(t, "configuration")
    /\ \E next \in {"idle", "entering"} : Release(t, "configuration", next)
    /\ UNCHANGED <<docVars, debVars, endVars>>

Unloaders(d) == {<<"unload", d>>, <<"close", d>>}

\* should_unload_document, twice: the debouncer or the save_mutex may show
\* pending work, otherwise it is the connections that say.
UnloadBegin(t) ==
    /\ pc[t] = "spawned"
    /\ \/ t[2] \notin connected /\ Await(t, "documents", "read", "checking")
       \/ Go(t, "idle") /\ UNCHANGED queue
    /\ UNCHANGED <<docVars, debVars, endVars>>

\* The document is gone, or somebody else unloads it and is waited for; else it
\* is registered and before_unload_document is next.
UnloadCheck(t) ==
    /\ pc[t] = "checking" /\ Holds(t, "documents")
    /\ \/ Release(t, "documents", "idle")
       \/ t[2] \in registered /\ Exchange(t, "documents", "configuration", "read", "before")
    /\ UNCHANGED <<docVars, debVars, endVars>>

\* before_unload_document was accepted and nothing came up meanwhile, or not.
UnloadDecide(t) ==
    /\ HookEnds(t, "before")
    /\ \/ Release(t, "configuration", "idle")
       \/ /\ t[2] \notin connected
          /\ Exchange(t, "configuration", "documents", "write", "removing")
    /\ UNCHANGED <<docVars, debVars, endVars>>

UnloadRemove(t) ==
    \/ /\ pc[t] = "removing" /\ Holds(t, "documents")
       /\ registered' = registered \ {t[2]}
       /\ Exchange(t, "documents", "configuration", "read", "after")
       /\ UNCHANGED <<opened, connected, debVars, endVars>>
    \/ /\ HookEnds(t, "after")
       /\ Release(t, "configuration", "idle")
       /\ UNCHANGED <<docVars, debVars, endVars>>
--------------------------------------------------------------------------------
(* Server::destroy                                                         *)

DestroyBegin ==
    /\ pc[Destroy] = "idle"
    /\ Await(Destroy, "documents", "read", "counting")
    /\ UNCHANGED <<docVars, debVars, endVars>>

\* Without a document on_destroy is next, otherwise close_connections.
DestroyCount ==
    /\ pc[Destroy] = "counting" /\ Holds(Destroy, "documents")
    /\ IF registered = {}
       THEN Exchange(Destroy, "documents", "configuration", "read", "ending")
       ELSE Exchange(Destroy, "documents", "documents", "read", "closing")
    /\ UNCHANGED <<docVars, debVars, endVars>>

\* close_connections tells every sink to close; connections leave, when their
\* peers answer, as they always may.  flush_pending_stores is next.
DestroyClose ==
    /\ pc[Destroy] = "closing" /\ Holds(Destroy, "documents")
    /\ Exchange(Destroy, "documents", "documents", "read", "gathering")
    /\ UNCHANGED <<docVars, debVars, endVars>>

\* The guard is held to the end of the flush.
FlushBegin ==
    /\ pc[Destroy] = "gathering" /\ Holds(Destroy, "documents")
    /\ left' = registered
    /\ Go(Destroy, "flushing")
    /\ UNCHANGED <<queue, docVars, debVars, at, polls>>

\* is_debounced and execute_now find an entry, which is taken and run, or one
\* of them finds none; registered documents are not loading.
FlushNext(d) ==
    /\ pc[Destroy] = "flushing" /\ d \in left
    /\ left' = left \ {d} /\ at' = d
    /\ \/ d \in armed /\ Go(Destroy, "entering")
       \/ UNCHANGED pc
    /\ UNCHANGED <<queue, docVars, debVars, polls>>

FlushEnd ==
    /\ pc[Destroy] = "flushing" /\ left = {}
    /\ at' = "none"
    /\ Exchange(Destroy, "documents", "documents", "read", "polling")
    /\ UNCHANGED <<docVars, debVars, left, polls>>

\* Variant: one attempt too many.
PollOnceMore ==
    /\ pc[Destroy] = "polling" /\ Holds(Destroy, "documents")
    /\ \/ /\ registered = {} \/ polls > Attempts
          /\ Exchange(Destroy, "documents", "configuration", "read", "ending")
          /\ polls' = polls
       \/ /\ registered # {} /\ polls <= Attempts
          /\ Exchange(Destroy, "documents", "documents", "read", "polling")
          /\ polls' = polls + 1
    /\ UNCHANGED <<docVars, debVars, at, left>>

\* The documents are counted until there is none or the attempts are used up.
Poll ==
    /\ pc[Destroy] = "polling" /\ Holds(Destroy, "documents")
    /\ \/ /\ registered = {} \/ polls = Attempts
          /\ Exchange(Destroy, "documents", "configuration", "read", "ending")
          /\ polls' = polls
       \/ /\ registered # {} /\ polls # Attempts
          /\ Exchange(Destroy, "documents", "documents", "read", "polling")
          /\ polls' = polls + 1
    /\ UNCHANGED <<docVars, debVars, at, left>>

\* on_destroy
DestroyEnd ==
    /\ HookEnds(Destroy, "ending")
    /\ Release(Destroy, "configuration", "ended")
    /\ UNCHANGED <<docVars, debVars, endVars>>
--------------------------------------------------------------------------------
Starts ==
    \/ ConfigureBegin \/ DestroyBegin
    \/ \E d \in Documents : OpenBegin(d) \/ Edit(d) \/ Fire(d) \/ Disconnect(d)

Steps(t) ==
    \/ t = Configure /\ (ConfigureWrite \/ ConfigureEnd)
    \/ t = Destroy /\ ( \/ DestroyCount \/ DestroyClose \/ FlushBegin
                        \/ (\E d \in Documents : FlushNext(d))
                        \/ FlushEnd \/ Poll \/ DestroyEnd )
    \/ \E d \in Documents :
         \/ /\ t = <<"open", d>>
            /\ OpenLookup(d) \/ Load(d) \/ Abandon(d) \/ Register(d) \/ Connect(d)
         \/ t = <<"update", d>> /\ (UpdateTask(d) \/ Debounce(d))
         \/ t = <<"close", d>> /\ (Left(d) \/ Decide(d))
         \/ /\ t \in Unloaders(d)
            /\ UnloadBegin(t) \/ UnloadCheck(t) \/ UnloadDecide(t) \/ UnloadRemove(t)
    \/ Enter(t) \/ Save(t) \/ Store(t) \/ StoreEnds(t) \/ Finish(t)

ShutdownNext == Starts \/ \E t \in Tasks : Steps(t)

ShutdownSpec == ShutdownInit /\ [][ShutdownNext]_shutdownVars
--------------------------------------------------------------------------------
(* Properties                                                              *)

UnloadLabels == {"spawned", "checking", "before", "removing", "after"}

\* Where a task of each kind can be.
Labels(kind) ==
    {"idle"} \cup
    CASE kind = "configure" -> {"writing", "configured"}
      [] kind = "open" -> {"lookup", "creating", "loading", "abandoning", "dismissing", "loaded",
                           "registering", "connecting"}
      [] kind = "update" -> {"changing", "timing"} \cup Storing
      [] kind = "timer" -> Storing
      [] kind = "close" -> {"leaving", "deciding"} \cup Storing \cup UnloadLabels
      [] kind = "unload" -> UnloadLabels
      [] kind = "destroy" -> {"counting", "closing", "gathering", "flushing", "polling", "ending",
                              "ended"} \cup Storing

\* The types; and each task is where its kind can be.
ShutdownTypeOK ==
    /\ queue \in [Locks -> Seq([task : Tasks, mode : {"read", "write"}])]
    /\ DOMAIN pc = Tasks /\ \A t \in Tasks : pc[t] \in Labels(t[1])
    /\ {opened, registered, connected, armed, left} \subseteq SUBSET Documents
    /\ running \in [Documents -> Executions \cup {"none"}]
    /\ execution \in [Tasks -> Executions \cup {"none"}]
    /\ at \in Documents \cup {"none"}
    /\ polls \in 0..Attempts

\* <<t, u>>: a request of t waits behind one of u.
Waits ==
    UNION {{<<q[p[2]].task, q[p[1]].task>> :
              p \in {x \in (1..Len(q)) \X (1..Len(q)) :
                       x[1] < x[2] /\ Conflict(q[x[1]], q[x[2]])}} :
           q \in {queue[l] : l \in Locks}}

\* Nobody waits in a circle, although configure() may queue for the
\* configuration at any moment, openings and unloads queue for the documents,
\* and destroy keeps the documents locked across whole stores: no guard is held
\* while a lock is awaited in an order another task reverses, and none is taken
\* twice (hocuspocus.rs:36-893, debounce.rs:72-120).
NobodyWaitsInACircle ==
    LET waits == Waits IN
    \A S \in (SUBSET {w[1] : w \in waits}) \ {{}} :
      \E t \in S : \A w \in waits : w[1] = t => w[2] \notin S
================================================================================
