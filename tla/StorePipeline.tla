----------------------------- MODULE StorePipeline -----------------------------
(***************************************************************************)
(* From an edit to the storage and out of memory (hocuspocus.rs): the      *)
(* update observer and handle_document_update, store_document_hooks with   *)
(* the closure it hands to the debouncer, the close callback of a          *)
(* connection, DirectConnection::disconnect, flush_pending_stores, and     *)
(* unload_document as seen from one document instance.                     *)
(*                                                                         *)
(* The debouncer is the module Debouncer; its callers are the update task  *)
(* of each edit (debounce), the close callback of each client and the      *)
(* flush of Server::destroy (execute_now), and the disconnect of each      *)
(* direct connection (debounce without a delay).  Every user starts        *)
(* outside and uses the instance at most once; DocumentRegistry models how *)
(* it was created.                                                         *)
(*                                                                         *)
(* What matters of the document and of the stored copy is which edits they *)
(* contain: the CRDT only ever gains edits.                                *)
(***************************************************************************)
EXTENDS Integers, FiniteSets

CONSTANTS Edits, Clients, Directs,
          Flushes,            \* calls of flush_pending_stores
          NoCall,
          DebounceTime, MaxDebounce,
          UnloadImmediately,  \* configuration.unload_immediately
          StoreMayFail,       \* an extension may reject on_store_document
          ChainMayEnd,        \* one may end the chain with SkipFurtherHooksError
          HookMayFail,        \* an extension may reject before_unload_document
          SocketMayDie        \* a session may be dropped before its callback runs

Users == Clients \cup Directs
Calls == Edits \cup Users \cup Flushes

ASSUME PipelineAssumption ==
    /\ NoCall \notin Calls
    /\ Edits \cap Users = {} /\ Clients \cap Directs = {}
    /\ Flushes \cap (Edits \cup Users) = {}
    /\ DebounceTime \in Nat /\ MaxDebounce \in Nat
    /\ {UnloadImmediately, StoreMayFail, ChainMayEnd, HookMayFail, SocketMayDie} \subseteq BOOLEAN

VARIABLES
    timer, age, left, running, pc, inline, lock, doomed,  \* Debouncer
    applied,   \* the edits the document contains
    stored,    \* the edits the stored copy contains
    erred,     \* the edits in some rejected store
    user,      \* where each user is
    fpc,       \* where each call is in the store closure
    saver,     \* save_mutex: the call that holds it
    snap,      \* the edits each store hook has encoded
    loaded,    \* the instance is registered in documents
    unloading, \* unloading_documents has an entry
    upc,       \* where each unload task is
    round,     \* which evaluation of should_unload_document it is in
    flush,     \* where each flush is
    due        \* for the properties: the edits handed over when it began

debVars == <<timer, age, left, running, pc, inline, lock, doomed>>
docVars == <<applied, stored, erred, user>>
storeVars == <<fpc, saver, snap>>
unloadVars == <<loaded, unloading, upc, round>>
flushVars == <<flush, due>>
vars == <<debVars, docVars, storeVars, unloadVars, flushVars>>

D == INSTANCE Debouncer
Copy == INSTANCE StoredCopy

\* An unload is started at the end of a store by the call that executes it,
\* or by a user that leaves.
Tasks == ({"store"} \X Calls) \cup ({"leave"} \X Users)

Init ==
    /\ D!Init
    /\ applied = {} /\ stored = {} /\ erred = {}
    /\ user = [u \in Users |-> "out"]
    /\ fpc = [c \in Calls |-> "start"]
    /\ saver = NoCall
    /\ snap = [c \in Calls |-> {}]
    /\ loaded = TRUE /\ unloading = FALSE
    /\ upc = [t \in Tasks |-> "idle"]
    /\ round = [t \in Tasks |-> 1]
    /\ flush = [f \in Flushes |-> "out"]
    /\ due = [f \in Flushes |-> {}]
--------------------------------------------------------------------------------
(* Users and edits.  A definition introduced by "Variant" is never part of *)
(* Next: it is a plausible mistake in the definition after it, which the   *)
(* properties notice.                                                      *)

\* Document::get_connections_count
Count == Cardinality({u \in Users : user[u] = "open"})

\* create_document finds the instance registered ...
Obtain(u) ==
    /\ user[u] = "out" /\ loaded
    /\ user' = [user EXCEPT ![u] = "got"]
    /\ UNCHANGED <<debVars, applied, stored, erred, storeVars, unloadVars, flushVars>>

\* ... and some time later the connection is added to it.
Connect(u) ==
    /\ user[u] = "got"
    /\ user' = [user EXCEPT ![u] = "open"]
    /\ UNCHANGED <<debVars, applied, stored, erred, storeVars, unloadVars, flushVars>>

\* An update is applied to the document and the observer spawns its task.  A
\* connection that was removed still processes messages until its callback has
\* taken it out of the session.
Edit(e) ==
    /\ e \notin applied
    /\ \/ \E u \in Users : user[u] = "open"
       \/ \E u \in Clients : user[u] \in {"closing", "leaving", "flushing"}
    /\ applied' = applied \cup {e}
    /\ UNCHANGED <<debVars, stored, erred, user, storeVars, unloadVars, flushVars>>

\* Variant: the store of a document that is not registered any more is skipped.
UpdateTaskIfLoaded(e) ==
    /\ e \in applied
    /\ \/ loaded /\ D!Debounce(e, DebounceTime)
       \/ /\ ~ loaded /\ pc[e] = "idle"
          /\ pc' = [pc EXCEPT ![e] = "done"]
          /\ UNCHANGED <<timer, age, left, running, inline, lock, doomed>>
    /\ UNCHANGED <<docVars, storeVars, unloadVars, flushVars>>

\* The update task has broadcast the update and run on_change, and hands the
\* store to the debouncer.
UpdateTask(e) ==
    /\ e \in applied
    /\ D!Debounce(e, DebounceTime)
    /\ UNCHANGED <<docVars, storeVars, unloadVars, flushVars>>

\* Connection::close: the connection leaves the document, its callback is
\* spawned and waits for the messages it still has queued.
CloseConnection(u) ==
    /\ u \in Clients /\ user[u] = "open"
    /\ user' = [user EXCEPT ![u] = "closing"]
    /\ UNCHANGED <<debVars, applied, stored, erred, storeVars, unloadVars, flushVars>>

\* The callback holds the session weakly: a session that is gone by then
\* leaves the document without any further step.
CallbackLost(u) ==
    /\ SocketMayDie
    /\ user[u] = "closing"
    /\ user' = [user EXCEPT ![u] = "closed"]
    /\ UNCHANGED <<debVars, applied, stored, erred, storeVars, unloadVars, flushVars>>

\* The queue is empty; on_disconnect has run; the callback of
\* handle_connection stops if there are connections left.
CallbackCount(u) ==
    /\ user[u] = "closing"
    /\ user' = [user EXCEPT ![u] = IF Count > 0 THEN "closed" ELSE "leaving"]
    /\ UNCHANGED <<debVars, applied, stored, erred, storeVars, unloadVars, flushVars>>

StartUnload(t, r) ==
    /\ upc' = [upc EXCEPT ![t] = "debounced"]
    /\ round' = [round EXCEPT ![t] = r]

\* is_debounced: with a store pending it is flushed or left alone, otherwise
\* the document is unloaded.
CallbackDebounced(u) ==
    /\ u \in Clients /\ user[u] = "leaving"
    /\ \/ /\ timer # NoCall
          /\ user' = [user EXCEPT ![u] = IF UnloadImmediately THEN "flushing" ELSE "closed"]
          /\ UNCHANGED unloadVars
       \/ /\ timer = NoCall
          /\ user' = [user EXCEPT ![u] = "closed"]
          /\ StartUnload(<<"leave", u>>, 2)
          /\ UNCHANGED <<loaded, unloading>>
    /\ UNCHANGED <<debVars, applied, stored, erred, storeVars, flushVars>>

CallbackFlush(u) ==
    /\ user[u] = "flushing"
    /\ D!ExecuteNow(u)
    /\ user' = [user EXCEPT ![u] = "closed"]
    /\ UNCHANGED <<applied, stored, erred, storeVars, unloadVars, flushVars>>

\* DirectConnection::disconnect: remove_direct_connection ...
Disconnect(u) ==
    /\ u \in Directs /\ user[u] = "open"
    /\ user' = [user EXCEPT ![u] = "storing"]
    /\ UNCHANGED <<debVars, applied, stored, erred, storeVars, unloadVars, flushVars>>

\* ... store_document_hooks(immediately), which is awaited ...
DisconnectStore(u) ==
    /\ user[u] = "storing"
    /\ D!Debounce(u, 0)
    /\ UNCHANGED <<docVars, storeVars, unloadVars, flushVars>>

\* ... and the unload, whatever became of the store.
DisconnectUnload(u) ==
    /\ user[u] = "storing" /\ pc[u] = "done"
    /\ user' = [user EXCEPT ![u] = "closed"]
    /\ IF Count = 0 /\ saver = NoCall
         THEN StartUnload(<<"leave", u>>, 2) /\ UNCHANGED <<loaded, unloading>>
         ELSE UNCHANGED unloadVars
    /\ UNCHANGED <<debVars, applied, stored, erred, storeVars, flushVars>>
--------------------------------------------------------------------------------
(* flush_pending_stores, called by Server::destroy: it holds documents for *)
(* reading to its end.                                                     *)

\* The instance is registered; is_debounced.
FlushBegin(f) ==
    /\ flush[f] = "out" /\ loaded
    /\ flush' = [flush EXCEPT ![f] = IF timer # NoCall THEN "storing" ELSE "ended"]
    /\ due' = [due EXCEPT ![f] = {e \in Edits : pc[e] # "idle"}]
    /\ UNCHANGED <<debVars, docVars, storeVars, unloadVars>>

FlushNow(f) ==
    /\ flush[f] = "storing"
    /\ D!ExecuteNow(f)
    /\ UNCHANGED <<docVars, storeVars, unloadVars, flushVars>>

\* Variant: what execute_now runs is not awaited.
FlushEndAtOnce(f) ==
    /\ flush[f] = "storing" /\ pc[f] # "idle"
    /\ flush' = [flush EXCEPT ![f] = "ended"]
    /\ UNCHANGED <<debVars, docVars, storeVars, unloadVars, due>>

FlushEnd(f) ==
    /\ flush[f] = "storing" /\ pc[f] = "done"
    /\ flush' = [flush EXCEPT ![f] = "ended"]
    /\ UNCHANGED <<debVars, docVars, storeVars, unloadVars, due>>
--------------------------------------------------------------------------------
(* The debouncer on its own.                                               *)

DebouncerStep(c) ==
    /\ D!Wake(c) \/ D!Fire(c) \/ D!Lookup(c) \/ D!Acquire(c) \/ D!Clear(c)
    /\ UNCHANGED <<docVars, storeVars, unloadVars, flushVars>>

Clock == D!Tick /\ UNCHANGED <<docVars, storeVars, unloadVars, flushVars>>
--------------------------------------------------------------------------------
(* The closure of store_document_hooks, executed by call c.                *)

At(c, s) == pc[c] = "running" /\ fpc[c] = s
FGoto(c, s) == fpc' = [fpc EXCEPT ![c] = s]

\* The encoded document is dropped when it has been written or was rejected.
DropSnap(c) == snap' = [snap EXCEPT ![c] = {}]

\* A doomed timer task is dropped where it awaits, and with it its guards.
Dropped(c) ==
    /\ fpc[c] # "unlock"
    /\ D!Cancel(c)
    /\ saver' = IF saver = c THEN NoCall ELSE saver
    /\ DropSnap(c)
    /\ UNCHANGED <<docVars, fpc, unloadVars, flushVars>>

\* Variant: no save mutex.
LockSaveFreely(c) ==
    /\ At(c, "start")
    /\ saver' = c
    /\ FGoto(c, "hook")
    /\ UNCHANGED <<debVars, docVars, snap, unloadVars, flushVars>>

LockSave(c) ==
    /\ At(c, "start") /\ saver = NoCall
    /\ saver' = c
    /\ FGoto(c, "hook")
    /\ UNCHANGED <<debVars, docVars, snap, unloadVars, flushVars>>

\* on_store_document encodes the document as it is now ...
Snapshot(c) ==
    /\ At(c, "hook")
    /\ snap' = [snap EXCEPT ![c] = applied]
    /\ FGoto(c, "write")
    /\ UNCHANGED <<debVars, docVars, saver, unloadVars, flushVars>>

\* ... and writes it ...
StoreOk(c) ==
    /\ At(c, "write")
    /\ stored' = snap[c] /\ DropSnap(c)
    /\ FGoto(c, "afterStore")
    /\ UNCHANGED <<debVars, applied, erred, user, saver, unloadVars, flushVars>>

\* ... after_store_document has run, the guard is dropped, and a task that may
\* unload the document is spawned.
AfterStore(c) ==
    /\ At(c, "afterStore")
    /\ saver' = NoCall
    /\ StartUnload(<<"store", c>>, 1)
    /\ FGoto(c, "return")
    /\ UNCHANGED <<debVars, docVars, snap, loaded, unloading, flushVars>>

\* The store is written, but a later extension ends the chain with
\* SkipFurtherHooksError: the unload is spawned before the guard is dropped.
StoreSkip(c) ==
    /\ ChainMayEnd
    /\ At(c, "write")
    /\ stored' = snap[c] /\ DropSnap(c)
    /\ StartUnload(<<"store", c>>, 1)
    /\ FGoto(c, "unlock")
    /\ UNCHANGED <<debVars, applied, erred, user, saver, loaded, unloading, flushVars>>

\* Variant: this path forgets to release the save mutex.
SkipUnlockNever(c) ==
    /\ At(c, "unlock")
    /\ FGoto(c, "return")
    /\ UNCHANGED <<debVars, docVars, saver, snap, unloadVars, flushVars>>

SkipUnlock(c) ==
    /\ At(c, "unlock")
    /\ saver' = NoCall
    /\ FGoto(c, "return")
    /\ UNCHANGED <<debVars, docVars, snap, unloadVars, flushVars>>

\* "Error during storeDocumentHooks. Document stays in memory"
StoreError(c) ==
    /\ StoreMayFail
    /\ At(c, "write")
    /\ erred' = erred \cup snap[c] /\ DropSnap(c)
    /\ saver' = NoCall
    /\ FGoto(c, "return")
    /\ UNCHANGED <<debVars, applied, stored, user, unloadVars, flushVars>>

Return(c) ==
    /\ fpc[c] = "return"
    /\ D!Finish(c)
    /\ UNCHANGED <<docVars, storeVars, unloadVars, flushVars>>
--------------------------------------------------------------------------------
(* should_unload_document and unload_document, task t.                     *)

UGoto(t, s) == upc' = [upc EXCEPT ![t] = s] /\ UNCHANGED round

End(t) ==
    /\ upc' = [upc EXCEPT ![t] = "end"]
    /\ round' = [round EXCEPT ![t] = 1]

\* A task that does not unload: unload_document that has its entry removes it.
GiveUp(t) == IF round[t] = 3 THEN UGoto(t, "clear") ELSE End(t)

\* One of the four reads of should_unload_document, in their order: the task
\* goes on to `next` when the read does not object.
Read(t, here, objects, next) ==
    /\ upc[t] = here
    /\ \/ objects /\ GiveUp(t)
       \/ ~ objects /\ UGoto(t, next)
    /\ UNCHANGED <<debVars, docVars, storeVars, loaded, unloading, flushVars>>

IsDebounced(t) == Read(t, "debounced", timer # NoCall, "executing")
IsExecuting(t) == Read(t, "executing", running # NoCall, "saving")
IsSaving(t) == Read(t, "saving", saver # NoCall, "count")

\* Variant: after the hook the document is checked over and over.
IsUsedAgain(t) ==
    /\ upc[t] = "count"
    /\ \/ Count > 0 /\ GiveUp(t)
       \/ Count = 0 /\ StartUnload(t, round[t] + 1)
    /\ UNCHANGED <<debVars, docVars, storeVars, loaded, unloading, flushVars>>

\* The last read.  A spawned task asks once before it calls unload_document
\* (round 1); unload_document asks at its start (2) and after the hook (3).
IsUsed(t) ==
    /\ upc[t] = "count"
    /\ \/ Count > 0 /\ GiveUp(t)
       \/ Count = 0 /\ round[t] = 1 /\ StartUnload(t, 2)
       \/ Count = 0 /\ round[t] = 2 /\ UGoto(t, "contains")
       \/ Count = 0 /\ round[t] = 3 /\ UGoto(t, "remove")
    /\ UNCHANGED <<debVars, docVars, storeVars, loaded, unloading, flushVars>>

\* The name is registered, and no other task is unloading it; a task that
\* finds one waits for it and returns, which changes nothing here.
Contains(t) ==
    /\ upc[t] = "contains"
    /\ IF loaded THEN UGoto(t, "checkUnloading") ELSE End(t)
    /\ UNCHANGED <<debVars, docVars, storeVars, loaded, unloading, flushVars>>

CheckUnloading(t) ==
    /\ upc[t] = "checkUnloading"
    /\ IF unloading THEN End(t) ELSE UGoto(t, "enter")
    /\ UNCHANGED <<debVars, docVars, storeVars, loaded, unloading, flushVars>>

\* The entry is inserted; the before_unload_document hook runs and passes.
Enter(t) ==
    /\ upc[t] = "enter"
    /\ unloading' = TRUE
    /\ StartUnload(t, 3)
    /\ UNCHANGED <<debVars, docVars, storeVars, loaded, flushVars>>

\* An extension rejects before_unload_document.
Veto(t) ==
    /\ HookMayFail
    /\ upc[t] = "enter"
    /\ unloading' = TRUE
    /\ UGoto(t, "clear")
    /\ UNCHANGED <<debVars, docVars, storeVars, loaded, flushVars>>

\* The documents are written, which a flush holds up.
Remove(t) ==
    /\ upc[t] = "remove"
    /\ \A f \in Flushes : flush[f] # "storing"
    /\ loaded' = FALSE
    /\ UGoto(t, "clear")
    /\ UNCHANGED <<debVars, docVars, storeVars, unloading, flushVars>>

Clear(t) ==
    /\ upc[t] = "clear"
    /\ unloading' = FALSE
    /\ End(t)
    /\ UNCHANGED <<debVars, docVars, storeVars, loaded, flushVars>>
--------------------------------------------------------------------------------
UserStep(u) ==
    \/ CallbackCount(u) \/ CallbackDebounced(u) \/ CallbackFlush(u)
    \/ DisconnectStore(u) \/ DisconnectUnload(u)

CallStep(c) ==
    \/ DebouncerStep(c)
    \/ LockSave(c) \/ Snapshot(c)
    \/ StoreOk(c) \/ AfterStore(c)
    \/ StoreSkip(c) \/ SkipUnlock(c)
    \/ StoreError(c)
    \/ Return(c)

UnloadStep(t) ==
    \/ IsDebounced(t) \/ IsExecuting(t) \/ IsSaving(t) \/ IsUsed(t)
    \/ Contains(t) \/ CheckUnloading(t)
    \/ Enter(t) \/ Veto(t) \/ Remove(t) \/ Clear(t)

Proceed ==
    \/ \E u \in Users : UserStep(u)
    \/ \E e \in Edits : UpdateTask(e)
    \/ \E f \in Flushes : FlushNow(f) \/ FlushEnd(f)
    \/ \E c \in Calls : CallStep(c)
    \/ \E t \in Tasks : UnloadStep(t)
    \/ Clock

Next ==
    \/ \E u \in Users : \/ Obtain(u) \/ Connect(u)
                       \/ CloseConnection(u) \/ CallbackLost(u) \/ Disconnect(u)
    \/ \E e \in Edits : Edit(e)
    \/ \E f \in Flushes : FlushBegin(f)
    \/ \E c \in Calls : Dropped(c)
    \/ Proceed

\* Spawned tasks are polled until they end, the hooks they await return, and
\* the clock advances; users and edits come and go as they like.  Each user,
\* call and task takes finitely many of these steps, so that none of them is
\* left behind when some step of theirs is always taken in the end.
Fairness == WF_vars(Proceed)

Spec == Init /\ [][Next]_vars /\ Fairness
--------------------------------------------------------------------------------
UserPCs == {"out", "got", "open", "closing", "leaving", "flushing", "storing", "closed"}
FPCs == {"start", "hook", "write", "afterStore", "unlock", "return"}
UPCs == {"idle", "debounced", "executing", "saving", "count", "contains",
         "checkUnloading", "enter", "remove", "clear", "end"}

TypeOK ==
    /\ applied \subseteq Edits
    /\ stored \subseteq Edits
    /\ erred \subseteq Edits
    /\ user \in [Users -> UserPCs]
    /\ fpc \in [Calls -> FPCs]
    /\ saver \in Calls \cup {NoCall}
    /\ snap \in [Calls -> SUBSET Edits]
    /\ loaded \in BOOLEAN
    /\ unloading \in BOOLEAN
    /\ upc \in [Tasks -> UPCs]
    /\ round \in [Tasks -> {1, 2, 3}]
    /\ flush \in [Flushes -> {"out", "storing", "ended"}]
    /\ due \in [Flushes -> SUBSET Edits]

\* The save mutex is held by the call that is between taking it and dropping
\* it, also when that call is dropped half-way: nobody finds it locked for
\* ever (hocuspocus.rs:512-536, :558).
SaverIsStoring ==
    \A c \in Calls :
        saver = c <=> pc[c] = "running" /\ fpc[c] \in {"hook", "write", "afterStore", "unlock"}

\* The stored copy goes from one state of the document to a later one:
\* although the debouncer lets two executions for the same document overlap,
\* an older encoding is never written over a newer one (hocuspocus.rs:512), and
\* a store that is refused or aborted half-way leaves the copy as it was.
StoresInOrder == Copy!Spec

\* Call c has still to encode the document, or has encoded e and will write it.
WillStore(c, e) ==
    /\ c \notin doomed
    /\ \/ D!Bears(c)
       \/ pc[c] = "running" /\ fpc[c] \in {"start", "hook"}
       \/ pc[c] = "running" /\ fpc[c] = "write" /\ e \in snap[c]

\* No edit is forgotten: one that is neither stored nor in a rejected store
\* has its update task, or an execution of the store that will include it,
\* ahead of it, whatever is coalesced, aborted, flushed or unloaded.
NoEditForgotten ==
    \A e \in applied \ (stored \cup erred) :
        pc[e] = "idle" \/ \E c \in Calls : WillStore(c, e)

\* A call that is past its sleep and that nobody can abort has e to store.
Underway(e) == \E c \in Calls : WillStore(c, e) /\ pc[c] # "asleep" /\ timer # c

\* The flush found no entry, by is_debounced or by execute_now.
FoundNothing(f) == fpc[f] = "start" /\ pc[f] \in {"idle", "done"}

\* What destroy may rely on when its flush has ended (server.rs:272): an edit
\* that was handed to the debouncer before is stored, or its store was refused.
\* Where the flush found no entry the edit does not wait for the clock, either:
\* a task past its sleep, which nobody aborts, is about to store it.  The
\* exception: a timer task was aborted in the middle of its poll, and the entry
\* it removes by id is that of its successor (debounce.rs:67-70).
FlushedIsStored ==
    \A f \in Flushes : flush[f] = "ended" =>
        \A e \in due[f] :
            \/ e \in stored \cup erred
            \/ FoundNothing(f) /\ (Underway(e) \/ doomed # {})

\* Every edit reaches the storage, unless an extension rejects a store of it.
EveryEditStored == \A e \in Edits : e \in applied ~> e \in stored \cup erred

\* "The document should be unloaded since no connections remain".
UnusedIsUnloaded ==
    (\E u \in Users : user[u] = "closed") /\ (\A u \in Users : user[u] \in {"out", "closed"})
        ~> ~ loaded \/ \E u \in Users : user[u] \in {"got", "open"}
================================================================================
