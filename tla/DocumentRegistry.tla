--------------------------- MODULE DocumentRegistry ---------------------------
(***************************************************************************)
(* The document registry of hocuspocu-rs (hocuspocus.rs): create_document, *)
(* load_document and unload_document working on the maps documents,        *)
(* loading_documents and unloading_documents.                              *)
(*                                                                         *)
(* The three maps are keyed by the document name and no step touches two   *)
(* names, so the module follows one name.  An opener is one caller of      *)
(* create_document (a client session or a direct connection); the document *)
(* instance it creates and the load lock it inserts bear its name.  An     *)
(* unload of the opener's document (after its load failed, or after its    *)
(* connection closed) runs under the opener's name too; a storer is an     *)
(* unload task spawned at the end of a store.                              *)
(*                                                                         *)
(* Whether the store pipeline has work pending for the name is read from   *)
(* the debouncer and from the save mutex: here any value in PendingReads.  *)
(* StorePipeline models that side.                                         *)
(***************************************************************************)
EXTENDS Integers, FiniteSets

CONSTANTS Openers, Storers,
          None,           \* "no entry in the map"
          PendingReads,   \* what a look at the store pipeline may say
          LoadMayFail,    \* an extension may reject on_load_document
          HookMayFail,    \* an extension may reject before_unload_document
          MayClose        \* connections may close

Tasks == Openers \cup Storers

ASSUME RegistryAssumption ==
    /\ None \notin Tasks
    /\ Openers \cap Storers = {}
    /\ PendingReads \subseteq BOOLEAN
    /\ {LoadMayFail, HookMayFail, MayClose} \subseteq BOOLEAN

VARIABLES
    documents,  \* documents[name]: the registered instance
    loading,    \* loading_documents[name]: the load lock
    result,     \* what each load lock protects: "none", "ok" or "error"
    unloading,  \* unloading_documents[name]: the unload lock, by its task
    pc,         \* where each opener is
    lock,       \* the load lock an opener waits for
    handle,     \* the instance create_document gave each opener
    upc,        \* where each unload task is
    udoc,       \* the instance each unload task is about
    ulock       \* the unload lock an unload task waits for

openVars == <<documents, loading, result, pc, lock, handle>>
vars == <<documents, loading, result, unloading, pc, lock, handle, upc, udoc, ulock>>

\* The opener has the entry of loading_documents.
Loading == {"load", "unloadFailed", "publishError", "publish", "register", "clearLoading"}
\* The opener is inside create_document.
Creating == Loading \cup {"checkLoading", "awaitLoad", "recheck", "insert",
                          "awaitOther", "recheckOther"}
\* The opener has its document.
Holding == {"got", "open", "closed"}

PCs == {"idle", "failed"} \cup Creating \cup Holding

\* The unload task has the entry of unloading_documents.
Unloading == {"lockUnload", "hook", "checkAgain", "remove", "clearUnloading"}
UPCs == {"idle", "end", "closeCallback", "check", "contains", "checkUnloading",
         "awaitUnload", "insertUnloading"} \cup Unloading

Init ==
    /\ documents = None
    /\ loading = None
    /\ result = [c \in Openers |-> "none"]
    /\ unloading = None
    /\ pc = [c \in Openers |-> "idle"]
    /\ lock = [c \in Openers |-> None]
    /\ handle = [c \in Openers |-> None]
    /\ upc = [t \in Tasks |-> "idle"]
    /\ udoc = [t \in Tasks |-> None]
    /\ ulock = [t \in Tasks |-> None]
--------------------------------------------------------------------------------
(* create_document: every await is a step of its own.  A definition        *)
(* introduced by "Variant" is never part of Next: it is a plausible        *)
(* mistake in the definition after it, which the properties notice.        *)

Goto(c, s) == pc' = [pc EXCEPT ![c] = s]

\* create_document returns Ok(d) to the opener.
Return(c, d) ==
    /\ handle' = [handle EXCEPT ![c] = d]
    /\ Goto(c, "got")

\* What a look into documents does: Ok on a hit, on to s on a miss.
ReturnRegisteredOr(c, s) ==
    \/ documents # None /\ Return(c, documents)
    \/ documents = None /\ Goto(c, s) /\ UNCHANGED handle

\* "Check if already loaded"
CheckDocuments(c) ==
    /\ pc[c] = "idle"
    /\ ReturnRegisteredOr(c, "checkLoading")
    /\ UNCHANGED <<documents, loading, result, lock, unloading, upc, udoc, ulock>>

\* "Check if currently loading"
CheckLoading(c) ==
    /\ pc[c] = "checkLoading"
    /\ lock' = [lock EXCEPT ![c] = loading]
    /\ Goto(c, IF loading # None THEN "awaitLoad" ELSE "insert")
    /\ UNCHANGED <<documents, loading, result, handle, unloading, upc, udoc, ulock>>

\* Variant: a result that is not there yet counts as a success.
ReadResultEagerly(c, s) ==
    \/ result[lock[c]] \in {"ok", "none"} /\ Return(c, lock[c])
    \/ result[lock[c]] = "error" /\ Goto(c, "failed") /\ UNCHANGED handle

\* The load lock has been acquired: nobody holds it during the load, so its
\* result may not be there yet, and then the opener goes on to s.
ReadResultOr(c, s) ==
    \/ result[lock[c]] = "ok" /\ Return(c, lock[c])
    \/ result[lock[c]] = "error" /\ Goto(c, "failed") /\ UNCHANGED handle
    \/ result[lock[c]] = "none" /\ Goto(c, s) /\ UNCHANGED handle

AwaitLoad(c) ==
    /\ pc[c] = "awaitLoad"
    /\ ReadResultOr(c, "recheck")
    /\ UNCHANGED <<documents, loading, result, lock, unloading, upc, udoc, ulock>>

\* Variant: the document is taken without looking whether there is one.
RecheckUnwrapping(c) ==
    /\ pc[c] = "recheck"
    /\ Return(c, documents)
    /\ UNCHANGED <<documents, loading, result, lock, unloading, upc, udoc, ulock>>

\* "If result was None [...] check documents again"
Recheck(c) ==
    /\ pc[c] = "recheck"
    /\ ReturnRegisteredOr(c, "insert")
    /\ UNCHANGED <<documents, loading, result, lock, unloading, upc, udoc, ulock>>

\* Variant: no double-check under the write lock.
InsertBlindly(c) ==
    /\ pc[c] = "insert"
    /\ loading' = c
    /\ Goto(c, "load")
    /\ UNCHANGED <<documents, result, handle, lock, unloading, upc, udoc, ulock>>

\* "Start loading": the check and the insertion are under one write lock;
\* the documents map is not looked at again.
Insert(c) ==
    /\ pc[c] = "insert"
    /\ \/ /\ loading # None
          /\ lock' = [lock EXCEPT ![c] = loading]
          /\ Goto(c, "awaitOther")
          /\ UNCHANGED loading
       \/ /\ loading = None
          /\ loading' = c
          /\ Goto(c, "load")
          /\ UNCHANGED lock
    /\ UNCHANGED <<documents, result, handle, unloading, upc, udoc, ulock>>

AwaitOther(c) ==
    /\ pc[c] = "awaitOther"
    /\ ReadResultOr(c, "recheckOther")
    /\ UNCHANGED <<documents, loading, result, lock, unloading, upc, udoc, ulock>>

\* Err("Document load failed concurrently") on a second miss.
RecheckOther(c) ==
    /\ pc[c] = "recheckOther"
    /\ ReturnRegisteredOr(c, "failed")
    /\ UNCHANGED <<documents, loading, result, lock, unloading, upc, udoc, ulock>>

\* load_document succeeds: the instance exists and is_loading is false.
LoadOk(c) ==
    /\ pc[c] = "load"
    /\ Goto(c, "publish")
    /\ UNCHANGED <<documents, loading, result, lock, handle, unloading, upc, udoc, ulock>>

\* An extension rejects on_load_document.  The sockets of the connections of
\* the registered document, if there is one, are closed (their sessions then
\* take Close steps), and the new instance is "unloaded", awaited here.
LoadFail(c) ==
    /\ LoadMayFail
    /\ pc[c] = "load"
    /\ Goto(c, "unloadFailed")
    /\ upc' = [upc EXCEPT ![c] = "check"]
    /\ udoc' = [udoc EXCEPT ![c] = c]
    /\ UNCHANGED <<documents, loading, result, lock, handle, unloading, ulock>>

FailedUnloadEnds(c) ==
    /\ pc[c] = "unloadFailed"
    /\ upc[c] = "end"
    /\ Goto(c, "publishError")
    /\ UNCHANGED <<documents, loading, result, lock, handle, unloading, upc, udoc, ulock>>

PublishError(c) ==
    /\ pc[c] = "publishError"
    /\ result' = [result EXCEPT ![c] = "error"]
    /\ Goto(c, "clearLoading")
    /\ UNCHANGED <<documents, loading, lock, handle, unloading, upc, udoc, ulock>>

Publish(c) ==
    /\ pc[c] = "publish"
    /\ result' = [result EXCEPT ![c] = "ok"]
    /\ Goto(c, "register")
    /\ UNCHANGED <<documents, loading, lock, handle, unloading, upc, udoc, ulock>>

\* documents.insert(name, doc): replaces whatever is registered.
Register(c) ==
    /\ pc[c] = "register"
    /\ documents' = c
    /\ Goto(c, "clearLoading")
    /\ UNCHANGED <<loading, result, lock, handle, unloading, upc, udoc, ulock>>

\* loading_documents.remove(name), and create_document returns.
ClearLoading(c) ==
    /\ pc[c] = "clearLoading"
    /\ loading' = None
    /\ \/ result[c] = "ok" /\ Return(c, c)
       \/ result[c] = "error" /\ Goto(c, "failed") /\ UNCHANGED handle
    /\ UNCHANGED <<documents, result, lock, unloading, upc, udoc, ulock>>
--------------------------------------------------------------------------------
(* The opener uses its document.                                           *)

\* Document::get_connections_count
Count(d) == Cardinality({c \in Openers : pc[c] = "open" /\ handle[c] = d})

\* add_connection or add_direct_connection, some time after create_document.
Connect(c) ==
    /\ pc[c] = "got"
    /\ Goto(c, "open")
    /\ UNCHANGED <<documents, loading, result, lock, handle, unloading, upc, udoc, ulock>>

\* The connection leaves the document and its close callback is spawned.
Close(c) ==
    /\ MayClose
    /\ pc[c] = "open"
    /\ Goto(c, "closed")
    /\ upc' = [upc EXCEPT ![c] = "closeCallback"]
    /\ udoc' = [udoc EXCEPT ![c] = handle[c]]
    /\ UNCHANGED <<documents, loading, result, lock, handle, unloading, ulock>>
--------------------------------------------------------------------------------
(* unload_document.                                                        *)

UGoto(t, s) == upc' = [upc EXCEPT ![t] = s]

\* The close callback: nothing while there are connections; with a store
\* pending it is left to the store to unload.
CloseCallback(t) ==
    /\ upc[t] = "closeCallback"
    /\ \/ Count(udoc[t]) > 0 /\ UGoto(t, "end")
       \/ /\ Count(udoc[t]) = 0
          /\ \E pending \in PendingReads : UGoto(t, IF pending THEN "end" ELSE "check")
    /\ UNCHANGED <<openVars, unloading, udoc, ulock>>

\* A store of a loaded instance ends and spawns an unload task.
SpawnUnload(t, d) ==
    /\ t \in Storers
    /\ upc[t] = "idle"
    /\ result[d] = "ok"
    /\ UGoto(t, "check")
    /\ udoc' = [udoc EXCEPT ![t] = d]
    /\ UNCHANGED <<openVars, unloading, ulock>>

\* should_unload_document, of the task's instance: on to yes or to no.
ShouldUnload(t, yes, no) ==
    \E pending \in PendingReads :
        UGoto(t, IF ~ pending /\ Count(udoc[t]) = 0 THEN yes ELSE no)

Check(t) ==
    /\ upc[t] = "check"
    /\ ShouldUnload(t, "contains", "end")
    /\ UNCHANGED <<openVars, unloading, udoc, ulock>>

\* documents.contains_key(name): whichever instance is registered.
Contains(t) ==
    /\ upc[t] = "contains"
    /\ UGoto(t, IF documents # None THEN "checkUnloading" ELSE "end")
    /\ UNCHANGED <<openVars, unloading, udoc, ulock>>

CheckUnloading(t) ==
    /\ upc[t] = "checkUnloading"
    /\ ulock' = [ulock EXCEPT ![t] = unloading]
    /\ UGoto(t, IF unloading # None THEN "awaitUnload" ELSE "insertUnloading")
    /\ UNCHANGED <<openVars, unloading, udoc>>

\* Variant: the guard of the unload lock is never dropped.
AwaitUnloadForever(t) ==
    /\ upc[t] = "awaitUnload"
    /\ upc[ulock[t]] \notin (Unloading \cup {"end"}) \ {"lockUnload"}
    /\ UGoto(t, "end")
    /\ UNCHANGED <<openVars, unloading, udoc, ulock>>

\* The unload lock is held until its task returns.
AwaitUnload(t) ==
    /\ upc[t] = "awaitUnload"
    /\ upc[ulock[t]] \notin Unloading \ {"lockUnload"}
    /\ UGoto(t, "end")
    /\ UNCHANGED <<openVars, unloading, udoc, ulock>>

\* The entry is inserted without another look at the map.
InsertUnloading(t) ==
    /\ upc[t] = "insertUnloading"
    /\ unloading' = t
    /\ UGoto(t, "lockUnload")
    /\ UNCHANGED <<openVars, udoc, ulock>>

\* A task that found the entry may have the lock, but for a moment only.
LockUnload(t) ==
    /\ upc[t] = "lockUnload"
    /\ UGoto(t, "hook")
    /\ UNCHANGED <<openVars, unloading, udoc, ulock>>

\* Variant: a rejected hook leaves the entry behind.
BeforeUnloadHookLeaving(t) ==
    /\ upc[t] = "hook"
    /\ \/ UGoto(t, "checkAgain")
       \/ HookMayFail /\ UGoto(t, "end")
    /\ UNCHANGED <<openVars, unloading, udoc, ulock>>

\* before_unload_document; an extension may veto.
BeforeUnloadHook(t) ==
    /\ upc[t] = "hook"
    /\ \/ UGoto(t, "checkAgain")
       \/ HookMayFail /\ UGoto(t, "clearUnloading")
    /\ UNCHANGED <<openVars, unloading, udoc, ulock>>

CheckAgain(t) ==
    /\ upc[t] = "checkAgain"
    /\ ShouldUnload(t, "remove", "clearUnloading")
    /\ UNCHANGED <<openVars, unloading, udoc, ulock>>

\* documents.remove(name): whichever instance is registered.  Then the task's
\* own instance is marked destroyed, which nothing here reads, and the
\* after_unload_document hook runs.
Remove(t) ==
    /\ upc[t] = "remove"
    /\ documents' = None
    /\ UGoto(t, "clearUnloading")
    /\ UNCHANGED <<loading, result, pc, lock, handle, unloading, udoc, ulock>>

\* unloading_documents.remove(name), and the unload lock is dropped.
ClearUnloading(t) ==
    /\ upc[t] = "clearUnloading"
    /\ unloading' = None
    /\ UGoto(t, "end")
    /\ UNCHANGED <<openVars, udoc, ulock>>
--------------------------------------------------------------------------------
CreateStep(c) ==
    \/ CheckDocuments(c)
    \/ CheckLoading(c)
    \/ AwaitLoad(c)
    \/ Recheck(c)
    \/ Insert(c)
    \/ AwaitOther(c)
    \/ RecheckOther(c)
    \/ LoadOk(c)
    \/ LoadFail(c)
    \/ FailedUnloadEnds(c)
    \/ PublishError(c)
    \/ Publish(c)
    \/ Register(c)
    \/ ClearLoading(c)

UnloadStep(t) ==
    \/ CloseCallback(t)
    \/ Check(t)
    \/ Contains(t)
    \/ CheckUnloading(t)
    \/ AwaitUnload(t)
    \/ InsertUnloading(t)
    \/ LockUnload(t)
    \/ BeforeUnloadHook(t)
    \/ CheckAgain(t)
    \/ Remove(t)
    \/ ClearUnloading(t)

Next ==
    \/ \E c \in Openers : CreateStep(c) \/ Connect(c) \/ Close(c)
    \/ \E t \in Tasks : UnloadStep(t)
    \/ \E t \in Storers, d \in Openers : SpawnUnload(t, d)

\* Callers of create_document and unload tasks are polled until they return,
\* and the hooks they await return.  Nobody has to call create_document, use
\* its document or close a connection.
Fairness ==
    /\ \A c \in Openers : WF_vars(pc[c] # "idle" /\ CreateStep(c))
    /\ \A t \in Tasks : WF_vars(UnloadStep(t))

Spec == Init /\ [][Next]_vars /\ Fairness
--------------------------------------------------------------------------------
TypeOK ==
    /\ documents \in Openers \cup {None}
    /\ loading \in Openers \cup {None}
    /\ result \in [Openers -> {"none", "ok", "error"}]
    /\ unloading \in Tasks \cup {None}
    /\ pc \in [Openers -> PCs]
    /\ lock \in [Openers -> Openers \cup {None}]
    /\ handle \in [Openers -> Openers \cup {None}]
    /\ upc \in [Tasks -> UPCs]
    /\ udoc \in [Tasks -> Openers \cup {None}]
    /\ ulock \in [Tasks -> Tasks \cup {None}]
    /\ \A c \in Openers :
         /\ pc[c] \in Holding <=> handle[c] # None
         /\ pc[c] \in {"awaitLoad", "awaitOther"} => lock[c] # None
    /\ \A t \in Tasks :
         /\ upc[t] # "idle" => udoc[t] # None
         /\ upc[t] = "awaitUnload" => ulock[t] # None

\* One load of the name at a time: the entry of loading_documents belongs to
\* the opener that is loading, from its insertion to its removal, although
\* insertion and removal go by name (hocuspocus.rs:249-304).
LoaderOwnsEntry == \A c \in Openers : pc[c] \in Loading <=> loading = c

\* Nobody is ever given, and nobody ever finds registered, an instance whose
\* load has not succeeded, whichever of the five ways create_document returns
\* it (hocuspocus.rs:224, :237, :243, :257, :261, :292).
OnlyLoadedHandedOut ==
    \A d \in Openers :
        (documents = d \/ \E c \in Openers : handle[c] = d) => result[d] = "ok"

\* The entry of unloading_documents is that of a task on its way to remove
\* it: overlapping unloads that overwrite and remove each other's entries
\* never leave one that no task will remove (hocuspocus.rs:587-631).
UnloadingEntryIsLive ==
    \A t \in Tasks : unloading = t => upc[t] \in Unloading

\* Every call of create_document returns, and every unload task ends: none of
\* them waits for ever for an entry that another one left behind
\* (hocuspocus.rs:215-306, 575-632).
CallsReturn ==
    /\ \A c \in Openers : pc[c] \in Creating ~> pc[c] \notin Creating
    /\ \A t \in Tasks : upc[t] \notin {"idle", "end"} ~> upc[t] = "end"

\* "All callers should get the same Arc<Document>": without any unload, two
\* callers that got a document got the same one.
SameDocument ==
    \A c1, c2 \in Openers :
        pc[c1] \in Holding /\ pc[c2] \in Holding => handle[c1] = handle[c2]
================================================================================
