------------------------ MODULE DocumentRegistryProofs ------------------------
(***************************************************************************)
(* What the document registry guarantees for every number of openers and   *)
(* of unload tasks, whatever the store pipeline and the extensions do.     *)
(***************************************************************************)
EXTENDS DocumentRegistry, TLAPS

\* How far an opener's own load has come decides what its load lock says.
ResultMatches ==
    \A c \in Openers :
        /\ pc[c] \notin {"register", "clearLoading", "failed"} \cup Holding
              => result[c] = "none"
        /\ pc[c] = "register" => result[c] = "ok"
        /\ pc[c] = "clearLoading" => result[c] \in {"ok", "error"}

\* The unload task of an opener has not started before its load failed or its
\* connection closed.
UnloadNotStarted ==
    \A c \in Openers :
        \/ pc[c] \notin {"unloadFailed", "publishError", "clearLoading", "failed", "closed"}
        \/ pc[c] = "clearLoading" /\ result[c] = "ok"
        => upc[c] = "idle"

IInv == /\ TypeOK
        /\ LoaderOwnsEntry
        /\ OnlyLoadedHandedOut
        /\ UnloadingEntryIsLive
        /\ ResultMatches
        /\ UnloadNotStarted

\* The invariant holds initially.
LEMMA InitIInv == Init => IInv
  BY RegistryAssumption
     DEF Init, IInv, TypeOK, LoaderOwnsEntry, OnlyLoadedHandedOut, UnloadingEntryIsLive,
         ResultMatches, UnloadNotStarted, PCs, UPCs, Loading, Creating, Holding,
         Unloading, Tasks

\* A step of create_document preserves the invariant.
LEMMA CreateStepIInv == ASSUME IInv, NEW c \in Openers, CreateStep(c) PROVE IInv'
<1> USE RegistryAssumption
    DEF IInv, TypeOK, LoaderOwnsEntry, OnlyLoadedHandedOut, UnloadingEntryIsLive,
        ResultMatches, UnloadNotStarted, PCs, UPCs, Loading, Creating, Holding,
        Unloading, Tasks, Goto, Return, ReturnRegisteredOr, ReadResultOr
<1>1. CASE CheckDocuments(c)
  BY <1>1 DEF CheckDocuments
<1>2. CASE CheckLoading(c)
  BY <1>2 DEF CheckLoading
<1>3. CASE AwaitLoad(c)
  BY <1>3 DEF AwaitLoad
<1>4. CASE Recheck(c)
  BY <1>4 DEF Recheck
<1>5. CASE Insert(c)
  BY <1>5 DEF Insert
<1>6. CASE AwaitOther(c)
  BY <1>6 DEF AwaitOther
<1>7. CASE RecheckOther(c)
  BY <1>7 DEF RecheckOther
<1>8. CASE LoadOk(c)
  BY <1>8 DEF LoadOk
<1>9. CASE LoadFail(c)
  BY <1>9 DEF LoadFail
<1>10. CASE FailedUnloadEnds(c)
  BY <1>10 DEF FailedUnloadEnds
<1>11. CASE PublishError(c)
  BY <1>11 DEF PublishError
<1>12. CASE Publish(c)
  BY <1>12 DEF Publish
<1>13. CASE Register(c)
  BY <1>13 DEF Register
<1>14. CASE ClearLoading(c)
  BY <1>14 DEF ClearLoading
<1> QED
  BY <1>1, <1>2, <1>3, <1>4, <1>5, <1>6, <1>7, <1>8, <1>9, <1>10, <1>11, <1>12,
     <1>13, <1>14 DEF CreateStep

\* A step of an unload task preserves the invariant.
LEMMA UnloadStepIInv == ASSUME IInv, NEW t \in Tasks, UnloadStep(t) PROVE IInv'
<1> USE RegistryAssumption DEF IInv, UGoto
<1>1. ASSUME NEW s \in UPCs, UGoto(t, s), UNCHANGED <<openVars, udoc>>,
             unloading' \in Tasks \cup {None},
             ulock' = ulock \/ ulock' = [ulock EXCEPT ![t] = unloading],
             udoc[t] # None,
             s = "awaitUnload" => ulock'[t] # None,
             upc[t] # "idle",
             UnloadingEntryIsLive'
      PROVE  IInv'
  <2>1. TypeOK'
    BY <1>1 DEF TypeOK, openVars
  <2>2. LoaderOwnsEntry' /\ OnlyLoadedHandedOut' /\ ResultMatches'
    BY <1>1 DEF LoaderOwnsEntry, OnlyLoadedHandedOut, ResultMatches, openVars
  <2>3. UnloadNotStarted'
    BY <1>1 DEF UnloadNotStarted, openVars, TypeOK
  <2> QED BY <1>1, <2>1, <2>2, <2>3
<1> USE DEF TypeOK, UnloadingEntryIsLive, UPCs, Unloading
<1>2. CASE CloseCallback(t)
  BY <1>1, <1>2 DEF CloseCallback
<1>3. CASE Check(t)
  BY <1>1, <1>3 DEF Check, ShouldUnload
<1>4. CASE Contains(t)
  BY <1>1, <1>4 DEF Contains
<1>5. CASE CheckUnloading(t)
  BY <1>1, <1>5 DEF CheckUnloading
<1>6. CASE AwaitUnload(t)
  BY <1>1, <1>6 DEF AwaitUnload
<1>7. CASE InsertUnloading(t)
  BY <1>1, <1>7 DEF InsertUnloading
<1>8. CASE LockUnload(t)
  BY <1>1, <1>8 DEF LockUnload
<1>9. CASE BeforeUnloadHook(t)
  BY <1>1, <1>9 DEF BeforeUnloadHook
<1>10. CASE CheckAgain(t)
  BY <1>1, <1>10 DEF CheckAgain, ShouldUnload
<1>11. CASE Remove(t)
  <2>1. t \in Tasks /\ upc[t] = "remove" /\ documents' = None
        /\ UGoto(t, "clearUnloading")
        /\ UNCHANGED <<loading, result, pc, lock, handle, unloading, udoc, ulock>>
    BY <1>11 DEF Remove
  <2>2. TypeOK' /\ UnloadingEntryIsLive'
    BY <2>1
  <2>3. LoaderOwnsEntry' /\ OnlyLoadedHandedOut' /\ ResultMatches' /\ UnloadNotStarted'
    BY <2>1
       DEF LoaderOwnsEntry, OnlyLoadedHandedOut, ResultMatches, UnloadNotStarted, Tasks
  <2> QED BY <2>2, <2>3
<1>12. CASE ClearUnloading(t)
  BY <1>1, <1>12 DEF ClearUnloading
<1> QED
  BY <1>2, <1>3, <1>4, <1>5, <1>6, <1>7, <1>8, <1>9, <1>10, <1>11, <1>12
     DEF UnloadStep

\* Every step of the registry preserves the invariant.
LEMMA StepIInv == IInv /\ [Next]_vars => IInv'
<1> SUFFICES ASSUME IInv, [Next]_vars PROVE IInv'
  OBVIOUS
<1> USE RegistryAssumption
<1>1. ASSUME NEW c \in Openers, CreateStep(c) PROVE IInv'
  BY <1>1, CreateStepIInv
<1>2. ASSUME NEW t \in Tasks, UnloadStep(t) PROVE IInv'
  BY <1>2, UnloadStepIInv
<1>3. ASSUME NEW c \in Openers, Connect(c) \/ Close(c) PROVE IInv'
  BY <1>3
     DEF Connect, Close, IInv, TypeOK, LoaderOwnsEntry, OnlyLoadedHandedOut,
         UnloadingEntryIsLive, ResultMatches, UnloadNotStarted, PCs, UPCs, Loading,
         Creating, Holding, Unloading, Tasks, Goto
<1>4. ASSUME NEW t \in Storers, NEW d \in Openers, SpawnUnload(t, d) PROVE IInv'
  BY <1>4
     DEF SpawnUnload, IInv, TypeOK, LoaderOwnsEntry, OnlyLoadedHandedOut,
         UnloadingEntryIsLive, ResultMatches, UnloadNotStarted, UPCs, Unloading,
         Tasks, UGoto, openVars
<1>5. ASSUME UNCHANGED vars PROVE IInv'
  BY <1>5
     DEF vars, IInv, TypeOK, LoaderOwnsEntry, OnlyLoadedHandedOut,
         UnloadingEntryIsLive, ResultMatches, UnloadNotStarted
<1> QED BY <1>1, <1>2, <1>3, <1>4, <1>5 DEF Next

\* The invariant holds in every reachable state.
THEOREM Invariance == Spec => []IInv
  BY InitIInv, StepIInv, PTL DEF Spec

\* The variables keep their types, and no opener or task waits for, holds or
\* unloads something that does not exist.
THEOREM TypeCorrect == Spec => []TypeOK
<1>1. IInv => TypeOK
  BY DEF IInv
<1> QED BY Invariance, <1>1, PTL

\* At most one load of the name is under way, and it owns the loading entry.
THEOREM LoadsAreExclusive == Spec => []LoaderOwnsEntry
<1>1. IInv => LoaderOwnsEntry
  BY DEF IInv
<1> QED BY Invariance, <1>1, PTL

\* No caller ever gets a document whose load has not succeeded.
THEOREM HandedOutIsLoaded == Spec => []OnlyLoadedHandedOut
<1>1. IInv => OnlyLoadedHandedOut
  BY DEF IInv
<1> QED BY Invariance, <1>1, PTL

\* No entry of unloading_documents outlives the unload it stands for.
THEOREM UnloadingIsLive == Spec => []UnloadingEntryIsLive
<1>1. IInv => UnloadingEntryIsLive
  BY DEF IInv
<1> QED BY Invariance, <1>1, PTL

\* What a load lock says once it says for good: the openers that wait for a load
\* and those that come to it late learn the same outcome, and a failed load is
\* never turned into a success by the load after it (hocuspocus.rs:268-297).
THEOREM LoadsAreFinal ==
    Spec => [][\A c \in Openers : result[c] # "none" => result'[c] = result[c]]_vars
<1>1. ASSUME IInv, [Next]_vars
      PROVE  [\A c \in Openers : result[c] # "none" => result'[c] = result[c]]_vars
  <2> SUFFICES ASSUME NEW c \in Openers, result[c] # "none" PROVE result'[c] = result[c]
    OBVIOUS
  <2>1. result \in [Openers -> {"none", "ok", "error"}]
    BY <1>1 DEF IInv, TypeOK
  <2>2. ASSUME NEW d \in Openers, PublishError(d) \/ Publish(d) PROVE result'[c] = result[c]
    <3>1. result[d] = "none"
      BY <1>1, <2>2 DEF PublishError, Publish, IInv, ResultMatches, Holding
    <3>2. \E r : result' = [result EXCEPT ![d] = r]
      BY <2>2 DEF PublishError, Publish
    <3> QED BY <1>1, <2>1, <3>1, <3>2
  <2>3. ASSUME NEW d \in Openers, CreateStep(d), ~ PublishError(d), ~ Publish(d)
        PROVE  UNCHANGED result
    BY <2>3 DEF CreateStep, CheckDocuments, CheckLoading, AwaitLoad, Recheck, Insert, AwaitOther,
                RecheckOther, LoadOk, LoadFail, FailedUnloadEnds, Register, ClearLoading
  <2>4. ASSUME NEW t \in Tasks, UnloadStep(t) PROVE UNCHANGED result
    BY <2>4 DEF UnloadStep, CloseCallback, Check, Contains, CheckUnloading, AwaitUnload, InsertUnloading,
                LockUnload, BeforeUnloadHook, CheckAgain, Remove, ClearUnloading, openVars
  <2>5. ASSUME NEW d \in Openers, Connect(d) \/ Close(d) PROVE UNCHANGED result
    BY <2>5 DEF Connect, Close
  <2>6. ASSUME NEW t \in Storers, NEW d \in Openers, SpawnUnload(t, d) PROVE UNCHANGED result
    BY <2>6 DEF SpawnUnload, openVars
  <2> QED BY <1>1, <2>2, <2>3, <2>4, <2>5, <2>6 DEF Next, vars
<1> QED BY <1>1, Invariance, PTL DEF Spec
================================================================================
