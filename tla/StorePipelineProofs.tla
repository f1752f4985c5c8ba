-------------------------- MODULE StorePipelineProofs --------------------------
(***************************************************************************)
(* What the store pipeline guarantees for every set of edits, of clients,  *)
(* of direct connections and of flushes.  What is known of the debouncer   *)
(* comes from DebouncerProofs: the pipeline takes only its steps.          *)
(***************************************************************************)
EXTENDS StorePipeline, TLAPS

DP == INSTANCE DebouncerProofs

\* The instance of the debouncer meets the debouncer's assumption.
LEMMA DebouncerAssumptionHolds == DP!DebouncerAssumption
  BY PipelineAssumption DEF DP!DebouncerAssumption

\* A step of the pipeline is a step of the debouncer or leaves it alone.
LEMMA DebouncerSteps == ASSUME [Next]_vars PROVE [DP!Next]_DP!vars
<1> USE DEF DP!vars, debVars
<1>1. ASSUME NEW c \in Calls, NEW delay \in {0, DebounceTime}, D!Debounce(c, delay)
      PROVE  DP!Next
  <2>1. DP!Debounce(c, delay)
    BY <1>1 DEF D!Debounce, DP!Debounce, D!AbortLeaves, DP!AbortLeaves,
                D!AbortAndGo, DP!AbortAndGo, D!Overdue, DP!Overdue
  <2> QED BY <2>1 DEF DP!Next
<1>2. ASSUME NEW c \in Calls, D!ExecuteNow(c) PROVE DP!Next
  <2>1. DP!ExecuteNow(c)
    BY <1>2 DEF D!ExecuteNow, DP!ExecuteNow, D!AbortLeaves, DP!AbortLeaves,
                D!AbortAndGo, DP!AbortAndGo
  <2> QED BY <2>1 DEF DP!Next
<1>3. ASSUME NEW u \in Users,
             \/ Obtain(u) \/ Connect(u) \/ CloseConnection(u) \/ CallbackLost(u)
             \/ Disconnect(u) \/ UserStep(u)
      PROVE  DP!Next \/ UNCHANGED DP!vars
  BY <1>1, <1>2, <1>3
     DEF Obtain, Connect, CloseConnection, CallbackLost, Disconnect, UserStep,
         CallbackCount, CallbackDebounced, CallbackFlush, DisconnectStore,
         DisconnectUnload, Users, Calls
<1>4. ASSUME NEW e \in Edits, Edit(e) \/ UpdateTask(e)
      PROVE  DP!Next \/ UNCHANGED DP!vars
  BY <1>1, <1>4 DEF Edit, UpdateTask, Calls
<1>5. ASSUME NEW c \in Calls, CallStep(c) PROVE DP!Next \/ UNCHANGED DP!vars
  <2>1. CASE DebouncerStep(c) \/ Return(c)
    <3>1. \/ DP!Wake(c) \/ DP!Fire(c) \/ DP!Lookup(c) \/ DP!Acquire(c)
          \/ DP!Clear(c) \/ DP!Finish(c)
      BY <2>1
         DEF DebouncerStep, Return, D!Wake, D!Fire, D!Lookup, D!Acquire, D!Clear,
             D!Finish, D!Held, DP!Wake, DP!Fire, DP!Lookup, DP!Acquire, DP!Clear,
             DP!Finish, DP!Held
    <3> QED BY <3>1 DEF DP!Next
  <2>2. CASE ~ (DebouncerStep(c) \/ Return(c))
    BY <1>5, <2>2
       DEF CallStep, LockSave, Snapshot, StoreOk, AfterStore, StoreSkip, SkipUnlock,
           StoreError
  <2> QED BY <2>1, <2>2
<1>6. ASSUME NEW c \in Calls, Dropped(c) PROVE DP!Next
  <2>1. DP!Cancel(c)
    BY <1>6 DEF Dropped, D!Cancel, DP!Cancel
  <2> QED BY <2>1 DEF DP!Next
<1>7. ASSUME NEW t \in Tasks, UnloadStep(t) PROVE UNCHANGED DP!vars
  BY <1>7
     DEF UnloadStep, IsDebounced, IsExecuting, IsSaving, IsUsed, Contains,
         CheckUnloading, Enter, Veto, Remove, Clear, Read
<1>8. ASSUME Clock PROVE DP!Next
  BY <1>8 DEF Clock, D!Tick, DP!Tick, DP!Next
<1>9. ASSUME UNCHANGED vars PROVE UNCHANGED DP!vars
  BY <1>9 DEF vars
<1>10. ASSUME NEW f \in Flushes, FlushBegin(f) \/ FlushNow(f) \/ FlushEnd(f)
       PROVE  DP!Next \/ UNCHANGED DP!vars
  BY <1>2, <1>10 DEF FlushBegin, FlushNow, FlushEnd, Calls
<1> QED
  BY <1>3, <1>4, <1>5, <1>6, <1>7, <1>8, <1>9, <1>10 DEF Next, Proceed
--------------------------------------------------------------------------------
\* A call has not entered the closure before it runs.
Fresh == \A c \in Calls : pc[c] \notin {"running", "done", "aborted"} => fpc[c] = "start"

\* The update task of an edit exists only once the edit is applied.
NotYet == \A e \in Edits : e \notin applied => pc[e] = "idle"

\* What is about to be written contains everything that has been written.
Encoded ==
    /\ stored \subseteq applied
    /\ \A c \in Calls : snap[c] \subseteq applied
    /\ \A c \in Calls : At(c, "write") => stored \subseteq snap[c]

Core == SaverIsStoring /\ Fresh /\ NotYet /\ Encoded /\ NoEditForgotten

IInv == TypeOK /\ DP!IInv /\ Core

coreVars == <<pc, doomed, applied, stored, erred, fpc, saver, snap>>

\* The core of the invariant is about coreVars only.
LEMMA CoreStutters == ASSUME Core, UNCHANGED coreVars PROVE Core'
  BY DEF Core, coreVars, SaverIsStoring, Fresh, NotYet, Encoded, NoEditForgotten,
         WillStore, D!Bears, At

\* The invariant holds initially.
LEMMA InitIInv == Init => IInv
<1> SUFFICES ASSUME Init PROVE IInv
  OBVIOUS
<1>1. DP!IInv
  <2>1. DP!Init
    BY DEF Init, D!Init, DP!Init
  <2> QED BY <2>1, DP!InitIInv, DebouncerAssumptionHolds
<1>2. TypeOK
  BY DEF Init, TypeOK, UserPCs, FPCs, UPCs
<1>3. Core
  BY PipelineAssumption
     DEF Init, D!Init, Core, SaverIsStoring, Fresh, NotYet, Encoded, NoEditForgotten,
         At, Calls
<1> QED BY <1>1, <1>2, <1>3 DEF IInv
--------------------------------------------------------------------------------
\* The types of the variables the debouncer does not own.
LEMMA TypeStep == ASSUME TypeOK, [Next]_vars PROVE TypeOK'
<1> USE DEF TypeOK, flushVars
<1>1. ASSUME NEW u \in Users,
             \/ Obtain(u) \/ Connect(u) \/ CloseConnection(u) \/ CallbackLost(u)
             \/ Disconnect(u) \/ UserStep(u)
      PROVE  TypeOK'
  BY <1>1
     DEF Obtain, Connect, CloseConnection, CallbackLost, Disconnect, UserStep,
         CallbackCount, CallbackDebounced, CallbackFlush, DisconnectStore,
         DisconnectUnload, StartUnload, UserPCs, UPCs, unloadVars, storeVars, docVars,
         Tasks
<1>2. ASSUME NEW e \in Edits, Edit(e) \/ UpdateTask(e) PROVE TypeOK'
  BY <1>2 DEF Edit, UpdateTask, unloadVars, storeVars, docVars
<1>3. ASSUME NEW c \in Calls, CallStep(c) \/ Dropped(c) PROVE TypeOK'
  <2>1. CASE DebouncerStep(c) \/ Return(c) \/ Dropped(c)
    BY <2>1 DEF DebouncerStep, Return, Dropped, DropSnap, unloadVars, storeVars, docVars
  <2>2. CASE LockSave(c) \/ Snapshot(c) \/ StoreOk(c) \/ SkipUnlock(c) \/ StoreError(c)
    BY <2>2
       DEF LockSave, Snapshot, StoreOk, SkipUnlock, StoreError, FGoto, FPCs,
           DropSnap, unloadVars, docVars
  <2>3. CASE AfterStore(c) \/ StoreSkip(c)
    BY <2>3
       DEF AfterStore, StoreSkip, StartUnload, FGoto, FPCs, UPCs, docVars, Tasks, DropSnap
  <2> QED BY <1>3, <2>1, <2>2, <2>3 DEF CallStep
<1>4. ASSUME NEW t \in Tasks, UnloadStep(t) PROVE TypeOK'
  BY <1>4
     DEF UnloadStep, IsDebounced, IsExecuting, IsSaving, IsUsed, Contains,
         CheckUnloading, Enter, Veto, Remove, Clear, Read, GiveUp, StartUnload, UGoto,
         End, UPCs, docVars, storeVars
<1>5. ASSUME Clock \/ UNCHANGED vars PROVE TypeOK'
  BY <1>5 DEF Clock, vars, unloadVars, storeVars, docVars
<1>6. ASSUME NEW f \in Flushes, FlushBegin(f) \/ FlushNow(f) \/ FlushEnd(f) PROVE TypeOK'
  BY <1>6 DEF FlushBegin, FlushNow, FlushEnd, unloadVars, storeVars, docVars
<1> QED BY <1>1, <1>2, <1>3, <1>4, <1>5, <1>6 DEF Next, Proceed

\* A call that hands work to the debouncer, or takes over the work of the armed
\* timer, bears it from then on: every edit is covered by that call.
LEMMA HandOver ==
    ASSUME IInv, NEW c \in Calls, pc[c] = "idle",
           c \in Edits => c \in applied,
           NEW s \in {"lookup", "asleep"}, NEW survive \in D!AbortLeaves,
           pc' = D!AbortAndGo(c, s, survive),
           doomed' = doomed \cup survive,
           UNCHANGED <<applied, stored, erred, fpc, saver, snap>>
    PROVE  Core'
<1> USE DEF IInv, DP!IInv, Core
<1>1. /\ survive \subseteq {timer}
      /\ \A d \in survive : pc[d] = "woken"
  BY DEF D!AbortLeaves
<1>2. c \notin doomed'
  BY <1>1 DEF DP!Kinds
<1>3. pc'[c] = s
  BY DEF D!AbortAndGo
<1>4. \A d \in Calls : pc'[d] = "running" <=> pc[d] = "running"
  BY DEF D!AbortAndGo, DP!TimerIsPending
<1>5. SaverIsStoring' /\ Encoded'
  BY <1>4 DEF SaverIsStoring, Encoded, At
<1>6. Fresh'
  BY DEF Fresh, D!AbortAndGo
<1>7. NotYet'
  BY DEF NotYet, D!AbortAndGo, DP!TimerIsPending, Calls
<1>8. D!Bears(c)'
  BY <1>2, <1>3 DEF D!Bears
<1>9. NoEditForgotten'
  BY <1>2, <1>8 DEF NoEditForgotten, WillStore
<1> QED BY <1>5, <1>6, <1>7, <1>9

\* debounce(), by an update task or by the disconnect of a direct connection.
LEMMA DebounceCore ==
    ASSUME IInv, NEW c \in Calls, c \in Edits => c \in applied,
           NEW delay \in {0, DebounceTime}, D!Debounce(c, delay),
           UNCHANGED <<applied, stored, erred, fpc, saver, snap>>
    PROVE  Core'
<1>1. PICK survive \in D!AbortLeaves, s \in {"lookup", "asleep"} :
        /\ doomed' = doomed \cup survive
        /\ pc' = D!AbortAndGo(c, s, survive)
  BY DEF D!Debounce
<1>2. pc[c] = "idle"
  BY DEF D!Debounce
<1> QED BY <1>1, <1>2, HandOver

\* execute_now(), by the close callback of a client or by a flush.
LEMMA ExecuteNowCore ==
    ASSUME IInv, NEW u \in Users \cup Flushes, D!ExecuteNow(u),
           UNCHANGED <<applied, stored, erred, fpc, saver, snap>>
    PROVE  Core'
<1>1. u \in Calls /\ u \notin Edits /\ pc[u] = "idle"
  BY PipelineAssumption DEF Calls, D!ExecuteNow
<1>2. CASE timer = NoCall
  <2>1. pc' = [pc EXCEPT ![u] = "done"] /\ doomed' = doomed /\ pc \in [Calls -> DP!PCs]
    BY <1>2 DEF D!ExecuteNow, IInv, DP!IInv, DP!TypeOK
  <2>2. \A d \in Calls : d # u => pc'[d] = pc[d]
    BY <2>1
  <2>3. pc'[u] = "done"
    BY <1>1, <2>1
  <2>4. SaverIsStoring' /\ Encoded' /\ Fresh' /\ NotYet'
    BY <1>1, <2>2, <2>3
       DEF IInv, Core, SaverIsStoring, Encoded, Fresh, NotYet, At, Calls
  <2>5. NoEditForgotten'
    <3> SUFFICES ASSUME NEW e \in applied \ (stored \cup erred)
                 PROVE  pc'[e] = "idle" \/ \E c \in Calls : WillStore(c, e)'
      BY DEF NoEditForgotten
    <3>1. e \in Edits
      BY DEF IInv, TypeOK
    <3>2. CASE pc[e] = "idle"
      BY <1>1, <2>2, <3>1, <3>2 DEF Calls
    <3>3. CASE \E c \in Calls : WillStore(c, e)
      <4>1. PICK c \in Calls : WillStore(c, e)
        BY <3>3
      <4>2. c # u
        BY <1>1, <4>1 DEF WillStore, D!Bears
      <4>3. WillStore(c, e)'
        BY <2>1, <2>2, <4>1, <4>2 DEF WillStore, D!Bears
      <4> QED BY <4>3
    <3> QED BY <3>2, <3>3 DEF IInv, Core, NoEditForgotten
  <2> QED BY <2>4, <2>5 DEF Core
<1>3. CASE timer # NoCall
  <2>1. PICK survive \in D!AbortLeaves :
          doomed' = doomed \cup survive /\ pc' = D!AbortAndGo(u, "lookup", survive)
    BY <1>3 DEF D!ExecuteNow
  <2> QED BY <1>1, <2>1, HandOver
<1> QED BY <1>2, <1>3
--------------------------------------------------------------------------------
\* A debouncer step of call c changes c's place only, and what c still has to
\* do it still has to do.
LEMMA DebouncerStepCore ==
    ASSUME IInv, NEW c \in Calls, DebouncerStep(c)
    PROVE  Core'
<1>1. /\ pc \in [Calls -> DP!PCs]
      /\ UNCHANGED <<doomed, applied, stored, erred, fpc, saver, snap>>
  BY DEF DebouncerStep, D!Wake, D!Fire, D!Lookup, D!Acquire, D!Clear, docVars,
         storeVars, IInv, DP!IInv, DP!TypeOK
<1>2. PICK s \in {"woken", "lookup", "waiting", "clear", "running"} :
        pc' = [pc EXCEPT ![c] = s]
  BY DEF DebouncerStep, D!Wake, D!Fire, D!Lookup, D!Acquire, D!Clear
<1>3. pc[c] \in {"asleep", "woken", "lookup", "waiting", "clear"}
  BY DEF DebouncerStep, D!Wake, D!Fire, D!Lookup, D!Acquire, D!Clear
<1>4. pc'[c] = s /\ \A d \in Calls : d # c => pc'[d] = pc[d]
  BY <1>1, <1>2
<1>5. fpc[c] = "start"
  BY <1>3 DEF IInv, Core, Fresh
<1>6. SaverIsStoring' /\ Fresh' /\ NotYet' /\ Encoded'
  BY <1>1, <1>3, <1>4, <1>5
     DEF IInv, Core, SaverIsStoring, Fresh, NotYet, Encoded, At, Calls
<1>7. ASSUME NEW e \in Edits, NEW d \in Calls, WillStore(d, e)
      PROVE  WillStore(d, e)'
  <2>1. CASE d # c
    BY <1>1, <1>4, <1>7, <2>1 DEF WillStore, D!Bears
  <2>2. CASE d = c
    <3>1. c \notin doomed
      BY <1>7, <2>2 DEF WillStore
    <3> QED BY <1>1, <1>4, <1>5, <2>2, <3>1 DEF WillStore, D!Bears
  <2> QED BY <2>1, <2>2
<1>8. NoEditForgotten'
  <2>1. \A e \in Edits : pc[e] = "idle" => pc'[e] = "idle"
    BY <1>3, <1>4 DEF Calls
  <2> QED BY <1>1, <1>7, <2>1 DEF IInv, TypeOK, Core, NoEditForgotten
<1> QED BY <1>6, <1>8 DEF Core

\* The steps of the closure, up to its return.
LEMMA ClosureCore ==
    ASSUME IInv, NEW c \in Calls,
           \/ LockSave(c) \/ Snapshot(c) \/ StoreOk(c) \/ AfterStore(c)
           \/ StoreSkip(c) \/ SkipUnlock(c) \/ StoreError(c)
    PROVE  Core'
<1> USE DEF IInv, Core, At, FGoto
<1>0. c # NoCall /\ UNCHANGED <<pc, doomed, applied>>
  BY PipelineAssumption
     DEF LockSave, Snapshot, StoreOk, AfterStore, StoreSkip, SkipUnlock, StoreError,
         debVars, docVars
<1>1. CASE LockSave(c)
  <2>0. /\ At(c, "start") /\ saver = NoCall
        /\ saver' = c /\ fpc' = [fpc EXCEPT ![c] = "hook"]
        /\ UNCHANGED <<stored, erred, snap>>
    BY <1>1 DEF LockSave, docVars
  <2>1. SaverIsStoring' /\ Fresh' /\ NotYet' /\ Encoded'
    <3>1. \A d \in Calls : d # NoCall
      BY PipelineAssumption
    <3>2. SaverIsStoring'
      BY <1>0, <2>0, <3>1 DEF TypeOK, SaverIsStoring
    <3>3. Fresh' /\ NotYet' /\ Encoded'
      BY <1>0, <2>0 DEF TypeOK, Fresh, NotYet, Encoded
    <3> QED BY <3>2, <3>3
  <2>2. NoEditForgotten'
    BY <1>0, <1>1 DEF LockSave, TypeOK, NoEditForgotten, WillStore, D!Bears, docVars
  <2> QED BY <2>1, <2>2
<1>2. CASE Snapshot(c)
  <2>1. SaverIsStoring' /\ Fresh' /\ NotYet' /\ Encoded'
    BY <1>0, <1>2 DEF Snapshot, TypeOK, SaverIsStoring, Fresh, NotYet, Encoded, docVars
  <2>2. NoEditForgotten'
    BY <1>0, <1>2 DEF Snapshot, TypeOK, NoEditForgotten, WillStore, D!Bears, docVars
  <2> QED BY <2>1, <2>2
<1>3. CASE StoreOk(c) \/ StoreSkip(c)
  <2>1. /\ At(c, "write") /\ stored' = snap[c] /\ UNCHANGED <<erred, saver>>
        /\ snap' = [snap EXCEPT ![c] = {}]
        /\ fpc' = [fpc EXCEPT ![c] = "afterStore"] \/ fpc' = [fpc EXCEPT ![c] = "unlock"]
    BY <1>3 DEF StoreOk, StoreSkip, DropSnap
  <2>2. \A d \in Calls : d # c => ~ At(d, "write")
    BY <2>1 DEF SaverIsStoring
  <2>3. SaverIsStoring' /\ Fresh' /\ NotYet'
    BY <1>0, <2>1 DEF TypeOK, SaverIsStoring, Fresh, NotYet
  <2>4. Encoded'
    BY <1>0, <2>1, <2>2 DEF TypeOK, Encoded
  <2>5. stored \subseteq stored'
    BY <2>1 DEF Encoded
  <2>6. ASSUME NEW e \in applied \ (stored' \cup erred), NEW d \in Calls, WillStore(d, e)
        PROVE  WillStore(d, e)'
    <3>1. d # c
      BY <1>0, <2>1, <2>6 DEF WillStore, D!Bears
    <3> QED BY <1>0, <2>1, <2>6, <3>1 DEF TypeOK, WillStore, D!Bears
  <2>7. NoEditForgotten'
    BY <1>0, <2>1, <2>5, <2>6 DEF NoEditForgotten
  <2> QED BY <2>3, <2>4, <2>7
<1>4. CASE AfterStore(c) \/ SkipUnlock(c)
  <2>1. /\ At(c, "afterStore") \/ At(c, "unlock")
        /\ saver' = NoCall /\ fpc' = [fpc EXCEPT ![c] = "return"]
        /\ UNCHANGED <<stored, erred, snap>>
    BY <1>4 DEF AfterStore, SkipUnlock, docVars
  <2>2. saver = c /\ NoCall \notin Calls
    BY <2>1, PipelineAssumption DEF SaverIsStoring
  <2>3. SaverIsStoring' /\ Fresh' /\ NotYet' /\ Encoded'
    BY <1>0, <2>1, <2>2 DEF TypeOK, SaverIsStoring, Fresh, NotYet, Encoded
  <2>4. NoEditForgotten'
    BY <1>0, <2>1 DEF TypeOK, NoEditForgotten, WillStore, D!Bears
  <2> QED BY <2>3, <2>4
<1>5. CASE StoreError(c)
  <2>1. /\ At(c, "write") /\ erred' = erred \cup snap[c]
        /\ saver' = NoCall /\ fpc' = [fpc EXCEPT ![c] = "return"]
        /\ snap' = [snap EXCEPT ![c] = {}] /\ UNCHANGED stored
    BY <1>5 DEF StoreError, DropSnap
  <2>2. saver = c /\ NoCall \notin Calls
    BY <2>1, PipelineAssumption DEF SaverIsStoring
  <2>3. SaverIsStoring' /\ Fresh' /\ NotYet' /\ Encoded'
    BY <1>0, <2>1, <2>2 DEF TypeOK, SaverIsStoring, Fresh, NotYet, Encoded
  <2>4. ASSUME NEW e \in applied \ (stored \cup erred'), NEW d \in Calls, WillStore(d, e)
        PROVE  WillStore(d, e)'
    <3>1. d # c
      BY <1>0, <2>1, <2>4 DEF WillStore, D!Bears
    <3> QED BY <1>0, <2>1, <2>4, <3>1 DEF TypeOK, WillStore, D!Bears
  <2>5. NoEditForgotten'
    BY <1>0, <2>1, <2>4 DEF NoEditForgotten
  <2> QED BY <2>3, <2>5
<1> QED BY <1>1, <1>2, <1>3, <1>4, <1>5

\* The end of a call: its return, or the drop of a doomed task.
LEMMA EndCore ==
    ASSUME IInv, NEW c \in Calls, Return(c) \/ Dropped(c)
    PROVE  Core'
<1> USE DEF IInv, Core
<1>1. PICK s \in {"done", "aborted"} : pc' = [pc EXCEPT ![c] = s]
  BY DEF Return, Dropped, D!Finish, D!Cancel
<1>2. /\ pc \in [Calls -> DP!PCs]
      /\ UNCHANGED <<doomed, applied, stored, erred, fpc>>
      /\ snap' = snap \/ snap' = [snap EXCEPT ![c] = {}]
  BY DEF DP!IInv, DP!TypeOK, Return, Dropped, D!Finish, D!Cancel, docVars, storeVars,
         DropSnap
<1>3. pc'[c] = s /\ \A d \in Calls : d # c => pc'[d] = pc[d]
  BY <1>1, <1>2
<1>4. \A e \in Edits : ~ WillStore(c, e)
  <2>1. CASE Return(c)
    BY <2>1 DEF Return, D!Finish, WillStore, D!Bears
  <2>2. CASE Dropped(c)
    BY <2>2 DEF Dropped, D!Cancel, WillStore
  <2> QED BY <2>1, <2>2
<1>5. pc[c] # "idle"
  BY DEF Return, Dropped, D!Finish, D!Cancel
<1>6. SaverIsStoring'
  <2>1. CASE Return(c)
    <3>1. saver' = saver /\ fpc[c] = "return"
      BY <2>1 DEF Return, storeVars
    <3> QED BY <1>2, <1>3, <3>1 DEF SaverIsStoring
  <2>2. CASE Dropped(c)
    <3>1. saver' = IF saver = c THEN NoCall ELSE saver
      BY <2>2 DEF Dropped
    <3> QED BY <1>2, <1>3, <3>1, PipelineAssumption DEF SaverIsStoring
  <2> QED BY <2>1, <2>2
<1>7. Fresh' /\ NotYet' /\ Encoded'
  BY <1>2, <1>3, <1>5 DEF TypeOK, Fresh, NotYet, Encoded, At, Calls
<1>8. NoEditForgotten'
  <2> SUFFICES ASSUME NEW e \in applied \ (stored \cup erred)
               PROVE  pc'[e] = "idle" \/ \E d \in Calls : WillStore(d, e)'
    BY <1>2 DEF NoEditForgotten
  <2>1. e \in Edits
    BY DEF TypeOK
  <2>2. CASE pc[e] = "idle"
    BY <1>3, <1>5, <2>1, <2>2 DEF Calls
  <2>3. ASSUME NEW d \in Calls, WillStore(d, e) PROVE WillStore(d, e)'
    <3>1. d # c
      BY <1>4, <2>1, <2>3
    <3> QED BY <1>2, <1>3, <2>3, <3>1 DEF TypeOK, WillStore, D!Bears
  <2> QED BY <2>2, <2>3 DEF NoEditForgotten
<1> QED BY <1>6, <1>7, <1>8
--------------------------------------------------------------------------------
\* Every step of the pipeline preserves the invariant.
LEMMA StepIInv == IInv /\ [Next]_vars => IInv'
<1> SUFFICES ASSUME IInv, [Next]_vars PROVE IInv'
  OBVIOUS
<1>1. TypeOK'
  BY TypeStep DEF IInv
<1>2. DP!IInv'
  BY DebouncerSteps, DP!StepIInv, DebouncerAssumptionHolds DEF IInv
<1>3. Core'
  <2>1. CASE UNCHANGED coreVars
    BY <2>1, CoreStutters DEF IInv
  <2>2. ASSUME NEW u \in Users, CallbackFlush(u) PROVE Core'
    BY <2>2, ExecuteNowCore DEF CallbackFlush, storeVars
  <2>3. ASSUME NEW u \in Users, DisconnectStore(u) PROVE Core'
    <3>1. u \in Calls /\ u \notin Edits
      BY PipelineAssumption DEF Calls
    <3> QED BY <2>3, <3>1, DebounceCore DEF DisconnectStore, docVars, storeVars
  <2>4. ASSUME NEW u \in Users,
               \/ Obtain(u) \/ Connect(u) \/ CloseConnection(u) \/ CallbackLost(u)
               \/ Disconnect(u) \/ CallbackCount(u) \/ CallbackDebounced(u)
               \/ DisconnectUnload(u)
        PROVE  UNCHANGED coreVars
    BY <2>4
       DEF Obtain, Connect, CloseConnection, CallbackLost, Disconnect, CallbackCount,
           CallbackDebounced, DisconnectUnload, coreVars, debVars, storeVars
  <2>5. ASSUME NEW e \in Edits, Edit(e) PROVE Core'
    <3>1. /\ applied' = applied \cup {e} /\ e \notin applied
          /\ UNCHANGED <<pc, doomed, stored, erred, fpc, saver, snap>>
      BY <2>5 DEF Edit, debVars, storeVars
    <3>2. pc[e] = "idle"
      BY <3>1 DEF IInv, Core, NotYet
    <3> QED
      BY <3>1, <3>2
         DEF IInv, Core, SaverIsStoring, Fresh, NotYet, Encoded, NoEditForgotten,
             WillStore, D!Bears, At
  <2>6. ASSUME NEW e \in Edits, UpdateTask(e) PROVE Core'
    BY <2>6, DebounceCore DEF UpdateTask, Calls, docVars, storeVars
  <2>7. ASSUME NEW c \in Calls, CallStep(c) \/ Dropped(c) PROVE Core'
    BY <2>7, DebouncerStepCore, ClosureCore, EndCore DEF CallStep
  <2>8. ASSUME NEW t \in Tasks, UnloadStep(t) PROVE UNCHANGED coreVars
    BY <2>8
       DEF UnloadStep, IsDebounced, IsExecuting, IsSaving, IsUsed, Contains,
           CheckUnloading, Enter, Veto, Remove, Clear, Read, coreVars, debVars,
           docVars, storeVars
  <2>9. ASSUME Clock PROVE UNCHANGED coreVars
    BY <2>9 DEF Clock, D!Tick, coreVars, docVars, storeVars
  <2>10. ASSUME UNCHANGED vars PROVE UNCHANGED coreVars
    BY <2>10 DEF vars, coreVars, debVars, docVars, storeVars
  <2>11. ASSUME NEW f \in Flushes, FlushNow(f) PROVE Core'
    BY <2>11, ExecuteNowCore DEF FlushNow, docVars, storeVars
  <2>12. ASSUME NEW f \in Flushes, FlushBegin(f) \/ FlushEnd(f) PROVE UNCHANGED coreVars
    BY <2>12 DEF FlushBegin, FlushEnd, coreVars, debVars, docVars, storeVars
  <2> QED
    BY <2>1, <2>2, <2>3, <2>4, <2>5, <2>6, <2>7, <2>8, <2>9, <2>10, <2>11, <2>12
       DEF Next, Proceed, UserStep
<1> QED BY <1>1, <1>2, <1>3 DEF IInv

\* The invariant holds in every reachable state.
THEOREM Invariance == Spec => []IInv
  BY InitIInv, StepIInv, PTL DEF Spec

\* No edit is forgotten between the document and the storage.
THEOREM EditsAreNotForgotten == Spec => []NoEditForgotten
<1>1. IInv => NoEditForgotten
  BY DEF IInv, Core
<1> QED BY Invariance, <1>1, PTL

\* The save mutex is held exactly by the call that is storing.
THEOREM SaverStores == Spec => []SaverIsStoring
<1>1. IInv => SaverIsStoring
  BY DEF IInv, Core
<1> QED BY Invariance, <1>1, PTL

\* The variables keep their types.
THEOREM TypeCorrect == Spec => []TypeOK
<1>1. IInv => TypeOK
  BY DEF IInv
<1> QED BY Invariance, <1>1, PTL

\* A step stores, refuses or applies edits as StoredCopy allows, or does not
\* touch them.
LEMMA CopySteps == ASSUME IInv, [Next]_vars PROVE [Copy!Next]_Copy!vars
<1> USE DEF Copy!vars
<1>0. stored \subseteq applied /\ \A c \in Calls : snap[c] \subseteq applied
  BY DEF IInv, Core, Encoded
<1>1. ASSUME NEW c \in Calls, StoreOk(c) \/ StoreSkip(c) PROVE Copy!Next
  <2>1. /\ stored \subseteq snap[c] /\ snap[c] \in SUBSET applied
        /\ stored' = snap[c] /\ UNCHANGED <<applied, erred>>
    BY <1>0, <1>1 DEF StoreOk, StoreSkip, IInv, Core, Encoded
  <2>2. Copy!Write
    BY <2>1 DEF Copy!Write
  <2> QED BY <2>2 DEF Copy!Next
<1>2. ASSUME NEW c \in Calls, StoreError(c) PROVE Copy!Next
  <2>1. /\ snap[c] \in SUBSET applied
        /\ erred' = erred \cup snap[c] /\ UNCHANGED <<applied, stored>>
    BY <1>0, <1>2 DEF StoreError
  <2>2. Copy!Refuse
    BY <2>1 DEF Copy!Refuse
  <2> QED BY <2>2 DEF Copy!Next
<1>3. ASSUME NEW e \in Edits, Edit(e) PROVE Copy!Next
  <2>1. e \in Edits \ applied /\ applied' = applied \cup {e} /\ UNCHANGED <<stored, erred>>
    BY <1>3 DEF Edit
  <2>2. Copy!Apply
    BY <2>1 DEF Copy!Apply
  <2> QED BY <2>2 DEF Copy!Next
<1>4. ASSUME NEW c \in Calls,
             \/ DebouncerStep(c) \/ Return(c) \/ Dropped(c) \/ LockSave(c)
             \/ Snapshot(c) \/ AfterStore(c) \/ SkipUnlock(c)
      PROVE  UNCHANGED Copy!vars
  BY <1>4
     DEF DebouncerStep, Return, Dropped, LockSave, Snapshot, AfterStore, SkipUnlock, docVars
<1>5. ASSUME NEW u \in Users,
             \/ Obtain(u) \/ Connect(u) \/ CloseConnection(u) \/ CallbackLost(u)
             \/ Disconnect(u) \/ UserStep(u)
      PROVE  UNCHANGED Copy!vars
  BY <1>5
     DEF Obtain, Connect, CloseConnection, CallbackLost, Disconnect, UserStep,
         CallbackCount, CallbackDebounced, CallbackFlush, DisconnectStore,
         DisconnectUnload, docVars
<1>6. ASSUME NEW e \in Edits, UpdateTask(e) PROVE UNCHANGED Copy!vars
  BY <1>6 DEF UpdateTask, docVars
<1>7. ASSUME NEW t \in Tasks, UnloadStep(t) PROVE UNCHANGED Copy!vars
  BY <1>7
     DEF UnloadStep, IsDebounced, IsExecuting, IsSaving, IsUsed, Contains,
         CheckUnloading, Enter, Veto, Remove, Clear, Read, docVars
<1>8. ASSUME Clock \/ UNCHANGED vars PROVE UNCHANGED Copy!vars
  BY <1>8 DEF Clock, vars, docVars
<1>9. ASSUME NEW f \in Flushes, FlushBegin(f) \/ FlushNow(f) \/ FlushEnd(f)
      PROVE  UNCHANGED Copy!vars
  BY <1>9 DEF FlushBegin, FlushNow, FlushEnd, docVars
<1> QED BY <1>1, <1>2, <1>3, <1>4, <1>5, <1>6, <1>7, <1>8, <1>9 DEF Next, Proceed, CallStep

\* The storing of a document is a StoredCopy: the copy never loses an edit,
\* since the holder of the save mutex has encoded all that was stored before
\* (hocuspocus.rs:510-537).
THEOREM ImplementsStoredCopy == Spec => StoresInOrder
<1>1. Init => Copy!Init
  BY DEF Init, Copy!Init
<1>2. IInv /\ [Next]_vars => [Copy!Next]_Copy!vars
  BY CopySteps
<1> QED BY Invariance, <1>1, <1>2, PTL DEF Spec, StoresInOrder, Copy!Spec
--------------------------------------------------------------------------------
(* What the flush of destroy may rely on.                                  *)

\* The edit is stored or was refused.
Settled(e) == e \in stored \cup erred

\* What is settled stays so, and a task stays marked.
LEMMA SettledStays ==
    ASSUME IInv, [Next]_vars, NEW e, Settled(e)
    PROVE  Settled(e)'
<1>1. [Copy!Next]_Copy!vars
  BY CopySteps
<1>2. stored \subseteq stored' /\ erred \subseteq erred'
  BY <1>1 DEF Copy!Next, Copy!vars, Copy!Apply, Copy!Write, Copy!Refuse
<1> QED BY <1>2 DEF Settled

\* Who calls the debouncer, and with what result: a call takes over the armed
\* work, or finds none.
Calling(d) ==
    /\ pc[d] = "idle"
    /\ UNCHANGED <<applied, stored, erred, fpc, saver, snap>>
    /\ \/ /\ d \in Users \cup Flushes
          /\ timer = NoCall
          /\ pc' = [pc EXCEPT ![d] = "done"]
          /\ UNCHANGED <<timer, doomed>>
       \/ \E s \in {"lookup", "asleep"}, survive \in D!AbortLeaves :
            /\ pc' = D!AbortAndGo(d, s, survive)
            /\ doomed' = doomed \cup survive
            /\ timer' = IF s = "asleep" THEN d ELSE NoCall
            /\ s = "asleep" => d \in Edits

\* Neither a call moves nor what the calls share.
Still == UNCHANGED <<timer, pc, doomed, stored, erred, fpc, saver, snap>>

\* The steps of the pipeline, as far as the calls are concerned.
LEMMA CallsMove ==
    ASSUME IInv, [Next]_vars
    PROVE  \/ \E d \in Calls : /\ Calling(d) /\ UNCHANGED flushVars
                               /\ d \in Flushes => FlushNow(d)
           \/ \E d \in Calls : CallStep(d) \/ Dropped(d)
           \/ /\ Still
              /\ UNCHANGED flushVars \/ \E f \in Flushes : FlushBegin(f) \/ FlushEnd(f)
<1> USE DEF Still, debVars, docVars, storeVars
<1>1. ASSUME NEW u \in Users \cup Flushes, D!ExecuteNow(u),
             UNCHANGED <<applied, stored, erred, storeVars>>
      PROVE  Calling(u)
  <2>1. pc \in [Calls -> DP!PCs]
    BY DEF IInv, DP!IInv, DP!TypeOK
  <2> QED BY <1>1, <2>1 DEF D!ExecuteNow, Calling
<1>2. ASSUME NEW d \in Calls, NEW delay \in {0, DebounceTime}, D!Debounce(d, delay),
             UNCHANGED <<docVars, storeVars>>, delay = 0 \/ d \in Edits
      PROVE  Calling(d)
  <2>1. PICK survive \in D!AbortLeaves :
          /\ doomed' = doomed \cup survive
          /\ \/ timer' = NoCall /\ pc' = D!AbortAndGo(d, "lookup", survive)
             \/ delay # 0 /\ timer' = d /\ pc' = D!AbortAndGo(d, "asleep", survive)
    BY <1>2 DEF D!Debounce
  <2> QED BY <1>2, <2>1 DEF D!Debounce, Calling
<1>3. ASSUME NEW u \in Users, UserStep(u)
      PROVE  (Calling(u) \/ Still) /\ UNCHANGED flushVars
  <2>1. CASE CallbackFlush(u)
    BY <1>1, <2>1 DEF CallbackFlush
  <2>2. CASE DisconnectStore(u)
    BY <1>2, <2>2 DEF DisconnectStore, Calls
  <2>3. CASE CallbackCount(u) \/ CallbackDebounced(u) \/ DisconnectUnload(u)
    BY <2>3 DEF CallbackCount, CallbackDebounced, DisconnectUnload
  <2> QED BY <1>3, <2>1, <2>2, <2>3 DEF UserStep
<1>4. ASSUME NEW e \in Edits, UpdateTask(e) PROVE Calling(e) /\ UNCHANGED flushVars
  BY <1>2, <1>4 DEF UpdateTask, Calls
<1>5. ASSUME NEW f \in Flushes, FlushBegin(f) \/ FlushNow(f) \/ FlushEnd(f)
      PROVE  \/ Calling(f) /\ UNCHANGED flushVars /\ FlushNow(f)
             \/ Still /\ (FlushBegin(f) \/ FlushEnd(f))
  BY <1>1, <1>5 DEF FlushBegin, FlushNow, FlushEnd
<1>6. CASE \E u \in Users : \/ Obtain(u) \/ Connect(u) \/ CloseConnection(u)
                            \/ CallbackLost(u) \/ Disconnect(u)
  BY <1>6 DEF Obtain, Connect, CloseConnection, CallbackLost, Disconnect
<1>7. CASE \E e \in Edits : Edit(e)
  BY <1>7 DEF Edit
<1>8. CASE Clock \/ \E t \in Tasks : UnloadStep(t)
  BY <1>8
     DEF Clock, D!Tick, UnloadStep, IsDebounced, IsExecuting, IsSaving, IsUsed, Contains,
         CheckUnloading, Enter, Veto, Remove, Clear, Read
<1>9. CASE UNCHANGED vars
  BY <1>9 DEF vars
<1>10. Users \cup Edits \subseteq Calls \ Flushes /\ Flushes \subseteq Calls
  BY PipelineAssumption DEF Calls
<1> QED
  BY <1>3, <1>4, <1>5, <1>6, <1>7, <1>8, <1>9, <1>10 DEF Next, Proceed

\* How a step of the call itself moves it, and what it leaves alone.
LEMMA CallMoves ==
    ASSUME IInv, NEW d \in Calls, CallStep(d) \/ Dropped(d)
    PROVE  /\ \A c \in Calls : c # d => pc'[c] = pc[c] /\ fpc'[c] = fpc[c] /\ snap'[c] = snap[c]
           /\ timer' \in {timer, NoCall} /\ doomed' = doomed /\ UNCHANGED flushVars
           /\ pc[d] \notin {"idle", "done", "aborted"} /\ pc'[d] \notin {"idle", "asleep"}
           /\ pc'[d] = "woken" => pc[d] = "asleep"
           /\ \/ timer' = timer
              \/ pc[d] = "woken" /\ pc'[d] = "lookup"
              \/ pc[d] = "clear" /\ pc'[d] = "running" /\ fpc'[d] = fpc[d]
<1>1. /\ pc \in [Calls -> DP!PCs] /\ fpc \in [Calls -> FPCs] /\ snap \in [Calls -> SUBSET Edits]
  BY DEF IInv, TypeOK, DP!IInv, DP!TypeOK
<1> USE DEF debVars, docVars, storeVars
<1>2. CASE DebouncerStep(d)
  <2>1. UNCHANGED <<doomed, fpc, snap, flushVars>>
    BY <1>2 DEF DebouncerStep, D!Wake, D!Fire, D!Lookup, D!Acquire, D!Clear
  <2>2. CASE D!Wake(d)
    BY <1>1, <2>1, <2>2 DEF D!Wake
  <2>3. CASE D!Fire(d) \/ D!Clear(d)
    BY <1>1, <2>1, <2>3 DEF D!Fire, D!Clear
  <2>4. CASE D!Lookup(d) \/ D!Acquire(d)
    BY <1>1, <2>1, <2>4 DEF D!Lookup, D!Acquire
  <2> QED BY <1>2, <2>2, <2>3, <2>4 DEF DebouncerStep
<1>3. CASE Return(d) \/ Dropped(d)
  <2>1. /\ pc' = [pc EXCEPT ![d] = "done"] \/ pc' = [pc EXCEPT ![d] = "aborted"]
        /\ snap' = snap \/ snap' = [snap EXCEPT ![d] = {}]
        /\ pc[d] \in {"woken", "lookup", "waiting", "running"}
        /\ UNCHANGED <<timer, doomed, fpc, flushVars>>
    BY <1>3 DEF Return, Dropped, D!Finish, D!Cancel, DropSnap
  <2> QED BY <1>1, <2>1
<1>4. CASE ~ (DebouncerStep(d) \/ Return(d) \/ Dropped(d))
  <2>1. /\ pc[d] = "running" /\ UNCHANGED <<timer, doomed, pc, flushVars>>
        /\ fpc' = [fpc EXCEPT ![d] = fpc'[d]]
        /\ \/ snap' = snap \/ snap' = [snap EXCEPT ![d] = {}]
           \/ snap' = [snap EXCEPT ![d] = applied]
    BY <1>1, <1>4
       DEF CallStep, LockSave, Snapshot, StoreOk, AfterStore, StoreSkip, SkipUnlock,
           StoreError, FGoto, At, DropSnap
  <2> QED BY <1>1, <2>1
<1> QED BY <1>2, <1>3, <1>4

\* A call that is past its sleep, and out of reach of an abort, is so until it
\* has settled the edit.
LEMMA Persists ==
    ASSUME IInv, [Next]_vars, NEW c \in Calls, NEW e \in Edits, e \in applied,
           WillStore(c, e), pc[c] # "asleep", timer # c
    PROVE  Settled(e)' \/ (WillStore(c, e)' /\ pc'[c] # "asleep" /\ timer' # c)
<1>1. pc[c] \notin {"idle", "done", "aborted"} /\ c \notin doomed /\ c # NoCall
  BY PipelineAssumption DEF WillStore, D!Bears
<1>2. pc \in [Calls -> DP!PCs]
  BY DEF IInv, DP!IInv, DP!TypeOK
<1>3. ASSUME NEW d \in Calls, Calling(d)
      PROVE  WillStore(c, e)' /\ pc'[c] # "asleep" /\ timer' # c
  <2>1. d # c /\ UNCHANGED <<fpc, snap>>
    BY <1>1, <1>3 DEF Calling
  <2>2. pc'[c] = pc[c] /\ timer' # c
    BY <1>1, <1>2, <1>3, <2>1 DEF Calling, D!AbortAndGo
  <2>3. c \notin doomed'
    BY <1>1, <1>3 DEF Calling, D!AbortLeaves
  <2> QED BY <2>1, <2>2, <2>3 DEF WillStore, D!Bears
<1>4. ASSUME NEW d \in Calls, CallStep(d) \/ Dropped(d)
      PROVE  Settled(e)' \/ (WillStore(c, e)' /\ pc'[c] # "asleep" /\ timer' # c)
  <2>1. CASE d # c
    BY <1>1, <1>4, <2>1, CallMoves DEF WillStore, D!Bears
  <2>2. CASE d = c
    <3>1. timer' # c /\ pc'[c] # "asleep" /\ c \notin doomed'
      BY <1>1, <1>4, <2>2, CallMoves
    <3>2. CASE DebouncerStep(c)
      <4>1. fpc[c] = "start" /\ UNCHANGED fpc
        BY <3>2
           DEF IInv, Core, Fresh, DebouncerStep, D!Wake, D!Fire, D!Lookup, D!Acquire,
               D!Clear, storeVars
      <4>2. pc'[c] \in {"woken", "lookup", "waiting", "clear", "running"}
        BY <1>2, <3>2 DEF DebouncerStep, D!Wake, D!Fire, D!Lookup, D!Acquire, D!Clear
      <4> QED BY <3>1, <4>1, <4>2 DEF WillStore, D!Bears
    <3>3. CASE Return(c) \/ Dropped(c)
      BY <1>1, <3>3 DEF Return, Dropped, D!Finish, D!Cancel, WillStore, D!Bears
    <3>4. CASE ~ (DebouncerStep(c) \/ Return(c) \/ Dropped(c))
      <4>1. fpc \in [Calls -> FPCs] /\ snap \in [Calls -> SUBSET Edits]
        BY DEF IInv, TypeOK
      <4>2. pc[c] = "running" /\ UNCHANGED pc
        BY <1>4, <2>2, <3>4
           DEF CallStep, LockSave, Snapshot, StoreOk, AfterStore, StoreSkip, SkipUnlock,
               StoreError, At, debVars
      <4>3. \/ fpc[c] \in {"start", "hook"}
            \/ fpc[c] = "write" /\ e \in snap[c]
        BY <4>2 DEF WillStore, D!Bears
      <4>4. CASE LockSave(c) \/ Snapshot(c)
        BY <3>1, <4>1, <4>2, <4>4
           DEF LockSave, Snapshot, At, FGoto, WillStore
      <4>5. CASE StoreOk(c) \/ StoreSkip(c) \/ StoreError(c)
        BY <4>3, <4>5 DEF StoreOk, StoreSkip, StoreError, At, Settled
      <4>6. ~ AfterStore(c) /\ ~ SkipUnlock(c)
        BY <4>3 DEF AfterStore, SkipUnlock, At
      <4> QED BY <1>4, <2>2, <3>4, <4>4, <4>5, <4>6 DEF CallStep
    <3> QED BY <3>2, <3>3, <3>4
  <2> QED BY <2>1, <2>2
<1>5. CASE Still
  BY <1>5 DEF Still, WillStore, D!Bears
<1> QED BY <1>3, <1>4, <1>5, CallsMove

\* Such a call keeps the edit under way until it is settled.
LEMMA UnderwayStays ==
    ASSUME IInv, [Next]_vars, NEW e \in Edits, e \in applied, Underway(e)
    PROVE  Settled(e)' \/ Underway(e)'
<1>1. PICK c \in Calls : WillStore(c, e) /\ pc[c] # "asleep" /\ timer # c
  BY DEF Underway
<1>2. Settled(e)' \/ (WillStore(c, e)' /\ pc'[c] # "asleep" /\ timer' # c)
  BY <1>1, Persists
<1> QED BY <1>2 DEF Underway

\* With no entry armed, an edit that was handed over is under way, unless a
\* timer task was aborted in the middle of its poll.
Armed ==
    \A e \in applied \ (stored \cup erred) :
        pc[e] = "idle" \/ timer # NoCall \/ doomed # {} \/ Underway(e)

\* Who takes the armed entry out of the map has the edits to store itself.
LEMMA ArmedStep == ASSUME IInv, Armed, [Next]_vars PROVE Armed'
<1> SUFFICES ASSUME NEW e \in applied' \ (stored' \cup erred'),
                    pc'[e] # "idle", timer' = NoCall, doomed' = {}
             PROVE  Underway(e)'
  BY DEF Armed
<1>1. NoCall \notin Calls /\ pc \in [Calls -> DP!PCs]
  BY PipelineAssumption DEF IInv, DP!IInv, DP!TypeOK
<1>2. e \in Edits /\ e \in Calls
  BY TypeStep DEF IInv, TypeOK, Calls
<1>3. ~ Settled(e)' /\ ~ Settled(e)
  BY SettledStays DEF Settled
<1>4. ASSUME Underway(e), e \in applied PROVE Underway(e)'
  BY <1>2, <1>3, <1>4, UnderwayStays
<1>5. ASSUME NEW d \in Calls, pc'[d] = "lookup" PROVE Underway(e)'
  BY <1>1, <1>5 DEF Underway, WillStore, D!Bears
<1>6. ASSUME NEW d \in Calls, Calling(d) PROVE Underway(e)'
  <2>1. applied' = applied /\ doomed = {}
    BY <1>6 DEF Calling
  <2>2. CASE timer = NoCall /\ pc' = [pc EXCEPT ![d] = "done"] /\ d \in Users \cup Flushes
    <3>1. pc[e] # "idle"
      BY <1>1, <1>2, <2>2, PipelineAssumption
    <3> QED BY <1>3, <1>4, <2>1, <2>2, <3>1 DEF Armed, Settled
  <2>3. ASSUME NEW survive \in D!AbortLeaves, pc' = D!AbortAndGo(d, "lookup", survive)
        PROVE  Underway(e)'
    BY <1>5, <2>3 DEF D!AbortAndGo
  <2> QED BY <1>1, <1>6, <2>2, <2>3 DEF Calling
<1>7. ASSUME NEW d \in Calls, CallStep(d) \/ Dropped(d) PROVE Underway(e)'
  <2>1. applied' = applied
    BY <1>7
       DEF CallStep, Dropped, DebouncerStep, Return, LockSave, Snapshot, StoreOk,
           AfterStore, StoreSkip, SkipUnlock, StoreError, docVars
  <2>2. pc[e] # "idle" /\ doomed = {}
    BY <1>2, <1>7, CallMoves
  <2>3. CASE timer = NoCall
    BY <1>3, <1>4, <2>1, <2>2, <2>3 DEF Armed, Settled
  <2>4. CASE pc[d] = "clear" /\ pc'[d] = "running" /\ fpc'[d] = fpc[d]
    <3>1. fpc'[d] = "start"
      BY <2>4 DEF IInv, Core, Fresh
    <3> QED BY <1>1, <2>4, <3>1 DEF Underway, WillStore
  <2> QED BY <1>5, <1>7, <2>3, <2>4, CallMoves
<1>8. CASE Still
  <2>1. e \in applied
    BY <1>2, <1>8 DEF Still, IInv, Core, NotYet
  <2> QED BY <1>3, <1>4, <1>8, <2>1 DEF Still, Armed, Settled
<1> QED BY <1>6, <1>7, <1>8, CallsMove

\* Where a flush is, and which edits it has to wait for.
FlushPlaces ==
    \A f \in Flushes :
        /\ pc[f] \notin {"asleep", "woken"}
        /\ flush[f] = "out" => pc[f] = "idle" /\ due[f] = {}
        /\ flush[f] = "ended" => pc[f] \in {"idle", "done"}
        /\ \A e \in due[f] : e \in Edits /\ e \in applied /\ pc[e] # "idle"

\* The flush f need not see to e: it is settled or under way without it.
Spared(f, e) == Settled(e) \/ (FoundNothing(f) /\ (Underway(e) \/ doomed # {}))

\* What a flush waits for it will store, unless it was spared it.
Flushed ==
    \A f \in Flushes : \A e \in due[f] :
        \/ flush[f] = "storing" /\ pc[f] = "idle"
        \/ WillStore(f, e)
        \/ Spared(f, e)

FlushInv == IInv /\ Armed /\ FlushPlaces /\ Flushed

\* How a step moves a flush: by a step of its own, or of its call.
LEMMA FlushMoves ==
    ASSUME FlushInv, [Next]_vars, NEW f \in Flushes
    PROVE  \/ FlushBegin(f) \/ FlushNow(f) \/ FlushEnd(f)
           \/ /\ flush'[f] = flush[f] /\ due'[f] = due[f]
              /\ \/ CallStep(f) \/ Dropped(f)
                 \/ pc'[f] = pc[f] /\ fpc'[f] = fpc[f]
<1> USE DEF flushVars
<1>0. f \in Calls /\ f # timer
  BY PipelineAssumption DEF Calls, FlushInv, FlushPlaces, IInv, DP!IInv, DP!TimerIsPending
<1>1. ASSUME NEW d \in Calls, Calling(d), UNCHANGED flushVars, d # f
      PROVE  pc'[f] = pc[f] /\ fpc'[f] = fpc[f]
  BY <1>0, <1>1 DEF Calling, D!AbortAndGo, FlushInv, IInv, DP!IInv, DP!TypeOK
<1>2. ASSUME NEW d \in Calls, CallStep(d) \/ Dropped(d), d # f
      PROVE  pc'[f] = pc[f] /\ fpc'[f] = fpc[f] /\ UNCHANGED flushVars
  BY <1>0, <1>2, CallMoves DEF FlushInv
<1>3. ASSUME CallStep(f) \/ Dropped(f) PROVE UNCHANGED flushVars
  BY <1>0, <1>3, CallMoves DEF FlushInv
<1>4. ASSUME NEW g \in Flushes, FlushBegin(g) \/ FlushEnd(g), g # f
      PROVE  flush'[f] = flush[f] /\ due'[f] = due[f]
  BY <1>4 DEF FlushBegin, FlushEnd, FlushInv, IInv, TypeOK
<1>5. CASE Still /\ UNCHANGED flushVars
  BY <1>5 DEF Still
<1>6. CASE Still /\ \E g \in Flushes : FlushBegin(g) \/ FlushEnd(g)
  BY <1>4, <1>6 DEF Still
<1> QED BY <1>0, <1>1, <1>2, <1>3, <1>5, <1>6, CallsMove DEF FlushInv

\* Every step preserves what is known of the flushes.
LEMMA StepFlushInv == FlushInv /\ [Next]_vars => FlushInv'
<1> SUFFICES ASSUME FlushInv, [Next]_vars PROVE FlushInv'
  OBVIOUS
<1>1. IInv' /\ Armed'
  BY StepIInv, ArmedStep DEF FlushInv
<1> SUFFICES ASSUME NEW f \in Flushes
             PROVE  /\ pc'[f] \notin {"asleep", "woken"}
                    /\ flush'[f] = "out" => pc'[f] = "idle" /\ due'[f] = {}
                    /\ flush'[f] = "ended" => pc'[f] \in {"idle", "done"}
                    /\ \A e \in due'[f] :
                         /\ e \in Edits /\ e \in applied' /\ pc'[e] # "idle"
                         /\ \/ flush'[f] = "storing" /\ pc'[f] = "idle"
                            \/ WillStore(f, e)'
                            \/ Spared(f, e)'
  BY <1>1 DEF FlushInv, FlushPlaces, Flushed
<1>2. /\ f \in Calls /\ f \notin Edits /\ f # timer
      /\ pc[f] = "idle" => f \notin doomed
  BY PipelineAssumption
     DEF Calls, FlushInv, FlushPlaces, IInv, DP!IInv, DP!TimerIsPending, DP!Kinds
<1>3. /\ flush \in [Flushes -> {"out", "storing", "ended"}]
      /\ due \in [Flushes -> SUBSET Edits]
      /\ pc \in [Calls -> DP!PCs] /\ Edits \subseteq Calls
  BY DEF FlushInv, IInv, TypeOK, DP!IInv, DP!TypeOK, Calls
\* What is handed over stays handed over, and a marked task stays marked.
<1>4. doomed \subseteq doomed' /\ \A e \in Edits : pc[e] # "idle" => pc'[e] # "idle"
  <2>1. ASSUME NEW d \in Calls, Calling(d)
        PROVE  doomed \subseteq doomed' /\ \A e \in Edits : pc[e] # "idle" => pc'[e] # "idle"
    BY <1>3, <2>1 DEF Calling, D!AbortAndGo
  <2>2. ASSUME NEW d \in Calls, CallStep(d) \/ Dropped(d)
        PROVE  doomed \subseteq doomed' /\ \A e \in Edits : pc[e] # "idle" => pc'[e] # "idle"
    BY <1>3, <2>2, CallMoves DEF FlushInv
  <2> QED BY <2>1, <2>2, CallsMove DEF FlushInv, Still
<1>5. applied \subseteq applied'
  BY CopySteps DEF FlushInv, Copy!Next, Copy!vars, Copy!Apply, Copy!Write, Copy!Refuse
\* An edit that is handed over, and not settled, is under way when there is no
\* entry.
<1>6. ASSUME NEW e \in Edits, e \in applied', pc'[e] # "idle", timer' = NoCall,
             FoundNothing(f)'
      PROVE  Spared(f, e)'
  BY <1>1, <1>6 DEF Armed, Spared, Settled
\* What a flush is spared it stays spared.
<1>7. ASSUME NEW e \in Edits, e \in applied, Spared(f, e),
             Settled(e) \/ (pc'[f] \in {"idle", "done"} /\ fpc'[f] = fpc[f])
      PROVE  Spared(f, e)'
  <2>1. CASE Settled(e)
    BY <2>1, SettledStays DEF FlushInv, Spared
  <2>2. CASE ~ Settled(e)
    <3>1. Underway(e) => Settled(e)' \/ Underway(e)'
      BY <1>7, UnderwayStays DEF FlushInv
    <3> QED BY <1>4, <1>7, <2>2, <3>1 DEF Spared, FoundNothing
  <2> QED BY <2>1, <2>2
<1>8. ASSUME NEW e \in Edits, e \in applied, WillStore(f, e)
      PROVE  WillStore(f, e)' \/ Spared(f, e)'
  BY <1>2, <1>8, Persists DEF FlushInv, FlushPlaces, Spared
<1>9. /\ pc[f] \notin {"asleep", "woken"}
      /\ flush[f] = "out" => pc[f] = "idle" /\ due[f] = {}
      /\ flush[f] = "ended" => pc[f] \in {"idle", "done"}
      /\ \A e \in due[f] :
           /\ e \in Edits /\ e \in applied /\ pc[e] # "idle"
           /\ \/ flush[f] = "storing" /\ pc[f] = "idle"
              \/ WillStore(f, e)
              \/ Spared(f, e)
  BY DEF FlushInv, FlushPlaces, Flushed
<1>10. CASE FlushBegin(f)
  <2>1. /\ pc'[f] = pc[f] /\ pc[f] = "idle" /\ fpc'[f] = "start"
        /\ UNCHANGED <<pc, timer>>
        /\ \/ flush'[f] = "storing"
           \/ flush'[f] = "ended" /\ timer' = NoCall
        /\ due'[f] = {e \in Edits : pc[e] # "idle"}
    BY <1>2, <1>3, <1>9, <1>10
       DEF FlushBegin, debVars, storeVars, FlushInv, IInv, Core, Fresh
  <2>2. \A e \in due'[f] : e \in Edits /\ e \in applied' /\ pc'[e] # "idle"
    BY <1>5, <2>1 DEF FlushInv, IInv, Core, NotYet
  <2>3. CASE flush'[f] = "storing"
    BY <2>1, <2>2, <2>3
  <2>4. CASE flush'[f] = "ended" /\ timer' = NoCall
    <3>1. FoundNothing(f)'
      BY <2>1 DEF FoundNothing
    <3> QED BY <1>6, <2>1, <2>2, <2>4, <3>1
  <2> QED BY <2>1, <2>3, <2>4
<1>11. CASE FlushNow(f)
  <2>1. /\ flush'[f] = flush[f] /\ due'[f] = due[f] /\ flush[f] = "storing"
        /\ pc[f] = "idle" /\ fpc'[f] = "start"
    BY <1>2, <1>11 DEF FlushNow, D!ExecuteNow, flushVars, storeVars, FlushInv, IInv, Core, Fresh
  <2>2. \A e \in due'[f] : e \in Edits /\ e \in applied' /\ pc'[e] # "idle"
    BY <1>4, <1>5, <1>9, <2>1
  <2>3. CASE timer = NoCall
    <3>1. timer' = NoCall /\ pc'[f] = "done"
      BY <1>2, <1>3, <1>11, <2>3 DEF FlushNow, D!ExecuteNow
    <3>2. FoundNothing(f)'
      BY <2>1, <3>1 DEF FoundNothing
    <3> QED BY <1>6, <2>1, <2>2, <3>1, <3>2
  <2>4. CASE timer # NoCall
    <3>1. PICK survive \in D!AbortLeaves :
            pc' = D!AbortAndGo(f, "lookup", survive) /\ doomed' = doomed \cup survive
      BY <1>11, <2>4 DEF FlushNow, D!ExecuteNow
    <3>2. pc'[f] = "lookup" /\ f \notin doomed'
      BY <1>2, <2>1, <3>1 DEF D!AbortAndGo, D!AbortLeaves
    <3>3. \A e \in Edits : WillStore(f, e)'
      BY <3>2 DEF WillStore, D!Bears
    <3> QED BY <2>1, <2>2, <3>2, <3>3
  <2> QED BY <2>3, <2>4
<1>12. CASE FlushEnd(f)
  <2>1. /\ flush'[f] = "ended" /\ due'[f] = due[f] /\ pc' = pc /\ pc[f] = "done"
        /\ fpc' = fpc
    BY <1>3, <1>12 DEF FlushEnd, debVars, storeVars
  <2>2. \A e \in due'[f] : e \in Edits /\ e \in applied' /\ pc'[e] # "idle"
    BY <1>5, <1>9, <2>1
  <2>3. \A e \in due'[f] : Spared(f, e)'
    BY <1>7, <1>9, <2>1 DEF WillStore, D!Bears
  <2> QED BY <2>1, <2>2, <2>3
<1>13. CASE /\ flush'[f] = flush[f] /\ due'[f] = due[f]
            /\ CallStep(f) \/ Dropped(f)
  <2>1. /\ pc[f] \notin {"idle", "done"} /\ pc'[f] \notin {"idle", "asleep", "woken"}
    BY <1>2, <1>9, <1>13, CallMoves DEF FlushInv
  <2>2. \A e \in due'[f] : e \in Edits /\ e \in applied' /\ pc'[e] # "idle"
    BY <1>4, <1>5, <1>9, <1>13
  <2>3. ASSUME NEW e \in due[f] PROVE WillStore(f, e)' \/ Spared(f, e)'
    <3>1. WillStore(f, e) \/ Settled(e)
      BY <1>9, <2>1, <2>3 DEF Spared, FoundNothing
    <3> QED BY <1>8, <1>9, <2>3, <3>1, SettledStays DEF FlushInv, Spared
  <2> QED BY <1>9, <1>13, <2>1, <2>2, <2>3
<1>14. CASE /\ flush'[f] = flush[f] /\ due'[f] = due[f]
            /\ pc'[f] = pc[f] /\ fpc'[f] = fpc[f]
  <2>1. \A e \in due'[f] : e \in Edits /\ e \in applied' /\ pc'[e] # "idle"
    BY <1>4, <1>5, <1>9, <1>14
  <2>2. ASSUME NEW e \in due[f]
        PROVE  \/ flush'[f] = "storing" /\ pc'[f] = "idle"
               \/ WillStore(f, e)'
               \/ Spared(f, e)'
    <3>1. CASE WillStore(f, e)
      BY <1>8, <1>9, <2>2, <3>1
    <3>2. CASE Spared(f, e)
      <4>1. Settled(e) \/ pc[f] \in {"idle", "done"}
        BY <3>2 DEF Spared, FoundNothing
      <4> QED BY <1>7, <1>9, <1>14, <2>2, <3>2, <4>1
    <3> QED BY <1>9, <1>14, <2>2, <3>1, <3>2
  <2> QED BY <1>9, <1>14, <2>1, <2>2
<1> QED BY <1>10, <1>11, <1>12, <1>13, <1>14, FlushMoves

\* When the flush of destroy has ended, an edit that was handed to the debouncer
\* before it began is stored or refused, or a store of it that the flush could
\* not find is under way (hocuspocus.rs:91-100, server.rs:265-272).
THEOREM FlushStores == Spec => []FlushedIsStored
<1>1. Init => FlushInv
  <2>1. Init => Armed /\ FlushPlaces /\ Flushed
    BY DEF Init, D!Init, Armed, FlushPlaces, Flushed, Calls
  <2> QED BY <2>1, InitIInv DEF FlushInv
<1>2. FlushInv => FlushedIsStored
  BY DEF FlushInv, FlushPlaces, Flushed, FlushedIsStored, Spared, Settled, FoundNothing,
         WillStore, D!Bears
<1> QED BY <1>1, <1>2, StepFlushInv, PTL DEF Spec
--------------------------------------------------------------------------------
\* The pipeline drives the debouncer by its operations only, from its initial
\* state on: what Debouncer promises holds of the one that update tasks, close
\* callbacks and direct connections use (hocuspocus.rs:143-152, 487-508).
THEOREM UsesDebouncer == Spec => DP!Init /\ [][DP!Next]_(DP!vars)
<1>1. Init => DP!Init
  BY DEF Init, D!Init, DP!Init
<1>2. [Next]_vars => [DP!Next]_(DP!vars)
  BY DebouncerSteps
<1> QED BY <1>1, <1>2, PTL DEF Spec

\* A stream of edits does not put off the store for ever, whoever flushes or
\* stores at once in between: an armed store is younger than max_debounce plus
\* one debounce interval.
THEOREM StoresAreNotPutOff == Spec => []DP!BoundedDeferral
<1>1. IInv => DP!BoundedDeferral
  <2> SUFFICES ASSUME IInv, timer # NoCall
               PROVE  age < MaxDebounce + DebounceTime
    BY DEF DP!BoundedDeferral
  <2>1. timer \in Calls /\ left[timer] \in Nat /\ age \in Nat
    BY DEF IInv, DP!IInv, DP!TypeOK
  <2>2. age + left[timer] < MaxDebounce + DebounceTime
    BY DEF IInv, DP!IInv, DP!Budget
  <2> QED BY <2>1, <2>2, PipelineAssumption
<1> QED BY Invariance, <1>1, PTL

\* A store that was handed to the debouncer is gone only when one begins.
THEOREM WorkIsNotDropped == Spec => DP!NoDroppedWork
<1>1. IInv /\ [Next]_vars
      => [DP!Owed /\ ~ DP!Owed'
          => \E c \in Calls : DP!Executing(c)' /\ ~ DP!Executing(c)]_(DP!vars)
  BY DebouncerSteps, DP!WorkMovesOn, DebouncerAssumptionHolds DEF IInv
<1> QED BY Invariance, <1>1, PTL DEF Spec, DP!NoDroppedWork
================================================================================
