---------------------------- MODULE DebouncerProofs ----------------------------
(***************************************************************************)
(* What the debouncer guarantees for every set of calls, every debounce    *)
(* interval and every max_debounce.                                        *)
(***************************************************************************)
EXTENDS Debouncer, TLAPS

\* Which calls can be timer tasks, which can be doomed: run() is never
\* aborted, and a task is marked only once its sleep is over.
Kinds ==
    \A c \in Calls :
        /\ pc[c] \in {"idle", "asleep", "woken"} => c \notin inline
        /\ pc[c] = "clear" => c \in inline
        /\ c \in doomed => c \notin inline /\ pc[c] \notin {"idle", "asleep"}

\* What is left of the sleep plus what has passed since the start of the entry.
Budget ==
    /\ timer = NoCall => age = 0
    /\ timer # NoCall => age + left[timer] < MaxDebounce + DebounceTime

IInv == TypeOK /\ TimerIsPending /\ Kinds /\ Budget

\* The invariant holds initially.
LEMMA InitIInv == Init => IInv
  BY DebouncerAssumption DEF Init, IInv, TypeOK, TimerIsPending, Kinds, Budget, PCs

\* Every step of the debouncer preserves the invariant.
LEMMA StepIInv == IInv /\ [Next]_vars => IInv'
<1> SUFFICES ASSUME IInv, [Next]_vars PROVE IInv'
  OBVIOUS
<1> USE DebouncerAssumption DEF IInv, PCs
<1>1. ASSUME NEW c \in Calls, NEW delay \in {0, DebounceTime}, Debounce(c, delay)
      PROVE  IInv'
  <2>1. PICK survive \in AbortLeaves :
          /\ doomed' = doomed \cup survive
          /\ \/ /\ timer' = NoCall
                /\ age' = 0
                /\ inline' = inline \cup {c}
                /\ pc' = AbortAndGo(c, "lookup", survive)
                /\ UNCHANGED left
             \/ /\ delay # 0 /\ ~ Overdue
                /\ timer' = c
                /\ left' = [left EXCEPT ![c] = delay]
                /\ pc' = AbortAndGo(c, "asleep", survive)
                /\ UNCHANGED <<age, inline>>
    BY <1>1 DEF Debounce
  <2>2. /\ survive \subseteq Calls
        /\ \A d \in survive : d = timer /\ pc[d] = "woken"
    BY DEF AbortLeaves, TypeOK
  <2>3. pc[c] = "idle" /\ UNCHANGED <<running, lock>>
    BY <1>1 DEF Debounce
  <2>4. TypeOK'
    BY <2>1, <2>2, <2>3 DEF TypeOK, AbortAndGo
  <2>5. TimerIsPending'
    BY <2>1, <2>2, <2>3 DEF TypeOK, TimerIsPending, Kinds, AbortAndGo
  <2>6. Kinds'
    BY <2>1, <2>2, <2>3 DEF TypeOK, TimerIsPending, Kinds, AbortAndGo
  <2>7. Budget'
    BY <2>1, <2>3 DEF TypeOK, Budget, Overdue
  <2> QED BY <2>4, <2>5, <2>6, <2>7
<1>2. ASSUME NEW c \in Calls, ExecuteNow(c) PROVE IInv'
  <2>1. CASE timer = NoCall
    BY <1>2, <2>1 DEF ExecuteNow, TypeOK, TimerIsPending, Kinds, Budget
  <2>2. CASE timer # NoCall
    <3>1. PICK survive \in AbortLeaves :
            /\ doomed' = doomed \cup survive
            /\ pc' = AbortAndGo(c, "lookup", survive)
      BY <1>2, <2>2 DEF ExecuteNow
    <3>2. /\ survive \subseteq Calls
          /\ \A d \in survive : d = timer /\ pc[d] = "woken"
      BY DEF AbortLeaves, TypeOK
    <3>3. /\ pc[c] = "idle" /\ timer' = NoCall /\ age' = 0
          /\ inline' = inline \cup {c}
          /\ UNCHANGED <<left, running, lock>>
      BY <1>2, <2>2 DEF ExecuteNow
    <3>4. TypeOK'
      BY <2>2, <3>1, <3>2, <3>3 DEF TypeOK, AbortAndGo
    <3>5. TimerIsPending' /\ Budget'
      BY <3>3 DEF TimerIsPending, Budget
    <3>6. Kinds'
      BY <3>1, <3>2, <3>3 DEF TypeOK, TimerIsPending, Kinds, AbortAndGo
    <3> QED BY <3>4, <3>5, <3>6
  <2> QED BY <2>1, <2>2
<1>3. ASSUME NEW c \in Calls, Wake(c) PROVE IInv'
  BY <1>3 DEF Wake, TypeOK, TimerIsPending, Kinds, Budget
<1>4. ASSUME NEW c \in Calls, Fire(c) PROVE IInv'
  BY <1>4 DEF Fire, TypeOK, TimerIsPending, Kinds, Budget
<1>5. ASSUME NEW c \in Calls, Lookup(c) PROVE IInv'
  BY <1>5 DEF Lookup, TypeOK, TimerIsPending, Kinds, Budget
<1>6. ASSUME NEW c \in Calls, Acquire(c) PROVE IInv'
  BY <1>6 DEF Acquire, TypeOK, TimerIsPending, Kinds, Budget
<1>7. ASSUME NEW c \in Calls, Clear(c) PROVE IInv'
  BY <1>7 DEF Clear, TypeOK, TimerIsPending, Kinds, Budget
<1>8. ASSUME NEW c \in Calls, Finish(c) PROVE IInv'
  BY <1>8 DEF Finish, TypeOK, TimerIsPending, Kinds, Budget
<1>9. ASSUME NEW c \in Calls, Cancel(c) PROVE IInv'
  BY <1>9 DEF Cancel, TypeOK, TimerIsPending, Kinds, Budget
<1>10. ASSUME Tick PROVE IInv'
  <2>1. left' \in [Calls -> Nat]
    BY <1>10 DEF Tick, TypeOK
  <2>2. TypeOK'
    BY <1>10, <2>1 DEF Tick, TypeOK
  <2>3. Budget'
    BY <1>10 DEF Tick, TypeOK, Budget, TimerIsPending
  <2>4. TimerIsPending' /\ Kinds'
    BY <1>10 DEF Tick, TimerIsPending, Kinds
  <2> QED BY <2>2, <2>3, <2>4
<1>11. ASSUME UNCHANGED vars PROVE IInv'
  BY <1>11 DEF vars, TypeOK, TimerIsPending, Kinds, Budget
<1> QED
  BY <1>1, <1>2, <1>3, <1>4, <1>5, <1>6, <1>7, <1>8, <1>9, <1>10, <1>11
     DEF Next, Quiescent

\* The invariant holds in every reachable state.
THEOREM Invariance == Spec => []IInv
  BY InitIInv, StepIInv, PTL DEF Spec

\* The variables keep their types: in particular no sleep runs below zero, and
\* whoever waits for a lock object or holds one has one.
THEOREM TypeCorrect == Spec => []TypeOK
<1>1. IInv => TypeOK
  BY DEF IInv
<1> QED BY Invariance, <1>1, PTL

\* An abort reaches only tasks that still sleep or have only just woken.
THEOREM AbortIsEarly == Spec => []TimerIsPending
<1>1. IInv => TimerIsPending
  BY DEF IInv
<1> QED BY Invariance, <1>1, PTL

\* An armed entry is younger than max_debounce plus one debounce interval.
THEOREM DeferralIsBounded == Spec => []BoundedDeferral
<1>1. IInv => BoundedDeferral
  <2> SUFFICES ASSUME IInv, timer # NoCall
               PROVE  age < MaxDebounce + DebounceTime
    BY DEF BoundedDeferral
  <2>1. timer \in Calls /\ left[timer] \in Nat /\ age \in Nat
    BY DEF IInv, TypeOK
  <2>2. age + left[timer] < MaxDebounce + DebounceTime
    BY DEF IInv, Budget
  <2> QED BY <2>1, <2>2, DebouncerAssumption
<1> QED BY Invariance, <1>1, PTL
--------------------------------------------------------------------------------
\* A call that bears work in a step keeps bearing it, or begins to execute it,
\* or somebody else bears it afterwards.
LEMMA WorkMovesOn ==
    ASSUME IInv, [Next]_vars, Owed, ~ Owed'
    PROVE  \E c \in Calls : Executing(c)' /\ ~ Executing(c)
<1>1. PICK b \in Calls : Bears(b)
  BY DEF Owed
<1>2. ~ Bears(b)'
  BY DEF Owed
<1> USE DEF IInv, PCs
<1>3. ASSUME NEW c \in Calls, NEW delay \in {0, DebounceTime}, Debounce(c, delay)
      PROVE  FALSE
  <2>1. PICK survive \in AbortLeaves :
          /\ doomed' = doomed \cup survive
          /\ pc'[c] \in {"lookup", "asleep"}
    BY <1>3 DEF Debounce, AbortAndGo
  <2>2. c \notin survive /\ c \notin doomed
    BY <1>3 DEF Debounce, AbortLeaves, Kinds
  <2>3. Bears(c)'
    BY <2>1, <2>2 DEF Bears
  <2> QED BY <2>3 DEF Owed
<1>4. ASSUME NEW c \in Calls, ExecuteNow(c) PROVE FALSE
  <2>1. CASE timer = NoCall
    BY <1>1, <1>2, <1>4, <2>1 DEF ExecuteNow, Bears, TypeOK
  <2>2. CASE timer # NoCall
    <3>1. PICK survive \in AbortLeaves :
            doomed' = doomed \cup survive /\ pc'[c] = "lookup"
      BY <1>4, <2>2 DEF ExecuteNow, AbortAndGo
    <3>2. c \notin survive /\ c \notin doomed
      BY <1>4 DEF ExecuteNow, AbortLeaves, Kinds
    <3>3. Bears(c)'
      BY <3>1, <3>2 DEF Bears
    <3> QED BY <3>3 DEF Owed
  <2> QED BY <2>1, <2>2
<1>5. ASSUME NEW c \in Calls, Wake(c) \/ Fire(c) \/ Lookup(c) PROVE FALSE
  BY <1>1, <1>2, <1>5 DEF Wake, Fire, Lookup, Bears, TypeOK
<1>6. ASSUME NEW c \in Calls, Acquire(c) \/ Clear(c)
      PROVE  Executing(c)' /\ ~ Executing(c)
  <2>1. b = c
    BY <1>1, <1>2, <1>6 DEF Acquire, Clear, Bears, TypeOK
  <2>2. c \notin doomed /\ doomed' = doomed
    BY <1>1, <1>6, <2>1 DEF Bears, Acquire, Clear
  <2>3. pc'[c] = "running" /\ pc[c] # "running"
    BY <1>2, <1>6, <2>1, <2>2 DEF Acquire, Clear, Bears, TypeOK
  <2> QED BY <2>2, <2>3 DEF Executing
<1>7. ASSUME NEW c \in Calls, Finish(c) \/ Cancel(c) PROVE FALSE
  BY <1>1, <1>2, <1>7 DEF Finish, Cancel, Bears, TypeOK
<1>8. ASSUME Tick \/ UNCHANGED vars PROVE FALSE
  BY <1>1, <1>2, <1>8 DEF Tick, vars, Bears
<1> QED
  BY <1>3, <1>4, <1>5, <1>6, <1>7, <1>8 DEF Next, Quiescent

\* Outstanding work ends only when an execution of the function begins.
THEOREM WorkIsNotDropped == Spec => NoDroppedWork
<1>1. IInv /\ [Next]_vars
      => [Owed /\ ~ Owed' => \E c \in Calls : Executing(c)' /\ ~ Executing(c)]_vars
  BY WorkMovesOn
<1> QED BY Invariance, <1>1, PTL DEF Spec, NoDroppedWork
================================================================================
