------------------------------- MODULE Debouncer -------------------------------
(***************************************************************************)
(* The debouncer of hocuspocu-rs (util/debounce.rs): the coalescing timer  *)
(* that postpones the storing of a document.                               *)
(*                                                                         *)
(* Both of its maps are keyed by the debounce id and no step touches two   *)
(* keys, so the module follows one id.  Every caller of debounce() and of  *)
(* execute_now() is an element of Calls; the timer task that debounce()    *)
(* spawns keeps the identity of its caller, which has returned by then.    *)
(* The lock objects in running_executions are named by the call that       *)
(* inserted them.                                                          *)
(***************************************************************************)
EXTENDS Integers, FiniteSets

CONSTANTS Calls,         \* the calls of debounce() and execute_now()
          NoCall,        \* "no entry in the map"
          DebounceTime,  \* configuration.debounce, in clock ticks
          MaxDebounce    \* configuration.max_debounce, in clock ticks

ASSUME DebouncerAssumption ==
    /\ NoCall \notin Calls
    /\ DebounceTime \in Nat
    /\ MaxDebounce \in Nat

VARIABLES
    timer,    \* timers[id]: the call whose timer task the entry holds
    age,      \* ticks since the entry's `start`
    left,     \* ticks the sleep of each timer task still has to run
    running,  \* running_executions[id]: the lock object, or NoCall
    pc,       \* where each call is
    inline,   \* calls in run(), which execute the function themselves
    lock,     \* the lock object each call holds a reference to
    doomed    \* timer tasks aborted in the middle of a poll

vars == <<timer, age, left, running, pc, inline, lock, doomed>>

\* idle    : not called yet
\* asleep  : timer task suspended in its sleep
\* woken   : sleep over, the task is being polled, timers not locked yet
\* lookup  : about to look up the lock object in running_executions
\* waiting : waiting for that lock
\* clear   : holds the lock, about to remove the timers entry (run only)
\* running : holds the lock, executes the function
\* done    : returned;  aborted : cancelled by JoinHandle::abort
PCs == {"idle", "asleep", "woken", "lookup", "waiting", "clear", "running",
        "done", "aborted"}

Init ==
    /\ timer = NoCall
    /\ age = 0
    /\ left = [c \in Calls |-> 0]
    /\ running = NoCall
    /\ pc = [c \in Calls |-> "idle"]
    /\ inline = {}
    /\ lock = [c \in Calls |-> NoCall]
    /\ doomed = {}
--------------------------------------------------------------------------------
(* JoinHandle::abort on the task of the timers entry.  A suspended task is *)
(* dropped at once; one that is being polled is only marked, and goes on   *)
(* until it next awaits something that is not ready.                       *)

\* The sets of tasks an abort of the entry may leave marked and running.
AbortLeaves ==
    IF timer # NoCall /\ pc[timer] = "woken" THEN {{}, {timer}} ELSE {{}}

\* pc after the abort, when the tasks in `survive` go on and call c goes to s.
AbortAndGo(c, s, survive) ==
    [d \in Calls |-> IF d = c THEN s
                     ELSE IF d = timer /\ d \notin survive THEN "aborted"
                     ELSE pc[d]]

\* start.elapsed() >= max_debounce; without an entry `start` is now.
\* Variant: the comparison is strict.
OverdueStrict == age > MaxDebounce
Overdue == age >= MaxDebounce

\* debounce(id, func, delay, max): the old entry is removed and its task
\* aborted; without a delay, or when the first of the coalesced calls is
\* MaxDebounce old, the caller runs the function itself, otherwise it arms a
\* new timer that inherits the old entry's start.
Debounce(c, delay) ==
    /\ pc[c] = "idle"
    /\ \E survive \in AbortLeaves :
         /\ doomed' = doomed \cup survive
         /\ \/ /\ delay = 0 \/ Overdue
               /\ timer' = NoCall
               /\ age' = 0
               /\ inline' = inline \cup {c}
               /\ pc' = AbortAndGo(c, "lookup", survive)
               /\ UNCHANGED left
            \/ /\ delay # 0 /\ ~ Overdue
               /\ timer' = c
               /\ left' = [left EXCEPT ![c] = delay]
               /\ pc' = AbortAndGo(c, "asleep", survive)
               /\ UNCHANGED <<age, inline>>
    /\ UNCHANGED <<running, lock>>

\* execute_now(id): takes the armed entry, if there is one, and runs its
\* function; returns at once otherwise.
ExecuteNow(c) ==
    /\ pc[c] = "idle"
    /\ \/ /\ timer = NoCall
          /\ pc' = [pc EXCEPT ![c] = "done"]
          /\ UNCHANGED <<timer, age, inline, doomed>>
       \/ /\ timer # NoCall
          /\ timer' = NoCall
          /\ age' = 0
          /\ inline' = inline \cup {c}
          /\ \E survive \in AbortLeaves :
               /\ doomed' = doomed \cup survive
               /\ pc' = AbortAndGo(c, "lookup", survive)
    /\ UNCHANGED <<left, running, lock>>
--------------------------------------------------------------------------------
(* The timer task, and the run() that execute_now and debounce call.       *)
(* A definition introduced by "Variant" is never part of Next: it is a     *)
(* plausible mistake in the definition after it, which the properties are  *)
(* known to notice.                                                        *)

\* The sleep of a timer task is over and the scheduler polls the task.
Wake(c) ==
    /\ pc[c] = "asleep"
    /\ left[c] = 0
    /\ pc' = [pc EXCEPT ![c] = "woken"]
    /\ UNCHANGED <<timer, age, left, running, inline, lock, doomed>>

\* Variant: the task forgets to remove its entry.
FireKeeping(c) ==
    /\ pc[c] = "woken"
    /\ pc' = [pc EXCEPT ![c] = "lookup"]
    /\ UNCHANGED <<timer, age, left, running, inline, lock, doomed>>

\* The task removes the timers entry, by id: whichever entry is there.
Fire(c) ==
    /\ pc[c] = "woken"
    /\ timer' = NoCall
    /\ age' = 0
    /\ pc' = [pc EXCEPT ![c] = "lookup"]
    /\ UNCHANGED <<left, running, inline, lock, doomed>>

\* Variant: a call that finds an execution under way leaves the work to it.
LookupUnlessRunning(c) ==
    /\ pc[c] = "lookup"
    /\ running' = IF running = NoCall THEN c ELSE running
    /\ lock' = [lock EXCEPT ![c] = running']
    /\ pc' = [pc EXCEPT ![c] = IF running = NoCall THEN "waiting" ELSE "done"]
    /\ UNCHANGED <<timer, age, left, inline, doomed>>

\* Variant: the lock object is inserted in any case, and insert() returns the
\* one it replaces.
LookupReplaced(c) ==
    /\ pc[c] = "lookup"
    /\ running' = c
    /\ lock' = [lock EXCEPT ![c] = running]
    /\ pc' = [pc EXCEPT ![c] = "waiting"]
    /\ UNCHANGED <<timer, age, left, inline, doomed>>

\* running_executions.entry(id).or_insert(new lock)
Lookup(c) ==
    /\ pc[c] = "lookup"
    /\ running' = IF running = NoCall THEN c ELSE running
    /\ lock' = [lock EXCEPT ![c] = running']
    /\ pc' = [pc EXCEPT ![c] = "waiting"]
    /\ UNCHANGED <<timer, age, left, inline, doomed>>

\* The lock object l is held from its acquisition to the end of the call.
Held(l) == \E d \in Calls : lock[d] = l /\ pc[d] \in {"clear", "running"}

\* Variant: it waits until nothing is executing, having registered itself.
AcquireWhenIdle(c) ==
    /\ pc[c] = "waiting"
    /\ running = NoCall
    /\ pc' = [pc EXCEPT ![c] = IF c \in inline THEN "clear" ELSE "running"]
    /\ UNCHANGED <<timer, age, left, running, inline, lock, doomed>>

Acquire(c) ==
    /\ pc[c] = "waiting"
    /\ ~ Held(lock[c])
    /\ pc' = [pc EXCEPT ![c] = IF c \in inline THEN "clear" ELSE "running"]
    /\ UNCHANGED <<timer, age, left, running, inline, lock, doomed>>

\* run() removes the timers entry by id and drops its handle: an entry that
\* was armed meanwhile disappears from the map and its task lives on.
Clear(c) ==
    /\ pc[c] = "clear"
    /\ timer' = NoCall
    /\ age' = 0
    /\ pc' = [pc EXCEPT ![c] = "running"]
    /\ UNCHANGED <<left, running, inline, lock, doomed>>

\* The function has returned: running_executions.remove(id), by id, and the
\* guard is dropped.
Finish(c) ==
    /\ pc[c] = "running"
    /\ running' = NoCall
    /\ pc' = [pc EXCEPT ![c] = "done"]
    /\ lock' = [lock EXCEPT ![c] = NoCall]
    /\ inline' = inline \ {c}
    /\ UNCHANGED <<timer, age, left, doomed>>

\* A marked task awaits something that is not ready and is dropped there; its
\* guard goes with it, its running_executions entry stays.
Cancel(c) ==
    /\ c \in doomed
    /\ pc[c] \in {"woken", "lookup", "waiting", "running"}
    /\ pc' = [pc EXCEPT ![c] = "aborted"]
    /\ lock' = [lock EXCEPT ![c] = NoCall]
    /\ inline' = inline \ {c}
    /\ UNCHANGED <<timer, age, left, running, doomed>>

\* The clock.  A sleep that is over is noticed, and its task removes its
\* entry, before the clock moves on.
Tick ==
    /\ \E c \in Calls : pc[c] = "asleep"
    /\ \A c \in Calls : /\ pc[c] = "asleep" => left[c] > 0
                        /\ pc[c] # "woken"
    /\ left' = [c \in Calls |-> IF pc[c] = "asleep" THEN left[c] - 1 ELSE left[c]]
    /\ age' = IF timer = NoCall THEN 0 ELSE age + 1
    /\ UNCHANGED <<timer, running, pc, inline, lock, doomed>>

\* Every call was made and has ended.
Quiescent ==
    /\ \A c \in Calls : pc[c] \in {"done", "aborted"}
    /\ UNCHANGED vars
--------------------------------------------------------------------------------
Progress(c) ==
    Wake(c) \/ Fire(c) \/ Lookup(c) \/ Acquire(c) \/ Clear(c) \/ Finish(c)

Next ==
    \/ \E c \in Calls :
         \/ \E delay \in {0, DebounceTime} : Debounce(c, delay)
         \/ ExecuteNow(c)
         \/ Wake(c)
         \/ Fire(c)
         \/ Lookup(c)
         \/ Acquire(c)
         \/ Clear(c)
         \/ Finish(c)
         \/ Cancel(c)
    \/ Tick
    \/ Quiescent

\* The runtime polls every task that can go on and the clock advances; Finish
\* is fair because a store hook that is called returns.
Fairness ==
    /\ \A c \in Calls : WF_vars(Progress(c))
    /\ WF_vars(Tick)

Spec == Init /\ [][Next]_vars /\ Fairness
--------------------------------------------------------------------------------
\* The types; and who waits for a lock object, or holds one, has one.
TypeOK ==
    /\ timer \in Calls \cup {NoCall}
    /\ age \in Nat
    /\ left \in [Calls -> Nat]
    /\ running \in Calls \cup {NoCall}
    /\ pc \in [Calls -> PCs]
    /\ inline \subseteq Calls
    /\ lock \in [Calls -> Calls \cup {NoCall}]
    /\ doomed \subseteq Calls
    /\ \A c \in Calls : pc[c] \in {"waiting", "clear", "running"} => lock[c] # NoCall

\* Call c still has an execution ahead of it that no abort can take away.
Bears(c) ==
    /\ c \notin doomed
    /\ pc[c] \in {"asleep", "woken", "lookup", "waiting", "clear"}

\* There is work that was handed to the debouncer and has not begun.
Owed == \E c \in Calls : Bears(c)

\* Call c is in its function, and nobody is about to drop it there.
Executing(c) == pc[c] = "running" /\ c \notin doomed

\* What the timers entry names is a task that still sleeps or has only just
\* woken and was not aborted: debounce() and execute_now() can never abort a
\* task that is already past its removal of the entry (debounce.rs:41, :127).
TimerIsPending ==
    \A c \in Calls : timer = c => pc[c] \in {"asleep", "woken"} /\ c \notin doomed

\* Work is never dropped: whatever is coalesced, taken over, aborted, or
\* removed from the map by id, outstanding work ends only when an execution
\* of the function begins (the removals at debounce.rs:41, :69, :112, :126).
NoDroppedWork ==
    [][Owed /\ ~ Owed' => \E c \in Calls : Executing(c)' /\ ~ Executing(c)]_vars

\* A stream of edits cannot postpone the store for ever: an armed entry is
\* less than max_debounce plus one debounce interval old (debounce.rs:53).
BoundedDeferral == timer # NoCall => age < MaxDebounce + DebounceTime

\* Outstanding work begins to execute at some time.
WorkRuns == Owed ~> \E c \in Calls : Executing(c)

\* Whoever executes the function inline gets back from debounce() or
\* execute_now(): the locks of different executions never wait on each other.
CallersReturn == \A c \in Calls : c \in inline ~> pc[c] = "done"
================================================================================
