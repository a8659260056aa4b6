------------------------------ MODULE McrtEvent ------------------------------
(***************************************************************************)
(* mcrt_os_event_* for POSIX (src/include/pt_mcrt_thread_posix.inl and     *)
(* pt_mcrt_thread.inl): manual-reset and auto-reset events that share one  *)
(* mutex and one condition variable.  What runs with the mutex held is one *)
(* step; a wait falls asleep in the step that finds nothing to take.       *)
(* wait_one is the wait for a set of one event.                            *)
(***************************************************************************)
EXTENDS Integers

CONSTANTS
    Threads,
    Events,     \* the events, numbered as the callers' arrays order them
    Manual,     \* those initialized with manual_reset
    Waits       \* the calls of wait and timedwait: [events, all, timed]

ASSUME McrtEventAssumption ==
    /\ Events \subseteq Nat
    /\ Manual \subseteq Events
    /\ Waits \subseteq [events : (SUBSET Events) \ {{}}, all : BOOLEAN, timed : BOOLEAN]

VARIABLES
    signalled,  \* the events whose mcrtp_state_signalled is true
    at,         \* where each thread is
    wait,       \* the arguments of the wait it is in
    result      \* what its last wait returned: an event, 0 for all, or -1

vars == <<signalled, at, wait, result>>

NoWait == [events |-> {}, all |-> FALSE, timed |-> FALSE]

Init ==
    /\ signalled \in SUBSET Events
    /\ at = [t \in Threads |-> "idle"]
    /\ wait = [t \in Threads |-> NoWait]
    /\ result = [t \in Threads |-> 0]

Satisfied(t) ==
    IF wait[t].all THEN wait[t].events \subseteq signalled
                   ELSE wait[t].events \cap signalled # {}

-----------------------------------------------------------------------------
(* mcrt_os_event_set, mcrt_os_event_reset                                  *)

\* With the mutex held; the broadcast comes after the unlock.
Set(t, e) ==
    /\ at[t] = "idle"
    /\ signalled' = signalled \cup {e}
    /\ at' = [at EXCEPT ![t] = "set"]
    /\ UNCHANGED <<wait, result>>

\* The commented-out alternative in the code: wake one sleeper, whoever it is.
SignalOne(t) ==
    /\ at[t] = "set"
    /\ \/ \E u \in Threads :
             /\ at[u] = "asleep"
             /\ at' = [at EXCEPT ![t] = "idle", ![u] = "check"]
       \/ /\ \A u \in Threads : at[u] # "asleep"
          /\ at' = [at EXCEPT ![t] = "idle"]
    /\ UNCHANGED <<signalled, wait, result>>

Broadcast(t) ==
    /\ at[t] = "set"
    /\ at' = [u \in Threads |-> IF u = t THEN "idle"
                                ELSE IF at[u] = "asleep" THEN "check" ELSE at[u]]
    /\ UNCHANGED <<signalled, wait, result>>

Reset(t, e) ==
    /\ at[t] = "idle"
    /\ signalled' = signalled \ {e}
    /\ UNCHANGED <<at, wait, result>>

-----------------------------------------------------------------------------
(* mcrt_os_event_wait_one, timedwait_one, wait_multiple, timedwait_multiple *)

Call(t, w) ==
    /\ at[t] = "idle"
    /\ at' = [at EXCEPT ![t] = "check"]
    /\ wait' = [wait EXCEPT ![t] = w]
    /\ UNCHANGED <<signalled, result>>

Return(t, res) ==
    /\ at' = [at EXCEPT ![t] = "idle"]
    /\ wait' = [wait EXCEPT ![t] = NoWait]
    /\ result' = [result EXCEPT ![t] = res]

\* waitall that takes what it finds of its events before all are there.
TakeSome(t) ==
    /\ at[t] = "check" /\ wait[t].all
    /\ signalled' = signalled \ (wait[t].events \ Manual)
    /\ IF Satisfied(t) THEN Return(t, 0)
       ELSE /\ at' = [at EXCEPT ![t] = "asleep"]
            /\ UNCHANGED <<wait, result>>

\* waitall finds every event signalled, and takes the auto-reset ones.
TakeAll(t) ==
    /\ at[t] = "check" /\ wait[t].all /\ Satisfied(t)
    /\ signalled' = signalled \ (wait[t].events \ Manual)
    /\ Return(t, 0)

\* A wait for any event finds some, and takes the lowest.
TakeAny(t) ==
    /\ at[t] = "check" /\ ~wait[t].all
    /\ \E e \in wait[t].events \cap signalled :
          /\ \A f \in wait[t].events \cap signalled : e <= f
          /\ signalled' = signalled \ ({e} \ Manual)
          /\ Return(t, e)

\* cond_wait or cond_timedwait: the mutex is released as the thread falls asleep.
Sleep(t) ==
    /\ at[t] = "check" /\ ~Satisfied(t)
    /\ at' = [at EXCEPT ![t] = "asleep"]
    /\ UNCHANGED <<signalled, wait, result>>

\* A spurious wakeup.
Wake(t) ==
    /\ at[t] = "asleep"
    /\ at' = [at EXCEPT ![t] = "check"]
    /\ UNCHANGED <<signalled, wait, result>>

\* cond_timedwait ends with ETIMEDOUT, once it has the mutex again.
Expire(t) ==
    /\ at[t] = "asleep" /\ wait[t].timed
    /\ at' = [at EXCEPT ![t] = "expired"]
    /\ UNCHANGED <<signalled, wait, result>>

\* res # 0 ends the loop: -1, whatever the events are by now.
ReturnExpired(t) ==
    /\ at[t] = "expired"
    /\ Return(t, -1)
    /\ UNCHANGED signalled

-----------------------------------------------------------------------------

Step(t) == Broadcast(t) \/ TakeAll(t) \/ TakeAny(t) \/ Sleep(t) \/ ReturnExpired(t)

Next ==
    \E t \in Threads :
        \/ \E e \in Events : Set(t, e) \/ Reset(t, e)
        \/ \E w \in Waits : Call(t, w)
        \/ Wake(t) \/ Expire(t)
        \/ Step(t)

\* A thread that can run runs, and gets the mutex in the end; nothing wakes a
\* sleeping thread but a broadcast.
Spec == Init /\ [][Next]_vars /\ \A t \in Threads : WF_vars(Step(t))

-----------------------------------------------------------------------------

(* Threads are in one of the places of the code, with the arguments of a   *)
(* wait exactly while in one.                                              *)
TypeOK ==
    /\ signalled \subseteq Events
    /\ at \in [Threads -> {"idle", "set", "check", "asleep", "expired"}]
    /\ wait \in [Threads -> Waits \cup {NoWait}]
    /\ result \in [Threads -> Events \cup {0, -1}]
    /\ \A t \in Threads : at[t] \in {"idle", "set"} <=> wait[t] = NoWait

(* No wakeup is lost: a thread that sleeps although its events are         *)
(* signalled is owed a broadcast by a set that has just unlocked, even     *)
(* when other waiters of the shared condition take and reset events.       *)
NoLostWakeup ==
    \A t \in Threads : at[t] = "asleep" /\ Satisfied(t) =>
        \E u \in Threads : at[u] = "set"

(* A wait takes what it returns for in one instant: waitall takes all its  *)
(* auto-reset events or none, another wait just the lowest signalled one,  *)
(* so a set of an auto-reset event releases at most one wait.              *)
Objects == INSTANCE EventObjects
    WITH signalled <- signalled, wait <- wait, result <- result
ImplementsEventObjects == Objects!Spec

(* No wait lasts for ever although its events are signalled for ever.      *)
SatisfiedWaitEnds ==
    \A t \in Threads :
        []<>(wait[t] = NoWait \/ ~Satisfied(t))
=============================================================================
