---------------------------- MODULE EventObjects ----------------------------
(***************************************************************************)
(* What mcrt events promise (src/include/pt_mcrt_thread.h): a wait ends in *)
(* one instant at which its events are signalled, and in that instant      *)
(* takes the auto-reset events that satisfied it, all of them for waitall, *)
(* the lowest signalled one otherwise; a timed wait may also give up.      *)
(* No mutex, no condition variable: the specification McrtEvent implements.*)
(***************************************************************************)
EXTENDS Integers

CONSTANTS Threads, Events, Manual, Waits

VARIABLES
    signalled,  \* the events now signalled
    wait,       \* the wait each thread is in, or NoWait
    result      \* what each thread's last wait returned

vars == <<signalled, wait, result>>

NoWait == [events |-> {}, all |-> FALSE, timed |-> FALSE]

Init ==
    /\ signalled \in SUBSET Events
    /\ wait = [t \in Threads |-> NoWait]
    /\ result = [t \in Threads |-> 0]

Call(t) ==
    /\ wait[t] = NoWait
    /\ \E w \in Waits : wait' = [wait EXCEPT ![t] = w]
    /\ UNCHANGED <<signalled, result>>

\* A thread sets or resets an event, which it does only outside its waits.
Change(t) ==
    /\ wait[t] = NoWait
    /\ signalled' \in {signalled \cup {e} : e \in Events} \cup {signalled \ {e} : e \in Events}
    /\ UNCHANGED <<wait, result>>

ReturnAll(t) ==
    /\ wait[t] # NoWait /\ wait[t].all
    /\ wait[t].events \subseteq signalled
    /\ signalled' = signalled \ (wait[t].events \ Manual)
    /\ result' = [result EXCEPT ![t] = 0]
    /\ wait' = [wait EXCEPT ![t] = NoWait]

ReturnAny(t) ==
    /\ wait[t] # NoWait /\ ~wait[t].all
    /\ \E e \in wait[t].events \cap signalled :
          /\ \A f \in wait[t].events \cap signalled : e <= f
          /\ signalled' = signalled \ ({e} \ Manual)
          /\ result' = [result EXCEPT ![t] = e]
    /\ wait' = [wait EXCEPT ![t] = NoWait]

GiveUp(t) ==
    /\ wait[t].timed
    /\ result' = [result EXCEPT ![t] = -1]
    /\ wait' = [wait EXCEPT ![t] = NoWait]
    /\ UNCHANGED signalled

Next == \E t \in Threads : Change(t) \/ Call(t) \/ ReturnAll(t) \/ ReturnAny(t) \/ GiveUp(t)

Spec == Init /\ [][Next]_vars
=============================================================================
