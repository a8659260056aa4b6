--------------------------- MODULE McrtEvent_proofs ---------------------------
(***************************************************************************)
(* Safety of the mcrt events for any threads, events and waits.            *)
(***************************************************************************)
EXTENDS McrtEvent, TLAPS

IInv == TypeOK /\ NoLostWakeup

(* At first no thread sleeps.                                              *)
LEMMA InitIInv == Init => IInv
  BY McrtEventAssumption DEF Init, IInv, TypeOK, NoLostWakeup, NoWait, Satisfied

(* Every step keeps the types.                                             *)
LEMMA NextTypeOK == ASSUME TypeOK, [Next]_vars PROVE TypeOK'
  <1>0. NoWait \notin Waits
    <2>1. \A w \in Waits : w.events # {}
      BY McrtEventAssumption
    <2>2. NoWait.events = {}
      BY DEF NoWait
    <2> QED
      BY <2>1, <2>2
  <1>1. ASSUME NEW t \in Threads, NEW e \in Events, Set(t, e) PROVE TypeOK'
    BY <1>1 DEF Set, TypeOK
  <1>2. ASSUME NEW t \in Threads, NEW e \in Events, Reset(t, e) PROVE TypeOK'
    BY <1>2 DEF Reset, TypeOK
  <1>3. ASSUME NEW t \in Threads, NEW w \in Waits, Call(t, w) PROVE TypeOK'
    BY <1>0, <1>3 DEF Call, TypeOK
  <1>4. ASSUME NEW t \in Threads, Wake(t) \/ Expire(t) PROVE TypeOK'
    BY <1>4 DEF Wake, Expire, TypeOK
  <1>5. ASSUME NEW t \in Threads, Broadcast(t) PROVE TypeOK'
    BY <1>5 DEF Broadcast, TypeOK
  <1>6. ASSUME NEW t \in Threads, TakeAll(t) PROVE TypeOK'
    BY <1>6 DEF TakeAll, Return, TypeOK
  <1>7. ASSUME NEW t \in Threads, TakeAny(t) PROVE TypeOK'
    <2>1. PICK e \in wait[t].events \cap signalled :
              signalled' = signalled \ ({e} \ Manual) /\ Return(t, e)
      BY <1>7 DEF TakeAny
    <2>2. e \in Events
      BY DEF TypeOK
    <2> QED
      BY <1>7, <2>1, <2>2 DEF TakeAny, Return, TypeOK
  <1>8. ASSUME NEW t \in Threads, Sleep(t) PROVE TypeOK'
    BY <1>8 DEF Sleep, TypeOK
  <1>9. ASSUME NEW t \in Threads, ReturnExpired(t) PROVE TypeOK'
    BY <1>9 DEF ReturnExpired, Return, TypeOK
  <1>10. CASE UNCHANGED vars
    BY <1>10 DEF vars, TypeOK
  <1> QED
    BY <1>1, <1>2, <1>3, <1>4, <1>5, <1>6, <1>7, <1>8, <1>9, <1>10 DEF Next, Step

(* A sleeper's events can only become signalled by a set, which owes a     *)
(* broadcast; what other waits take only makes them less so.               *)
LEMMA NextWakeup == ASSUME IInv, [Next]_vars PROVE NoLostWakeup'
  <1> USE DEF IInv, TypeOK, NoLostWakeup, Satisfied
  <1>1. ASSUME NEW t \in Threads, NEW e \in Events, Set(t, e) PROVE NoLostWakeup'
    BY <1>1 DEF Set
  <1>2. ASSUME NEW t \in Threads, NEW e \in Events, Reset(t, e) PROVE NoLostWakeup'
    BY <1>2 DEF Reset
  <1>3. ASSUME NEW t \in Threads, NEW w \in Waits, Call(t, w) PROVE NoLostWakeup'
    BY <1>3 DEF Call
  <1>4. ASSUME NEW t \in Threads, Wake(t) \/ Expire(t) PROVE NoLostWakeup'
    BY <1>4 DEF Wake, Expire
  <1>5. ASSUME NEW t \in Threads, Broadcast(t) PROVE NoLostWakeup'
    BY <1>5 DEF Broadcast
  <1>6. ASSUME NEW t \in Threads, TakeAll(t) PROVE NoLostWakeup'
    BY <1>6 DEF TakeAll, Return
  <1>7. ASSUME NEW t \in Threads, TakeAny(t) PROVE NoLostWakeup'
    BY <1>7 DEF TakeAny, Return
  <1>8. ASSUME NEW t \in Threads, Sleep(t) PROVE NoLostWakeup'
    BY <1>8 DEF Sleep
  <1>9. ASSUME NEW t \in Threads, ReturnExpired(t) PROVE NoLostWakeup'
    BY <1>9 DEF ReturnExpired, Return
  <1>10. CASE UNCHANGED vars
    BY <1>10 DEF vars
  <1> QED
    BY <1>1, <1>2, <1>3, <1>4, <1>5, <1>6, <1>7, <1>8, <1>9, <1>10 DEF Next, Step

(* No wakeup is ever lost.                                                 *)
THEOREM WakeupsAreOwed == Spec => []NoLostWakeup
  <1>1. Init => IInv
    BY InitIInv
  <1>2. IInv /\ [Next]_vars => IInv'
    BY NextTypeOK, NextWakeup DEF IInv
  <1>3. IInv => NoLostWakeup
    BY DEF IInv
  <1> QED
    BY <1>1, <1>2, <1>3, PTL DEF Spec

(* Every place and argument keeps its type.                                *)
THEOREM TypeCorrect == Spec => []TypeOK
  <1>1. Init => TypeOK
    BY InitIInv DEF IInv
  <1>2. TypeOK /\ [Next]_vars => TypeOK'
    BY NextTypeOK
  <1> QED
    BY <1>1, <1>2, PTL DEF Spec

-----------------------------------------------------------------------------

\* Only timed waits expire.
ExpiredIsTimed == \A t \in Threads : at[t] = "expired" => wait[t].timed

(* Only timed waits expire.                                                *)
LEMMA NextExpired == ASSUME TypeOK, ExpiredIsTimed, [Next]_vars PROVE ExpiredIsTimed'
  <1> USE DEF TypeOK, ExpiredIsTimed
  <1>1. ASSUME NEW t \in Threads, NEW e \in Events, Set(t, e) \/ Reset(t, e) PROVE ExpiredIsTimed'
    BY <1>1 DEF Set, Reset
  <1>2. ASSUME NEW t \in Threads, NEW w \in Waits, Call(t, w) PROVE ExpiredIsTimed'
    BY <1>2 DEF Call
  <1>3. ASSUME NEW t \in Threads, Wake(t) \/ Expire(t) \/ Broadcast(t) \/ Sleep(t)
        PROVE  ExpiredIsTimed'
    BY <1>3 DEF Wake, Expire, Broadcast, Sleep
  <1>4. ASSUME NEW t \in Threads, TakeAll(t) \/ TakeAny(t) \/ ReturnExpired(t)
        PROVE  ExpiredIsTimed'
    BY <1>4 DEF TakeAll, TakeAny, ReturnExpired, Return
  <1>5. CASE UNCHANGED vars
    BY <1>5 DEF vars
  <1> QED
    BY <1>1, <1>2, <1>3, <1>4, <1>5 DEF Next, Step

(* Every step of the code is a step of the events it implements, or none.  *)
LEMMA NextRefines == ASSUME TypeOK, ExpiredIsTimed, [Next]_vars PROVE [Objects!Next]_(Objects!vars)
  <1> USE DEF Objects!vars, Objects!NoWait, NoWait
  <1>1. ASSUME NEW t \in Threads, NEW e \in Events, Set(t, e) \/ Reset(t, e) PROVE Objects!Change(t)
    <2>1. wait[t] = NoWait
      BY <1>1 DEF Set, Reset, TypeOK
    <2> QED
      BY <1>1, <2>1 DEF Set, Reset, Objects!Change
  <1>2. ASSUME NEW t \in Threads, NEW w \in Waits, Call(t, w) PROVE Objects!Call(t)
    BY <1>2 DEF Call, TypeOK, Objects!Call
  <1>3. ASSUME NEW t \in Threads, Wake(t) \/ Expire(t) \/ Broadcast(t) \/ Sleep(t)
        PROVE  UNCHANGED Objects!vars
    BY <1>3 DEF Wake, Expire, Broadcast, Sleep
  <1>4. ASSUME NEW t \in Threads, TakeAll(t) PROVE Objects!ReturnAll(t)
    BY <1>4 DEF TakeAll, Satisfied, Return, TypeOK, Objects!ReturnAll
  <1>5. ASSUME NEW t \in Threads, TakeAny(t) PROVE Objects!ReturnAny(t)
    BY <1>5 DEF TakeAny, Return, TypeOK, Objects!ReturnAny
  <1>6. ASSUME NEW t \in Threads, ReturnExpired(t) PROVE Objects!GiveUp(t)
    BY <1>6 DEF ReturnExpired, Return, ExpiredIsTimed, Objects!GiveUp
  <1>7. CASE UNCHANGED vars
    BY <1>7 DEF vars
  <1> QED
    BY <1>1, <1>2, <1>3, <1>4, <1>5, <1>6, <1>7 DEF Next, Step, Objects!Next

(* The mutex and the condition variable implement indivisible waits.       *)
THEOREM Refinement == Spec => ImplementsEventObjects
  <1>1. Init => TypeOK /\ ExpiredIsTimed
    BY InitIInv DEF IInv, Init, ExpiredIsTimed
  <1>2. TypeOK /\ ExpiredIsTimed /\ [Next]_vars => (TypeOK /\ ExpiredIsTimed)'
    BY NextTypeOK, NextExpired
  <1>3. Init => Objects!Init
    BY DEF Init, NoWait, Objects!Init, Objects!NoWait
  <1>4. TypeOK /\ ExpiredIsTimed /\ [Next]_vars => [Objects!Next]_(Objects!vars)
    BY NextRefines
  <1> QED
    BY <1>1, <1>2, <1>3, <1>4, PTL DEF Spec, ImplementsEventObjects, Objects!Spec
=============================================================================
