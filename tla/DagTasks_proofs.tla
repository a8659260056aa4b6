-------------------------- MODULE DagTasks_proofs --------------------------
(***************************************************************************)
(* For a grid of any size and any number of workers: the invariants of     *)
(* DagTasks.                                                               *)
(***************************************************************************)
EXTENDS DagTasks, FiniteSetTheorems, WellFoundedInduction, TLAPS

(* A nonempty set of naturals has a least element.                         *)
LEMMA LeastNatural ==
    ASSUME NEW T \in SUBSET Nat, T # {}
    PROVE  \E x \in T : \A y \in T : x <= y
<1> DEFINE F == {0 .. x : x \in T}
<1>1. F \subseteq FiniteSubsetsOf(Nat) /\ F # {}
  <2>1. \A x \in T : 0 .. x \in SUBSET Nat /\ IsFiniteSet(0 .. x)
    <3> TAKE x \in T
    <3>1. 0 \in Int /\ x \in Int
      OBVIOUS
    <3>2. IsFiniteSet(0 .. x)
      BY <3>1, FS_Interval
    <3> QED
      BY <3>2
  <2>2. \A x \in T : 0 .. x \in FiniteSubsetsOf(Nat)
    BY <2>1 DEF FiniteSubsetsOf
  <2> QED
    BY <2>2
<1>2. PICK X \in F : \A Y \in F : <<Y, X>> \notin StrictSubsetOrdering(Nat)
  BY <1>1, WFMin, FS_StrictSubsetOrderingWellFounded
<1>3. PICK x \in T : X = 0 .. x
  OBVIOUS
<1>4. ASSUME NEW y \in T, y < x
      PROVE  FALSE
  <2>1. 0 .. y \subseteq X /\ x \notin 0 .. y /\ x \in X
    BY <1>3, <1>4
  <2>2. 0 .. y \in F /\ X \subseteq Nat
    BY <1>3
  <2>3. <<0 .. y, X>> \in StrictSubsetOrdering(Nat)
    BY <2>1, <2>2 DEF StrictSubsetOrdering
  <2> QED
    BY <2>2, <2>3, <1>2
<1> QED
  BY <1>4

-----------------------------------------------------------------------------
Sides == {"bottom", "right"}

\* The successor of y on a side.
Succ(y, s) == IF s = "bottom" THEN Bottom(y) ELSE Right(y)

\* Where a worker that executes y has still to tally on a side.
Before(s) ==
    {"execute", "tally_bottom", "last_bottom", "one_of_bottom"}
    \cup (IF s = "right" THEN {"tally_right", "last_right", "one_of_right"} ELSE {})

\* y has been handed over, taken, and has left the places of P behind.
Past(y, P) ==
    /\ handed[y] = 1 /\ y \notin pool
    /\ \A w \in Workers : bypass[w] # y /\ (task[w] = y => at[w] \notin P)

\* A predecessor of x on a side has still to tally.
Pending(x, s) == \E y \in Tasks : Succ(y, s) = x /\ ~Past(y, Before(s))

Num(b) == IF b THEN 1 ELSE 0

-----------------------------------------------------------------------------
(* The inductive invariant                                                 *)

\* A task that was handed over is in the pool, in a bypass slot, with a worker
\* or done; one that was not is nowhere.
Located ==
    \A x \in Tasks :
        /\ x \in pool => handed[x] = 1 /\ \A w \in Workers : task[w] # x /\ bypass[w] # x
        /\ \A w \in Workers : bypass[w] = x =>
              handed[x] = 1 /\ \A v \in Workers : task[v] # x /\ (v # w => bypass[v] # x)
        /\ \A w \in Workers : task[w] = x =>
              handed[x] = 1 /\ \A v \in Workers : v # w => task[v] # x

\* The count of a task is the number of its predecessors that have still to
\* tally, and it is handed over when there is none.
Counted ==
    \A x \in Tasks :
        /\ refCount[x] = Num(Pending(x, "bottom")) + Num(Pending(x, "right"))
        /\ handed[x] = Num(refCount[x] = 0)

\* A worker that read 1 is the last to tally, and stays it.
ReadsHold ==
    \A w \in Workers :
        /\ at[w] \in {"last_bottom", "last_right", "one_of_bottom", "one_of_right"} =>
              Successor(w) \in Tasks
        /\ at[w] \in {"last_bottom", "last_right"} => refCount[Successor(w)] = 1

\* Only the return of the end point gives the first reference of real_root back.
RootWaits == root.count = 2 \/ Past(EndPoint, Places)

Control == TypeOK /\ Located /\ Counted /\ ReadsHold /\ RootWaits

Executed(y) == Past(y, {"execute"})

\* A value is there exactly when the task it comes from has executed.
ValuesGood ==
    \A x \in Tasks :
        /\ x[1] > 0 => top[x] = IF Executed(Up(x)) THEN Paths[Up(x)] ELSE Uninit
        /\ x[2] > 0 => left[x] = IF Executed(Back(x)) THEN Paths[Back(x)] ELSE Uninit
        /\ ~Executed(x) =>
              (x[1] = 0 => top[x] = Uninit) /\ (x[2] = 0 => left[x] = Uninit)

RootGood ==
    Executed(EndPoint) =>
        /\ M > 1 => root.top = Paths[Up(EndPoint)]
        /\ N > 1 => root.left = Paths[Back(EndPoint)]

IInv == Control /\ ValuesGood /\ RootGood

-----------------------------------------------------------------------------
(* The grid                                                                *)

(* Two tasks have no successor in common on one side.                      *)
LEMMA Grid ==
    /\ M \in Nat \ {0} /\ N \in Nat \ {0}
    /\ First \in Tasks /\ EndPoint \in Tasks /\ None \notin Tasks
    /\ \A x \in Tasks : x[1] \in 0 .. M - 1 /\ x[2] \in 0 .. N - 1 /\ x = <<x[1], x[2]>>
    /\ \A y, z \in Tasks, s \in Sides : Succ(y, s) = Succ(z, s) => y = z
    /\ \A y, z \in Tasks : Bottom(y) = Right(z) => y # z
    /\ \A y \in Tasks, s \in Sides : Succ(y, s) # y
    /\ \A s \in Sides : Succ(EndPoint, s) \notin Tasks
<1>1. /\ M \in Nat \ {0} /\ N \in Nat \ {0}
      /\ \A x \in Tasks : x[1] \in 0 .. M - 1 /\ x[2] \in 0 .. N - 1 /\ x = <<x[1], x[2]>>
  BY DagTasksAssumption DEF Tasks
<1>2. First \in Tasks /\ EndPoint \in Tasks /\ None \notin Tasks
  BY <1>1 DEF Tasks, First, EndPoint, None
<1>3. \A y \in Tasks : Bottom(y) = <<y[1] + 1, y[2]>> /\ Right(y) = <<y[1], y[2] + 1>>
  BY DEF Bottom, Right
<1>4. \A y, z \in Tasks : (Bottom(y) = Bottom(z) \/ Right(y) = Right(z)) => y = z
  BY <1>1, <1>3
<1>5. \A y, z \in Tasks : Bottom(y) = Right(z) => y # z
  BY <1>1, <1>3
<1>6. \A y \in Tasks : Bottom(y) # y /\ Right(y) # y
  BY <1>1, <1>3
<1>7. Bottom(EndPoint) \notin Tasks /\ Right(EndPoint) \notin Tasks
  BY <1>1 DEF Bottom, Right, EndPoint, Tasks
<1> QED
  BY <1>1, <1>2, <1>4, <1>5, <1>6, <1>7 DEF Succ, Sides

(* The counts that main gives the tasks.                                   *)
LEMMA PredecessorCount ==
    ASSUME NEW x \in Tasks
    PROVE  /\ Cardinality(Predecessors(x)) =
                 Num(\E y \in Tasks : Bottom(y) = x) + Num(\E y \in Tasks : Right(y) = x)
           /\ Cardinality(Predecessors(x)) = 0 <=> x = First
<1> DEFINE B == {y \in Tasks : Bottom(y) = x}
           R == {y \in Tasks : Right(y) = x}
<1>1. Predecessors(x) = B \cup R /\ B \cap R = {}
  BY Grid DEF Predecessors
<1>2. /\ B = {} \/ \E y \in Tasks : B = {y}
      /\ R = {} \/ \E y \in Tasks : R = {y}
  BY Grid DEF Succ, Sides
<1>3. /\ IsFiniteSet(B) /\ Cardinality(B) = Num(B # {})
      /\ IsFiniteSet(R) /\ Cardinality(R) = Num(R # {})
  <2>1. ASSUME NEW T, T = {} \/ \E y \in Tasks : T = {y}
        PROVE  IsFiniteSet(T) /\ Cardinality(T) = Num(T # {})
    <3>1. CASE T = {}
      BY <3>1, FS_EmptySet DEF Num
    <3>2. CASE \E y \in Tasks : T = {y}
      <4>1. PICK y \in Tasks : T = {y}
        BY <3>2
      <4>2. IsFiniteSet(T) /\ Cardinality(T) = 1 /\ T # {}
        BY <4>1, FS_Singleton
      <4> QED
        BY <4>2 DEF Num
    <3> QED
      BY <2>1, <3>1, <3>2
  <2> QED
    BY <1>2, <2>1
<1>4. Cardinality(Predecessors(x)) = Num(B # {}) + Num(R # {})
  <2>1. Cardinality(B \cup R) = Cardinality(B) + Cardinality(R) - Cardinality({})
    BY <1>1, <1>3, FS_Union
  <2> QED
    BY <1>1, <1>3, <2>1, FS_EmptySet DEF Num
<1>5. B = {} <=> x[1] = 0
  <2>1. ASSUME x[1] # 0
        PROVE  B # {}
    <3>1. <<x[1] - 1, x[2]>> \in Tasks /\ Bottom(<<x[1] - 1, x[2]>>) = x
      BY <2>1, Grid DEF Tasks, Bottom
    <3> QED
      BY <3>1
  <2>2. ASSUME x[1] = 0, NEW y \in B
        PROVE  FALSE
    BY <2>2, Grid DEF Bottom
  <2> QED
    BY <2>1, <2>2
<1>6. R = {} <=> x[2] = 0
  <2>1. ASSUME x[2] # 0
        PROVE  R # {}
    <3>1. <<x[1], x[2] - 1>> \in Tasks /\ Right(<<x[1], x[2] - 1>>) = x
      BY <2>1, Grid DEF Tasks, Right
    <3> QED
      BY <3>1
  <2>2. ASSUME x[2] = 0, NEW y \in R
        PROVE  FALSE
    BY <2>2, Grid DEF Right
  <2> QED
    BY <2>1, <2>2
<1>7. x = First <=> x[1] = 0 /\ x[2] = 0
  BY Grid DEF First
<1>8. (B # {} <=> \E y \in Tasks : Bottom(y) = x) /\ (R # {} <=> \E y \in Tasks : Right(y) = x)
  OBVIOUS
<1> HIDE DEF B, R
<1> QED
  BY <1>4, <1>5, <1>6, <1>7, <1>8 DEF Num

-----------------------------------------------------------------------------
(* Counting the predecessors that have still to tally                      *)

(* The counts of the initial state: nothing has tallied.                   *)
LEMMA InitControl == Init => Control
<1> SUFFICES ASSUME Init
             PROVE  Control
  OBVIOUS
<1> USE Grid
<1>1. \A w \in Workers : task[w] = None /\ at[w] = "idle" /\ bypass[w] = None
  BY DEF Init
<1>2. \A y \in Tasks, P \in SUBSET Places : ~Past(y, P)
  BY DEF Init, Past
<1>3. \A x \in Tasks : Pending(x, "bottom") <=> \E y \in Tasks : Bottom(y) = x
  <2>1. Before("bottom") \in SUBSET Places
    BY DEF Before, Places
  <2> QED
    BY <1>2, <2>1 DEF Pending, Succ
<1>4. \A x \in Tasks : Pending(x, "right") <=> \E y \in Tasks : Right(y) = x
  <2>1. Before("right") \in SUBSET Places
    BY DEF Before, Places
  <2> QED
    BY <1>2, <2>1 DEF Pending, Succ
<1>5. Counted
  BY <1>3, <1>4, PredecessorCount DEF Init, Counted, Num
<1>6. TypeOK
  <2>1. \A x \in Tasks : Cardinality(Predecessors(x)) \in 0 .. 2
    BY PredecessorCount DEF Num
  <2> QED
    BY <2>1 DEF Init, TypeOK, Places, Uninit
<1>7. Located
  BY <1>1 DEF Init, Located
<1>8. ReadsHold
  BY <1>1 DEF ReadsHold
<1>9. RootWaits
  BY DEF Init, RootWaits
<1> QED
  BY <1>5, <1>6, <1>7, <1>8, <1>9 DEF Control

(* What is pending does not change when no task on whose tally a task of   *)
(* the grid waits leaves the places before it.                             *)
LEMMA SamePending ==
    ASSUME \A y \in Tasks, s \in Sides : Succ(y, s) \in Tasks =>
               (Past(y, Before(s))' <=> Past(y, Before(s)))
    PROVE  \A x \in Tasks, s \in Sides : Pending(x, s)' <=> Pending(x, s)
BY DEF Pending

(* One tally takes one from what is pending.                               *)
LEMMA OneTallied ==
    ASSUME NEW y \in Tasks, NEW s \in Sides,
           ~Past(y, Before(s)), Past(y, Before(s))',
           \A z \in Tasks, r \in Sides : z # y \/ r # s =>
               (Past(z, Before(r))' <=> Past(z, Before(r)))
    PROVE  /\ Pending(Succ(y, s), s) /\ ~Pending(Succ(y, s), s)'
           /\ \A x \in Tasks, r \in Sides : x # Succ(y, s) \/ r # s =>
                 (Pending(x, r)' <=> Pending(x, r))
<1>1. Pending(Succ(y, s), s)
  BY DEF Pending
<1>2. ~Pending(Succ(y, s), s)'
  <2>1. \A z \in Tasks : Succ(z, s) = Succ(y, s) => z = y
    BY Grid
  <2> QED
    BY <2>1 DEF Pending
<1>3. ASSUME NEW x \in Tasks, NEW r \in Sides, x # Succ(y, s) \/ r # s
      PROVE  Pending(x, r)' <=> Pending(x, r)
  <2>1. \A z \in Tasks : Succ(z, r) = x => z # y \/ r # s
    BY <1>3
  <2> QED
    BY <2>1 DEF Pending
<1> QED
  BY <1>1, <1>2, <1>3

-----------------------------------------------------------------------------
(* The steps of execute and of the scheduler                               *)

\* No task is executed in the step.
SameExecuted == \A y \in Tasks : Executed(y)' <=> Executed(y)

(* A worker that executes has a task of the grid, which is past nothing it *)
(* has still to do.                                                        *)
LEMMA Executing ==
    ASSUME Control, NEW w \in Workers, at[w] # "idle"
    PROVE  /\ task[w] \in Tasks /\ handed[task[w]] = 1 /\ task[w] \notin pool
           /\ \A v \in Workers : bypass[v] # task[w] /\ (v # w => task[v] # task[w])
           /\ \A P \in SUBSET Places : Past(task[w], P) <=> at[w] \notin P
<1>1. task[w] \in Tasks
  BY DEF Control, TypeOK
<1>2. /\ handed[task[w]] = 1 /\ task[w] \notin pool
      /\ \A v \in Workers : bypass[v] # task[w] /\ (v # w => task[v] # task[w])
  BY <1>1 DEF Control, Located
<1> QED
  BY <1>1, <1>2 DEF Past

(* The places of a tally and those before it.                              *)
LEMMA BeforePlaces ==
    /\ \A s \in Sides : Before(s) \subseteq Places
    /\ "execute" \in Before("bottom") /\ Before("bottom") \subseteq Before("right")
    /\ {"idle", "return"} \cap Before("right") = {}
BY DEF Before, Places, Sides

(* A worker moves on within execute and nobody waits for that: the counts  *)
(* and the places of the tasks stay right.                                 *)
LEMMA MoveControl ==
    ASSUME Control, NEW w \in Workers, NEW p \in Places, at[w] # "idle", p # "idle",
           at' = [at EXCEPT ![w] = p], UNCHANGED <<refCount, pool, task, bypass, handed>>,
           \A s \in Sides : Succ(task[w], s) \in Tasks => (at[w] \in Before(s) <=> p \in Before(s)),
           top' \in [Tasks -> Int], left' \in [Tasks -> Int],
           root' \in [count : 0 .. 2, top : Int, left : Int], root'.count = root.count,
           p \in {"last_bottom", "last_right", "one_of_bottom", "one_of_right"} =>
               Successor(w)' \in Tasks,
           p \in {"last_bottom", "last_right"} => refCount[Successor(w)'] = 1
    PROVE  /\ Control'
           /\ (at[w] = "execute" <=> p = "execute") => SameExecuted
<1> USE Grid
<1>1. at'[w] = p /\ \A v \in Workers : v # w => at'[v] = at[v]
  BY DEF Control, TypeOK
<1>2. TypeOK'
  BY <1>1 DEF Control, TypeOK
<1>3. Located'
  BY DEF Control, Located
<1>4. ASSUME NEW y \in Tasks, NEW P \in SUBSET Places,
             y = task[w] => (at[w] \in P <=> p \in P)
      PROVE  Past(y, P)' <=> Past(y, P)
  BY <1>1, <1>4 DEF Past
<1>5. \A x \in Tasks, s \in Sides : Pending(x, s)' <=> Pending(x, s)
  <2>1. \A y \in Tasks, s \in Sides : Succ(y, s) \in Tasks =>
            (Past(y, Before(s))' <=> Past(y, Before(s)))
    BY <1>4, BeforePlaces
  <2> QED
    BY <2>1, SamePending
<1>6. Counted'
  <2>1. \A x \in Tasks : /\ Pending(x, "bottom")' <=> Pending(x, "bottom")
                         /\ Pending(x, "right")' <=> Pending(x, "right")
    BY <1>5 DEF Sides
  <2> QED
    BY <2>1 DEF Control, Counted, Num
<1>7. ReadsHold'
  <2>1. \A v \in Workers : v # w => Successor(v)' = Successor(v)
    BY <1>1 DEF Successor
  <2> QED
    BY <1>1, <2>1 DEF Control, ReadsHold
<1>8. RootWaits'
  <2>1. Past(EndPoint, Places)' <=> Past(EndPoint, Places)
    BY <1>4 DEF Control, TypeOK
  <2> QED
    BY <2>1 DEF Control, RootWaits
<1>9. ASSUME at[w] = "execute" <=> p = "execute"
      PROVE  SameExecuted
  <2>1. {"execute"} \in SUBSET Places
    BY DEF Places
  <2> QED
    BY <1>4, <1>9, <2>1 DEF SameExecuted, Executed
<1> QED
  BY <1>2, <1>3, <1>6, <1>7, <1>8, <1>9 DEF Control

(* A worker takes a task of the pool.                                      *)
LEMMA TakeControl ==
    ASSUME Control, NEW w \in Workers, Take(w)
    PROVE  Control' /\ SameExecuted
<1> USE Grid
<1>1. PICK x \in pool : pool' = pool \ {x} /\ task' = [task EXCEPT ![w] = x]
  BY DEF Take
<1>2. /\ x \in Tasks /\ task[w] = None /\ at[w] = "idle" /\ at' = [at EXCEPT ![w] = "execute"]
      /\ UNCHANGED <<refCount, top, left, bypass, root, handed>>
  BY DEF Take, Control, TypeOK
<1>3. /\ task'[w] = x /\ at'[w] = "execute"
      /\ \A v \in Workers : v # w => task'[v] = task[v] /\ at'[v] = at[v]
  BY <1>1, <1>2 DEF Control, TypeOK
<1>4. TypeOK'
  BY <1>1, <1>2, <1>3 DEF Control, TypeOK, Places
<1>5. handed[x] = 1 /\ \A v \in Workers : task[v] # x /\ bypass[v] # x
  BY <1>2 DEF Control, Located
<1>6. Located'
  BY <1>1, <1>2, <1>3, <1>5 DEF Control, Located
<1>7. \A y \in Tasks, P \in SUBSET Places : "execute" \in P => (Past(y, P)' <=> Past(y, P))
  <2> TAKE y \in Tasks, P \in SUBSET Places
  <2> HAVE "execute" \in P
  <2>1. CASE y = x
    BY <1>1, <1>2, <1>3, <2>1 DEF Past
  <2>2. CASE y # x
    BY <1>1, <1>2, <1>3, <2>2 DEF Past
  <2> QED
    BY <2>1, <2>2
<1>8. \A x1 \in Tasks, s \in Sides : Pending(x1, s)' <=> Pending(x1, s)
  <2>1. \A s \in Sides : "execute" \in Before(s) /\ Before(s) \subseteq Places
    BY DEF Before, Places
  <2> QED
    BY <1>7, <2>1, SamePending
<1>9. Counted'
  <2>1. \A x1 \in Tasks : /\ Pending(x1, "bottom")' <=> Pending(x1, "bottom")
                          /\ Pending(x1, "right")' <=> Pending(x1, "right")
    BY <1>8 DEF Sides
  <2> QED
    BY <1>2, <2>1 DEF Control, Counted, Num
<1>10. ReadsHold'
  <2>1. \A v \in Workers : v # w => Successor(v)' = Successor(v)
    BY <1>3 DEF Successor
  <2> QED
    BY <1>2, <1>3, <2>1 DEF Control, ReadsHold
<1>11. RootWaits'
  <2>1. Past(EndPoint, Places)' <=> Past(EndPoint, Places)
    BY <1>7 DEF Places
  <2> QED
    BY <1>2, <2>1 DEF Control, RootWaits
<1>12. SameExecuted
  <2>1. {"execute"} \in SUBSET Places
    BY DEF Places
  <2> QED
    BY <1>7, <2>1 DEF SameExecuted, Executed
<1> QED
  BY <1>4, <1>6, <1>9, <1>10, <1>11, <1>12 DEF Control

(* execute proper, of a task and of the end point.                         *)
LEMMA ExecuteControl ==
    ASSUME Control, NEW w \in Workers, Execute(w) \/ ExecuteEnd(w)
    PROVE  Control'
<1> USE Grid
<1>1. at[w] = "execute" /\ task[w] \in Tasks
  BY Executing DEF Execute, ExecuteEnd
<1>2. CASE Execute(w)
  <2>1. top' \in [Tasks -> Int] /\ left' \in [Tasks -> Int]
    <3>1. TopOf(task[w]) \in Int /\ LeftOf(task[w]) \in Int
      BY <1>1 DEF TopOf, LeftOf, Control, TypeOK
    <3>2. TopOf(task[w]) + LeftOf(task[w]) \in Int
      BY <3>1
    <3>3. \A y \in Tasks : top[y] \in Int /\ left[y] \in Int
      BY DEF Control, TypeOK
    <3> QED
      BY <1>2, <3>1, <3>2, <3>3 DEF Execute
  <2>2. "tally_bottom" \in Places /\ \A s \in Sides : at[w] \in Before(s) <=> "tally_bottom" \in Before(s)
    BY <1>1 DEF Places, Before
  <2>3. root' = root /\ root' \in [count : 0 .. 2, top : Int, left : Int]
    BY <1>2 DEF Execute, Control, TypeOK
  <2> QED
    BY <1>1, <1>2, <2>1, <2>2, <2>3, MoveControl DEF Execute
<1>3. CASE ExecuteEnd(w)
  <2>1. "return" \in Places /\ \A s \in Sides : Succ(task[w], s) \notin Tasks
    BY <1>3 DEF ExecuteEnd, Places
  <2>2. root' \in [count : 0 .. 2, top : Int, left : Int] /\ root'.count = root.count
    BY <1>1, <1>3 DEF ExecuteEnd, Control, TypeOK
  <2>3. top' \in [Tasks -> Int] /\ left' \in [Tasks -> Int]
    BY <1>3 DEF ExecuteEnd, Control, TypeOK
  <2> QED
    BY <1>1, <1>3, <2>1, <2>2, <2>3, MoveControl DEF ExecuteEnd
<1> QED
  BY <1>2, <1>3

(* Which tally a worker is at, and of what.                                *)
LEMMA AtTally ==
    ASSUME NEW w \in Workers,
           at[w] \in {"tally_bottom", "last_bottom", "one_of_bottom",
                     "tally_right", "last_right", "one_of_right"}
    PROVE  \E s \in Sides :
              /\ Successor(w) = Succ(task[w], s)
              /\ s = "bottom" <=> at[w] \in {"tally_bottom", "last_bottom", "one_of_bottom"}
              /\ at[w] \in Before(s) /\ AfterTally(w) \notin Before(s)
              /\ \A r \in Sides : r # s => (at[w] \in Before(r) <=> AfterTally(w) \in Before(r))
              /\ AfterTally(w) \in {"tally_right", "return"}
<1>1. CASE at[w] \in {"tally_bottom", "last_bottom", "one_of_bottom"}
  BY <1>1 DEF Successor, AfterTally, Succ, Before, Sides
<1>2. CASE at[w] \in {"tally_right", "last_right", "one_of_right"}
  <2>1. Successor(w) = Succ(task[w], "right") /\ AfterTally(w) = "return"
    BY <1>2 DEF Successor, AfterTally, Succ
  <2>2. /\ at[w] \in Before("right") /\ "return" \notin Before("right")
        /\ at[w] \notin Before("bottom") /\ "return" \notin Before("bottom")
    BY <1>2 DEF Before
  <2> QED
    BY <1>2, <2>1, <2>2 DEF Sides
<1> QED
  BY <1>1, <1>2

(* The reads of tally_completion_of_predecessor.                           *)
LEMMA TallyReadControl ==
    ASSUME Control, NEW w \in Workers, TallyNone(w) \/ TallyRead(w)
    PROVE  Control' /\ SameExecuted
<1> USE Grid
<1>1. at[w] \in {"tally_bottom", "tally_right"} /\ task[w] \in Tasks
  BY Executing DEF TallyNone, TallyRead
<1>2. /\ top' \in [Tasks -> Int] /\ left' \in [Tasks -> Int]
      /\ root' = root /\ root' \in [count : 0 .. 2, top : Int, left : Int]
      /\ UNCHANGED <<refCount, pool, task, bypass, handed>>
  BY DEF TallyNone, TallyRead, Control, TypeOK
<1>3. CASE TallyNone(w)
  <2>1. PICK s \in Sides :
            /\ Successor(w) = Succ(task[w], s) /\ Successor(w) \notin Tasks
            /\ \A r \in Sides : r # s => (at[w] \in Before(r) <=> AfterTally(w) \in Before(r))
            /\ AfterTally(w) \in {"tally_right", "return"}
    BY <1>1, <1>3, AtTally DEF TallyNone
  <2>2. at' = [at EXCEPT ![w] = AfterTally(w)] /\ AfterTally(w) \in Places
    BY <1>3, <2>1 DEF TallyNone, Places
  <2> DEFINE p == AfterTally(w)
  <2>3. /\ at' = [at EXCEPT ![w] = p] /\ p \in Places /\ p \in {"tally_right", "return"}
        /\ \A r \in Sides : Succ(task[w], r) \in Tasks => (at[w] \in Before(r) <=> p \in Before(r))
    BY <2>1, <2>2
  <2> HIDE DEF p
  <2> QED
    BY <1>1, <1>2, <2>3, MoveControl
<1>4. CASE TallyRead(w)
  <2>1. PICK p \in Places :
            /\ at' = [at EXCEPT ![w] = p]
            /\ p = IF at[w] = "tally_bottom"
                   THEN IF refCount[Successor(w)] = 1 THEN "last_bottom" ELSE "one_of_bottom"
                   ELSE IF refCount[Successor(w)] = 1 THEN "last_right" ELSE "one_of_right"
    BY <1>4 DEF TallyRead, Places
  <2>2. at'[w] = p
    BY <2>1 DEF Control, TypeOK
  <2>3. Successor(w)' = Successor(w) /\ Successor(w) \in Tasks
    BY <1>1, <1>2, <1>4, <2>1, <2>2 DEF Successor, TallyRead
  <2>4. \A r \in Sides : at[w] \in Before(r) <=> p \in Before(r)
    BY <1>1, <2>1 DEF Before
  <2>5. /\ at[w] # "idle" /\ p # "idle" /\ Successor(w)' \in Tasks
        /\ p \in {"last_bottom", "last_right"} => refCount[Successor(w)'] = 1
    BY <1>1, <2>1, <2>3
  <2>6. \A r \in Sides : Succ(task[w], r) \in Tasks => (at[w] \in Before(r) <=> p \in Before(r))
    BY <2>4
  <2>7. at' = [at EXCEPT ![w] = p] /\ root'.count = root.count
    BY <1>2, <2>1
  <2> QED
    BY ONLY Control, <1>1, <1>2, <2>1, <2>5, <2>6, <2>7, p \in Places, w \in Workers, MoveControl
<1> QED
  BY <1>3, <1>4

\* w tallies the completion of its task for x, the successor on side s: the
\* count of x goes down by one, and at 0 x is handed over, to one place.
Tallies(w, x, s) ==
    /\ x = Succ(task[w], s) /\ Successor(w) = x
    /\ at[w] \in Before(s) /\ AfterTally(w) \notin Before(s)
    /\ \A r \in Sides : r # s => (at[w] \in Before(r) <=> AfterTally(w) \in Before(r))
    /\ AfterTally(w) \in {"tally_right", "return"}
    /\ at' = [at EXCEPT ![w] = AfterTally(w)]
    /\ refCount[x] \in 1 .. 2 /\ refCount' = [refCount EXCEPT ![x] = refCount[x] - 1]
    /\ handed[x] = 0
    /\ handed' = IF refCount[x] = 1 THEN [handed EXCEPT ![x] = 1] ELSE handed
    /\ x \notin pool /\ \A v \in Workers : bypass[v] # x /\ task[v] # x
    /\ \/ pool' = pool /\ bypass' = bypass /\ refCount[x] # 1
       \/ pool' = pool \cup {x} /\ bypass' = bypass /\ refCount[x] = 1
       \/ /\ pool' = pool /\ refCount[x] = 1
          /\ bypass[w] = None /\ bypass' = [bypass EXCEPT ![w] = x]
    /\ UNCHANGED <<top, left, task, root>>

(* The plain write and the atomic decrement come to the same.              *)
LEMMA TallyEffect ==
    ASSUME Control, NEW w \in Workers, TallyLast(w) \/ TallyDecrement(w)
    PROVE  \E x \in Tasks, s \in Sides : Tallies(w, x, s)
<1> USE Grid
<1>1. /\ at[w] \in {"last_bottom", "last_right", "one_of_bottom", "one_of_right"}
      /\ at' = [at EXCEPT ![w] = AfterTally(w)]
      /\ UNCHANGED <<top, left, task, root>>
  BY DEF TallyLast, TallyDecrement
<1>2. PICK x \in Tasks : x = Successor(w)
  BY <1>1 DEF Control, ReadsHold
<1>3. PICK s \in Sides :
          /\ x = Succ(task[w], s)
          /\ at[w] \in Before(s) /\ AfterTally(w) \notin Before(s)
          /\ \A r \in Sides : r # s => (at[w] \in Before(r) <=> AfterTally(w) \in Before(r))
          /\ AfterTally(w) \in {"tally_right", "return"}
  BY <1>1, <1>2, AtTally
<1>4. Pending(x, s)
  <2>1. task[w] \in Tasks /\ ~Past(task[w], Before(s))
    BY <1>1, <1>3, BeforePlaces, Executing
  <2> QED
    BY <1>3, <2>1 DEF Pending
<1>5. refCount[x] \in 1 .. 2 /\ handed[x] = 0
  BY <1>4 DEF Control, Counted, Num, Sides
<1>6. x \notin pool /\ \A v \in Workers : bypass[v] # x /\ task[v] # x
  BY <1>5 DEF Control, Located
<1>7. CASE TallyLast(w)
  <2>1. refCount[x] = 1
    BY <1>2, <1>7 DEF TallyLast, Control, ReadsHold
  <2>2. refCount' = [refCount EXCEPT ![x] = refCount[x] - 1] /\ HandOff(w, x)
    BY <1>2, <1>7, <2>1 DEF TallyLast
  <2>3. handed' = [handed EXCEPT ![x] = 1]
    BY <1>5, <2>2 DEF HandOff
  <2>4. Tallies(w, x, s)
    BY <1>1, <1>2, <1>3, <1>5, <1>6, <2>1, <2>2, <2>3 DEF HandOff, Tallies
  <2> QED
    BY <2>4
<1>8. CASE TallyDecrement(w)
  <2>1. /\ refCount' = [refCount EXCEPT ![x] = refCount[x] - 1]
        /\ refCount[x] = 1 => HandOff(w, x)
        /\ refCount[x] # 1 => UNCHANGED <<handed, bypass, pool>>
    BY <1>2, <1>5, <1>8 DEF TallyDecrement
  <2>2. handed' = IF refCount[x] = 1 THEN [handed EXCEPT ![x] = 1] ELSE handed
    BY <1>5, <2>1 DEF HandOff
  <2>3. Tallies(w, x, s)
    BY <1>1, <1>2, <1>3, <1>5, <1>6, <2>1, <2>2 DEF HandOff, Tallies
  <2> QED
    BY <2>3
<1> QED
  BY <1>7, <1>8

(* A tally keeps the counts right, and hands a task over with its last.    *)
LEMMA TallyControl ==
    ASSUME Control, NEW w \in Workers, TallyLast(w) \/ TallyDecrement(w)
    PROVE  Control' /\ SameExecuted
<1>1. None \notin Tasks /\ EndPoint \in Tasks
  BY Grid
<1>2. PICK x \in Tasks, s \in Sides : Tallies(w, x, s)
  BY TallyEffect
<1>3. /\ x = Succ(task[w], s) /\ Successor(w) = x
      /\ at[w] \in Before(s) /\ AfterTally(w) \notin Before(s)
      /\ \A r \in Sides : r # s => (at[w] \in Before(r) <=> AfterTally(w) \in Before(r))
      /\ AfterTally(w) \in {"tally_right", "return"}
      /\ at' = [at EXCEPT ![w] = AfterTally(w)]
      /\ refCount[x] \in 1 .. 2 /\ refCount' = [refCount EXCEPT ![x] = refCount[x] - 1]
      /\ handed[x] = 0
      /\ handed' = IF refCount[x] = 1 THEN [handed EXCEPT ![x] = 1] ELSE handed
      /\ x \notin pool /\ \A v \in Workers : bypass[v] # x /\ task[v] # x
      /\ \/ pool' = pool /\ bypass' = bypass /\ refCount[x] # 1
         \/ pool' = pool \cup {x} /\ bypass' = bypass /\ refCount[x] = 1
         \/ /\ pool' = pool /\ refCount[x] = 1
            /\ bypass[w] = None /\ bypass' = [bypass EXCEPT ![w] = x]
      /\ UNCHANGED <<top, left, task, root>>
  BY <1>2 DEF Tallies
<1>4. PICK p \in Places : p = AfterTally(w) /\ p # "idle" /\ p \notin {"last_bottom", "last_right", "one_of_bottom", "one_of_right"}
  BY <1>3 DEF Places
<1>5. at' = [at EXCEPT ![w] = p] /\ at'[w] = p /\ \A v \in Workers : v # w => at'[v] = at[v]
  BY <1>3, <1>4 DEF Control, TypeOK
<1>6. PICK y \in Tasks : y = task[w]
  <2>1. task[w] \in Tasks
    BY <1>3, BeforePlaces, Executing DEF Sides, Before
  <2> QED
    BY <2>1
<1>7. /\ handed[y] = 1 /\ y \notin pool /\ x # y
      /\ \A v \in Workers : bypass[v] # y /\ (v # w => task[v] # y)
  BY <1>3, <1>6 DEF Control, Located
<1>8. /\ refCount'[x] = refCount[x] - 1 /\ handed'[x] = Num(refCount[x] = 1)
      /\ \A z \in Tasks : z # x => refCount'[z] = refCount[z] /\ handed'[z] = handed[z]
  BY <1>3 DEF Control, TypeOK, Num
<1>9. TypeOK'
  <2>1. refCount' \in [Tasks -> 0 .. 2] /\ handed' \in [Tasks -> Nat]
    BY <1>3 DEF Control, TypeOK
  <2>2. at' \in [Workers -> Places] /\ \A v \in Workers : at'[v] = "idle" <=> task'[v] = None
    BY <1>1, <1>3, <1>5, <1>6 DEF Control, TypeOK, Places
  <2>3. pool' \subseteq Tasks /\ bypass' \in [Workers -> Tasks \cup {None}]
    BY <1>3 DEF Control, TypeOK
  <2> QED
    BY <1>3, <2>1, <2>2, <2>3 DEF Control, TypeOK
<1>10. \A z \in Tasks : z # x =>
          /\ z \in pool' <=> z \in pool
          /\ \A v \in Workers : bypass'[v] = z <=> bypass[v] = z
  BY <1>1, <1>3 DEF Control, TypeOK
<1>11. Located'
  <2>1. ASSUME NEW z \in Tasks, z # x
        PROVE  /\ z \in pool' => handed'[z] = 1 /\ \A v \in Workers : task'[v] # z /\ bypass'[v] # z
               /\ \A v \in Workers : bypass'[v] = z =>
                     handed'[z] = 1 /\ \A u \in Workers : task'[u] # z /\ (u # v => bypass'[u] # z)
               /\ \A v \in Workers : task'[v] = z =>
                     handed'[z] = 1 /\ \A u \in Workers : u # v => task'[u] # z
    BY <1>3, <1>8, <1>10, <2>1 DEF Control, Located
  <2>2. /\ x \in pool' => handed'[x] = 1 /\ \A v \in Workers : task'[v] # x /\ bypass'[v] # x
        /\ \A v \in Workers : bypass'[v] = x =>
              handed'[x] = 1 /\ \A u \in Workers : task'[u] # x /\ (u # v => bypass'[u] # x)
        /\ \A v \in Workers : task'[v] # x
    BY <1>1, <1>3, <1>8 DEF Control, TypeOK, Num
  <2> QED
    BY <2>1, <2>2 DEF Located
<1>12. \A z \in Tasks, P \in SUBSET Places :
          (z # y \/ (at[w] \in P <=> p \in P)) => (Past(z, P)' <=> Past(z, P))
  <2> TAKE z \in Tasks, P \in SUBSET Places
  <2> HAVE z # y \/ (at[w] \in P <=> p \in P)
  <2>1. CASE z = x
    <3>1. ~Past(x, P)
      BY <1>3 DEF Past
    <3>2. ~Past(x, P)'
      BY <1>3, <1>8 DEF Past, Num, Control, TypeOK
    <3> QED
      BY <2>1, <3>1, <3>2
  <2>2. CASE z # x
    <3>1. \A v \in Workers : task[v] = z => (at[v] \in P <=> at'[v] \in P)
      BY <1>5, <1>6
    <3> QED
      BY <1>3, <1>8, <1>10, <2>2, <3>1 DEF Past
  <2> QED
    BY <2>1, <2>2
<1>13. ~Past(y, Before(s)) /\ Past(y, Before(s))'
  BY <1>3, <1>4, <1>5, <1>6, <1>7, <1>8, <1>10 DEF Past
<1>14. /\ Pending(x, s) /\ ~Pending(x, s)'
       /\ \A z \in Tasks, r \in Sides : z # x \/ r # s => (Pending(z, r)' <=> Pending(z, r))
  <2>1. \A z \in Tasks, r \in Sides : z # y \/ r # s =>
            (Past(z, Before(r))' <=> Past(z, Before(r)))
    BY <1>3, <1>4, <1>12, BeforePlaces
  <2> QED
    BY <1>3, <1>6, <1>13, <2>1, OneTallied
<1>15. Counted'
  <2>1. \A z \in Tasks : z # x =>
            /\ Pending(z, "bottom")' <=> Pending(z, "bottom")
            /\ Pending(z, "right")' <=> Pending(z, "right")
    BY <1>14 DEF Sides
  <2>2. refCount'[x] = (Num(Pending(x, "bottom")) + Num(Pending(x, "right")))'
    <3>1. refCount[x] = Num(Pending(x, "bottom")) + Num(Pending(x, "right"))
      BY DEF Control, Counted
    <3>2. CASE s = "bottom"
      BY <1>3, <1>8, <1>14, <3>1, <3>2 DEF Num, Sides
    <3>3. CASE s = "right"
      BY <1>3, <1>8, <1>14, <3>1, <3>3 DEF Num, Sides
    <3> QED
      BY <3>2, <3>3 DEF Sides
  <2>3. handed'[x] = Num(refCount'[x] = 0)
    BY <1>3, <1>8 DEF Num
  <2>4. ASSUME NEW z \in Tasks, z # x
        PROVE  (/\ refCount[z] = Num(Pending(z, "bottom")) + Num(Pending(z, "right"))
                /\ handed[z] = Num(refCount[z] = 0))'
    <3>1. /\ refCount[z] = Num(Pending(z, "bottom")) + Num(Pending(z, "right"))
          /\ handed[z] = Num(refCount[z] = 0)
      BY DEF Control, Counted
    <3>2. /\ Num(Pending(z, "bottom"))' = Num(Pending(z, "bottom"))
          /\ Num(Pending(z, "right"))' = Num(Pending(z, "right"))
      <4>1. /\ Pending(z, "bottom")' <=> Pending(z, "bottom")
            /\ Pending(z, "right")' <=> Pending(z, "right")
        BY <2>1, <2>4
      <4> QED
        BY <4>1 DEF Num
    <3>3. refCount'[z] = refCount[z] /\ handed'[z] = handed[z]
      BY <1>8, <2>4
    <3>4. Num(refCount[z] = 0)' = Num(refCount[z] = 0)
      BY <3>3 DEF Num
    <3> QED
      BY <3>1, <3>2, <3>3, <3>4
  <2> QED
    BY <2>2, <2>3, <2>4 DEF Counted
<1>16. ReadsHold'
  <2>1. \A v \in Workers : v # w => Successor(v)' = Successor(v)
    BY <1>3, <1>5 DEF Successor
  <2>2. ASSUME NEW v \in Workers, v # w, at[v] \in {"last_bottom", "last_right"}
        PROVE  Successor(v) # x
    <3>1. PICK r \in Sides : Successor(v) = Succ(task[v], r) /\ at[v] \in Before(r)
      BY <2>2, AtTally
    <3>2. task[v] \in Tasks /\ ~Past(task[v], Before(r)) /\ task[v] # y
      BY <1>6, <2>2, <3>1, BeforePlaces, Executing
    <3>3. ASSUME Successor(v) = x
          PROVE  FALSE
      <4>1. r # s
        BY <1>3, <1>6, <3>1, <3>2, <3>3, Grid, ZenonT(60)
      <4>2. Pending(x, r)
        BY <3>1, <3>2, <3>3 DEF Pending
      <4>3. refCount[x] = 2
        BY <1>14, <4>1, <4>2 DEF Control, Counted, Num, Sides
      <4>4. refCount[x] = 1
        BY <2>2, <3>3 DEF Control, ReadsHold
      <4> QED
        BY <4>3, <4>4
    <3> QED
      BY <3>3
  <2> QED
    BY <1>4, <1>5, <1>8, <2>1, <2>2 DEF Control, ReadsHold
<1>17. RootWaits'
  <2>1. Past(EndPoint, Places)' <=> Past(EndPoint, Places)
    BY <1>1, <1>4, <1>12 DEF Control, TypeOK, Places
  <2> QED
    BY <1>3, <2>1 DEF Control, RootWaits
<1>18. SameExecuted
  <2>1. {"execute"} \in SUBSET Places
    BY DEF Places
  <2>2. at[w] # "execute" /\ p # "execute"
    BY <1>4, <1>3 DEF TallyLast, TallyDecrement
  <2> QED
    BY <1>12, <2>1, <2>2 DEF SameExecuted, Executed
<1> QED
  BY <1>9, <1>11, <1>15, <1>16, <1>17, <1>18 DEF Control

(* A worker goes on with the task of its bypass slot, or is done.          *)
LEMMA ReturnControl ==
    ASSUME Control, NEW w \in Workers, ReturnTask(w)
    PROVE  Control' /\ SameExecuted
<1>1. None \notin Tasks /\ EndPoint \in Tasks
  BY Grid
<1>2. PICK y \in Tasks : y = task[w]
  BY Executing DEF ReturnTask
<1>3. PICK x \in Tasks \cup {None} : x = bypass[w]
  BY DEF Control, TypeOK
<1>4. PICK p \in Places : p = IF x = None THEN "idle" ELSE "execute"
  BY DEF Places
<1>5. /\ at[w] = "return"
      /\ task' = [task EXCEPT ![w] = x] /\ at' = [at EXCEPT ![w] = p]
      /\ bypass' = [bypass EXCEPT ![w] = None]
      /\ root' = [root EXCEPT !.count = IF y = EndPoint THEN @ - 1 ELSE @]
      /\ UNCHANGED <<refCount, top, left, pool, handed>>
  BY <1>2, <1>3, <1>4 DEF ReturnTask
<1>6. /\ task'[w] = x /\ at'[w] = p /\ bypass'[w] = None
      /\ \A v \in Workers : v # w =>
            task'[v] = task[v] /\ at'[v] = at[v] /\ bypass'[v] = bypass[v]
  BY <1>5 DEF Control, TypeOK
<1>7. /\ handed[y] = 1 /\ y \notin pool /\ x # y
      /\ \A v \in Workers : bypass[v] # y /\ (v # w => task[v] # y)
  BY <1>1, <1>2, <1>3 DEF Control, Located
<1>8. x # None =>
          /\ handed[x] = 1 /\ x \notin pool
          /\ \A v \in Workers : task[v] # x /\ (v # w => bypass[v] # x)
  BY <1>1, <1>3 DEF Control, Located
<1>9. \A z \in Tasks, P \in SUBSET Places :
          "execute" \in P /\ (z # y \/ "return" \notin P) => (Past(z, P)' <=> Past(z, P))
  <2> TAKE z \in Tasks, P \in SUBSET Places
  <2> HAVE "execute" \in P /\ (z # y \/ "return" \notin P)
  <2>1. CASE z = x
    <3>1. ~Past(x, P)
      BY <1>3, <2>1 DEF Past
    <3>2. ~Past(x, P)'
      BY <1>4, <1>6, <2>1 DEF Past
    <3> QED
      BY <2>1, <3>1, <3>2
  <2>2. CASE z = y
    <3>1. Past(y, P)
      BY <1>2, <1>5, <1>7, <2>2 DEF Past
    <3>2. Past(y, P)'
      BY <1>1, <1>5, <1>6, <1>7 DEF Past
    <3> QED
      BY <2>2, <3>1, <3>2
  <2>3. CASE z # x /\ z # y
    <3>1. \A v \in Workers : /\ task'[v] = z <=> task[v] = z
                             /\ bypass'[v] = z <=> bypass[v] = z
                             /\ task[v] = z => at'[v] = at[v]
      BY <1>1, <1>2, <1>3, <1>6, <2>3
    <3> QED
      BY <1>5, <3>1 DEF Past
  <2> QED
    BY <2>1, <2>2, <2>3
<1>10. root' \in [count : 0 .. 2, top : Int, left : Int]
      /\ root'.count = (IF y = EndPoint THEN root.count - 1 ELSE root.count)
      /\ (y = EndPoint => root.count = 2)
  <2>1. y = EndPoint => ~Past(EndPoint, Places)
    BY <1>2, <1>5 DEF Past, Places
  <2>2. y = EndPoint => root.count = 2
    BY <2>1 DEF Control, RootWaits
  <2> QED
    BY <1>1, <1>5, <2>2 DEF Control, TypeOK
<1>11. TypeOK'
  BY <1>1, <1>4, <1>5, <1>6, <1>10 DEF Control, TypeOK, Places
<1>12. Located'
  <2>1. ASSUME NEW z \in Tasks
        PROVE  /\ z \in pool' => handed'[z] = 1 /\ \A v \in Workers : task'[v] # z /\ bypass'[v] # z
               /\ \A v \in Workers : bypass'[v] = z =>
                     handed'[z] = 1 /\ \A u \in Workers : task'[u] # z /\ (u # v => bypass'[u] # z)
               /\ \A v \in Workers : task'[v] = z =>
                     handed'[z] = 1 /\ \A u \in Workers : u # v => task'[u] # z
    <3>1. CASE z = x
      BY <1>1, <1>5, <1>6, <1>8, <3>1
    <3>2. CASE z # x
      BY <1>1, <1>5, <1>6, <3>2 DEF Control, Located
    <3> QED
      BY <3>1, <3>2
  <2> QED
    BY <2>1 DEF Located
<1>13. Counted'
  <2>1. \A s \in Sides : "execute" \in Before(s) /\ "return" \notin Before(s)
    BY DEF Before
  <2>2. \A z \in Tasks, s \in Sides : Pending(z, s)' <=> Pending(z, s)
    BY <1>9, <2>1, BeforePlaces, SamePending
  <2>3. \A z \in Tasks : /\ Pending(z, "bottom")' <=> Pending(z, "bottom")
                         /\ Pending(z, "right")' <=> Pending(z, "right")
    BY <2>2 DEF Sides
  <2> QED
    BY <1>5, <2>3 DEF Control, Counted, Num
<1>14. ReadsHold'
  <2>1. \A v \in Workers : v # w => Successor(v)' = Successor(v)
    BY <1>6 DEF Successor
  <2> QED
    BY <1>4, <1>5, <1>6, <2>1 DEF Control, ReadsHold
<1>15. RootWaits'
  <2>1. CASE y = EndPoint
    <3>1. Past(EndPoint, Places)'
      BY <1>1, <1>5, <1>6, <1>7, <2>1 DEF Past
    <3> QED
      BY <3>1 DEF RootWaits
  <2>2. CASE y # EndPoint
    <3>1. Past(EndPoint, Places)' <=> Past(EndPoint, Places)
      BY <1>1, <1>9, <2>2 DEF Places
    <3> QED
      BY <1>10, <2>2, <3>1 DEF Control, RootWaits
  <2> QED
    BY <2>1, <2>2
<1>16. SameExecuted
  <2>1. {"execute"} \in SUBSET Places
    BY DEF Places
  <2> QED
    BY <1>9, <2>1 DEF SameExecuted, Executed
<1> QED
  BY <1>11, <1>12, <1>13, <1>14, <1>15, <1>16 DEF Control

(* main waits until the end point has returned.                            *)
LEMMA WaitControl ==
    ASSUME Control, WaitReturns
    PROVE  Control' /\ SameExecuted
<1>1. /\ root.count = 1 /\ root' = [root EXCEPT !.count = 0]
      /\ UNCHANGED <<refCount, top, left, pool, task, at, bypass, handed>>
  BY DEF WaitReturns
<1>2. TypeOK' /\ Located' /\ ReadsHold'
  BY <1>1 DEF Control, TypeOK, Located, ReadsHold, Successor
<1>3. \A y \in Tasks, P \in SUBSET Places : Past(y, P)' <=> Past(y, P)
  BY <1>1 DEF Past
<1>4. Counted'
  <2>1. \A x \in Tasks, s \in Sides : Pending(x, s)' <=> Pending(x, s)
    BY <1>3, BeforePlaces, SamePending
  <2>2. \A x \in Tasks : /\ Pending(x, "bottom")' <=> Pending(x, "bottom")
                         /\ Pending(x, "right")' <=> Pending(x, "right")
    BY <2>1 DEF Sides
  <2> QED
    BY <1>1, <2>2 DEF Control, Counted, Num
<1>5. RootWaits'
  BY <1>1, <1>3, Grid DEF Control, RootWaits
<1>6. SameExecuted
  BY <1>1 DEF SameExecuted, Executed, Past
<1> QED
  BY <1>2, <1>4, <1>5, <1>6 DEF Control

(* Every step of the scheduler keeps the counts and the places right.      *)
LEMMA NextControl == Control /\ [Next]_vars => Control'
<1> SUFFICES ASSUME Control, [Next]_vars
             PROVE  Control'
  OBVIOUS
<1>1. CASE WaitReturns
  BY <1>1, WaitControl
<1>2. ASSUME NEW w \in Workers, Run(w)
      PROVE  Control'
  BY <1>2, TakeControl, ExecuteControl, TallyReadControl, TallyControl, ReturnControl DEF Run
<1>3. CASE UNCHANGED vars
  <2>1. TypeOK' /\ Located' /\ ReadsHold'
    BY <1>3 DEF vars, Control, TypeOK, Located, ReadsHold, Successor
  <2>2. Counted' /\ RootWaits'
    <3>1. \A y \in Tasks, P \in SUBSET Places : Past(y, P)' <=> Past(y, P)
      BY <1>3 DEF vars, Past
    <3>2. \A x \in Tasks, s \in Sides : Pending(x, s)' <=> Pending(x, s)
      BY <3>1, BeforePlaces, SamePending
    <3>3. \A x \in Tasks : /\ Pending(x, "bottom")' <=> Pending(x, "bottom")
                           /\ Pending(x, "right")' <=> Pending(x, "right")
      BY <3>2 DEF Sides
    <3> QED
      BY <1>3, <3>1, <3>3, Grid DEF vars, Control, Counted, RootWaits, Num
  <2> QED
    BY <2>1, <2>2 DEF Control
<1> QED
  BY <1>1, <1>2, <1>3 DEF Next

(* For every grid and every number of workers, however the plain reads,    *)
(* plain writes and atomic decrements of tally interleave, each task is    *)
(* handed over at most once and executed by one worker.                    *)
THEOREM TasksHandedOnce == Spec => []HandedOnce
<1>1. Control => HandedOnce
  <2> SUFFICES ASSUME Control
               PROVE  HandedOnce
    OBVIOUS
  <2>1. \A x \in Tasks : handed[x] <= 1
    BY DEF Control, Counted, Num
  <2>2. \A w, v \in Workers : w # v /\ task[w] # None => task[w] # task[v]
    BY DEF Control, TypeOK, Located
  <2> QED
    BY <2>1, <2>2 DEF Control, HandedOnce
<1> QED
  BY <1>1, InitControl, NextControl, PTL DEF Spec

-----------------------------------------------------------------------------
(* The values                                                              *)

(* The tasks above and to the left of a task.                              *)
LEMMA UpBack ==
    /\ \A x \in Tasks : x[1] > 0 => Up(x) \in Tasks /\ Bottom(Up(x)) = x
    /\ \A x \in Tasks : x[2] > 0 => Back(x) \in Tasks /\ Right(Back(x)) = x
    /\ \A x \in Tasks : Up(x) # x /\ Back(x) # x
    /\ \A x, z \in Tasks : z = Bottom(x) <=> z[1] > 0 /\ Up(z) = x
    /\ \A x, z \in Tasks : z = Right(x) <=> z[2] > 0 /\ Back(z) = x
<1>1. \A x \in Tasks : Up(x) = <<x[1] - 1, x[2]>> /\ Back(x) = <<x[1], x[2] - 1>>
  BY DEF Up, Back
<1>2. \A x \in Tasks : Bottom(x) = <<x[1] + 1, x[2]>> /\ Right(x) = <<x[1], x[2] + 1>>
  BY DEF Bottom, Right
<1>3. \A x \in Tasks : x[1] > 0 => Up(x) \in Tasks
  BY <1>1, Grid DEF Tasks
<1>4. \A x \in Tasks : x[2] > 0 => Back(x) \in Tasks
  BY <1>1, Grid DEF Tasks
<1>5. \A x \in Tasks : Up(x) # x /\ Back(x) # x
  BY <1>1, Grid
<1>6. \A x, z \in Tasks : z = Bottom(x) <=> z[1] > 0 /\ Up(z) = x
  BY <1>1, <1>2, Grid
<1>7. \A x, z \in Tasks : z = Right(x) <=> z[2] > 0 /\ Back(z) = x
  BY <1>1, <1>2, Grid
<1> QED
  BY <1>3, <1>4, <1>5, <1>6, <1>7

(* The recursive definition of the numbers of paths has a solution, built  *)
(* one diagonal of the grid after the other.                               *)
LEMMA PathsOf ==
    \A x \in Tasks : Paths[x] = IF x[1] = 0 \/ x[2] = 0 THEN 1 ELSE Paths[Up(x)] + Paths[Back(x)]
<1> DEFINE Solves(f, n) ==
               \A x \in Tasks : x[1] + x[2] < n =>
                   f[x] = IF x[1] = 0 \/ x[2] = 0 THEN 1 ELSE f[Up(x)] + f[Back(x)]
           Bad == {n \in Nat : \A f \in [Tasks -> Int] : ~Solves(f, n)}
<1>1. Bad = {}
  <2> SUFFICES ASSUME Bad # {}
               PROVE  FALSE
    OBVIOUS
  <2>1. PICK n \in Bad : \A k \in Bad : n <= k
    <3>1. Bad \in SUBSET Nat
      OBVIOUS
    <3> HIDE DEF Bad
    <3> QED
      BY <3>1, LeastNatural
  <2>2. n # 0
    <3>1. [x \in Tasks |-> 0] \in [Tasks -> Int]
      OBVIOUS
    <3>2. Solves([x \in Tasks |-> 0], 0)
      BY Grid
    <3> QED
      BY <3>1, <3>2
  <2>3. n - 1 \in Nat /\ n - 1 \notin Bad
    BY <2>1, <2>2
  <2>4. PICK f \in [Tasks -> Int] : Solves(f, n - 1)
    BY <2>3
  <2> DEFINE g == [x \in Tasks |->
                       IF x[1] + x[2] # n - 1 THEN f[x]
                       ELSE IF x[1] = 0 \/ x[2] = 0 THEN 1 ELSE f[Up(x)] + f[Back(x)]]
  <2>5. g \in [Tasks -> Int]
    <3>1. \A x \in Tasks : x[1] # 0 /\ x[2] # 0 => f[Up(x)] + f[Back(x)] \in Int
      BY UpBack, Grid
    <3> QED
      BY <3>1
  <2>6. ASSUME NEW x \in Tasks, x[1] + x[2] < n
        PROVE  g[x] = IF x[1] = 0 \/ x[2] = 0 THEN 1 ELSE g[Up(x)] + g[Back(x)]
    <3>1. x[1] + x[2] < n - 1 \/ x[1] + x[2] = n - 1
      <4>1. n \in Nat /\ x[1] \in Nat /\ x[2] \in Nat
        BY <2>1, Grid
      <4> QED
        BY ONLY <2>6, <4>1
    <3>2. \/ g[x] = f[x] /\ x[1] + x[2] < n - 1
          \/ /\ x[1] + x[2] = n - 1
             /\ g[x] = IF x[1] = 0 \/ x[2] = 0 THEN 1 ELSE f[Up(x)] + f[Back(x)]
      <4>1. x[1] + x[2] < n - 1 => x[1] + x[2] # n - 1
        BY <2>1, Grid
      <4>2. g[x] = IF x[1] + x[2] # n - 1 THEN f[x]
                   ELSE IF x[1] = 0 \/ x[2] = 0 THEN 1 ELSE f[Up(x)] + f[Back(x)]
        OBVIOUS
      <4> HIDE DEF g, Bad
      <4> QED
        BY <3>1, <4>1, <4>2
    <3>3. g[x] = IF x[1] = 0 \/ x[2] = 0 THEN 1 ELSE f[Up(x)] + f[Back(x)]
      <4>1. x[1] + x[2] < n - 1 =>
                f[x] = IF x[1] = 0 \/ x[2] = 0 THEN 1 ELSE f[Up(x)] + f[Back(x)]
        BY <2>4
      <4> HIDE DEF g
      <4> QED
        BY <3>2, <4>1
    <3>4. CASE x[1] = 0 \/ x[2] = 0
      BY <3>3, <3>4
    <3>5. CASE x[1] # 0 /\ x[2] # 0
      <4>1. /\ Up(x) \in Tasks /\ Up(x)[1] + Up(x)[2] # n - 1
            /\ Back(x) \in Tasks /\ Back(x)[1] + Back(x)[2] # n - 1
        BY <2>1, <2>6, <3>5, UpBack, Grid DEF Up, Back
      <4>2. g[Up(x)] = f[Up(x)] /\ g[Back(x)] = f[Back(x)]
        BY <4>1
      <4> HIDE DEF g
      <4> QED
        BY <3>3, <3>5, <4>2
    <3> QED
      BY <3>4, <3>5
  <2>7. Solves(g, n)
    BY <2>6
  <2> QED
    BY <2>1, <2>5, <2>7
<1>2. PICK g \in [Tasks -> Int] : Solves(g, M + N)
  <2>1. M + N \in Nat
    BY Grid
  <2> QED
    BY <1>1, <2>1
<1>3. \A x \in Tasks : g[x] = IF x[1] = 0 \/ x[2] = 0 THEN 1 ELSE g[Up(x)] + g[Back(x)]
  <2>1. \A x \in Tasks : x[1] + x[2] < M + N
    BY Grid
  <2> QED
    BY <1>2, <2>1
<1>4. g = [x \in Tasks |-> IF x[1] = 0 \/ x[2] = 0 THEN 1 ELSE g[Up(x)] + g[Back(x)]]
  BY <1>3
<1>5. Paths = [x \in Tasks |-> IF x[1] = 0 \/ x[2] = 0 THEN 1 ELSE Paths[Up(x)] + Paths[Back(x)]]
  BY <1>4, Zenon DEF Paths
<1> QED
  BY <1>5, Zenon

(* A step that executes no task and writes no value keeps the values right. *)
LEMMA ValuesKept ==
    ASSUME ValuesGood, RootGood, SameExecuted,
           UNCHANGED <<top, left>>, root'.top = root.top, root'.left = root.left
    PROVE  ValuesGood' /\ RootGood'
<1>1. ValuesGood'
  <2>1. ASSUME NEW x \in Tasks
        PROVE  /\ x[1] > 0 => top'[x] = IF Executed(Up(x))' THEN Paths[Up(x)] ELSE Uninit
               /\ x[2] > 0 => left'[x] = IF Executed(Back(x))' THEN Paths[Back(x)] ELSE Uninit
               /\ ~Executed(x)' =>
                     (x[1] = 0 => top'[x] = Uninit) /\ (x[2] = 0 => left'[x] = Uninit)
    BY UpBack DEF ValuesGood, SameExecuted
  <2> QED
    BY <2>1 DEF ValuesGood
<1>2. RootGood'
  BY Grid DEF RootGood, SameExecuted
<1> QED
  BY <1>1, <1>2

(* A task that was handed over has no predecessor left to execute.         *)
LEMMA PredecessorsExecuted ==
    ASSUME Control, NEW x \in Tasks, handed[x] = 1
    PROVE  /\ refCount[x] = 0
           /\ x[1] > 0 => Executed(Up(x))
           /\ x[2] > 0 => Executed(Back(x))
<1>1. refCount[x] = 0 /\ ~Pending(x, "bottom") /\ ~Pending(x, "right")
  BY DEF Control, Counted, Num
<1>2. \A y \in Tasks : /\ Past(y, Before("bottom")) => Executed(y)
                       /\ Past(y, Before("right")) => Executed(y)
  BY BeforePlaces DEF Past, Executed
<1>3. x[1] > 0 => Executed(Up(x))
  BY <1>1, <1>2, UpBack DEF Pending, Succ
<1>4. x[2] > 0 => Executed(Back(x))
  BY <1>1, <1>2, UpBack DEF Pending, Succ
<1> QED
  BY <1>1, <1>3, <1>4

(* A task begins with both its values, and adds them up to its number of   *)
(* paths.                                                                  *)
LEMMA InputsOf ==
    ASSUME Control, ValuesGood, NEW w \in Workers, at[w] = "execute",
           NEW x \in Tasks, x = task[w]
    PROVE  /\ top[x] = IF x[1] = 0 THEN Uninit ELSE Paths[Up(x)]
           /\ left[x] = IF x[2] = 0 THEN Uninit ELSE Paths[Back(x)]
           /\ TopOf(x) + LeftOf(x) = Paths[x]
<1>1. handed[x] = 1 /\ ~Executed(x)
  BY DEF Control, Located, Executed, Past
<1>2. /\ x[1] > 0 => Executed(Up(x))
      /\ x[2] > 0 => Executed(Back(x))
  BY <1>1, PredecessorsExecuted
<1>3. /\ x[1] # 0 => x[1] > 0
      /\ x[2] # 0 => x[2] > 0
  BY Grid
<1>4. /\ top[x] = IF x[1] = 0 THEN Uninit ELSE Paths[Up(x)]
      /\ left[x] = IF x[2] = 0 THEN Uninit ELSE Paths[Back(x)]
  BY <1>1, <1>2, <1>3 DEF ValuesGood
<1>5. TopOf(x) + LeftOf(x) = Paths[x]
  <2>1. Paths[x] = IF x[1] = 0 \/ x[2] = 0 THEN 1 ELSE Paths[Up(x)] + Paths[Back(x)]
    BY PathsOf
  <2>2. CASE x[1] # 0 /\ x[2] # 0
    <3>1. TopOf(x) = Paths[Up(x)] /\ LeftOf(x) = Paths[Back(x)]
      BY <1>4, <2>2 DEF TopOf, LeftOf, First
    <3> QED
      BY <2>1, <2>2, <3>1
  <2>3. CASE x[1] = 0 /\ x[2] # 0
    <3>1. Back(x) \in Tasks /\ Back(x)[1] = 0
      BY <1>3, <2>3, UpBack DEF Back
    <3>2. Paths[Back(x)] = 1
      BY <3>1, PathsOf
    <3>3. TopOf(x) = 0 /\ LeftOf(x) = 1
      BY <1>4, <2>3, <3>2 DEF TopOf, LeftOf, First
    <3> QED
      BY <2>1, <2>3, <3>3
  <2>4. CASE x[1] # 0 /\ x[2] = 0
    <3>1. Up(x) \in Tasks /\ Up(x)[2] = 0
      BY <1>3, <2>4, UpBack DEF Up
    <3>2. Paths[Up(x)] = 1
      BY <3>1, PathsOf
    <3>3. TopOf(x) = 1 /\ LeftOf(x) = 0
      BY <1>4, <2>4, <3>2 DEF TopOf, LeftOf, First
    <3> QED
      BY <2>1, <2>4, <3>3
  <2>5. CASE x[1] = 0 /\ x[2] = 0
    <3>1. x = First
      BY <2>5, Grid DEF First
    <3>2. TopOf(x) = 1 /\ LeftOf(x) = 0
      BY <2>5, <3>1 DEF TopOf, LeftOf
    <3> QED
      BY <2>1, <2>5, <3>2
  <2> QED
    BY <2>2, <2>3, <2>4, <2>5
<1> QED
  BY <1>4, <1>5

(* execute gives its sum to both successors and leaves the other values.   *)
LEMMA ExecuteValues ==
    ASSUME IInv, NEW w \in Workers, Execute(w) \/ ExecuteEnd(w)
    PROVE  ValuesGood' /\ RootGood'
<1>1. at[w] = "execute"
  BY DEF Execute, ExecuteEnd
<1>2. PICK x \in Tasks : x = task[w]
  BY <1>1, Executing DEF IInv
<1>3. /\ UNCHANGED <<pool, task, bypass, handed>>
      /\ at'[w] # "execute" /\ \A v \in Workers : v # w => at'[v] = at[v]
  BY <1>2 DEF IInv, Control, TypeOK, Execute, ExecuteEnd
<1>4. ~Executed(x) /\ handed[x] = 1
  BY <1>1, <1>2 DEF IInv, Control, Located, Executed, Past
<1>5. Executed(x)'
  BY <1>1, <1>2, <1>3, Executing DEF IInv, Executed, Past
<1>6. \A y \in Tasks : y # x => (Executed(y)' <=> Executed(y))
  BY <1>2, <1>3 DEF Executed, Past
<1>7. /\ top[x] = IF x[1] = 0 THEN Uninit ELSE Paths[Up(x)]
      /\ left[x] = IF x[2] = 0 THEN Uninit ELSE Paths[Back(x)]
      /\ TopOf(x) + LeftOf(x) = Paths[x]
  BY <1>1, <1>2, InputsOf DEF IInv
<1>8. /\ x[1] > 0 => TopOf(x) = top[x]
      /\ x[2] > 0 => LeftOf(x) = left[x]
  BY DEF TopOf, LeftOf, First
<1>9. CASE Execute(w)
  <2>1. /\ x # EndPoint /\ root' = root
        /\ top' = [y \in Tasks |-> IF y = Bottom(x) THEN Paths[x]
                                   ELSE IF y = x THEN TopOf(x) ELSE top[y]]
        /\ left' = [y \in Tasks |-> IF y = Right(x) THEN Paths[x]
                                    ELSE IF y = x THEN LeftOf(x) ELSE left[y]]
    BY <1>2, <1>7, <1>9 DEF Execute
  <2>2. ASSUME NEW z \in Tasks
        PROVE  /\ z[1] > 0 => top'[z] = IF Executed(Up(z))' THEN Paths[Up(z)] ELSE Uninit
               /\ z[2] > 0 => left'[z] = IF Executed(Back(z))' THEN Paths[Back(z)] ELSE Uninit
               /\ ~Executed(z)' =>
                     (z[1] = 0 => top'[z] = Uninit) /\ (z[2] = 0 => left'[z] = Uninit)
    <3>1. ASSUME z[1] > 0
          PROVE  top'[z] = IF Executed(Up(z))' THEN Paths[Up(z)] ELSE Uninit
      <4>1. top[z] = IF Executed(Up(z)) THEN Paths[Up(z)] ELSE Uninit
        BY <3>1 DEF IInv, ValuesGood
      <4>2. CASE z = Bottom(x)
        <5>1. Up(z) = x
          BY <4>2, UpBack
        <5> QED
          BY <1>5, <2>1, <4>2, <5>1
      <4>3. CASE z # Bottom(x)
        <5>1. Up(z) \in Tasks /\ Up(z) # x
          BY <3>1, <4>3, UpBack
        <5>2. top'[z] = top[z]
          BY <1>8, <2>1, <3>1, <4>3
        <5> QED
          BY <1>6, <4>1, <5>1, <5>2
      <4> QED
        BY <4>2, <4>3
    <3>2. ASSUME z[2] > 0
          PROVE  left'[z] = IF Executed(Back(z))' THEN Paths[Back(z)] ELSE Uninit
      <4>1. left[z] = IF Executed(Back(z)) THEN Paths[Back(z)] ELSE Uninit
        BY <3>2 DEF IInv, ValuesGood
      <4>2. CASE z = Right(x)
        <5>1. Back(z) = x
          BY <4>2, UpBack
        <5> QED
          BY <1>5, <2>1, <4>2, <5>1
      <4>3. CASE z # Right(x)
        <5>1. Back(z) \in Tasks /\ Back(z) # x
          BY <3>2, <4>3, UpBack
        <5>2. left'[z] = left[z]
          BY <1>8, <2>1, <3>2, <4>3
        <5> QED
          BY <1>6, <4>1, <5>1, <5>2
      <4> QED
        BY <4>2, <4>3
    <3>3. ASSUME ~Executed(z)'
          PROVE  (z[1] = 0 => top'[z] = Uninit) /\ (z[2] = 0 => left'[z] = Uninit)
      <4>1. z # x /\ ~Executed(z)
        BY <1>5, <1>6, <3>3
      <4>2. /\ z[1] = 0 => z # Bottom(x)
            /\ z[2] = 0 => z # Right(x)
        BY UpBack
      <4> QED
        BY <2>1, <4>1, <4>2 DEF IInv, ValuesGood
    <3> QED
      BY <3>1, <3>2, <3>3
  <2>3. ValuesGood'
    BY <2>2 DEF ValuesGood
  <2>4. RootGood'
    BY <1>6, <2>1, Grid DEF IInv, RootGood
  <2> QED
    BY <2>3, <2>4
<1>10. CASE ExecuteEnd(w)
  <2>1. /\ x = EndPoint /\ top' = top /\ left' = left
        /\ root'.top = top[x] /\ root'.left = left[x]
    BY <1>2, <1>10 DEF IInv, Control, TypeOK, ExecuteEnd
  <2>2. \A z \in Tasks : (z[1] > 0 => Up(z) # x) /\ (z[2] > 0 => Back(z) # x)
    <3>1. Bottom(x) \notin Tasks /\ Right(x) \notin Tasks
      BY <2>1, Grid DEF Succ, Sides
    <3> QED
      BY <3>1, UpBack
  <2>3. ASSUME NEW z \in Tasks
        PROVE  /\ z[1] > 0 => top'[z] = IF Executed(Up(z))' THEN Paths[Up(z)] ELSE Uninit
               /\ z[2] > 0 => left'[z] = IF Executed(Back(z))' THEN Paths[Back(z)] ELSE Uninit
               /\ ~Executed(z)' =>
                     (z[1] = 0 => top'[z] = Uninit) /\ (z[2] = 0 => left'[z] = Uninit)
    <3>1. /\ z[1] > 0 => (Executed(Up(z))' <=> Executed(Up(z)))
          /\ z[2] > 0 => (Executed(Back(z))' <=> Executed(Back(z)))
      BY <1>6, <2>2, UpBack
    <3>2. ~Executed(z)' => ~Executed(z)
      BY <1>5, <1>6
    <3> QED
      BY <2>1, <3>1, <3>2 DEF IInv, ValuesGood
  <2>4. ValuesGood'
    BY <2>3 DEF ValuesGood
  <2>5. RootGood'
    <3>1. (M > 1 => x[1] # 0) /\ (N > 1 => x[2] # 0)
      BY <2>1, Grid DEF EndPoint
    <3> QED
      BY <1>7, <2>1, <3>1 DEF RootGood
  <2> QED
    BY <2>4, <2>5
<1> QED
  BY <1>9, <1>10

(* The values and counts of the initial state.                             *)
LEMMA InitIInv == Init => IInv
<1> SUFFICES ASSUME Init
             PROVE  IInv
  OBVIOUS
<1>1. \A y \in Tasks : ~Executed(y)
  BY DEF Init, Executed, Past
<1>2. ValuesGood
  BY <1>1, UpBack DEF Init, ValuesGood
<1>3. RootGood
  BY <1>1, Grid DEF RootGood
<1> QED
  BY <1>2, <1>3, InitControl DEF IInv

(* Every step keeps the values and counts right.                           *)
LEMMA NextIInv == IInv /\ [Next]_vars => IInv'
<1> SUFFICES ASSUME IInv, [Next]_vars
             PROVE  IInv'
  OBVIOUS
<1>1. Control'
  BY NextControl DEF IInv
<1>2. CASE WaitReturns
  <2>1. SameExecuted
    BY <1>2, WaitControl DEF IInv
  <2>2. UNCHANGED <<top, left>> /\ root'.top = root.top /\ root'.left = root.left
    BY <1>2 DEF IInv, Control, TypeOK, WaitReturns
  <2> QED
    BY <1>1, <2>1, <2>2, ValuesKept DEF IInv
<1>3. ASSUME NEW w \in Workers, Run(w)
      PROVE  IInv'
  <2>1. CASE Execute(w) \/ ExecuteEnd(w)
    BY <1>1, <2>1, ExecuteValues DEF IInv
  <2>2. CASE Take(w) \/ TallyNone(w) \/ TallyRead(w) \/ TallyLast(w) \/ TallyDecrement(w) \/ ReturnTask(w)
    <3>1. SameExecuted
      BY <2>2, TakeControl, TallyReadControl, TallyControl, ReturnControl DEF IInv
    <3>2. UNCHANGED <<top, left>> /\ root'.top = root.top /\ root'.left = root.left
      BY <2>2 DEF IInv, Control, TypeOK, Take, TallyNone, TallyRead, TallyLast, TallyDecrement,
                  ReturnTask
    <3> QED
      BY <1>1, <3>1, <3>2, ValuesKept DEF IInv
  <2> QED
    BY <1>3, <2>1, <2>2 DEF Run
<1>4. CASE UNCHANGED vars
  <2>1. SameExecuted
    BY <1>4 DEF vars, SameExecuted, Executed, Past
  <2> QED
    BY <1>1, <1>4, <2>1, ValuesKept DEF vars, IInv
<1> QED
  BY <1>2, <1>3, <1>4 DEF Next

(* When the end point has executed, so has every task: the tasks are       *)
(* followed back from it, by their distance to it.                         *)
LEMMA AllExecuted ==
    ASSUME Control, Executed(EndPoint)
    PROVE  \A x \in Tasks : Executed(x)
<1> DEFINE Far(x) == (M - 1 - x[1]) + (N - 1 - x[2])
           T == {Far(x) : x \in {y \in Tasks : ~Executed(y)}}
<1>1. \A x \in Tasks : Far(x) \in Nat
  BY Grid
<1>2. T = {}
  <2> SUFFICES ASSUME T # {}
               PROVE  FALSE
    OBVIOUS
  <2>1. PICK n \in T : \A k \in T : n <= k
    <3>1. T \in SUBSET Nat
      BY <1>1
    <3> HIDE DEF T
    <3> QED
      BY <3>1, LeastNatural
  <2>2. PICK x \in Tasks : ~Executed(x) /\ Far(x) = n
    BY <2>1
  <2>3. PICK z \in Tasks : (z = Bottom(x) \/ z = Right(x)) /\ Far(z) < Far(x)
    <3>1. x # EndPoint
      BY <2>2
    <3>2. CASE x[1] < M - 1
      <4>1. Bottom(x) \in Tasks /\ Far(Bottom(x)) < Far(x)
        BY <3>2, Grid DEF Bottom, Tasks
      <4> QED
        BY <4>1
    <3>3. CASE x[2] < N - 1
      <4>1. Right(x) \in Tasks /\ Far(Right(x)) < Far(x)
        BY <3>3, Grid DEF Right, Tasks
      <4> QED
        BY <4>1
    <3>4. x[1] < M - 1 \/ x[2] < N - 1
      BY <3>1, Grid DEF EndPoint
    <3> QED
      BY <3>2, <3>3, <3>4
  <2>4. Executed(z)
    <3>1. Far(z) \in Nat /\ Far(x) \in Nat
      BY <1>1
    <3>2. ~Executed(z) => Far(z) \in T
      OBVIOUS
    <3> HIDE DEF Far, T
    <3> QED
      BY <2>1, <2>2, <2>3, <3>1, <3>2
  <2>5. handed[z] = 1
    BY <2>4 DEF Executed, Past
  <2>6. Executed(x)
    BY <2>3, <2>5, PredecessorsExecuted, UpBack
  <2> QED
    BY <2>2, <2>6
<1> QED
  BY <1>2

(* For every grid and every number of workers: a task begins when both its *)
(* values are there and right, and what main reads when its wait returns   *)
(* are the two numbers of paths that the end point got.                    *)
THEOREM ResultsRight == Spec => []InputsReady
<1>1. IInv => InputsReady
  <2> SUFFICES ASSUME IInv
               PROVE  InputsReady
    OBVIOUS
  <2>1. ASSUME NEW w \in Workers, at[w] = "execute"
        PROVE  LET x == task[w] IN
               /\ top[x] = IF x[1] = 0 THEN Uninit ELSE Paths[Up(x)]
               /\ left[x] = IF x[2] = 0 THEN Uninit ELSE Paths[Back(x)]
    <3>1. PICK x \in Tasks : x = task[w]
      BY <2>1, Executing DEF IInv
    <3> QED
      BY <2>1, <3>1, InputsOf DEF IInv
  <2>2. ASSUME root.count = 0
        PROVE  /\ pool = {} /\ \A w \in Workers : bypass[w] = None /\ at[w] # "execute"
               /\ \A x \in Tasks : refCount[x] = 0 /\ handed[x] = 1
               /\ M > 1 => root.top = Paths[Up(EndPoint)]
               /\ N > 1 => root.left = Paths[Back(EndPoint)]
    <3>1. Executed(EndPoint)
      BY <2>2 DEF IInv, Control, RootWaits, Executed, Past, Places
    <3>2. \A x \in Tasks : Executed(x)
      BY <3>1, AllExecuted DEF IInv
    <3>3. \A x \in Tasks : refCount[x] = 0 /\ handed[x] = 1
      BY <3>2, PredecessorsExecuted DEF IInv, Executed, Past
    <3>4. pool = {} /\ \A w \in Workers : bypass[w] = None /\ at[w] # "execute"
      BY <3>2 DEF IInv, Control, TypeOK, Executed, Past
    <3> QED
      BY <3>1, <3>3, <3>4 DEF IInv, RootGood
  <2> QED
    BY <2>1, <2>2 DEF InputsReady, ResultComplete
<1> QED
  BY <1>1, InitIInv, NextIInv, PTL DEF Spec
=============================================================================
