--------------------------- MODULE KeyedLockProofs ---------------------------
(***************************************************************************)
(* Proofs about KeyedLock, for any keys, callers and bounds.               *)
(*                                                                         *)
(* QueueHasHolder is not inductive: that a waiter is still in its queue    *)
(* after a promotion rests on every place of the queue belonging to one    *)
(* waiter of that very object (Placed), and that a release leaves no other *)
(* key without its holder rests on an entry of the registry being under    *)
(* the key its object was made for (Keyed).                                *)
(***************************************************************************)
EXTENDS KeyedLock, SubsequencesProofs

InsideOf(c, s) == at[c] = "inside" /\ of[c] = s

\* One caller at a time runs under a state object.
Alone == \A c, d \in Callers : at[c] = "inside" /\ InsideOf(d, of[c]) => c = d

\* A live place of a queue is that of a caller that waits on that object, and of no other.
Placed ==
  \A s \in States : \A i \in 1..Len(queue[s]) :
    Live(queue[s][i]) =>
      /\ at[queue[s][i]] = "waiting" /\ of[queue[s][i]] = s
      /\ \A j \in 1..Len(queue[s]) : queue[s][j] = queue[s][i] => j = i

\* A caller that waits has its place, and somebody inside before it.
Queued ==
  \A c \in Callers : at[c] = "waiting" =>
    /\ \E i \in 1..Len(queue[of[c]]) : queue[of[c]][i] = c
    /\ \E d \in Callers : InsideOf(d, of[c])

\* An entry of the registry is under its object's key, with somebody inside.
Keyed ==
  \A k \in Keys : states[k] # None =>
    /\ key[states[k]] = k
    /\ \E d \in Callers : InsideOf(d, states[k])

IInv == TypeOK /\ Alone /\ Placed /\ Queued /\ Keyed

-----------------------------------------------------------------------------
LEMMA InvariantImplies == IInv => QueueHasHolder
<1> SUFFICES ASSUME IInv PROVE QueueHasHolder
  OBVIOUS
<1> USE DEF IInv
<1>1. ASSUME NEW s \in States PROVE Cardinality(Inside(s)) <= 1
  <2>1. CASE Inside(s) = {}
    BY <2>1, FS_EmptySet
  <2>2. CASE Inside(s) # {}
    <3>1. PICK c \in Inside(s) : TRUE
      BY <2>2
    <3>2. Inside(s) = {c}
      BY <3>1 DEF Inside, Alone, InsideOf
    <3>3. Cardinality({c}) = 1
      BY FS_Singleton
    <3> QED
      BY <3>2, <3>3
  <2> QED
    BY <2>1, <2>2
<1>2. ASSUME NEW c \in Callers, at[c] = "waiting"
      PROVE  /\ Inside(of[c]) # {}
             /\ \E i \in DOMAIN queue[of[c]] : queue[of[c]][i] = c
  <2>1. queue[of[c]] \in Seq(Callers \cup {None})
    BY <1>2 DEF TypeOK
  <2> QED
    BY <1>2, <2>1 DEF Queued, Inside, InsideOf
<1>3. ASSUME NEW k \in Keys, states[k] # None PROVE Inside(states[k]) # {}
  BY <1>3 DEF Keyed, Inside, InsideOf
<1> QED
  BY <1>1, <1>2, <1>3 DEF QueueHasHolder

LEMMA InitInvariant == Init => IInv
<1> SUFFICES ASSUME Init PROVE IInv
  OBVIOUS
<1> USE DEF Init
<1>1. TypeOK
  <2>1. (CHOOSE k \in Keys : TRUE) \in Keys
    BY ConstantsAssumption
  <2>2. key \in [States -> Keys]
    BY <2>1
  <2>3. \A s \in States : Len(queue[s]) <= MaxWaiters
    BY ConstantsAssumption
  <2>4. clears \in 0..MaxClears
    BY ConstantsAssumption
  <2>5. running \in [States -> BOOLEAN] /\ timed \in [Callers -> BOOLEAN]
    BY Zenon
  <2>6. queue \in [States -> Seq(Callers \cup {None})]
    OBVIOUS
  <2> QED
    BY <2>2, <2>3, <2>4, <2>5, <2>6 DEF TypeOK
<1>2. Alone /\ Placed /\ Queued /\ Keyed
  BY DEF Alone, Placed, Queued, Keyed, InsideOf
<1> QED
  BY <1>1, <1>2 DEF IInv

-----------------------------------------------------------------------------
(* One step per operation.                                                 *)

\* An object nobody refers to holds no live waiter, so it may be made anew.
LEMMA AcquireKeeps ==
  ASSUME IInv, NEW c \in Callers, NEW k \in Keys, Acquire(c, k)
  PROVE  IInv'
<1> USE DEF IInv
<1>1. PICK s \in States :
        /\ Unreferenced(s) /\ at[c] = "out" /\ states[k] = None
        /\ states' = [states EXCEPT ![k] = s] /\ key' = [key EXCEPT ![s] = k]
        /\ running' = [running EXCEPT ![s] = TRUE]
        /\ queue' = [queue EXCEPT ![s] = <<>>]
        /\ at' = [at EXCEPT ![c] = "inside"] /\ of' = [of EXCEPT ![c] = s]
        /\ UNCHANGED <<timed, clears>>
  BY DEF Acquire
<1>2. s # None /\ (\A l \in Keys : states[l] # s) /\ (\A d \in Callers : of[d] # s)
  BY <1>1, ConstantsAssumption DEF Unreferenced
<1>3. /\ at'[c] = "inside" /\ of'[c] = s
      /\ \A d \in Callers : d # c => at'[d] = at[d] /\ of'[d] = of[d]
      /\ queue'[s] = <<>> /\ \A t \in States : t # s => queue'[t] = queue[t] /\ key'[t] = key[t]
      /\ key'[s] = k /\ states'[k] = s /\ \A l \in Keys : l # k => states'[l] = states[l]
  BY <1>1 DEF TypeOK
<1>4. TypeOK'
  <2>1. /\ states' \in [Keys -> States \cup {None}] /\ key' \in [States -> Keys]
        /\ running' \in [States -> BOOLEAN]
        /\ at' \in [Callers -> {"out", "waiting", "inside"}]
        /\ of' \in [Callers -> States \cup {None}]
    BY <1>1 DEF TypeOK
  <2>2. queue' \in [States -> Seq(Callers \cup {None})]
    BY <1>1 DEF TypeOK
  <2>3. \A t \in States : Len(queue'[t]) <= MaxWaiters
    BY <1>3, ConstantsAssumption DEF TypeOK
  <2>4. \A d \in Callers : /\ at'[d] = "out" <=> of'[d] = None
                           /\ timed'[d] => at'[d] = "waiting"
    BY <1>1, <1>2, <1>3 DEF TypeOK
  <2> QED
    BY <1>1, <2>1, <2>2, <2>3, <2>4 DEF TypeOK
<1>5. Alone'
  BY <1>2, <1>3 DEF Alone, InsideOf
<1>6. Placed'
  <2>1. \A t \in States : t # s => \A i \in 1..Len(queue[t]) : Live(queue[t][i]) => queue[t][i] # c
    BY <1>1 DEF Placed
  <2>2. \A t \in States : \A i \in 1..Len(queue[t]) : Live(queue[t][i]) => queue[t][i] \in Callers
    BY DEF TypeOK, Live
  <2> QED
    BY <1>3, <2>1, <2>2 DEF Placed, Live
<1>7. Queued'
  <2>1. \A d \in Callers : at'[d] = "waiting" => d # c /\ at[d] = "waiting" /\ of[d] # s
    BY <1>2, <1>3
  <2>2. \A d \in Callers : at[d] = "waiting" => of[d] \in States
    BY DEF TypeOK
  <2> QED
    BY <1>1, <1>3, <2>1, <2>2 DEF Queued, InsideOf
<1>8. Keyed'
  BY <1>1, <1>2, <1>3 DEF Keyed, InsideOf, TypeOK
<1> QED
  BY <1>4, <1>5, <1>6, <1>7, <1>8

LEMMA EnqueueKeeps ==
  ASSUME IInv, NEW c \in Callers, NEW k \in Keys, Enqueue(c, k)
  PROVE  IInv'
<1> USE DEF IInv
<1> DEFINE s == states[k]
           q == queue[s]
<1>1. /\ at[c] = "out" /\ s # None /\ ~Full(s)
      /\ queue' = [queue EXCEPT ![s] = Append(@, c)]
      /\ at' = [at EXCEPT ![c] = "waiting"] /\ of' = [of EXCEPT ![c] = s]
      /\ \E timer \in BOOLEAN : timed' = [timed EXCEPT ![c] = timer]
      /\ UNCHANGED <<states, key, running, clears>>
  BY DEF Enqueue
<1>2. /\ s \in States /\ q \in Seq(Callers \cup {None}) /\ Len(q) \in Nat
      /\ Append(q, c) \in Seq(Callers \cup {None})
      /\ Len(Append(q, c)) = Len(q) + 1 /\ Append(q, c)[Len(q) + 1] = c
      /\ \A i \in 1..Len(q) : Append(q, c)[i] = q[i]
  <2>1. s \in States
    BY <1>1 DEF TypeOK
  <2>2. q \in Seq(Callers \cup {None})
    BY <2>1 DEF TypeOK
  <2> HIDE DEF q, s
  <2> QED
    BY <2>1, <2>2
<1> HIDE DEF q
<1>3. /\ at'[c] = "waiting" /\ of'[c] = s
      /\ \A d \in Callers : d # c => at'[d] = at[d] /\ of'[d] = of[d]
      /\ queue'[s] = Append(q, c) /\ \A t \in States : t # s => queue'[t] = queue[t]
  BY <1>1, <1>2 DEF TypeOK, q
<1>4. TypeOK'
  <2>1. /\ at' \in [Callers -> {"out", "waiting", "inside"}]
        /\ of' \in [Callers -> States \cup {None}]
    BY <1>1, <1>2 DEF TypeOK
  <2>2. queue' \in [States -> Seq(Callers \cup {None})]
    BY <1>1, <1>2 DEF TypeOK, q
  <2>3. \A t \in States : Len(queue'[t]) <= MaxWaiters
    <3>1. Len(q) + 1 <= MaxWaiters
      BY <1>1, <1>2, ConstantsAssumption DEF Full, q
    <3>2. Len(queue'[s]) <= MaxWaiters
      BY <1>2, <1>3, <3>1
    <3> QED
      BY <1>3, <3>2 DEF TypeOK
  <2>4. PICK timer \in BOOLEAN : timed' = [timed EXCEPT ![c] = timer]
    BY <1>1
  <2>5. timed' \in [Callers -> BOOLEAN] /\ \A d \in Callers : d # c => timed'[d] = timed[d]
    BY <2>4 DEF TypeOK
  <2>6. \A d \in Callers : /\ at'[d] = "out" <=> of'[d] = None
                           /\ timed'[d] => at'[d] = "waiting"
    BY <1>2, <1>3, <2>5, ConstantsAssumption DEF TypeOK
  <2> QED
    BY <1>1, <2>1, <2>2, <2>3, <2>5, <2>6 DEF TypeOK
<1>5. Alone'
  BY <1>1, <1>3 DEF Alone, InsideOf
<1>6. \A d \in Callers : at[d] = "inside" => at'[d] = "inside" /\ of'[d] = of[d]
  BY <1>1, <1>3
<1>7. \A t \in States : \A i \in 1..Len(queue[t]) :
        Live(queue[t][i]) => queue[t][i] \in Callers /\ queue[t][i] # c
  BY <1>1 DEF Placed, TypeOK, Live
<1>8. Placed'
  <2>1. ASSUME NEW t \in States, t # s, NEW i \in 1..Len(queue'[t]), Live(queue'[t][i])
        PROVE  /\ at'[queue'[t][i]] = "waiting" /\ of'[queue'[t][i]] = t
               /\ \A j \in 1..Len(queue'[t]) : queue'[t][j] = queue'[t][i] => j = i
    BY <1>3, <1>7, <2>1 DEF Placed
  <2>2. ASSUME NEW i \in 1..Len(queue'[s]), Live(queue'[s][i])
        PROVE  /\ at'[queue'[s][i]] = "waiting" /\ of'[queue'[s][i]] = s
               /\ \A j \in 1..Len(queue'[s]) : queue'[s][j] = queue'[s][i] => j = i
    <3>1. \A j \in 1..Len(queue'[s]) : j \in 1..Len(q) \/ j = Len(q) + 1
      BY <1>2, <1>3
    <3>2. \A j \in 1..Len(q) : queue'[s][j] = q[j] /\ q[j] # c
      BY <1>2, <1>3, <1>7, ConstantsAssumption DEF q, Live
    <3>3. queue'[s][Len(q) + 1] = c
      BY <1>2, <1>3
    <3>4. CASE i = Len(q) + 1
      BY <1>3, <3>1, <3>2, <3>3, <3>4
    <3>5. CASE i \in 1..Len(q)
      <4>1. /\ at[q[i]] = "waiting" /\ of[q[i]] = s /\ q[i] \in Callers /\ q[i] # c
            /\ \A j \in 1..Len(q) : q[j] = q[i] => j = i
        BY <1>2, <1>7, <2>2, <3>2, <3>5 DEF Placed, q
      <4> QED
        BY <1>3, <3>1, <3>2, <3>3, <3>5, <4>1
    <3> QED
      BY <3>1, <3>4, <3>5
  <2> QED
    BY <2>1, <2>2 DEF Placed, Live
<1>9. Queued'
  <2>1. \E d \in Callers : at'[d] = "inside" /\ of'[d] = s
    BY <1>1, <1>6 DEF Keyed, InsideOf
  <2>2. \E i \in 1..Len(queue'[s]) : queue'[s][i] = c
    BY <1>2, <1>3
  <2>3. ASSUME NEW d \in Callers, d # c, at[d] = "waiting"
        PROVE  /\ \E i \in 1..Len(queue'[of[d]]) : queue'[of[d]][i] = d
               /\ \E e \in Callers : at'[e] = "inside" /\ of'[e] = of[d]
    <3>1. PICK i \in 1..Len(queue[of[d]]) : queue[of[d]][i] = d
      BY <2>3 DEF Queued
    <3>2. of[d] \in States
      BY <2>3 DEF TypeOK
    <3>3. i \in 1..Len(queue'[of[d]]) /\ queue'[of[d]][i] = d
      <4>1. CASE of[d] = s
        <5>1. i \in 1..Len(q) /\ q[i] = d
          BY <3>1, <4>1 DEF q
        <5>2. Append(q, c)[i] = d /\ i \in 1..Len(Append(q, c))
          BY <1>2, <5>1
        <5> QED
          BY <1>3, <4>1, <5>2
      <4>2. CASE of[d] # s
        BY <1>3, <3>1, <3>2, <4>2
      <4> QED
        BY <4>1, <4>2
    <3>4. \E e \in Callers : at[e] = "inside" /\ of[e] = of[d]
      BY <2>3 DEF Queued, InsideOf
    <3>5. \E e \in Callers : at'[e] = "inside" /\ of'[e] = of[d]
      BY <1>6, <3>4
    <3> QED
      BY <3>3, <3>5
  <2> QED
    BY <1>3, <2>1, <2>2, <2>3 DEF Queued, InsideOf
<1>10. Keyed'
  BY <1>1, <1>6 DEF Keyed, InsideOf
<1> QED
  BY <1>4, <1>5, <1>8, <1>9, <1>10

\* Cancelling in place moves nobody.
LEMMA CancelledPlaces ==
  ASSUME TypeOK, NEW s \in States, NEW gone
  PROVE  /\ Cancelled(s, gone) \in Seq(Callers \cup {None})
         /\ Len(Cancelled(s, gone)) = Len(queue[s]) /\ Len(queue[s]) \in Nat
         /\ \A i \in 1..Len(queue[s]) :
              /\ queue[s][i] \in Callers \cup {None}
              /\ queue[s][i] \in gone => Cancelled(s, gone)[i] = None
              /\ queue[s][i] \notin gone => Cancelled(s, gone)[i] = queue[s][i]
<1> DEFINE q == queue[s]
           r == [i \in 1..Len(q) |-> IF q[i] \in gone THEN None ELSE q[i]]
<1>1. q \in Seq(Callers \cup {None})
  BY DEF TypeOK
<1>2. Cancelled(s, gone) = r
  BY <1>1 DEF Cancelled
<1> HIDE DEF q
<1>3. /\ \A i \in 1..Len(q) : q[i] \in Callers \cup {None}
      /\ Len(q) \in Nat
  BY <1>1
<1>4. \A i \in 1..Len(q) : r[i] = (IF q[i] \in gone THEN None ELSE q[i])
  OBVIOUS
<1>5. r \in [1..Len(q) -> Callers \cup {None}]
  BY <1>3
<1> HIDE DEF r
<1>6. r \in Seq(Callers \cup {None}) /\ Len(r) = Len(q)
  BY <1>3, <1>5
<1> QED
  BY <1>2, <1>3, <1>4, <1>6 DEF q

LEMMA TimeoutKeeps ==
  ASSUME IInv, NEW c \in Callers, Timeout(c)
  PROVE  IInv'
<1> USE DEF IInv
<1> DEFINE s == of[c]
           r == Cancelled(s, {c})
<1>1. /\ at[c] = "waiting" /\ s \in States
      /\ queue' = [queue EXCEPT ![s] = r]
      /\ at' = [at EXCEPT ![c] = "out"] /\ of' = [of EXCEPT ![c] = None]
      /\ timed' = [timed EXCEPT ![c] = FALSE]
      /\ UNCHANGED <<states, key, running, clears>>
  BY DEF Timeout, TypeOK
<1> HIDE DEF s
<1>2. /\ r \in Seq(Callers \cup {None})
      /\ Len(r) = Len(queue[s]) /\ Len(queue[s]) \in Nat
      /\ \A i \in 1..Len(queue[s]) :
           /\ queue[s][i] = c => r[i] = None
           /\ queue[s][i] # c => r[i] = queue[s][i]
  BY <1>1, CancelledPlaces
<1> HIDE DEF r
<1>3. /\ at'[c] = "out" /\ of'[c] = None
      /\ \A d \in Callers : d # c => at'[d] = at[d] /\ of'[d] = of[d]
      /\ queue'[s] = r /\ \A t \in States : t # s => queue'[t] = queue[t]
  BY <1>1 DEF TypeOK
<1>4. TypeOK'
  <2>1. /\ at' \in [Callers -> {"out", "waiting", "inside"}]
        /\ of' \in [Callers -> States \cup {None}]
        /\ queue' \in [States -> Seq(Callers \cup {None})]
    BY <1>1, <1>2 DEF TypeOK
  <2>2. \A t \in States : Len(queue'[t]) <= MaxWaiters
    BY <1>1, <1>2, <1>3 DEF TypeOK
  <2>3. /\ timed' \in [Callers -> BOOLEAN] /\ ~timed'[c]
        /\ \A d \in Callers : d # c => timed'[d] = timed[d]
    BY <1>1 DEF TypeOK
  <2>4. \A d \in Callers : /\ at'[d] = "out" <=> of'[d] = None
                           /\ timed'[d] => at'[d] = "waiting"
    BY <1>3, <2>3 DEF TypeOK
  <2> QED
    BY <1>1, <2>1, <2>2, <2>3, <2>4 DEF TypeOK
<1>5. Alone'
  BY <1>3 DEF Alone, InsideOf
<1>6. \A d \in Callers : at[d] = "inside" => at'[d] = "inside" /\ of'[d] = of[d]
  BY <1>1, <1>3
<1>7. \A t \in States : \A i \in 1..Len(queue[t]) :
        Live(queue[t][i]) => queue[t][i] \in Callers /\ (t # s => queue[t][i] # c)
  BY <1>1 DEF Placed, TypeOK, Live, s
<1>8. Placed'
  <2>1. ASSUME NEW t \in States, t # s, NEW i \in 1..Len(queue'[t]), Live(queue'[t][i])
        PROVE  /\ at'[queue'[t][i]] = "waiting" /\ of'[queue'[t][i]] = t
               /\ \A j \in 1..Len(queue'[t]) : queue'[t][j] = queue'[t][i] => j = i
    BY <1>3, <1>7, <2>1 DEF Placed
  <2>2. ASSUME NEW i \in 1..Len(queue'[s]), Live(queue'[s][i])
        PROVE  /\ at'[queue'[s][i]] = "waiting" /\ of'[queue'[s][i]] = s
               /\ \A j \in 1..Len(queue'[s]) : queue'[s][j] = queue'[s][i] => j = i
    <3>1. r[i] = queue[s][i] /\ queue[s][i] # c /\ r[i] # None /\ i \in 1..Len(queue[s])
      BY <1>2, <1>3, <2>2 DEF Live
    <3>2. \A j \in 1..Len(r) : r[j] = r[i] => queue[s][j] = queue[s][i]
      BY <1>2, <3>1
    <3>3. /\ at[r[i]] = "waiting" /\ of[r[i]] = s /\ r[i] \in Callers
          /\ \A j \in 1..Len(queue[s]) : queue[s][j] = queue[s][i] => j = i
      BY <1>1, <1>7, <3>1 DEF Placed, Live
    <3> QED
      BY <1>2, <1>3, <3>1, <3>2, <3>3
  <2> QED
    BY <2>1, <2>2 DEF Placed, Live
<1>9. Queued'
  <2>1. ASSUME NEW d \in Callers, d # c, at[d] = "waiting"
        PROVE  /\ \E i \in 1..Len(queue'[of[d]]) : queue'[of[d]][i] = d
               /\ \E e \in Callers : at'[e] = "inside" /\ of'[e] = of[d]
    <3>1. PICK i \in 1..Len(queue[of[d]]) : queue[of[d]][i] = d
      BY <2>1 DEF Queued
    <3>2. of[d] \in States
      BY <2>1 DEF TypeOK
    <3>3. i \in 1..Len(queue'[of[d]]) /\ queue'[of[d]][i] = d
      BY <1>2, <1>3, <2>1, <3>1, <3>2
    <3>4. \E e \in Callers : at[e] = "inside" /\ of[e] = of[d]
      BY <2>1 DEF Queued, InsideOf
    <3> QED
      BY <1>6, <3>3, <3>4
  <2> QED
    BY <1>3, <2>1 DEF Queued, InsideOf
<1>10. Keyed'
  BY <1>1, <1>6 DEF Keyed, InsideOf
<1> QED
  BY <1>4, <1>5, <1>8, <1>9, <1>10

LEMMA ClearKeeps ==
  ASSUME IInv, Clear
  PROVE  IInv'
<1> USE DEF IInv
<1> DEFINE W == {c \in Callers : at[c] = "waiting" /\ states[key[of[c]]] = of[c]}
<1>1. /\ clears < MaxClears /\ clears' = clears + 1
      /\ states' = [k \in Keys |-> None]
      /\ queue' = [s \in States |-> Cancelled(s, W)]
      /\ at' = [c \in Callers |-> IF c \in W THEN "out" ELSE at[c]]
      /\ of' = [c \in Callers |-> IF c \in W THEN None ELSE of[c]]
      /\ timed' = [c \in Callers |-> timed[c] /\ c \notin W]
      /\ UNCHANGED <<key, running>>
  BY Zenon DEF Clear
<1>2. \A c \in W : c \in Callers /\ at[c] = "waiting"
  OBVIOUS
<1> HIDE DEF W
<1>3. \A s \in States :
        /\ queue'[s] \in Seq(Callers \cup {None})
        /\ Len(queue'[s]) = Len(queue[s]) /\ Len(queue[s]) \in Nat
        /\ \A i \in 1..Len(queue[s]) :
             /\ queue[s][i] \in Callers \cup {None}
             /\ queue[s][i] \in W => queue'[s][i] = None
             /\ queue[s][i] \notin W => queue'[s][i] = queue[s][i]
  <2>1. TAKE s \in States
  <2>2. queue'[s] = Cancelled(s, W)
    BY <1>1
  <2> QED
    BY <2>2, CancelledPlaces
<1>4. \A c \in Callers :
        /\ c \in W => at'[c] = "out" /\ of'[c] = None
        /\ c \notin W => at'[c] = at[c] /\ of'[c] = of[c]
  BY <1>1
<1>5. TypeOK'
  <2>1. states' \in [Keys -> States \cup {None}]
    BY <1>1
  <2>2. queue' \in [States -> Seq(Callers \cup {None})]
    BY <1>1, <1>3
  <2>3. /\ at' \in [Callers -> {"out", "waiting", "inside"}]
        /\ of' \in [Callers -> States \cup {None}]
    BY <1>1 DEF TypeOK
  <2>4. /\ timed' \in [Callers -> BOOLEAN]
        /\ \A c \in Callers : timed'[c] => timed[c] /\ c \notin W
    BY <1>1 DEF TypeOK
  <2>5. \A c \in Callers : /\ at'[c] = "out" <=> of'[c] = None
                           /\ timed'[c] => at'[c] = "waiting"
    BY <1>4, <2>4 DEF TypeOK
  <2>6. \A s \in States : Len(queue'[s]) <= MaxWaiters
    BY <1>3 DEF TypeOK
  <2>7. clears' \in 0..MaxClears
    BY <1>1, ConstantsAssumption DEF TypeOK
  <2> QED
    BY <1>1, <2>1, <2>2, <2>3, <2>4, <2>5, <2>6, <2>7 DEF TypeOK
<1>6. Alone'
  BY <1>4 DEF Alone, InsideOf
<1>7. Placed'
  <2>1. ASSUME NEW s \in States, NEW i \in 1..Len(queue'[s]), Live(queue'[s][i])
        PROVE  /\ at'[queue'[s][i]] = "waiting" /\ of'[queue'[s][i]] = s
               /\ \A j \in 1..Len(queue'[s]) : queue'[s][j] = queue'[s][i] => j = i
    <3>1. /\ i \in 1..Len(queue[s]) /\ queue'[s][i] = queue[s][i]
          /\ queue[s][i] \in Callers /\ queue[s][i] \notin W
      BY <1>3, <2>1 DEF Live
    <3>2. \A j \in 1..Len(queue[s]) : queue'[s][j] = queue[s][i] => queue[s][j] = queue[s][i]
      BY <1>3, <3>1, ConstantsAssumption
    <3>3. /\ at[queue[s][i]] = "waiting" /\ of[queue[s][i]] = s
          /\ \A j \in 1..Len(queue[s]) : queue[s][j] = queue[s][i] => j = i
      BY <3>1, ConstantsAssumption DEF Placed, Live
    <3> QED
      BY <1>3, <1>4, <3>1, <3>2, <3>3
  <2> QED
    BY <2>1 DEF Placed, Live
<1>8. Queued'
  <2>1. ASSUME NEW d \in Callers, d \notin W, at[d] = "waiting"
        PROVE  /\ \E i \in 1..Len(queue'[of[d]]) : queue'[of[d]][i] = d
               /\ \E e \in Callers : at'[e] = "inside" /\ of'[e] = of[d]
    <3>1. PICK i \in 1..Len(queue[of[d]]) : queue[of[d]][i] = d
      BY <2>1 DEF Queued
    <3>2. of[d] \in States
      BY <2>1 DEF TypeOK
    <3>3. i \in 1..Len(queue'[of[d]]) /\ queue'[of[d]][i] = d
      BY <1>3, <2>1, <3>1, <3>2
    <3>4. PICK e \in Callers : at[e] = "inside" /\ of[e] = of[d]
      BY <2>1 DEF Queued, InsideOf
    <3>5. at'[e] = "inside" /\ of'[e] = of[d]
      BY <1>2, <1>4, <3>4
    <3> QED
      BY <3>3, <3>5
  <2> QED
    BY <1>4, <2>1 DEF Queued, InsideOf
<1>9. Keyed'
  BY <1>1 DEF Keyed
<1> QED
  BY <1>5, <1>6, <1>7, <1>8, <1>9

\* Nobody waits: the object is released, and with it its key and no other.
LEMMA ReleaseKeeps ==
  ASSUME IInv, NEW c \in Callers, Advance(c), LiveAt(of[c]) = {}
  PROVE  IInv'
<1> USE DEF IInv
<1> DEFINE s == of[c]
<1>1. /\ at[c] = "inside" /\ s \in States
      /\ running' = [running EXCEPT ![s] = FALSE]
      /\ states' = [states EXCEPT ![key[s]] = None]
      /\ queue' = [queue EXCEPT ![s] = <<>>]
      /\ at' = [at EXCEPT ![c] = "out"] /\ of' = [of EXCEPT ![c] = None]
      /\ UNCHANGED <<timed, key, clears>>
  BY DEF Advance, TypeOK
<1>2. \A d \in Callers : at[d] = "waiting" => of[d] # s
  <2>1. DOMAIN queue[s] = 1..Len(queue[s])
    BY <1>1 DEF TypeOK
  <2> QED
    BY <2>1, ConstantsAssumption DEF Queued, LiveAt, Live
<1> HIDE DEF s
<1>3. /\ at'[c] = "out" /\ of'[c] = None
      /\ \A d \in Callers : d # c => at'[d] = at[d] /\ of'[d] = of[d]
      /\ queue'[s] = <<>> /\ \A t \in States : t # s => queue'[t] = queue[t]
      /\ key[s] \in Keys /\ states'[key[s]] = None
      /\ \A k \in Keys : k # key[s] => states'[k] = states[k]
  BY <1>1 DEF TypeOK
<1>4. TypeOK'
  <2>1. /\ states' \in [Keys -> States \cup {None}] /\ running' \in [States -> BOOLEAN]
        /\ at' \in [Callers -> {"out", "waiting", "inside"}]
        /\ of' \in [Callers -> States \cup {None}]
    BY <1>1 DEF TypeOK
  <2>2. queue' \in [States -> Seq(Callers \cup {None})]
    BY <1>1 DEF TypeOK
  <2>3. \A t \in States : Len(queue'[t]) <= MaxWaiters
    BY <1>3, ConstantsAssumption DEF TypeOK
  <2>4. \A d \in Callers : /\ at'[d] = "out" <=> of'[d] = None
                           /\ timed'[d] => at'[d] = "waiting"
    BY <1>1, <1>3 DEF TypeOK
  <2> QED
    BY <1>1, <2>1, <2>2, <2>3, <2>4 DEF TypeOK
<1>5. Alone'
  BY <1>3 DEF Alone, InsideOf
<1>6. Placed'
  <2>1. \A t \in States : \A i \in 1..Len(queue[t]) :
          Live(queue[t][i]) => queue[t][i] \in Callers /\ queue[t][i] # c
    BY <1>1 DEF Placed, TypeOK, Live
  <2> QED
    BY <1>3, <2>1 DEF Placed, Live
<1>7. \A d \in Callers : InsideOf(d, s) => d = c
  BY <1>1 DEF Alone, InsideOf, s
<1>8. Queued'
  <2>1. ASSUME NEW d \in Callers, d # c, at[d] = "waiting"
        PROVE  /\ \E i \in 1..Len(queue'[of[d]]) : queue'[of[d]][i] = d
               /\ \E e \in Callers : at'[e] = "inside" /\ of'[e] = of[d]
    <3>1. of[d] \in States /\ of[d] # s
      BY <1>2, <2>1 DEF TypeOK
    <3>2. PICK e \in Callers : at[e] = "inside" /\ of[e] = of[d]
      BY <2>1 DEF Queued, InsideOf
    <3>3. e # c
      BY <3>1, <3>2 DEF s
    <3> QED
      BY <1>3, <2>1, <3>1, <3>2, <3>3 DEF Queued
  <2> QED
    BY <1>3, <2>1 DEF Queued, InsideOf
<1>9. Keyed'
  <2>1. ASSUME NEW k \in Keys, states'[k] # None
        PROVE  key[states'[k]] = k /\ \E e \in Callers : at'[e] = "inside" /\ of'[e] = states'[k]
    <3>1. k # key[s] /\ states'[k] = states[k]
      BY <1>3, <2>1
    <3>2. key[states[k]] = k /\ states[k] # s
      BY <2>1, <3>1 DEF Keyed
    <3>3. PICK e \in Callers : at[e] = "inside" /\ of[e] = states[k]
      BY <2>1, <3>1 DEF Keyed, InsideOf
    <3>4. e # c
      BY <3>2, <3>3 DEF s
    <3> QED
      BY <1>3, <3>1, <3>2, <3>3, <3>4
  <2> QED
    BY <1>1, <2>1 DEF Keyed, InsideOf
<1> QED
  BY <1>4, <1>5, <1>6, <1>8, <1>9

\* The first live waiter takes the place of the caller that leaves.
LEMMA PromoteKeeps ==
  ASSUME IInv, NEW c \in Callers, Advance(c), LiveAt(of[c]) # {}
  PROVE  IInv'
<1> USE DEF IInv
<1> DEFINE s == of[c]
           q == queue[s]
           n == Len(q)
<1>1. /\ at[c] = "inside" /\ s \in States /\ q \in Seq(Callers \cup {None}) /\ n \in Nat
      /\ DOMAIN q = 1..n
      /\ UNCHANGED <<key, clears, running, states>>
      /\ of' = [of EXCEPT ![c] = None]
  BY DEF Advance, TypeOK
<1>2. PICK i \in LiveAt(s) :
        /\ \A j \in LiveAt(s) : i <= j
        /\ queue' = [queue EXCEPT ![s] = Shifted(s, i)]
        /\ at' = [at EXCEPT ![c] = "out", ![q[i]] = "inside"]
        /\ timed' = [timed EXCEPT ![q[i]] = FALSE]
  BY DEF Advance, ClearTimer
<1> DEFINE d == q[i]
           r == SubSeq(q, i + 1, n)
<1>3. /\ i \in 1..n /\ d \in Callers /\ d # None
      /\ at[d] = "waiting" /\ of[d] = s /\ d # c
      /\ \A j \in 1..n : q[j] = d => j = i
  <2>1. i \in 1..n /\ Live(q[i])
    BY <1>1, <1>2 DEF LiveAt
  <2>2. d \in Callers
    BY <1>1, <2>1 DEF Live
  <2> QED
    BY <1>1, <2>1, <2>2 DEF Placed, Live
<1>4. \A j \in 1..n : Live(q[j]) => i <= j
  BY <1>1, <1>2 DEF LiveAt
<1>5. /\ r \in Seq(Callers \cup {None}) /\ Len(r) = n - i
      /\ \A j \in 1..(n - i) : i + j \in 1..n /\ r[j] = q[i + j]
      /\ Shifted(s, i) = r
  <2> HIDE DEF q
  <2>1. i \in 1..Len(q) /\ q \in Seq(Callers \cup {None}) /\ Len(q) \in Nat
    BY <1>1, <1>3
  <2>2. r \in Seq(Callers \cup {None}) /\ Len(r) = n - i
    BY <2>1
  <2>3. \A j \in 1..(n - i) : i + j \in 1..n /\ r[j] = q[i + j]
    BY <2>1
  <2> QED
    BY <2>2, <2>3 DEF Shifted, q
<1> HIDE DEF s, q, n, d, r
<1>6. /\ at'[c] = "out" /\ of'[c] = None
      /\ at'[d] = "inside" /\ of'[d] = s
      /\ \A e \in Callers : e # c /\ e # d => at'[e] = at[e] /\ of'[e] = of[e]
      /\ queue'[s] = r /\ \A t \in States : t # s => queue'[t] = queue[t]
  BY <1>1, <1>2, <1>3, <1>5 DEF TypeOK, d
<1>7. TypeOK'
  <2>1. /\ at' \in [Callers -> {"out", "waiting", "inside"}]
        /\ of' \in [Callers -> States \cup {None}]
        /\ queue' \in [States -> Seq(Callers \cup {None})]
    BY <1>1, <1>2, <1>5 DEF TypeOK, d
  <2>2. \A t \in States : Len(queue'[t]) <= MaxWaiters
    <3>1. n - i <= MaxWaiters
      BY <1>1, <1>3, ConstantsAssumption DEF TypeOK, n, q
    <3>2. Len(queue'[s]) <= MaxWaiters
      BY <1>5, <1>6, <3>1
    <3> QED
      BY <1>6, <3>2 DEF TypeOK
  <2>3. /\ timed' \in [Callers -> BOOLEAN] /\ ~timed'[d]
        /\ \A e \in Callers : e # d => timed'[e] = timed[e]
    BY <1>2, <1>3 DEF TypeOK, d
  <2>4. ~timed[c]
    BY <1>1 DEF TypeOK
  <2>5. \A e \in Callers : /\ at'[e] = "out" <=> of'[e] = None
                           /\ timed'[e] => at'[e] = "waiting"
    BY <1>1, <1>3, <1>6, <2>3, <2>4, ConstantsAssumption DEF TypeOK
  <2> QED
    BY <1>1, <2>1, <2>2, <2>3, <2>5 DEF TypeOK
<1>8. \A e \in Callers : InsideOf(e, s) => e = c
  BY <1>1 DEF Alone, InsideOf, s
<1>9. Alone'
  BY <1>3, <1>6, <1>8 DEF Alone, InsideOf
<1>10. Placed'
  <2>1. ASSUME NEW t \in States, t # s, NEW j \in 1..Len(queue'[t]), Live(queue'[t][j])
        PROVE  /\ at'[queue'[t][j]] = "waiting" /\ of'[queue'[t][j]] = t
               /\ \A l \in 1..Len(queue'[t]) : queue'[t][l] = queue'[t][j] => l = j
    <3>1. queue'[t] = queue[t]
      BY <1>6, <2>1
    <3>2. queue[t][j] \in Callers /\ at[queue[t][j]] = "waiting" /\ of[queue[t][j]] = t
      BY <2>1, <3>1 DEF Placed, TypeOK, Live
    <3>3. queue[t][j] # c /\ queue[t][j] # d
      BY <1>1, <1>3, <2>1, <3>2
    <3> QED
      BY <1>6, <2>1, <3>1, <3>2, <3>3 DEF Placed
  <2>2. ASSUME NEW j \in 1..Len(r), Live(r[j])
        PROVE  /\ at'[r[j]] = "waiting" /\ of'[r[j]] = s
               /\ \A l \in 1..Len(r) : r[l] = r[j] => l = j
    <3>1. i + j \in 1..n /\ r[j] = q[i + j] /\ i + j # i
      BY <1>3, <1>5, <2>2
    <3>2. /\ q[i + j] \in Callers /\ at[q[i + j]] = "waiting" /\ of[q[i + j]] = s
          /\ \A l \in 1..n : q[l] = q[i + j] => l = i + j
      <4>1. Live(q[i + j])
        BY <2>2, <3>1
      <4>2. q[i + j] \in Callers
        BY <1>1, <3>1, <4>1 DEF Live
      <4>3. \A p \in 1..n : Live(q[p]) =>
              /\ at[q[p]] = "waiting" /\ of[q[p]] = s
              /\ \A l \in 1..n : q[l] = q[p] => l = p
        BY <1>1 DEF Placed, q, n
      <4> QED
        BY <3>1, <4>1, <4>2, <4>3
    <3>3. q[i + j] # c /\ q[i + j] # d
      BY <1>1, <1>3, <3>1, <3>2
    <3>4. \A l \in 1..Len(r) : r[l] = r[j] => l = j
      BY <1>1, <1>3, <1>5, <3>1, <3>2
    <3> QED
      BY <1>6, <3>1, <3>2, <3>3, <3>4
  <2> QED
    BY <1>6, <2>1, <2>2 DEF Placed, Live
<1>11. Queued'
  <2>1. ASSUME NEW e \in Callers, e # c, e # d, at[e] = "waiting"
        PROVE  /\ \E j \in 1..Len(queue'[of[e]]) : queue'[of[e]][j] = e
               /\ \E f \in Callers : at'[f] = "inside" /\ of'[f] = of[e]
    <3>1. of[e] \in States
      BY <2>1 DEF TypeOK
    <3>2. CASE of[e] = s
      <4>1. PICK j \in 1..n : q[j] = e
        BY <2>1, <3>2 DEF Queued, q, n
      <4>2. i <= j /\ j # i
        BY <1>4, <2>1, <4>1, ConstantsAssumption DEF Live, d
      <4>3. j - i \in 1..(n - i) /\ i + (j - i) = j
        BY <1>1, <1>3, <4>1, <4>2
      <4>4. r[j - i] = e
        BY <1>5, <4>1, <4>3
      <4> QED
        BY <1>3, <1>5, <1>6, <3>2, <4>3, <4>4
    <3>3. CASE of[e] # s
      <4>1. PICK f \in Callers : at[f] = "inside" /\ of[f] = of[e]
        BY <2>1 DEF Queued, InsideOf
      <4>2. f # c /\ f # d
        BY <1>3, <3>3, <4>1 DEF s
      <4> QED
        BY <1>6, <2>1, <3>1, <3>3, <4>1, <4>2 DEF Queued
    <3> QED
      BY <3>2, <3>3
  <2> QED
    BY <1>6, <2>1 DEF Queued, InsideOf
<1>12. Keyed'
  <2>1. ASSUME NEW k \in Keys, states[k] # None
        PROVE  \E e \in Callers : at'[e] = "inside" /\ of'[e] = states[k]
    <3>1. PICK e \in Callers : at[e] = "inside" /\ of[e] = states[k]
      BY <2>1 DEF Keyed, InsideOf
    <3>2. CASE e = c
      BY <1>3, <1>6, <3>1, <3>2 DEF s
    <3>3. CASE e # c
      BY <1>3, <1>6, <3>1, <3>3
    <3> QED
      BY <3>2, <3>3
  <2> QED
    BY <1>1, <2>1 DEF Keyed, InsideOf
<1> QED
  BY <1>7, <1>9, <1>10, <1>11, <1>12

-----------------------------------------------------------------------------
LEMMA StutterKeeps ==
  ASSUME IInv, UNCHANGED vars
  PROVE  IInv'
BY DEF IInv, vars, TypeOK, Alone, Placed, Queued, Keyed, InsideOf, Live

LEMMA NextInvariant == IInv /\ [Next]_vars => IInv'
BY AcquireKeeps, EnqueueKeeps, TimeoutKeeps, ReleaseKeeps, PromoteKeeps, ClearKeeps,
   StutterKeeps DEF Next

LEMMA Invariant == Spec => []IInv
BY InitInvariant, NextInvariant, PTL DEF Spec

-----------------------------------------------------------------------------
(* The theorems.                                                           *)

\* Type correctness: no queue outgrows maxWaitersPerKey, and a timer runs only for a
\* caller that waits.
THEOREM TypeCorrect == Spec => []TypeOK
<1>1. IInv => TypeOK
  BY DEF IInv
<1> QED
  BY <1>1, Invariant, PTL

\* Nobody waits on an object that no holder will advance, no key is taken by nobody, and
\* no object has two holders, whatever times out or is cleared.
THEOREM HoldersExist == Spec => []QueueHasHolder
BY InvariantImplies, Invariant, PTL

-----------------------------------------------------------------------------
(* The waiters of a queue.                                                 *)

LivePlaces(q) == {i \in 1..Len(q) : Live(q[i])}
Waiters(q) == Picked(q, LivePlaces(q))

Queues == Seq(Callers \cup {None})

LEMMA WaitersOf ==
  ASSUME NEW s, queue[s] \in Queues
  PROVE  Waiting(s) = Waiters(queue[s])
<1>1. DOMAIN queue[s] = 1..Len(queue[s])
  BY DEF Queues
<1> QED
  BY <1>1 DEF Waiting, LiveAt, Waiters, LivePlaces

\* Every waiter has a place in the queue.
LEMMA WaitersEntries ==
  ASSUME NEW q \in Queues
  PROVE  /\ Waiters(q) \in Queues
         /\ \A m \in 1..Len(Waiters(q)) :
              \E i \in 1..Len(q) : Live(q[i]) /\ Waiters(q)[m] = q[i]
<1>1. LivePlaces(q) \in SUBSET (1..Len(q))
  BY DEF LivePlaces
<1>2. /\ Waiters(q) \in Queues /\ Len(Waiters(q)) = Cardinality(LivePlaces(q))
      /\ \A m \in 1..Cardinality(LivePlaces(q)) :
           Nth(LivePlaces(q), m) \in LivePlaces(q) /\ Waiters(q)[m] = q[Nth(LivePlaces(q), m)]
  BY <1>1, PickedEntries DEF Waiters, Queues
<1>3. \A i \in LivePlaces(q) : i \in 1..Len(q) /\ Live(q[i])
  BY DEF LivePlaces
<1> QED
  BY <1>2, <1>3

LEMMA NoWaiters ==
  ASSUME NEW q, LivePlaces(q) = {}
  PROVE  Waiters(q) = <<>>
BY PickedNothing DEF Waiters

LEMMA WaitersAppend ==
  ASSUME NEW q \in Queues, NEW c \in Callers
  PROVE  Waiters(Append(q, c)) = Append(Waiters(q), c)
<1> DEFINE r == Append(q, c)
<1>1. /\ Len(q) \in Nat /\ Len(r) = Len(q) + 1
      /\ r[Len(q) + 1] = c /\ \A i \in 1..Len(q) : r[i] = q[i]
  BY AppendProperties DEF Queues
<1>2. Live(c)
  BY ConstantsAssumption DEF Live
<1> HIDE DEF r
<1>3. LivePlaces(r) = LivePlaces(q) \cup {Len(q) + 1}
  <2>1. \A i \in 1..Len(r) : i \in 1..Len(q) \/ i = Len(q) + 1
    BY <1>1
  <2>2. \A i \in 1..Len(q) : i \in 1..Len(r)
    BY <1>1
  <2>3. Len(q) + 1 \in 1..Len(r)
    BY <1>1
  <2> QED
    BY <1>1, <1>2, <2>1, <2>2, <2>3 DEF LivePlaces
<1>4. Places(LivePlaces(q), q)
  BY DEF LivePlaces, Places
<1>5. Picked(r, LivePlaces(r)) = Append(Picked(q, LivePlaces(q)), c)
  <2>1. PICK S : S = Callers \cup {None}
    OBVIOUS
  <2>2. q \in Seq(S) /\ c \in S
    BY <2>1 DEF Queues
  <2> QED
    BY <1>3, <1>4, <2>2, PickedAppend DEF r
<1> QED
  BY <1>5 DEF Waiters, r

\* The least live place is the first waiter's.
LEMMA WaitersShifted ==
  ASSUME NEW q \in Queues, NEW i \in LivePlaces(q), \A j \in LivePlaces(q) : i <= j
  PROVE  /\ Waiters(q) # <<>> /\ Head(Waiters(q)) = q[i]
         /\ Waiters(SubSeq(q, i + 1, Len(q))) = Tail(Waiters(q))
<1> DEFINE n == Len(q)
           r == SubSeq(q, i + 1, n)
           M == {j \in 1..Len(r) : i + j \in LivePlaces(q)}
<1>1. n \in Nat /\ i \in 1..n /\ LivePlaces(q) \in SUBSET (1..n)
  BY DEF LivePlaces, Queues
<1>2. Len(r) = n - i /\ \A j \in 1..(n - i) : i + j \in 1..n /\ r[j] = q[i + j]
  <2>1. q \in Seq(Callers \cup {None})
    BY DEF Queues
  <2> QED
    BY <1>1, <2>1
<1>3. M = LivePlaces(r)
  <2>1. \A j \in 1..Len(r) : i + j \in 1..n /\ r[j] = q[i + j]
    BY <1>2
  <2> HIDE DEF r
  <2> QED
    BY <2>1 DEF LivePlaces
<1>4. /\ Picked(q, LivePlaces(q)) # <<>> /\ Head(Picked(q, LivePlaces(q))) = q[i]
      /\ Picked(r, M) = Tail(Picked(q, LivePlaces(q)))
  BY <1>1, PickedShifted DEF Queues
<1> QED
  BY <1>3, <1>4 DEF Waiters

\* A cancelled waiter is gone, and the others stay in their order.
LEMMA WaitersCancelled ==
  ASSUME NEW q \in Queues, NEW r \in Queues, Len(r) = Len(q), NEW c \in Callers,
         NEW i \in 1..Len(q), q[i] = c, r[i] = None,
         \A j \in 1..Len(q) : j # i => q[j] # c /\ r[j] = q[j]
  PROVE  \E m \in 1..Len(Waiters(q)) :
           Waiters(q)[m] = c /\ Waiters(r) = Without(Waiters(q), m)
<1>1. Places(LivePlaces(q), q) /\ i \in LivePlaces(q)
  BY ConstantsAssumption DEF LivePlaces, Places, Live
<1>2. LivePlaces(r) = LivePlaces(q) \ {i}
  BY DEF LivePlaces, Live
<1>3. \A j \in LivePlaces(r) : r[j] = q[j]
  BY <1>2 DEF LivePlaces
<1>4. PICK S, L, N : S = Callers \cup {None} /\ L = LivePlaces(q) /\ N = LivePlaces(r)
  OBVIOUS
<1>5. /\ q \in Seq(S) /\ Places(L, q) /\ i \in L /\ r \in Seq(S)
      /\ N = L \ {i} /\ \A j \in N : r[j] = q[j]
  BY <1>1, <1>2, <1>3, <1>4 DEF Queues
<1>6. /\ Rank(L, i) \in 1..Len(Picked(q, L)) /\ Picked(q, L)[Rank(L, i)] = q[i]
      /\ Picked(r, N) = Without(Picked(q, L), Rank(L, i))
  BY <1>5, PickedWithout
<1> QED
  BY <1>4, <1>6 DEF Waiters

-----------------------------------------------------------------------------
(* The registry, as long as nothing was cleared.                           *)

\* Whoever waits or is inside does so on the object the registry holds for its key.
Attached ==
  clears = 0 => \A c \in Callers : at[c] # "out" => states[key[of[c]]] = of[c]

LEMMA InitAttached == Init => Attached
BY DEF Init, Attached

LEMMA AcquireAttaches ==
  ASSUME IInv, Attached, NEW c \in Callers, NEW k \in Keys, Acquire(c, k)
  PROVE  Attached'
<1>1. PICK s \in States :
        /\ Unreferenced(s) /\ states[k] = None
        /\ states' = [states EXCEPT ![k] = s] /\ key' = [key EXCEPT ![s] = k]
        /\ at' = [at EXCEPT ![c] = "inside"] /\ of' = [of EXCEPT ![c] = s]
        /\ clears' = clears
  BY DEF Acquire
<1> SUFFICES ASSUME clears = 0, NEW d \in Callers, at'[d] # "out"
             PROVE  states'[key'[of'[d]]] = of'[d]
  BY <1>1 DEF Attached
<1>2. CASE d = c
  BY <1>1, <1>2 DEF IInv, TypeOK
<1>3. CASE d # c
  <2>1. at[d] # "out" /\ of'[d] = of[d] /\ of[d] \in States /\ of[d] # s
    BY <1>1, <1>3 DEF IInv, TypeOK, Unreferenced
  <2>2. key'[of[d]] = key[of[d]] /\ states[key[of[d]]] = of[d] /\ key[of[d]] \in Keys
    BY <1>1, <2>1 DEF IInv, TypeOK, Attached
  <2>3. key[of[d]] # k
    BY <1>1, <2>1, <2>2, ConstantsAssumption
  <2> QED
    BY <1>1, <2>1, <2>2, <2>3 DEF IInv, TypeOK
<1> QED
  BY <1>2, <1>3

LEMMA EnqueueAttaches ==
  ASSUME IInv, Attached, NEW c \in Callers, NEW k \in Keys, Enqueue(c, k)
  PROVE  Attached'
<1>1. /\ states[k] # None
      /\ at' = [at EXCEPT ![c] = "waiting"] /\ of' = [of EXCEPT ![c] = states[k]]
      /\ UNCHANGED <<states, key, clears>>
  BY DEF Enqueue
<1>2. key[states[k]] = k
  BY <1>1 DEF IInv, Keyed
<1> QED
  BY <1>1, <1>2 DEF IInv, TypeOK, Attached

LEMMA TimeoutAttaches ==
  ASSUME IInv, Attached, NEW c \in Callers, Timeout(c)
  PROVE  Attached'
<1>1. /\ at' = [at EXCEPT ![c] = "out"] /\ of' = [of EXCEPT ![c] = None]
      /\ UNCHANGED <<states, key, clears>>
  BY DEF Timeout
<1> QED
  BY <1>1 DEF IInv, TypeOK, Attached

\* Nobody else is attached to the object that is released.
LEMMA ReleaseAttaches ==
  ASSUME IInv, Attached, NEW c \in Callers, Advance(c), LiveAt(of[c]) = {}
  PROVE  Attached'
<1> DEFINE s == of[c]
<1>1. /\ at[c] = "inside" /\ s \in States
      /\ states' = [states EXCEPT ![key[s]] = None]
      /\ at' = [at EXCEPT ![c] = "out"] /\ of' = [of EXCEPT ![c] = None]
      /\ UNCHANGED <<key, clears>>
  BY DEF Advance, IInv, TypeOK
<1> SUFFICES ASSUME clears = 0, NEW d \in Callers, at'[d] # "out"
             PROVE  states'[key'[of'[d]]] = of'[d]
  BY <1>1 DEF Attached
<1>2. d # c /\ at[d] # "out" /\ of'[d] = of[d] /\ of[d] \in States
  BY <1>1 DEF IInv, TypeOK
<1>3. of[d] # s
  <2>1. at[d] # "inside" \/ of[d] # s
    BY <1>1, <1>2 DEF IInv, Alone, InsideOf
  <2>2. ASSUME at[d] = "waiting", of[d] = s PROVE FALSE
    <3>1. PICK i \in 1..Len(queue[s]) : queue[s][i] = d
      BY <2>2 DEF IInv, Queued
    <3>2. DOMAIN queue[s] = 1..Len(queue[s])
      BY <1>1 DEF IInv, TypeOK
    <3> QED
      BY <3>1, <3>2, ConstantsAssumption DEF LiveAt, Live
  <2>3. at[d] \in {"waiting", "inside"}
    BY <1>2 DEF IInv, TypeOK
  <2> QED
    BY <2>1, <2>2, <2>3
<1>4. states[key[of[d]]] = of[d] /\ states[key[s]] = s /\ key[of[d]] \in Keys
  BY <1>1, <1>2 DEF IInv, TypeOK, Attached
<1> QED
  BY <1>1, <1>2, <1>3, <1>4 DEF IInv, TypeOK

LEMMA PromoteAttaches ==
  ASSUME IInv, Attached, NEW c \in Callers, Advance(c), LiveAt(of[c]) # {}
  PROVE  Attached'
<1> DEFINE s == of[c]
<1>1. /\ at[c] = "inside" /\ s \in States /\ of' = [of EXCEPT ![c] = None]
      /\ UNCHANGED <<states, key, clears>>
  BY DEF Advance, IInv, TypeOK
<1>2. PICK i \in LiveAt(s) : at' = [at EXCEPT ![c] = "out", ![queue[s][i]] = "inside"]
  BY DEF Advance
<1>3. i \in 1..Len(queue[s]) /\ Live(queue[s][i])
  BY <1>1, <1>2 DEF IInv, TypeOK, LiveAt
<1>4. queue[s][i] \in Callers /\ at[queue[s][i]] = "waiting"
  BY <1>1, <1>3 DEF IInv, TypeOK, Placed, Live
<1> QED
  BY <1>1, <1>2, <1>4 DEF IInv, TypeOK, Attached

LEMMA NextAttached == IInv /\ Attached /\ [Next]_vars => Attached'
<1>1. ASSUME IInv, Clear PROVE Attached'
  BY <1>1 DEF IInv, TypeOK, Clear, Attached
<1>2. ASSUME Attached, UNCHANGED vars PROVE Attached'
  BY <1>2 DEF Attached, vars
<1> QED
  BY <1>1, <1>2, AcquireAttaches, EnqueueAttaches, TimeoutAttaches, ReleaseAttaches,
     PromoteAttaches DEF Next

-----------------------------------------------------------------------------
(* What the mutex sees of a state: its holders and its lines.              *)

Line(k) == IF states[k] = None THEN <<>> ELSE Waiters(queue[states[k]])

Holders == [k \in Keys |-> HolderOf(k)]
Lines == [k \in Keys |-> Line(k)]

LEMMA LinesAreWaiting ==
  TypeOK => [k \in Keys |-> IF states[k] = None THEN <<>> ELSE Waiting(states[k])] = Lines
<1> SUFFICES ASSUME TypeOK, NEW k \in Keys
             PROVE  (IF states[k] = None THEN <<>> ELSE Waiting(states[k])) = Line(k)
  BY DEF Lines
<1>1. CASE states[k] # None
  <2>1. states[k] \in States /\ queue[states[k]] \in Queues
    BY <1>1 DEF TypeOK, Queues
  <2> QED
    BY <1>1, <2>1, WaitersOf DEF Line
<1>2. CASE states[k] = None
  BY <1>2 DEF Line
<1> QED
  BY <1>1, <1>2

\* The holder of a key is whoever is inside under the object the registry holds for it.
HolderFacts ==
  clears = 0 =>
    \A k \in Keys :
      /\ states[k] = None => HolderOf(k) = None
      /\ states[k] # None => \A c \in Callers : InsideOf(c, states[k]) => HolderOf(k) = c

LEMMA HoldersNow == IInv /\ Attached => HolderFacts
<1> SUFFICES ASSUME IInv, Attached, clears = 0, NEW k \in Keys
             PROVE  /\ states[k] = None => HolderOf(k) = None
                    /\ states[k] # None =>
                         \A c \in Callers : InsideOf(c, states[k]) => HolderOf(k) = c
  BY DEF HolderFacts
<1>1. ASSUME NEW c \in Callers, at[c] = "inside", key[of[c]] = k PROVE states[k] = of[c] /\ of[c] # None
  BY <1>1 DEF IInv, TypeOK, Attached
<1>2. ASSUME states[k] = None PROVE HolderOf(k) = None
  BY <1>1, <1>2 DEF HolderOf
<1>3. ASSUME NEW c \in Callers, states[k] # None, InsideOf(c, states[k]) PROVE HolderOf(k) = c
  <2>1. at[c] = "inside" /\ key[of[c]] = k
    BY <1>3 DEF IInv, Keyed, InsideOf
  <2>2. PICK d \in Callers : d = HolderOf(k) /\ at[d] = "inside" /\ key[of[d]] = k
    BY <2>1 DEF HolderOf
  <2>3. of[d] = of[c]
    BY <1>1, <2>1, <2>2
  <2> QED
    BY <2>1, <2>2, <2>3 DEF IInv, Alone, InsideOf
<1> QED
  BY <1>2, <1>3

LEMMA HoldersThen == IInv' /\ Attached' => HolderFacts'
BY HoldersNow, PTL

\* A key whose object keeps its holder keeps it.
LEMMA SameHolder ==
  ASSUME IInv, HolderFacts, HolderFacts', clears = 0, clears' = 0,
         NEW k \in Keys, states'[k] = states[k],
         \A d \in Callers : at[d] = "inside" /\ of[d] = states[k]
                              => at'[d] = "inside" /\ of'[d] = states[k]
  PROVE  HolderOf(k)' = HolderOf(k)
<1>1. CASE states[k] = None
  BY <1>1 DEF HolderFacts
<1>2. CASE states[k] # None
  <2>1. PICK d \in Callers : at[d] = "inside" /\ of[d] = states[k]
    BY <1>2 DEF IInv, Keyed, InsideOf
  <2> QED
    BY <1>2, <2>1 DEF HolderFacts, InsideOf
<1> QED
  BY <1>1, <1>2

\* A caller that is out is nowhere in the mutex.
LEMMA OutIsAway ==
  ASSUME IInv, HolderFacts, clears = 0, NEW c \in Callers, at[c] = "out", NEW k \in Keys
  PROVE  HolderOf(k) # c /\ \A i \in DOMAIN Line(k) : Line(k)[i] # c
<1>1. CASE states[k] = None
  BY <1>1, ConstantsAssumption DEF HolderFacts, Line
<1>2. CASE states[k] # None
  <2>1. states[k] \in States /\ queue[states[k]] \in Queues
    BY <1>2 DEF IInv, TypeOK, Queues
  <2>2. PICK d \in Callers : at[d] = "inside" /\ of[d] = states[k]
    BY <1>2 DEF IInv, Keyed, InsideOf
  <2>3. HolderOf(k) = d
    BY <1>2, <2>2 DEF HolderFacts, InsideOf
  <2>4. PICK q \in Queues : q = queue[states[k]]
    BY <2>1
  <2>5. /\ Waiters(q) \in Queues
        /\ \A m \in 1..Len(Waiters(q)) : \E i \in 1..Len(q) : Live(q[i]) /\ Waiters(q)[m] = q[i]
    BY WaitersEntries
  <2>6. DOMAIN Waiters(q) = 1..Len(Waiters(q))
    BY <2>5 DEF Queues
  <2>7. \A i \in 1..Len(q) : Live(q[i]) => at[q[i]] = "waiting"
    BY <2>1, <2>4 DEF IInv, Placed
  <2>8. Line(k) = Waiters(q)
    BY <1>2, <2>4 DEF Line
  <2> QED
    BY <2>2, <2>3, <2>5, <2>6, <2>7, <2>8
<1> QED
  BY <1>1, <1>2

LEMMA SameLine ==
  ASSUME NEW k \in Keys, states'[k] = states[k],
         states[k] # None => queue'[states[k]] = queue[states[k]]
  PROVE  Line(k)' = Line(k)
BY DEF Line

-----------------------------------------------------------------------------
(* What each step does to the holders and the lines.                       *)

LEMMA AcquireEnters ==
  ASSUME IInv, HolderFacts, HolderFacts', clears = 0, clears' = 0,
         NEW c \in Callers, NEW k \in Keys, Acquire(c, k)
  PROVE  /\ at[c] = "out" /\ HolderOf(k) = None
         /\ Holders' = [Holders EXCEPT ![k] = c]
         /\ Lines' = Lines
<1>1. PICK s \in States :
        /\ Unreferenced(s) /\ at[c] = "out" /\ states[k] = None
        /\ states' = [states EXCEPT ![k] = s] /\ queue' = [queue EXCEPT ![s] = <<>>]
        /\ at' = [at EXCEPT ![c] = "inside"] /\ of' = [of EXCEPT ![c] = s]
  BY DEF Acquire
<1>2. /\ at'[c] = "inside" /\ of'[c] = s /\ states'[k] = s /\ s # None /\ queue'[s] = <<>>
      /\ \A d \in Callers : d # c => at'[d] = at[d] /\ of'[d] = of[d]
      /\ \A l \in Keys : l # k => states'[l] = states[l]
      /\ \A l \in Keys : states[l] # s
      /\ \A t \in States : t # s => queue'[t] = queue[t]
  BY <1>1, ConstantsAssumption DEF IInv, TypeOK, Unreferenced
<1>3. HolderOf(k) = None
  BY <1>1 DEF HolderFacts
<1>4. HolderOf(k)' = c
  BY <1>2 DEF HolderFacts, InsideOf
<1>5. ASSUME NEW l \in Keys, l # k PROVE HolderOf(l)' = HolderOf(l)
  <2>1. states'[l] = states[l]
    BY <1>2, <1>5
  <2>2. \A d \in Callers : at[d] = "inside" /\ of[d] = states[l]
                             => at'[d] = "inside" /\ of'[d] = states[l]
    BY <1>1, <1>2
  <2> QED
    BY <2>1, <2>2, SameHolder
<1>6. Holders' = [Holders EXCEPT ![k] = c]
  BY <1>4, <1>5 DEF Holders
<1>7. LivePlaces(<<>>) = {}
  BY DEF LivePlaces
<1>8. Line(k)' = <<>> /\ Line(k) = <<>>
  <2>1. Waiters(<<>>) = <<>>
    BY <1>7, NoWaiters
  <2> QED
    BY <1>1, <1>2, <2>1 DEF Line
<1>9. ASSUME NEW l \in Keys, l # k PROVE Line(l)' = Line(l)
  <2>1. states[l] # None => states[l] \in States /\ states[l] # s
    BY <1>2 DEF IInv, TypeOK
  <2> QED
    BY <1>2, <1>9, <2>1, SameLine
<1>10. Lines' = Lines
  BY <1>8, <1>9 DEF Lines
<1> QED
  BY <1>1, <1>3, <1>6, <1>10

LEMMA EnqueueJoins ==
  ASSUME IInv, HolderFacts, HolderFacts', clears = 0, clears' = 0,
         NEW c \in Callers, NEW k \in Keys, Enqueue(c, k)
  PROVE  /\ at[c] = "out" /\ HolderOf(k) # None
         /\ Holders' = Holders
         /\ Lines' = [Lines EXCEPT ![k] = Append(Lines[k], c)]
<1>1. PICK s \in States : s = states[k]
  BY DEF Enqueue, IInv, TypeOK
<1>2. /\ s # None /\ at[c] = "out" /\ states' = states
      /\ queue' = [queue EXCEPT ![s] = Append(queue[s], c)]
      /\ at' = [at EXCEPT ![c] = "waiting"] /\ of' = [of EXCEPT ![c] = s]
  BY <1>1 DEF Enqueue
<1>3. \A d \in Callers : at[d] = "inside" => at'[d] = "inside" /\ of'[d] = of[d]
  BY <1>2 DEF IInv, TypeOK
<1>4. HolderOf(k) # None
  <2>1. PICK d \in Callers : InsideOf(d, s)
    BY <1>1, <1>2 DEF IInv, Keyed
  <2> QED
    BY <1>1, <1>2, <2>1, ConstantsAssumption DEF HolderFacts
<1>5. ASSUME NEW l \in Keys PROVE HolderOf(l)' = HolderOf(l)
  BY <1>2, <1>3, SameHolder
<1>6. Holders' = Holders
  BY <1>5 DEF Holders
<1>7. Line(k)' = Append(Line(k), c)
  <2>1. PICK q \in Queues : q = queue[s]
    BY DEF IInv, TypeOK, Queues
  <2>2. queue'[s] = Append(q, c)
    BY <1>2, <2>1 DEF IInv, TypeOK
  <2>3. Waiters(Append(q, c)) = Append(Waiters(q), c)
    BY WaitersAppend
  <2> QED
    BY <1>1, <1>2, <2>1, <2>2, <2>3 DEF Line
<1>8. ASSUME NEW l \in Keys, l # k PROVE Line(l)' = Line(l)
  <2>1. states[l] # None => states[l] \in States /\ states[l] # s
    BY <1>1, <1>2, <1>8 DEF IInv, TypeOK, Keyed
  <2>2. \A t \in States : t # s => queue'[t] = queue[t]
    BY <1>2 DEF IInv, TypeOK
  <2> QED
    BY <1>2, <2>1, <2>2, SameLine
<1>9. Lines' = [Lines EXCEPT ![k] = Append(Lines[k], c)]
  BY <1>7, <1>8 DEF Lines
<1> QED
  BY <1>2, <1>4, <1>6, <1>9

LEMMA TimeoutGivesUp ==
  ASSUME IInv, Attached, HolderFacts, HolderFacts', clears = 0, clears' = 0,
         NEW c \in Callers, Timeout(c)
  PROVE  \E k \in Keys :
           /\ Holders' = Holders
           /\ \E m \in 1..Len(Lines[k]) :
                Lines[k][m] = c /\ Lines' = [Lines EXCEPT ![k] = Without(Lines[k], m)]
           /\ Lines[k] \in Queues
<1>1. PICK s \in States, k \in Keys : s = of[c] /\ k = key[s]
  BY DEF Timeout, IInv, TypeOK
<1>2. /\ at[c] = "waiting" /\ states' = states /\ states[k] = s
      /\ queue' = [queue EXCEPT ![s] = Cancelled(s, {c})]
      /\ at' = [at EXCEPT ![c] = "out"] /\ of' = [of EXCEPT ![c] = None]
  BY <1>1 DEF Timeout, IInv, TypeOK, Attached
<1>3. \A d \in Callers : at[d] = "inside" => at'[d] = "inside" /\ of'[d] = of[d]
  BY <1>2 DEF IInv, TypeOK
<1>4. ASSUME NEW l \in Keys PROVE HolderOf(l)' = HolderOf(l)
  BY <1>2, <1>3, SameHolder
<1>5. Holders' = Holders
  BY <1>4 DEF Holders
<1>6. PICK q \in Queues, r \in Queues : q = queue[s] /\ r = Cancelled(s, {c})
  BY CancelledPlaces DEF IInv, TypeOK, Queues
<1>7. /\ Len(r) = Len(q)
      /\ \A i \in 1..Len(q) : r[i] = (IF q[i] = c THEN None ELSE q[i])
  BY <1>6, CancelledPlaces DEF IInv, TypeOK
<1>8. PICK i \in 1..Len(q) : q[i] = c
  BY <1>1, <1>2, <1>6 DEF IInv, Queued
<1>9. \A j \in 1..Len(q) : j # i => q[j] # c
  BY <1>6, <1>8, ConstantsAssumption DEF IInv, Placed, Live
<1>10. r[i] = None /\ \A j \in 1..Len(q) : j # i => r[j] = q[j]
  BY <1>7, <1>8, <1>9
<1>11. PICK m \in 1..Len(Waiters(q)) :
         Waiters(q)[m] = c /\ Waiters(r) = Without(Waiters(q), m)
  BY <1>7, <1>8, <1>9, <1>10, WaitersCancelled
<1>12. s # None /\ Line(k) = Waiters(q) /\ Line(k)' = Waiters(r) /\ Lines[k] = Waiters(q)
  <2>1. s # None /\ queue'[s] = r
    BY <1>2, <1>6, ConstantsAssumption DEF IInv, TypeOK
  <2> QED
    BY <1>2, <1>6, <2>1 DEF Line, Lines
<1>13. ASSUME NEW l \in Keys, l # k PROVE Line(l)' = Line(l)
  <2>1. states[l] # None => states[l] \in States /\ states[l] # s
    BY <1>2, <1>12, <1>13 DEF IInv, TypeOK, Keyed
  <2>2. \A t \in States : t # s => queue'[t] = queue[t]
    BY <1>2 DEF IInv, TypeOK
  <2> QED
    BY <1>2, <2>1, <2>2, SameLine
<1>14. Lines' = [Lines EXCEPT ![k] = Without(Lines[k], m)]
  BY <1>11, <1>12, <1>13 DEF Lines
<1>15. Waiters(q) \in Queues
  BY WaitersEntries
<1> QED
  BY <1>5, <1>11, <1>12, <1>14, <1>15

LEMMA ReleaseLeaves ==
  ASSUME IInv, Attached, HolderFacts, HolderFacts', clears = 0, clears' = 0,
         NEW c \in Callers, Advance(c), LiveAt(of[c]) = {}
  PROVE  \E k \in Keys :
           /\ HolderOf(k) # None /\ Lines[k] = <<>>
           /\ Holders' = [Holders EXCEPT ![k] = None]
           /\ Lines' = Lines
<1>1. PICK s \in States, k \in Keys : s = of[c] /\ k = key[s]
  BY DEF Advance, IInv, TypeOK
<1>2. /\ at[c] = "inside" /\ states[k] = s /\ s # None /\ LiveAt(s) = {}
      /\ states' = [states EXCEPT ![k] = None] /\ queue' = [queue EXCEPT ![s] = <<>>]
      /\ at' = [at EXCEPT ![c] = "out"] /\ of' = [of EXCEPT ![c] = None]
  BY <1>1, ConstantsAssumption DEF Advance, IInv, TypeOK, Attached
<1>3. /\ states'[k] = None /\ \A l \in Keys : l # k => states'[l] = states[l] /\ states[l] # s
      /\ \A d \in Callers : d # c => at'[d] = at[d] /\ of'[d] = of[d]
      /\ \A t \in States : t # s => queue'[t] = queue[t]
  BY <1>1, <1>2 DEF IInv, TypeOK, Keyed
<1>4. HolderOf(k) = c
  BY <1>1, <1>2 DEF HolderFacts, InsideOf
<1>5. HolderOf(k)' = None
  BY <1>3 DEF HolderFacts
<1>6. ASSUME NEW l \in Keys, l # k PROVE HolderOf(l)' = HolderOf(l)
  <2>1. \A d \in Callers : at[d] = "inside" /\ of[d] = states[l]
                             => at'[d] = "inside" /\ of'[d] = states[l]
    BY <1>1, <1>3, <1>6
  <2> QED
    BY <1>3, <1>6, <2>1, SameHolder
<1>7. Holders' = [Holders EXCEPT ![k] = None]
  BY <1>5, <1>6 DEF Holders
<1>8. Line(k) = <<>> /\ Line(k)' = <<>>
  <2>1. LivePlaces(queue[s]) = {}
    BY <1>2 DEF LivePlaces, LiveAt, IInv, TypeOK
  <2>2. Waiters(queue[s]) = <<>>
    BY <2>1, NoWaiters
  <2> QED
    BY <1>2, <1>3, <2>2 DEF Line
<1>9. ASSUME NEW l \in Keys, l # k PROVE Line(l)' = Line(l)
  <2>1. states[l] # None => states[l] \in States /\ states[l] # s
    BY <1>3, <1>9 DEF IInv, TypeOK
  <2> QED
    BY <1>3, <1>9, <2>1, SameLine
<1>10. Lines' = Lines /\ Lines[k] = <<>>
  BY <1>8, <1>9 DEF Lines
<1> QED
  BY <1>2, <1>4, <1>7, <1>10, ConstantsAssumption

LEMMA PromoteLeaves ==
  ASSUME IInv, Attached, HolderFacts, HolderFacts', clears = 0, clears' = 0,
         NEW c \in Callers, Advance(c), LiveAt(of[c]) # {}
  PROVE  \E k \in Keys :
           /\ HolderOf(k) # None /\ Lines[k] # <<>>
           /\ Holders' = [Holders EXCEPT ![k] = Head(Lines[k])]
           /\ Lines' = [Lines EXCEPT ![k] = Tail(Lines[k])]
<1>1. PICK s \in States, k \in Keys : s = of[c] /\ k = key[s]
  BY DEF Advance, IInv, TypeOK
<1>2. /\ at[c] = "inside" /\ states[k] = s /\ s # None /\ states' = states
      /\ of' = [of EXCEPT ![c] = None]
  BY <1>1, ConstantsAssumption DEF Advance, IInv, TypeOK, Attached
<1>3. PICK i \in LiveAt(s) :
        /\ \A j \in LiveAt(s) : i <= j
        /\ queue' = [queue EXCEPT ![s] = Shifted(s, i)]
        /\ at' = [at EXCEPT ![c] = "out", ![queue[s][i]] = "inside"]
  BY <1>1 DEF Advance
<1>4. PICK q \in Queues : q = queue[s]
  BY DEF IInv, TypeOK, Queues
<1>5. LiveAt(s) = LivePlaces(q)
  BY <1>4 DEF LiveAt, LivePlaces, Queues
<1>6. PICK d : d = q[i]
  OBVIOUS
<1>7. d \in Callers /\ at[d] = "waiting" /\ of[d] = s /\ d # c
  <2>1. i \in 1..Len(q) /\ Live(q[i])
    BY <1>3, <1>5 DEF LivePlaces
  <2>2. d \in Callers
    BY <1>6, <2>1 DEF Queues, Live
  <2> QED
    BY <1>2, <1>4, <1>6, <2>1, <2>2 DEF IInv, Placed
<1>8. /\ at'[d] = "inside" /\ of'[d] = s
      /\ \A e \in Callers : e # c /\ e # d => at'[e] = at[e] /\ of'[e] = of[e]
      /\ queue'[s] = SubSeq(q, i + 1, Len(q))
      /\ \A t \in States : t # s => queue'[t] = queue[t]
  BY <1>2, <1>3, <1>4, <1>6, <1>7 DEF IInv, TypeOK, Shifted
<1>9. HolderOf(k) = c
  BY <1>1, <1>2 DEF HolderFacts, InsideOf
<1>10. HolderOf(k)' = d
  BY <1>2, <1>7, <1>8 DEF HolderFacts, InsideOf
<1>11. ASSUME NEW l \in Keys, l # k PROVE states[l] # s
  BY <1>1, <1>2, <1>11 DEF IInv, Keyed
<1>12. ASSUME NEW l \in Keys, l # k PROVE HolderOf(l)' = HolderOf(l)
  <2>1. \A e \in Callers : at[e] = "inside" /\ of[e] = states[l]
                             => at'[e] = "inside" /\ of'[e] = states[l]
    BY <1>1, <1>7, <1>8, <1>11, <1>12
  <2> QED
    BY <1>2, <2>1, SameHolder
<1>13. /\ Waiters(q) # <<>> /\ Head(Waiters(q)) = d
       /\ Waiters(SubSeq(q, i + 1, Len(q))) = Tail(Waiters(q))
  BY <1>3, <1>5, <1>6, WaitersShifted
<1>14. Line(k) = Waiters(q) /\ Line(k)' = Tail(Waiters(q)) /\ Lines[k] = Waiters(q)
  BY <1>2, <1>4, <1>8, <1>13 DEF Line, Lines
<1>15. ASSUME NEW l \in Keys, l # k PROVE Line(l)' = Line(l)
  <2>1. states[l] # None => states[l] \in States
    BY DEF IInv, TypeOK
  <2> QED
    BY <1>2, <1>8, <1>11, <1>15, <2>1, SameLine
<1>16. Holders' = [Holders EXCEPT ![k] = Head(Lines[k])]
  BY <1>10, <1>12, <1>13, <1>14 DEF Holders
<1>17. Lines' = [Lines EXCEPT ![k] = Tail(Lines[k])]
  BY <1>14, <1>15 DEF Lines
<1> QED
  BY <1>2, <1>9, <1>13, <1>14, <1>16, <1>17, ConstantsAssumption

LEMMA StutterStutters ==
  ASSUME UNCHANGED vars
  PROVE  Holders' = Holders /\ Lines' = Lines /\ clears' = clears
BY DEF vars, Holders, HolderOf, Lines, Line

-----------------------------------------------------------------------------
(* The refinement.                                                         *)

LEMMA InitRefines == Init => Mutex!Init
<1> SUFFICES ASSUME Init PROVE Mutex!Init
  OBVIOUS
<1>1. \A k \in Keys : HolderOf(k) = None
  BY DEF Init, HolderOf
<1> QED
  BY <1>1 DEF Init, Mutex!Init

LEMMA ClearsStay ==
  ASSUME TypeOK, [Next]_vars, clears' = 0
  PROVE  clears = 0
<1>1. ASSUME Clear PROVE FALSE
  BY <1>1 DEF Clear, TypeOK
<1>2. ASSUME NEW c \in Callers,
             Timeout(c) \/ Advance(c) \/ \E k \in Keys : Acquire(c, k) \/ Enqueue(c, k)
      PROVE  clears' = clears
  BY <1>2 DEF Timeout, Advance, Acquire, Enqueue
<1> QED
  BY <1>1, <1>2 DEF Next, vars

\* A step that clears nothing is a step of the mutex on the key it is about.
LEMMA StepIsOneOf ==
  ASSUME IInv, Attached, HolderFacts, HolderFacts', [Next]_vars, clears = 0, clears' = 0
  PROVE  \/ Holders' = Holders /\ Lines' = Lines
         \/ \E c \in Callers, k \in Keys :
              /\ at[c] = "out"
              /\ \/ HolderOf(k) = None /\ Holders' = [Holders EXCEPT ![k] = c] /\ Lines' = Lines
                 \/ /\ HolderOf(k) # None /\ Holders' = Holders
                    /\ Lines' = [Lines EXCEPT ![k] = Append(Lines[k], c)]
         \/ \E c \in Callers, k \in Keys :
              /\ Holders' = Holders /\ Lines[k] \in Queues
              /\ \E m \in 1..Len(Lines[k]) :
                   Lines[k][m] = c /\ Lines' = [Lines EXCEPT ![k] = Without(Lines[k], m)]
         \/ \E k \in Keys :
              /\ HolderOf(k) # None
              /\ \/ /\ Lines[k] = <<>> /\ Lines' = Lines
                    /\ Holders' = [Holders EXCEPT ![k] = None]
                 \/ /\ Lines[k] # <<>> /\ Lines' = [Lines EXCEPT ![k] = Tail(Lines[k])]
                    /\ Holders' = [Holders EXCEPT ![k] = Head(Lines[k])]
<1>1. CASE UNCHANGED vars
  BY <1>1, StutterStutters
<1>2. CASE Clear
  BY <1>2 DEF Clear, IInv, TypeOK
<1>3. ASSUME NEW c \in Callers, Timeout(c)
      PROVE  \E k \in Keys :
              /\ Holders' = Holders /\ Lines[k] \in Queues
              /\ \E m \in 1..Len(Lines[k]) :
                   Lines[k][m] = c /\ Lines' = [Lines EXCEPT ![k] = Without(Lines[k], m)]
  BY <1>3, TimeoutGivesUp
<1>4. ASSUME NEW c \in Callers, Advance(c)
      PROVE  \E k \in Keys :
              /\ HolderOf(k) # None
              /\ \/ /\ Lines[k] = <<>> /\ Lines' = Lines
                    /\ Holders' = [Holders EXCEPT ![k] = None]
                 \/ /\ Lines[k] # <<>> /\ Lines' = [Lines EXCEPT ![k] = Tail(Lines[k])]
                    /\ Holders' = [Holders EXCEPT ![k] = Head(Lines[k])]
  BY <1>4, ReleaseLeaves, PromoteLeaves
<1>5. ASSUME NEW c \in Callers, NEW k \in Keys, Acquire(c, k)
      PROVE  /\ at[c] = "out" /\ HolderOf(k) = None
             /\ Holders' = [Holders EXCEPT ![k] = c] /\ Lines' = Lines
  BY <1>5, AcquireEnters
<1>6. ASSUME NEW c \in Callers, NEW k \in Keys, Enqueue(c, k)
      PROVE  /\ at[c] = "out" /\ HolderOf(k) # None /\ Holders' = Holders
             /\ Lines' = [Lines EXCEPT ![k] = Append(Lines[k], c)]
  BY <1>6, EnqueueJoins
<1> QED
  BY <1>1, <1>2, <1>3, <1>4, <1>5, <1>6 DEF Next

LEMMA StepRefines ==
  IInv /\ Attached /\ IInv' /\ Attached' /\ [Next]_vars => [Mutex!Next]_(Mutex!vars)
<1> SUFFICES ASSUME IInv, Attached, IInv', Attached', [Next]_vars
             PROVE  [Mutex!Next]_(Mutex!vars)
  OBVIOUS
<1>1. HolderFacts /\ HolderFacts'
  BY HoldersNow, HoldersThen
<1>2. /\ [k \in Keys |-> IF states[k] = None THEN <<>> ELSE Waiting(states[k])] = Lines
      /\ [k \in Keys |-> IF states[k] = None THEN <<>> ELSE Waiting(states[k])]' = Lines'
  <2>1. (TypeOK => [k \in Keys |-> IF states[k] = None THEN <<>> ELSE Waiting(states[k])] = Lines)'
    BY LinesAreWaiting, PTL
  <2> QED
    BY <2>1, LinesAreWaiting DEF IInv
<1>3. CASE clears' # 0
  BY <1>3 DEF Mutex!Next
<1>4. CASE clears' = 0
  <2>1. clears = 0
    BY <1>4, ClearsStay DEF IInv
  <2>2. ASSUME Holders' = Holders, Lines' = Lines
        PROVE  UNCHANGED Mutex!vars
    BY <1>2, <1>4, <2>1, <2>2 DEF Mutex!vars, Holders
  <2>3. ASSUME NEW c \in Callers, at[c] = "out"
        PROVE  Mutex!Away(c)
    <3>1. \A k \in Keys : HolderOf(k) # c /\ \A i \in DOMAIN Lines[k] : Lines[k][i] # c
      BY <1>1, <2>1, <2>3, OutIsAway DEF Lines
    <3> QED
      BY <1>2, <3>1 DEF Mutex!Away
  <2>4. ASSUME NEW c \in Callers, NEW k \in Keys, at[c] = "out", HolderOf(k) = None,
               Holders' = [Holders EXCEPT ![k] = c], Lines' = Lines
        PROVE  Mutex!Enter(c, k)
    BY <1>2, <1>4, <2>1, <2>3, <2>4 DEF Mutex!Enter, Holders
  <2>5. ASSUME NEW c \in Callers, NEW k \in Keys, at[c] = "out", HolderOf(k) # None,
               Holders' = Holders, Lines' = [Lines EXCEPT ![k] = Append(Lines[k], c)]
        PROVE  Mutex!Join(c, k)
    BY <1>2, <1>4, <2>1, <2>3, <2>5 DEF Mutex!Join, Holders
  <2>6. ASSUME NEW c \in Callers, NEW k \in Keys, Holders' = Holders, Lines[k] \in Queues,
               NEW m \in 1..Len(Lines[k]), Lines[k][m] = c,
               Lines' = [Lines EXCEPT ![k] = Without(Lines[k], m)]
        PROVE  Mutex!GiveUp(c, k)
    <3>1. m \in DOMAIN Lines[k]
      BY <2>6 DEF Queues
    <3>2. Mutex!Without(Lines[k], m) = Without(Lines[k], m)
      BY DEF Mutex!Without, Without
    <3> QED
      BY <1>2, <1>4, <2>1, <2>6, <3>1, <3>2 DEF Mutex!GiveUp, Holders
  <2>7. ASSUME NEW k \in Keys, HolderOf(k) # None, Lines[k] = <<>>, Lines' = Lines,
               Holders' = [Holders EXCEPT ![k] = None]
        PROVE  Mutex!Leave(k)
    BY <1>2, <1>4, <2>1, <2>7 DEF Mutex!Leave, Holders
  <2>8. ASSUME NEW k \in Keys, HolderOf(k) # None, Lines[k] # <<>>,
               Lines' = [Lines EXCEPT ![k] = Tail(Lines[k])],
               Holders' = [Holders EXCEPT ![k] = Head(Lines[k])]
        PROVE  Mutex!Leave(k)
    BY <1>2, <1>4, <2>1, <2>8 DEF Mutex!Leave, Holders
  <2> QED
    BY <1>1, <1>4, <2>1, <2>2, <2>4, <2>5, <2>6, <2>7, <2>8, StepIsOneOf DEF Mutex!Next
<1> QED
  BY <1>3, <1>4

\* Until it is cleared the plugin is a keyed mutex: withLock lets one caller per key in,
\* advance lets the others in by order of arrival, and a wait that times out takes nobody
\* else's place, for any number of keys, callers and waiters.
THEOREM LockIsKeyedMutex == Spec => ImplementsKeyedMutex
<1>1. Init => IInv /\ Attached
  BY InitInvariant, InitAttached
<1>2. IInv /\ Attached /\ [Next]_vars => IInv' /\ Attached'
  BY NextInvariant, NextAttached
<1> QED
  BY <1>1, <1>2, InitRefines, StepRefines, PTL DEF Spec, ImplementsKeyedMutex, Mutex!Spec
==============================================================================
