-------------------------- MODULE KeyedQueueProofs --------------------------
(***************************************************************************)
(* Proofs about KeyedQueue, for any finite sets of keys and tasks and any  *)
(* bounds.                                                                 *)
(*                                                                         *)
(* What the queue promises holds between two calls; the invariant says     *)
(* what of it holds in the middle of one.                                  *)
(*   Distinct   a key holds a task once: waiting in one place, or running. *)
(*   Counted    the counters are exact at every step.                      *)
(*   Mapped     only the key whose task has just settled may be idle and   *)
(*              still in the map.                                          *)
(*   Lined      only the key of a turn that has not reached the line yet   *)
(*              may be startable without a place in it.                    *)
(*   Conserving once pump is over the budget is spent or nobody is in line.*)
(***************************************************************************)
EXTENDS KeyedQueue, FiniteSetTheorems, TLAPS

Once(seq) == \A i, j \in 1..Len(seq) : seq[i] = seq[j] => i = j
In(k, seq) == \E i \in 1..Len(seq) : seq[i] = k

Distinct ==
  \A k \in Keys : Once(items[k]) /\ \A i \in 1..Len(items[k]) : items[k][i] \notin active[k]

Counted ==
  pending = Cardinality(WaitingPlaces) /\ running = Cardinality(RunningTasks)

Settling(k) == turn.step \in {"schedule", "pump", "cleanup"} /\ turn.settled /\ turn.key = k
Unscheduled(k) == turn.step = "schedule" /\ turn.key = k

Mapped ==
  /\ drains \subseteq live
  /\ \A k \in Keys : ~Idle(k) => k \in live
  /\ \A k \in live : Idle(k) => Settling(k)

Lined ==
  /\ Once(line)
  /\ \A k \in Keys : In(k, line) => Startable(k)
  /\ \A k \in Keys : Startable(k) => In(k, line) \/ Unscheduled(k)

Conserving == turn.step \in {"none", "cleanup"} => line = <<>> \/ ~Budget

IInv == TypeOK /\ Distinct /\ Counted /\ Mapped /\ Lined /\ Conserving

-----------------------------------------------------------------------------
(* Sequences without repetitions.                                          *)

\* A queue that loses its head keeps its other places.
LEMMA TailPlaces ==
  ASSUME NEW S, NEW q \in Seq(S), q # <<>>
  PROVE  /\ Len(q) \in Nat /\ Len(q) >= 1
         /\ Head(q) = q[1] /\ q[1] \in S
         /\ Tail(q) \in Seq(S) /\ Len(Tail(q)) = Len(q) - 1
         /\ \A i \in 1..Len(Tail(q)) : Tail(q)[i] = q[i + 1]
OBVIOUS

LEMMA TailOnce ==
  ASSUME NEW S, NEW q \in Seq(S), q # <<>>, Once(q)
  PROVE  /\ Once(Tail(q))
         /\ \A x : In(x, Tail(q)) <=> In(x, q) /\ x # Head(q)
<1>1. /\ Len(q) \in Nat /\ Len(q) >= 1 /\ Head(q) = q[1]
      /\ Len(Tail(q)) = Len(q) - 1
      /\ \A i \in 1..Len(Tail(q)) : Tail(q)[i] = q[i + 1]
  BY TailPlaces
<1>2. Once(Tail(q))
  <2> SUFFICES ASSUME NEW i \in 1..Len(Tail(q)), NEW j \in 1..Len(Tail(q)),
                      Tail(q)[i] = Tail(q)[j]
               PROVE  i = j
    BY DEF Once
  <2>1. i + 1 \in 1..Len(q) /\ j + 1 \in 1..Len(q) /\ q[i + 1] = q[j + 1]
    BY <1>1
  <2>2. i + 1 = j + 1
    BY <2>1 DEF Once
  <2> QED
    BY <1>1, <2>2
<1>3. ASSUME NEW x, In(x, Tail(q)) PROVE In(x, q) /\ x # Head(q)
  <2>1. PICK i \in 1..Len(Tail(q)) : Tail(q)[i] = x
    BY <1>3 DEF In
  <2>2. i + 1 \in 1..Len(q) /\ 1 \in 1..Len(q) /\ q[i + 1] = x /\ i + 1 # 1
    BY <1>1, <2>1
  <2>3. q[i + 1] # q[1]
    BY <2>2 DEF Once
  <2> QED
    BY <1>1, <2>2, <2>3 DEF In
<1>4. ASSUME NEW x, In(x, q), x # Head(q) PROVE In(x, Tail(q))
  <2>1. PICK i \in 1..Len(q) : q[i] = x
    BY <1>4 DEF In
  <2>2. i # 1
    BY <1>1, <1>4, <2>1
  <2>3. i - 1 \in 1..Len(Tail(q)) /\ (i - 1) + 1 = i
    BY <1>1, <2>1, <2>2
  <2>4. Tail(q)[i - 1] = q[(i - 1) + 1]
    BY <1>1, <2>3
  <2>5. Tail(q)[i - 1] = x
    BY <2>1, <2>3, <2>4
  <2> QED
    BY <2>3, <2>5 DEF In
<1> QED
  BY <1>2, <1>3, <1>4

LEMMA AppendOnce ==
  ASSUME NEW S, NEW q \in Seq(S), NEW x \in S
  PROVE  /\ Append(q, x) \in Seq(S) /\ Len(Append(q, x)) = Len(q) + 1
         /\ Append(q, x) # <<>>
         /\ \A i \in 1..Len(q) : Append(q, x)[i] = q[i]
         /\ Append(q, x)[Len(q) + 1] = x
         /\ \A y : In(y, Append(q, x)) <=> In(y, q) \/ y = x
         /\ Once(q) /\ ~In(x, q) => Once(Append(q, x))
<1>1. /\ Append(q, x) \in Seq(S) /\ Len(Append(q, x)) = Len(q) + 1 /\ Len(q) \in Nat
      /\ \A i \in 1..Len(q) : Append(q, x)[i] = q[i]
      /\ Append(q, x)[Len(q) + 1] = x
  OBVIOUS
<1>2. Append(q, x) # <<>>
  BY <1>1
<1>3. \A i \in 1..Len(Append(q, x)) : i \in 1..Len(q) \/ i = Len(q) + 1
  BY <1>1
<1>4. ASSUME NEW y PROVE In(y, Append(q, x)) <=> In(y, q) \/ y = x
  <2>1. ASSUME In(y, Append(q, x)) PROVE In(y, q) \/ y = x
    BY <1>1, <1>3, <2>1 DEF In
  <2>2. ASSUME In(y, q) PROVE In(y, Append(q, x))
    <3>1. PICK i \in 1..Len(q) : q[i] = y
      BY <2>2 DEF In
    <3>2. i \in 1..Len(Append(q, x)) /\ Append(q, x)[i] = y
      BY <1>1, <3>1
    <3> QED
      BY <3>2 DEF In
  <2>3. ASSUME y = x PROVE In(y, Append(q, x))
    <3>1. Len(q) + 1 \in 1..Len(Append(q, x))
      BY <1>1
    <3> QED
      BY <1>1, <2>3, <3>1 DEF In
  <2> QED
    BY <2>1, <2>2, <2>3
<1>5. ASSUME Once(q), ~In(x, q) PROVE Once(Append(q, x))
  <2> SUFFICES ASSUME NEW i \in 1..Len(Append(q, x)), NEW j \in 1..Len(Append(q, x)),
                      Append(q, x)[i] = Append(q, x)[j]
               PROVE  i = j
    BY DEF Once
  <2>1. \A m \in 1..Len(q) : q[m] # x
    BY <1>5 DEF In
  <2> QED
    BY <1>1, <1>3, <1>5, <2>1 DEF Once
<1> QED
  BY <1>1, <1>2, <1>4, <1>5

LEMMA ConcatPlaces ==
  ASSUME NEW S, NEW a \in Seq(S), NEW b \in Seq(S)
  PROVE  /\ a \o b \in Seq(S) /\ Len(a \o b) = Len(a) + Len(b)
         /\ \A i \in 1..Len(a) : (a \o b)[i] = a[i]
         /\ \A i \in (Len(a) + 1)..(Len(a) + Len(b)) : (a \o b)[i] = b[i - Len(a)]
OBVIOUS

LEMMA SuffixPlaces ==
  ASSUME NEW S, NEW q \in Seq(S), NEW n \in 1..Len(q)
  PROVE  /\ SubSeq(q, n + 1, Len(q)) \in Seq(S)
         /\ Len(SubSeq(q, n + 1, Len(q))) = Len(q) - n
         /\ \A i \in 1..(Len(q) - n) : SubSeq(q, n + 1, Len(q))[i] = q[n + i]
<1> DEFINE r == SubSeq(q, n + 1, Len(q))
<1>1. n \in 1..Len(q) /\ Len(q) \in Nat
  OBVIOUS
<1>2. r \in Seq(S) /\ Len(r) = Len(q) - n
  BY <1>1
<1>3. \A i \in 1..(Len(q) - n) : r[i] = q[n + i]
  BY <1>1
<1> QED
  BY <1>2, <1>3

\* A place that is taken out of the line leaves every other where it was.
LEMMA UnlinkedEffect ==
  ASSUME NEW S, NEW q \in Seq(S), NEW x, Once(q)
  PROVE  /\ Unlinked(q, x) \in Seq(S)
         /\ Once(Unlinked(q, x))
         /\ \A y : In(y, Unlinked(q, x)) <=> In(y, q) /\ y # x
         /\ q = <<>> => Unlinked(q, x) = <<>>
<1>0. Len(q) \in Nat /\ DOMAIN q = 1..Len(q) /\ (q = <<>> => Len(q) = 0)
  OBVIOUS
<1>1. CASE ~ In(x, q)
  <2>1. Unlinked(q, x) = q
    BY <1>0, <1>1 DEF Unlinked, In
  <2> QED
    BY <1>1, <2>1
<1>2. CASE In(x, q)
  <2> DEFINE n == CHOOSE i \in DOMAIN q : q[i] = x
             u == Unlinked(q, x)
  <2>1. n \in 1..Len(q) /\ q[n] = x
    BY <1>0, <1>2 DEF In
  <2>2. u = SubSeq(q, 1, n - 1) \o SubSeq(q, n + 1, Len(q))
    BY <1>0, <1>2 DEF Unlinked, In
  <2> HIDE DEF n, u
  <2>3. /\ SubSeq(q, 1, n - 1) \in Seq(S) /\ Len(SubSeq(q, 1, n - 1)) = n - 1
        /\ \A i \in 1..(n - 1) : SubSeq(q, 1, n - 1)[i] = q[i]
    BY <1>0, <2>1
  <2>4. /\ SubSeq(q, n + 1, Len(q)) \in Seq(S) /\ Len(SubSeq(q, n + 1, Len(q))) = Len(q) - n
        /\ \A i \in 1..(Len(q) - n) : SubSeq(q, n + 1, Len(q))[i] = q[n + i]
    BY <2>1, SuffixPlaces
  <2> DEFINE a == SubSeq(q, 1, n - 1)
             b == SubSeq(q, n + 1, Len(q))
  <2> HIDE DEF a, b
  <2>13. a \in Seq(S) /\ b \in Seq(S) /\ u = a \o b
    BY <2>2, <2>3, <2>4 DEF a, b
  <2>14. /\ u \in Seq(S) /\ Len(u) = Len(a) + Len(b)
         /\ \A i \in 1..Len(a) : u[i] = a[i]
         /\ \A i \in (Len(a) + 1)..(Len(a) + Len(b)) : u[i] = b[i - Len(a)]
    BY <2>13, ConcatPlaces
  <2>15. Len(a) = n - 1 /\ Len(b) = Len(q) - n
    BY <2>3, <2>4 DEF a, b
  <2>5. u \in Seq(S) /\ Len(u) = Len(q) - 1
    BY <1>0, <2>1, <2>14, <2>15
  <2>6. \A i \in 1..(n - 1) : u[i] = q[i]
    BY <2>3, <2>14, <2>15 DEF a
  <2>7. \A i \in n..(Len(q) - 1) : u[i] = q[i + 1]
    <3> TAKE i \in n..(Len(q) - 1)
    <3>1. i - (n - 1) \in 1..(Len(q) - n) /\ n + (i - (n - 1)) = i + 1
      BY <1>0, <2>1
    <3>2. u[i] = SubSeq(q, n + 1, Len(q))[i - (n - 1)]
      <4>1. i \in (Len(a) + 1)..(Len(a) + Len(b)) /\ i - Len(a) = i - (n - 1)
        BY <1>0, <2>1, <2>15
      <4> QED
        BY <2>14, <4>1 DEF b
    <3>3. SubSeq(q, n + 1, Len(q))[i - (n - 1)] = q[n + (i - (n - 1))]
      BY <3>1, <2>4
    <3> QED
      BY <3>1, <3>2, <3>3
  <2>8. \A i \in 1..Len(u) : i \in 1..(n - 1) \/ i \in n..(Len(q) - 1)
    BY <1>0, <2>1, <2>5
  <2>9. Once(u)
    <3> SUFFICES ASSUME NEW i \in 1..Len(u), NEW j \in 1..Len(u), u[i] = u[j]
                 PROVE  i = j
      BY DEF Once
    <3> DEFINE from(m) == IF m < n THEN m ELSE m + 1
    <3>1. from(i) \in 1..Len(q) /\ u[i] = q[from(i)]
      BY <1>0, <2>1, <2>5, <2>6, <2>7
    <3>2. from(j) \in 1..Len(q) /\ u[j] = q[from(j)]
      BY <1>0, <2>1, <2>5, <2>6, <2>7
    <3>3. from(i) = from(j)
      BY <3>1, <3>2 DEF Once
    <3> QED
      BY <1>0, <2>1, <2>5, <3>3
  <2>10. ASSUME NEW y, In(y, u) PROVE In(y, q) /\ y # x
    <3>1. PICK i \in 1..Len(u) : u[i] = y
      BY <2>10 DEF In
    <3> DEFINE m == IF i < n THEN i ELSE i + 1
    <3>2. m \in 1..Len(q) /\ q[m] = y /\ m # n
      BY <1>0, <2>1, <2>5, <2>6, <2>7, <3>1
    <3> HIDE DEF m
    <3>3. y # x
      BY <2>1, <3>2 DEF Once
    <3> QED
      BY <3>2, <3>3 DEF In
  <2>11. ASSUME NEW y, In(y, q), y # x PROVE In(y, u)
    <3>1. PICK i \in 1..Len(q) : q[i] = y
      BY <2>11 DEF In
    <3>2. i # n
      BY <2>1, <2>11, <3>1
    <3> DEFINE m == IF i < n THEN i ELSE i - 1
    <3>3. m \in 1..Len(u) /\ u[m] = y
      BY <1>0, <2>1, <2>5, <2>6, <2>7, <3>1, <3>2
    <3> HIDE DEF m
    <3> QED
      BY <3>3 DEF In
  <2>12. q # <<>>
    BY <1>0, <2>1
  <2> QED
    BY <2>5, <2>9, <2>10, <2>11, <2>12 DEF u
<1> QED
  BY <1>1, <1>2

\* markReady gives a startable key a place, and nobody a second one.
LEMMA MarkedEffect ==
  ASSUME NEW q \in Seq(Keys), NEW k \in Keys, Once(q)
  PROVE  /\ Marked(q, k) \in Seq(Keys)
         /\ Once(Marked(q, k))
         /\ \A y : In(y, Marked(q, k)) <=>
                     In(y, q) \/ (y = k /\ HasStartable(items'[k], active'[k]))
<1>1. (\A i \in DOMAIN q : q[i] # k) <=> ~In(k, q)
  BY DEF In
<1>2. CASE HasStartable(items'[k], active'[k]) /\ ~In(k, q)
  <2>1. Marked(q, k) = Append(q, k)
    BY <1>1, <1>2 DEF Marked
  <2> QED
    BY <1>2, <2>1, AppendOnce
<1>3. CASE ~(HasStartable(items'[k], active'[k]) /\ ~In(k, q))
  <2>1. Marked(q, k) = q
    BY <1>1, <1>3 DEF Marked
  <2> QED
    BY <1>3, <2>1
<1> QED
  BY <1>2, <1>3

-----------------------------------------------------------------------------
(* The tasks and their counters.                                           *)

WorkOK ==
  /\ items \in [Keys -> Seq(Tasks)] /\ \A k \in Keys : Len(items[k]) <= MaxSize
  /\ active \in [Keys -> SUBSET Tasks]
  /\ \A k \in Keys : Cardinality(active[k]) <= Concurrency
  /\ pending \in 0..MaxPending /\ running \in 0..MaxRunning
  /\ Distinct /\ Counted

LEMMA Bounds ==
  /\ Concurrency \in Nat /\ Concurrency >= 1 /\ MaxSize \in Nat /\ MaxSize >= 1
  /\ MaxKeys \in Nat /\ MaxKeys >= 1 /\ MaxPending \in Nat /\ MaxPending >= 1
  /\ MaxRunning \in Nat /\ MaxRunning >= 1
<1>1. \A n \in Nat \ {0} : n \in Nat /\ n >= 1
  OBVIOUS
<1>2. /\ Concurrency \in Nat \ {0} /\ MaxSize \in Nat \ {0} /\ MaxKeys \in Nat \ {0}
      /\ MaxPending \in Nat \ {0} /\ MaxRunning \in Nat \ {0}
  BY ConstantsAssumption
<1> QED
  BY <1>1, <1>2

LEMMA Finite ==
  ASSUME WorkOK
  PROVE  /\ IsFiniteSet(WaitingPlaces) /\ Cardinality(WaitingPlaces) \in Nat
         /\ IsFiniteSet(RunningTasks) /\ Cardinality(RunningTasks) \in Nat
         /\ \A k \in Keys : IsFiniteSet(active[k]) /\ Cardinality(active[k]) \in Nat
<1>1. IsFiniteSet(Keys) /\ IsFiniteSet(Tasks)
  BY ConstantsAssumption
<1>2. IsFiniteSet(1..MaxSize)
  BY Bounds, FS_Interval
<1>3. IsFiniteSet(Keys \X (1..MaxSize)) /\ IsFiniteSet(Keys \X Tasks)
  BY <1>1, <1>2, FS_Product
<1>4. WaitingPlaces \in SUBSET (Keys \X (1..MaxSize)) /\ RunningTasks \in SUBSET (Keys \X Tasks)
  BY DEF WaitingPlaces, RunningTasks
<1>5. IsFiniteSet(WaitingPlaces) /\ IsFiniteSet(RunningTasks)
  BY <1>3, <1>4, FS_Subset
<1>6. \A k \in Keys : active[k] \in SUBSET Tasks
  BY DEF WorkOK
<1>7. \A k \in Keys : IsFiniteSet(active[k])
  BY <1>1, <1>6, FS_Subset
<1> QED
  BY <1>5, <1>7, FS_CardinalityType

\* A start moves the oldest task of its key from its queue to the running ones.
LEMMA StartKeeps ==
  ASSUME WorkOK, NEW k \in Keys, Startable(k), Budget, Start(k)
  PROVE  /\ WorkOK'
         /\ \A j \in Keys : j # k => items'[j] = items[j] /\ active'[j] = active[j]
         /\ active'[k] # {} /\ items[k] # <<>>
<1> DEFINE q == items[k]
           n == Len(items[k])
           t == Head(items[k])
<1>1. /\ q \in Seq(Tasks) /\ q # <<>> /\ n \in Nat /\ n >= 1 /\ n <= MaxSize
      /\ Cardinality(active[k]) < Concurrency
  BY TailPlaces DEF WorkOK, Startable, HasStartable
<1>2. /\ t = q[1] /\ t \in Tasks /\ Tail(q) \in Seq(Tasks) /\ Len(Tail(q)) = n - 1
      /\ \A i \in 1..(n - 1) : Tail(q)[i] = q[i + 1]
  BY <1>1, TailPlaces
<1>3. Once(q) /\ t \notin active[k] /\ \A i \in 1..n : q[i] \notin active[k]
  <2>1. 1 \in 1..n
    BY <1>1
  <2> QED
    BY <1>2, <2>1 DEF WorkOK, Distinct
<1>4. /\ items'[k] = Tail(q) /\ active'[k] = active[k] \cup {t}
      /\ \A j \in Keys : j # k => items'[j] = items[j] /\ active'[j] = active[j]
      /\ items' \in [Keys -> Seq(Tasks)] /\ active' \in [Keys -> SUBSET Tasks]
      /\ pending' = pending - 1 /\ running' = running + 1
  BY <1>1, <1>2 DEF WorkOK, Start
<1> HIDE DEF q, n, t
<1>5. Distinct'
  <2> SUFFICES ASSUME NEW j \in Keys
               PROVE  /\ Once(items'[j])
                      /\ \A i \in 1..Len(items'[j]) : items'[j][i] \notin active'[j]
    BY DEF Distinct, Once
  <2>1. CASE j # k
    BY <1>4, <2>1 DEF WorkOK, Distinct
  <2>2. CASE j = k
    <3>1. Once(Tail(q)) /\ \A x : In(x, Tail(q)) => x # t
      BY <1>1, <1>3, TailOnce DEF t, q
    <3>2. ASSUME NEW i \in 1..Len(Tail(q)) PROVE Tail(q)[i] \notin active[k] \cup {t}
      <4>1. i + 1 \in 1..n /\ Tail(q)[i] = q[i + 1]
        BY <1>1, <1>2
      <4>2. Tail(q)[i] # t
        BY <3>1 DEF In
      <4> QED
        BY <1>3, <4>1, <4>2
    <3> QED
      BY <1>4, <2>2, <3>1, <3>2
  <2> QED
    BY <2>1, <2>2
<1>6. pending' = Cardinality(WaitingPlaces)' /\ pending' \in 0..MaxPending
  <2>1. WaitingPlaces' = WaitingPlaces \ {<<k, n>>}
    <3> SUFFICES ASSUME NEW j \in Keys, NEW i \in 1..MaxSize
                 PROVE  i <= Len(items'[j]) <=> i <= Len(items[j]) /\ <<j, i>> # <<k, n>>
      BY DEF WaitingPlaces
    <3>1. CASE j # k
      BY <1>4, <3>1
    <3>2. CASE j = k
      <4>1. Len(items'[j]) = n - 1 /\ Len(items[j]) = n
        BY <1>2, <1>4, <3>2 DEF n
      <4>2. i <= n - 1 <=> i <= n /\ i # n
        BY <1>1
      <4> QED
        BY <3>2, <4>1, <4>2
    <3> QED
      BY <3>1, <3>2
  <2>2. <<k, n>> \in WaitingPlaces
    BY <1>1 DEF WaitingPlaces, n
  <2>3. Cardinality(WaitingPlaces \ {<<k, n>>}) = Cardinality(WaitingPlaces) - 1
    BY <2>2, Finite, FS_RemoveElement
  <2>4. Cardinality(WaitingPlaces) # 0
    BY <2>2, Finite, FS_EmptySet
  <2>5. pending = Cardinality(WaitingPlaces) /\ pending \in 0..MaxPending
    BY DEF WorkOK, Counted
  <2>6. Cardinality(WaitingPlaces)' = Cardinality(WaitingPlaces) - 1
    BY <2>1, <2>3
  <2> QED
    BY <1>4, <2>4, <2>5, <2>6, Bounds
<1>7. running' = Cardinality(RunningTasks)' /\ running' \in 0..MaxRunning
  <2>1. RunningTasks' = RunningTasks \cup {<<k, t>>}
    <3> SUFFICES ASSUME NEW j \in Keys, NEW u \in Tasks
                 PROVE  u \in active'[j] <=> u \in active[j] \/ <<j, u>> = <<k, t>>
      BY <1>2 DEF RunningTasks
    <3>1. CASE j = k
      <4>1. <<j, u>> = <<k, t>> <=> u = t
        BY <3>1
      <4> QED
        BY <1>4, <3>1, <4>1
    <3>2. CASE j # k
      BY <1>4, <3>2
    <3> QED
      BY <3>1, <3>2
  <2>2. <<k, t>> \notin RunningTasks
    BY <1>3 DEF RunningTasks
  <2>3. Cardinality(RunningTasks \cup {<<k, t>>}) = Cardinality(RunningTasks) + 1
    BY <2>2, Finite, FS_AddElement
  <2>4. Cardinality(RunningTasks)' = Cardinality(RunningTasks) + 1
    BY <2>1, <2>3
  <2>5. running = Cardinality(RunningTasks) /\ running \in 0..MaxRunning /\ running < MaxRunning
    BY DEF WorkOK, Counted, Budget
  <2> QED
    BY <1>4, <2>4, <2>5, Bounds
<1>8. \A j \in Keys : Len(items'[j]) <= MaxSize /\ Cardinality(active'[j]) <= Concurrency
  <2> TAKE j \in Keys
  <2>1. CASE j # k
    BY <1>4, <2>1 DEF WorkOK
  <2>2. CASE j = k
    <3>1. Len(items'[j]) <= MaxSize
      BY <1>1, <1>2, <1>4, <2>2, Bounds
    <3>2. Cardinality(active[k] \cup {t}) = Cardinality(active[k]) + 1
      BY <1>3, Finite, FS_AddElement
    <3>3. Cardinality(active[k]) \in Nat
      BY Finite
    <3>4. active'[j] = active[k] \cup {t}
      BY <1>4, <2>2
    <3>5. Cardinality(active'[j]) = Cardinality(active[k]) + 1
      BY <3>2, <3>4
    <3>6. Cardinality(active[k]) + 1 <= Concurrency
      BY <1>1, <3>3, Bounds
    <3> QED
      BY <3>1, <3>5, <3>6
  <2> QED
    BY <2>1, <2>2
<1>9. active'[k] # {} /\ items[k] # <<>>
  BY <1>1, <1>4 DEF q
<1> QED
  BY <1>4, <1>5, <1>6, <1>7, <1>8, <1>9 DEF WorkOK, Counted

\* A push adds a task that is nowhere, to a key with room for it.
LEMMA PushKeepsWork ==
  ASSUME TypeOK, WorkOK, Mapped, NEW k \in Keys, NEW t \in Tasks, Push(t, k)
  PROVE  /\ WorkOK' /\ items'[k] # <<>> /\ active' = active
         /\ \A j \in Keys : j # k => items'[j] = items[j]
<1> DEFINE q == items[k]
           n == Len(items[k])
<1>1. /\ q \in Seq(Tasks) /\ n \in Nat
      /\ items' = [items EXCEPT ![k] = Append(@, t)]
      /\ pending' = pending + 1 /\ active' = active /\ running' = running
  BY DEF WorkOK, Push
<1>2. n < MaxSize /\ pending < MaxPending
  <2>1. ~Sheds(k)
    BY DEF Push
  <2>2. pending < MaxPending
    BY <2>1, Bounds DEF Sheds, WorkOK
  <2>3. CASE k \in live
    BY <1>1, <2>1, <2>2, <2>3, Bounds DEF Sheds
  <2>4. CASE k \notin live
    <3>1. items[k] = <<>>
      BY <2>4 DEF Mapped, Idle
    <3>2. n = 0
      BY <3>1
    <3> QED
      BY <2>2, <3>2, Bounds
  <2> QED
    BY <2>3, <2>4
<1>3. /\ items' \in [Keys -> Seq(Tasks)] /\ items'[k] = Append(q, t)
      /\ \A j \in Keys : j # k => items'[j] = items[j]
  BY <1>1 DEF WorkOK
<1>4. ~In(t, q) /\ t \notin active[k]
  <2>1. ~Waiting(t) /\ ~Running(t)
    BY DEF Push
  <2> QED
    BY <1>1, <2>1 DEF Waiting, Running, In
<1>5. /\ Append(q, t) \in Seq(Tasks) /\ Len(Append(q, t)) = n + 1 /\ Append(q, t) # <<>>
      /\ \A i \in 1..n : Append(q, t)[i] = q[i]
      /\ Append(q, t)[n + 1] = t
      /\ Once(q) => Once(Append(q, t))
  BY <1>1, <1>4, AppendOnce
<1> HIDE DEF q, n
<1>6. Distinct'
  <2> SUFFICES ASSUME NEW j \in Keys
               PROVE  /\ Once(items'[j])
                      /\ \A i \in 1..Len(items'[j]) : items'[j][i] \notin active'[j]
    BY DEF Distinct, Once
  <2>1. CASE j # k
    BY <1>1, <1>3, <2>1 DEF WorkOK, Distinct
  <2>2. CASE j = k
    <3>1. Once(q) /\ \A i \in 1..n : q[i] \notin active[k]
      BY DEF WorkOK, Distinct, q, n
    <3>2. \A i \in 1..(n + 1) : i \in 1..n \/ i = n + 1
      BY <1>1
    <3>3. \A i \in 1..(n + 1) : Append(q, t)[i] \notin active[k]
      BY <1>4, <1>5, <3>1, <3>2
    <3> QED
      BY <1>1, <1>3, <1>5, <2>2, <3>1, <3>3
  <2> QED
    BY <2>1, <2>2
<1>7. pending' = Cardinality(WaitingPlaces)' /\ pending' \in 0..MaxPending
  <2>1. WaitingPlaces' = WaitingPlaces \cup {<<k, n + 1>>}
    <3>0. n + 1 \in 1..MaxSize
      BY <1>1, <1>2, Bounds
    <3> SUFFICES ASSUME NEW j \in Keys, NEW i \in 1..MaxSize
                 PROVE  i <= Len(items'[j]) <=> i <= Len(items[j]) \/ <<j, i>> = <<k, n + 1>>
      BY <3>0 DEF WaitingPlaces
    <3>1. CASE j # k
      BY <1>3, <3>1
    <3>2. CASE j = k
      <4>1. Len(items'[j]) = n + 1 /\ Len(items[j]) = n
        BY <1>3, <1>5, <3>2 DEF n
      <4>2. i <= n + 1 <=> i <= n \/ i = n + 1
        BY <1>1
      <4> QED
        BY <3>2, <4>1, <4>2
    <3> QED
      BY <3>1, <3>2
  <2>2. <<k, n + 1>> \notin WaitingPlaces
    <3>1. ~(n + 1 <= n)
      BY <1>1
    <3> QED
      BY <3>1 DEF WaitingPlaces, n
  <2>3. Cardinality(WaitingPlaces \cup {<<k, n + 1>>}) = Cardinality(WaitingPlaces) + 1
    BY <2>2, Finite, FS_AddElement
  <2>4. Cardinality(WaitingPlaces)' = Cardinality(WaitingPlaces) + 1
    BY <2>1, <2>3
  <2>5. pending = Cardinality(WaitingPlaces) /\ pending \in 0..MaxPending
    BY DEF WorkOK, Counted
  <2> QED
    BY <1>1, <1>2, <2>4, <2>5, Bounds
<1>8. running' = Cardinality(RunningTasks)'
  BY <1>1 DEF WorkOK, Counted, RunningTasks
<1>9. \A j \in Keys : Len(items'[j]) <= MaxSize
  <2> TAKE j \in Keys
  <2>1. CASE j # k
    BY <1>3, <2>1 DEF WorkOK
  <2>2. CASE j = k
    BY <1>1, <1>2, <1>3, <1>5, <2>2, Bounds
  <2> QED
    BY <2>1, <2>2
<1>10. items'[k] # <<>>
  BY <1>3, <1>5
<1> QED
  BY <1>1, <1>3, <1>6, <1>7, <1>8, <1>9, <1>10 DEF WorkOK, Counted

\* A task that settles is taken out of the running ones.
LEMMA CompleteKeepsWork ==
  ASSUME WorkOK, NEW k \in Keys, NEW t \in Tasks, Complete(t, k)
  PROVE  /\ WorkOK' /\ items' = items
         /\ \A j \in Keys : j # k => active'[j] = active[j]
         /\ active[k] # {}
         /\ Cardinality(active[k]) < Concurrency => Cardinality(active'[k]) < Concurrency
<1>1. /\ t \in active[k] /\ active' = [active EXCEPT ![k] = @ \ {t}]
      /\ running' = running - 1 /\ items' = items /\ pending' = pending
  BY DEF Complete
<1>2. /\ active' \in [Keys -> SUBSET Tasks] /\ active'[k] = active[k] \ {t}
      /\ \A j \in Keys : j # k => active'[j] = active[j]
  BY <1>1 DEF WorkOK
<1>3. \A j \in Keys : active'[j] \subseteq active[j]
  BY <1>2
<1>4. Distinct'
  BY <1>1, <1>3 DEF WorkOK, Distinct, Once
<1>5. running' = Cardinality(RunningTasks)' /\ running' \in 0..MaxRunning
  <2>1. RunningTasks' = RunningTasks \ {<<k, t>>}
    <3> SUFFICES ASSUME NEW j \in Keys, NEW u \in Tasks
                 PROVE  u \in active'[j] <=> u \in active[j] /\ <<j, u>> # <<k, t>>
      BY DEF RunningTasks
    <3>1. CASE j = k
      <4>1. <<j, u>> = <<k, t>> <=> u = t
        BY <3>1
      <4> QED
        BY <1>2, <3>1, <4>1
    <3>2. CASE j # k
      BY <1>2, <3>2
    <3> QED
      BY <3>1, <3>2
  <2>2. <<k, t>> \in RunningTasks
    BY <1>1 DEF RunningTasks
  <2>3. Cardinality(RunningTasks \ {<<k, t>>}) = Cardinality(RunningTasks) - 1
    BY <2>2, Finite, FS_RemoveElement
  <2>4. Cardinality(RunningTasks) # 0
    BY <2>2, Finite, FS_EmptySet
  <2>5. Cardinality(RunningTasks)' = Cardinality(RunningTasks) - 1
    BY <2>1, <2>3
  <2>6. running = Cardinality(RunningTasks) /\ running \in 0..MaxRunning
    BY DEF WorkOK, Counted
  <2> QED
    BY <1>1, <2>4, <2>5, <2>6, Bounds
<1>6. pending' = Cardinality(WaitingPlaces)'
  BY <1>1 DEF WorkOK, Counted, WaitingPlaces
<1>7. \A j \in Keys : /\ Cardinality(active'[j]) <= Cardinality(active[j])
                     /\ Cardinality(active'[j]) \in Nat /\ Cardinality(active[j]) \in Nat
  <2> TAKE j \in Keys
  <2>1. active'[j] \in SUBSET active[j] /\ IsFiniteSet(active[j])
    BY <1>3, Finite
  <2> QED
    BY <2>1, FS_Subset, FS_CardinalityType
<1>8. \A j \in Keys : Cardinality(active'[j]) <= Concurrency
  BY <1>7, Bounds DEF WorkOK
<1>9. Cardinality(active[k]) < Concurrency => Cardinality(active'[k]) < Concurrency
  BY <1>7, Bounds
<1>10. active[k] # {}
  BY <1>1
<1> QED
  BY <1>1, <1>2, <1>4, <1>5, <1>6, <1>8, <1>9, <1>10 DEF WorkOK, Counted

\* A key that is cleared gives up its waiting tasks, and they are counted out.
LEMMA ClearKeepsWork ==
  ASSUME WorkOK, NEW k \in Keys, ClearKey(k)
  PROVE  /\ WorkOK' /\ active' = active /\ items'[k] = <<>>
         /\ \A j \in Keys : j # k => items'[j] = items[j]
<1> DEFINE n == Len(items[k])
           taken == {k} \X (1..n)
<1>1. /\ items' = [items EXCEPT ![k] = <<>>] /\ pending' = pending - n
      /\ active' = active /\ running' = running
  BY DEF ClearKey, Rejected
<1>2. /\ items' \in [Keys -> Seq(Tasks)] /\ items'[k] = <<>> /\ Len(items'[k]) = 0
      /\ \A j \in Keys : j # k => items'[j] = items[j]
      /\ n \in Nat /\ n <= MaxSize
  BY <1>1 DEF WorkOK
<1> HIDE DEF n
<1>3. Distinct'
  <2> SUFFICES ASSUME NEW j \in Keys
               PROVE  /\ Once(items'[j])
                      /\ \A i \in 1..Len(items'[j]) : items'[j][i] \notin active'[j]
    BY DEF Distinct, Once
  <2>1. CASE j # k
    BY <1>1, <1>2, <2>1 DEF WorkOK, Distinct
  <2>2. CASE j = k
    BY <1>2, <2>2 DEF Once
  <2> QED
    BY <2>1, <2>2
<1>4. pending' = Cardinality(WaitingPlaces)' /\ pending' \in 0..MaxPending
  <2>1. WaitingPlaces' = WaitingPlaces \ taken
    <3> SUFFICES ASSUME NEW j \in Keys, NEW i \in 1..MaxSize
                 PROVE  i <= Len(items'[j]) <=> i <= Len(items[j]) /\ ~(j = k /\ i \in 1..n)
      BY DEF WaitingPlaces
    <3>1. CASE j # k
      BY <1>2, <3>1
    <3>2. CASE j = k
      <4>1. Len(items'[j]) = 0 /\ Len(items[j]) = n
        BY <1>2, <3>2 DEF n
      <4>2. ~(i <= 0) /\ (i <= n => i \in 1..n)
        BY <1>2, Bounds
      <4> QED
        BY <3>2, <4>1, <4>2
    <3> QED
      BY <3>1, <3>2
  <2>2. taken \subseteq WaitingPlaces
    <3>1. \A i \in 1..n : i \in 1..MaxSize /\ i <= n
      BY <1>2, Bounds
    <3> QED
      BY <3>1 DEF WaitingPlaces, n
  <2>3. Cardinality(taken) = n
    <3>1. IsFiniteSet({k}) /\ Cardinality({k}) = 1
      BY FS_Singleton
    <3>2. IsFiniteSet(1..n) /\ Cardinality(1..n) = n
      BY <1>2, FS_Interval
    <3> HIDE DEF n
    <3>3. IsFiniteSet({k}) /\ IsFiniteSet(1..n)
      BY <3>1, <3>2
    <3>4. Cardinality({k} \X (1..n)) = Cardinality({k}) * Cardinality(1..n)
      BY ONLY <3>3, FS_Product
    <3>5. n \in Int
      BY <1>2
    <3>6. Cardinality({k} \X (1..n)) = n
      BY ONLY <3>1, <3>2, <3>4, <3>5
    <3> QED
      BY <3>6
  <2>4. WaitingPlaces \cap taken = taken
    BY <2>2
  <2> HIDE DEF taken
  <2>10. /\ IsFiniteSet(WaitingPlaces \ taken)
         /\ Cardinality(WaitingPlaces \ taken) =
              Cardinality(WaitingPlaces) - Cardinality(WaitingPlaces \cap taken)
    BY Finite, FS_Difference
  <2>5. /\ IsFiniteSet(WaitingPlaces \ taken)
        /\ Cardinality(WaitingPlaces \ taken) = Cardinality(WaitingPlaces) - n
    BY <2>3, <2>4, <2>10
  <2>6. Cardinality(WaitingPlaces \ taken) \in Nat
    BY <2>5, FS_CardinalityType
  <2>7. Cardinality(WaitingPlaces)' = Cardinality(WaitingPlaces) - n
    BY <2>1, <2>5
  <2>8. pending = Cardinality(WaitingPlaces) /\ pending \in 0..MaxPending
    BY DEF WorkOK, Counted
  <2>9. pending - n \in 0..MaxPending
    BY <1>2, <2>5, <2>6, <2>8, Bounds
  <2> QED
    BY <1>1, <2>7, <2>8, <2>9
<1>5. running' = Cardinality(RunningTasks)'
  BY <1>1 DEF WorkOK, Counted, RunningTasks
<1>6. \A j \in Keys : Len(items'[j]) <= MaxSize
  <2> TAKE j \in Keys
  <2>1. CASE j # k
    BY <1>2, <2>1 DEF WorkOK
  <2>2. CASE j = k
    BY <1>2, <2>2, Bounds
  <2> QED
    BY <2>1, <2>2
<1> QED
  BY <1>1, <1>2, <1>3, <1>4, <1>5, <1>6 DEF WorkOK, Counted

-----------------------------------------------------------------------------
(* The steps.                                                              *)

FrameOK ==
  /\ live \subseteq Keys /\ Cardinality(live) <= MaxKeys
  /\ line \in Seq(Keys)
  /\ drains \subseteq Keys
  /\ turn \in [key : Keys, step : {"schedule", "pump", "cleanup"}, settled : BOOLEAN]
              \cup {Rest}
  /\ clearing \subseteq live /\ (turn # Rest => clearing = {})

LEMMA Parts == IInv <=> WorkOK /\ FrameOK /\ Mapped /\ Lined /\ Conserving
BY DEF IInv, TypeOK, WorkOK, FrameOK

LEMMA LiveFinite ==
  ASSUME live \subseteq Keys
  PROVE  IsFiniteSet(live) /\ Cardinality(live) \in Nat
<1>1. IsFiniteSet(Keys) /\ live \in SUBSET Keys
  BY ConstantsAssumption
<1> QED
  BY <1>1, FS_Subset, FS_CardinalityType

LEMMA TurnFacts ==
  ASSUME FrameOK
  PROVE  /\ turn = Rest <=> turn.step = "none"
         /\ turn = Rest => turn.key = None /\ ~turn.settled
         /\ turn.step \in {"none", "schedule", "pump", "cleanup"}
         /\ turn # Rest =>
              /\ turn.key \in Keys /\ turn.settled \in BOOLEAN /\ clearing = {}
              /\ \A st \in {"schedule", "pump", "cleanup"} :
                   [turn EXCEPT !.step = st] =
                     [key |-> turn.key, step |-> st, settled |-> turn.settled]
<1>1. CASE turn = Rest
  BY <1>1 DEF Rest
<1>2. CASE turn # Rest
  <2>1. turn \in [key : Keys, step : {"schedule", "pump", "cleanup"}, settled : BOOLEAN]
    BY <1>2 DEF FrameOK
  <2>2. turn.step # "none" /\ turn.step \in {"schedule", "pump", "cleanup"}
    BY <2>1
  <2>3. turn.key \in Keys /\ turn.settled \in BOOLEAN
    BY <2>1
  <2>4. \A st \in {"schedule", "pump", "cleanup"} :
           [turn EXCEPT !.step = st] =
             [key |-> turn.key, step |-> st, settled |-> turn.settled]
    BY <2>1
  <2> QED
    BY <1>2, <2>2, <2>3, <2>4 DEF FrameOK
<1> QED
  BY <1>1, <1>2

LEMMA PushKeeps ==
  ASSUME IInv, NEW k \in Keys, NEW t \in Tasks, Push(t, k)
  PROVE  IInv'
<1>1. WorkOK /\ FrameOK /\ Mapped /\ Lined /\ Conserving /\ TypeOK
  BY Parts DEF IInv
<1>2. /\ WorkOK' /\ items'[k] # <<>> /\ active' = active
      /\ \A j \in Keys : j # k => items'[j] = items[j]
  BY <1>1, PushKeepsWork
<1>3. /\ turn = Rest /\ clearing = {} /\ ~Sheds(k) /\ live' = live \cup {k}
      /\ turn' = [key |-> k, step |-> "schedule", settled |-> FALSE]
      /\ UNCHANGED <<running, line, drains, clearing>>
  BY DEF Push, AtRest
<1>4. /\ turn'.key = k /\ turn'.step = "schedule" /\ ~turn'.settled /\ turn' # Rest
      /\ turn' \in [key : Keys, step : {"schedule", "pump", "cleanup"}, settled : BOOLEAN]
  BY <1>3 DEF Rest
<1>5. FrameOK'
  <2>1. Cardinality(live') <= MaxKeys
    <3>1. CASE k \in live
      <4>1. live' = live
        BY <1>3, <3>1
      <4> QED
        BY <1>1, <4>1 DEF FrameOK
    <3>2. CASE k \notin live
      <4>1. IsFiniteSet(live) /\ Cardinality(live) \in Nat
        BY <1>1, LiveFinite DEF FrameOK
      <4>2. Cardinality(live') = Cardinality(live) + 1
        BY <1>3, <3>2, <4>1, FS_AddElement
      <4>3. Cardinality(live) < MaxKeys
        BY <1>3, <3>2, <4>1, Bounds DEF Sheds
      <4> QED
        BY <4>1, <4>2, <4>3, Bounds
    <3> QED
      BY <3>1, <3>2
  <2> QED
    BY <1>1, <1>3, <1>4, <2>1 DEF FrameOK
<1>6. \A j \in Keys : j # k => (Idle(j)' <=> Idle(j)) /\ (Startable(j)' <=> Startable(j))
  BY <1>2 DEF Idle, Startable, HasStartable
<1>7. ~Idle(k)' /\ (Startable(k) => Startable(k)')
  BY <1>2 DEF Idle, Startable, HasStartable
<1>8. Mapped'
  <2>1. \A j \in live : ~Idle(j)
    BY <1>1, <1>3 DEF Mapped, Settling, Rest
  <2> QED
    BY <1>1, <1>3, <1>6, <1>7, <2>1 DEF Mapped, FrameOK
<1>9. Lined'
  <2>1. \A j \in Keys : Startable(j) => In(j, line)
    BY <1>1, <1>3 DEF Lined, Unscheduled, Rest
  <2>2. \A j : In(j, line)' <=> In(j, line)
    BY <1>3 DEF In
  <2>3. Once(line)'
    BY <1>1, <1>3 DEF Lined, Once
  <2>4. \A j \in Keys : In(j, line)' => Startable(j)'
    BY <1>1, <1>6, <1>7, <2>2 DEF Lined
  <2>5. \A j \in Keys : Startable(j)' => In(j, line)' \/ Unscheduled(j)'
    BY <1>4, <1>6, <2>1, <2>2 DEF Unscheduled
  <2> QED
    BY <2>3, <2>4, <2>5 DEF Lined
<1>10. Conserving'
  BY <1>4 DEF Conserving
<1> QED
  BY <1>2, <1>5, <1>8, <1>9, <1>10 DEF IInv, TypeOK, WorkOK, FrameOK

LEMMA CompleteKeeps ==
  ASSUME IInv, NEW k \in Keys, NEW t \in Tasks, Complete(t, k)
  PROVE  IInv'
<1>1. WorkOK /\ FrameOK /\ Mapped /\ Lined /\ Conserving
  BY Parts
<1>2. /\ WorkOK' /\ items' = items
      /\ \A j \in Keys : j # k => active'[j] = active[j]
      /\ active[k] # {}
      /\ Cardinality(active[k]) < Concurrency => Cardinality(active'[k]) < Concurrency
  BY <1>1, CompleteKeepsWork
<1>3. /\ turn = Rest /\ clearing = {}
      /\ turn' = [key |-> k, step |-> "schedule", settled |-> TRUE]
      /\ UNCHANGED <<live, line, drains, clearing>>
  BY DEF Complete, AtRest
<1>4. /\ turn'.key = k /\ turn'.step = "schedule" /\ turn'.settled /\ turn' # Rest
      /\ turn' \in [key : Keys, step : {"schedule", "pump", "cleanup"}, settled : BOOLEAN]
  BY <1>3 DEF Rest
<1>5. FrameOK'
  BY <1>1, <1>3, <1>4 DEF FrameOK
<1>6. \A j \in Keys : j # k => (Idle(j)' <=> Idle(j)) /\ (Startable(j)' <=> Startable(j))
  BY <1>2 DEF Idle, Startable, HasStartable
<1>7. ~Idle(k) /\ (Startable(k) => Startable(k)') /\ Settling(k)'
  BY <1>2, <1>4 DEF Idle, Startable, HasStartable, Settling
<1>8. Mapped'
  <2>1. \A j \in live : ~Idle(j)
    BY <1>1, <1>3 DEF Mapped, Settling, Rest
  <2>2. k \in live
    BY <1>1, <1>7 DEF Mapped
  <2> QED
    BY <1>1, <1>3, <1>6, <1>7, <2>1, <2>2 DEF Mapped, FrameOK
<1>9. Lined'
  <2>1. \A j \in Keys : Startable(j) => In(j, line)
    BY <1>1, <1>3 DEF Lined, Unscheduled, Rest
  <2>2. \A j : In(j, line)' <=> In(j, line)
    BY <1>3 DEF In
  <2>3. Once(line)'
    BY <1>1, <1>3 DEF Lined, Once
  <2>4. \A j \in Keys : In(j, line)' => Startable(j)'
    BY <1>1, <1>6, <1>7, <2>2 DEF Lined
  <2>5. \A j \in Keys : Startable(j)' => In(j, line)' \/ Unscheduled(j)'
    BY <1>4, <1>6, <2>1, <2>2 DEF Unscheduled
  <2> QED
    BY <2>3, <2>4, <2>5 DEF Lined
<1>10. Conserving'
  BY <1>4 DEF Conserving
<1> QED
  BY <1>2, <1>5, <1>8, <1>9, <1>10 DEF IInv, TypeOK, WorkOK, FrameOK

\* When nothing of the tasks changed, neither did anything that is said of them.
LEMMA WorkStutter ==
  ASSUME WorkOK, UNCHANGED work
  PROVE  /\ WorkOK' /\ (Budget' <=> Budget)
         /\ \A k \in Keys : (Idle(k)' <=> Idle(k)) /\ (Startable(k)' <=> Startable(k))
BY DEF WorkOK, Distinct, Once, Counted, WaitingPlaces, RunningTasks, Budget, Idle, Startable,
       HasStartable, work

LEMMA ScheduleKeeps ==
  ASSUME IInv, Schedule
  PROVE  IInv'
<1>1. WorkOK /\ FrameOK /\ Mapped /\ Lined /\ Conserving
  BY Parts
<1>13. turn.step = "schedule" /\ turn # Rest /\ turn.key \in Keys
  BY <1>1, TurnFacts DEF Schedule
<1>0. PICK k \in Keys : k = turn.key
  BY <1>13
<1>2. /\ turn.step = "schedule" /\ turn # Rest /\ k \in Keys /\ clearing = {}
      /\ turn' = [key |-> k, step |-> "pump", settled |-> turn.settled]
      /\ turn.settled \in BOOLEAN
  BY <1>0, <1>1, <1>13, TurnFacts DEF Schedule
<1>3. /\ line' = Marked(line, k) /\ UNCHANGED <<live, drains, clearing>>
      /\ IF Shortcut(k) THEN Start(k) ELSE UNCHANGED work
  BY <1>0 DEF Schedule
<1>4. /\ turn'.key = k /\ turn'.step = "pump" /\ turn'.settled = turn.settled
      /\ turn' # Rest
      /\ turn' \in [key : Keys, step : {"schedule", "pump", "cleanup"}, settled : BOOLEAN]
  BY <1>2 DEF Rest
<1>5. /\ line \in Seq(Keys) /\ Once(line)
  BY <1>1 DEF FrameOK, Lined
<1>6. /\ line' \in Seq(Keys) /\ Once(line')
      /\ \A y : In(y, line') <=> In(y, line) \/ (y = k /\ HasStartable(items'[k], active'[k]))
  BY <1>2, <1>3, <1>5, MarkedEffect
<1>7. FrameOK'
  BY <1>1, <1>2, <1>3, <1>4, <1>6 DEF FrameOK
<1>8. /\ WorkOK'
      /\ \A j \in Keys : j # k => (Idle(j)' <=> Idle(j)) /\ (Startable(j)' <=> Startable(j))
      /\ Idle(k)' => Idle(k)
      /\ ~Idle(k)' => ~Idle(k)
      /\ line = <<>> \/ (Startable(k) => Startable(k)')
  <2>1. CASE Shortcut(k)
    <3>1. Startable(k) /\ Budget /\ line = <<>> /\ Start(k)
      BY <1>3, <2>1 DEF Shortcut
    <3>2. /\ WorkOK' /\ active'[k] # {} /\ items[k] # <<>>
          /\ \A j \in Keys : j # k => items'[j] = items[j] /\ active'[j] = active[j]
      BY <1>1, <1>2, <3>1, StartKeeps
    <3> QED
      BY <3>1, <3>2 DEF Idle, Startable, HasStartable
  <2>2. CASE ~Shortcut(k)
    BY <1>1, <1>2, <1>3, <2>2, WorkStutter
  <2> QED
    BY <2>1, <2>2
<1>9. \A j \in Keys : Settling(j) => Settling(j)'
  BY <1>0, <1>4 DEF Settling
<1>10. Mapped'
  <2>1. drains' \subseteq live'
    BY <1>1, <1>3 DEF Mapped
  <2>2. \A j \in Keys : ~Idle(j)' => j \in live'
    BY <1>1, <1>3, <1>8 DEF Mapped
  <2>3. \A j \in live' : Idle(j)' => Settling(j)'
    BY <1>1, <1>3, <1>8, <1>9 DEF Mapped, FrameOK
  <2> QED
    BY <2>1, <2>2, <2>3 DEF Mapped
<1>11. Lined'
  <2>1. \A j : In(j, line)' <=> In(j, line')
    BY DEF In
  <2>2. HasStartable(items'[k], active'[k]) <=> Startable(k)'
    BY DEF Startable, HasStartable
  <2>3. Once(line)'
    BY <1>6 DEF Once
  <2>4. \A j : In(j, line) => line # <<>>
    BY <1>5 DEF In
  <2>5. \A j \in Keys : In(j, line)' => Startable(j)'
    BY <1>1, <1>6, <1>8, <2>1, <2>2, <2>4 DEF Lined
  <2>6. \A j \in Keys : Startable(j)' => In(j, line)'
    <3> SUFFICES ASSUME NEW j \in Keys, Startable(j)' PROVE In(j, line)'
      OBVIOUS
    <3>1. CASE j = k
      BY <1>6, <2>1, <2>2, <3>1
    <3>2. CASE j # k
      <4>1. Startable(j) /\ ~Unscheduled(j)
        BY <1>0, <1>8, <3>2 DEF Unscheduled
      <4>2. In(j, line)
        BY <1>1, <4>1 DEF Lined
      <4> QED
        BY <1>6, <2>1, <4>2
    <3> QED
      BY <3>1, <3>2
  <2> QED
    BY <2>3, <2>5, <2>6 DEF Lined
<1>12. Conserving'
  BY <1>4 DEF Conserving
<1> QED
  BY <1>7, <1>8, <1>10, <1>11, <1>12 DEF IInv, TypeOK, WorkOK, FrameOK

LEMMA PumpRoundKeeps ==
  ASSUME IInv, PumpRound
  PROVE  IInv'
<1>1. WorkOK /\ FrameOK /\ Mapped /\ Lined /\ Conserving
  BY Parts
<1>2. turn.step = "pump" /\ Budget /\ line # <<>> /\ UNCHANGED <<live, drains, turn, clearing>>
  BY DEF PumpRound
<1>14. Head(line) \in Keys
  BY <1>1, <1>2, TailPlaces DEF FrameOK
<1>0. PICK k \in Keys : k = Head(line)
  BY <1>14
<1>3. /\ line \in Seq(Keys) /\ Once(line) /\ Tail(line) \in Seq(Keys)
      /\ k \in Keys /\ In(k, line)
  <2>1. line \in Seq(Keys) /\ Once(line)
    BY <1>1 DEF FrameOK, Lined
  <2>2. /\ Len(line) \in Nat /\ Len(line) >= 1 /\ k = line[1] /\ line[1] \in Keys
        /\ Tail(line) \in Seq(Keys)
    BY <1>0, <1>2, <2>1, TailPlaces
  <2>3. 1 \in 1..Len(line)
    BY <2>2
  <2> QED
    BY <2>1, <2>2, <2>3 DEF In
<1>4. Startable(k) /\ ~Idle(k) /\ k \in live
  <2>1. Startable(k)
    BY <1>1, <1>3 DEF Lined
  <2>2. ~Idle(k)
    BY <2>1 DEF Startable, HasStartable, Idle
  <2> QED
    BY <1>1, <1>3, <2>1, <2>2 DEF Mapped
<1>5. Start(k) /\ line' = Marked(Tail(line), k)
  BY <1>0, <1>4 DEF PumpRound
<1>6. /\ Once(Tail(line))
      /\ \A x : In(x, Tail(line)) <=> In(x, line) /\ x # k
  BY <1>0, <1>2, <1>3, TailOnce
<1>7. /\ line' \in Seq(Keys) /\ Once(line')
      /\ \A y : In(y, line') <=>
                  In(y, Tail(line)) \/ (y = k /\ HasStartable(items'[k], active'[k]))
  BY <1>3, <1>5, <1>6, MarkedEffect
<1>8. /\ WorkOK' /\ active'[k] # {} /\ items[k] # <<>>
      /\ \A j \in Keys : j # k => items'[j] = items[j] /\ active'[j] = active[j]
  BY <1>1, <1>2, <1>3, <1>4, <1>5, StartKeeps
<1>9. /\ ~Idle(k)'
      /\ \A j \in Keys : j # k => (Idle(j)' <=> Idle(j)) /\ (Startable(j)' <=> Startable(j))
      /\ HasStartable(items'[k], active'[k]) <=> Startable(k)'
  BY <1>8 DEF Idle, Startable, HasStartable
<1>10. FrameOK'
  BY <1>1, <1>2, <1>7 DEF FrameOK
<1>11. Mapped'
  <2>1. drains' \subseteq live'
    BY <1>1, <1>2 DEF Mapped
  <2>2. \A j \in Keys : ~Idle(j)' => j \in live'
    BY <1>1, <1>2, <1>4, <1>9 DEF Mapped
  <2>3. \A j \in live' : Idle(j)' => Settling(j)'
    BY <1>1, <1>2, <1>9 DEF Mapped, FrameOK, Settling
  <2> QED
    BY <2>1, <2>2, <2>3 DEF Mapped
<1>12. Lined'
  <2>1. \A j : In(j, line)' <=> In(j, line')
    BY DEF In
  <2>2. Once(line)'
    BY <1>7 DEF Once
  <2>3. \A j \in Keys : In(j, line)' => Startable(j)'
    BY <1>1, <1>6, <1>7, <1>9, <2>1 DEF Lined
  <2>4. \A j \in Keys : Startable(j)' => In(j, line)'
    BY <1>1, <1>2, <1>6, <1>7, <1>9, <2>1 DEF Lined, Unscheduled
  <2> QED
    BY <2>2, <2>3, <2>4 DEF Lined
<1>13. Conserving'
  BY <1>2 DEF Conserving
<1> QED
  BY <1>8, <1>10, <1>11, <1>12, <1>13 DEF IInv, TypeOK, WorkOK, FrameOK

LEMMA PumpEndsKeeps ==
  ASSUME IInv, PumpEnds
  PROVE  IInv'
<1>1. WorkOK /\ FrameOK /\ Mapped /\ Lined /\ Conserving
  BY Parts
<1>2. /\ turn.step = "pump" /\ ~(Budget /\ line # <<>>)
      /\ UNCHANGED <<live, work, line, drains, clearing>>
      /\ turn' = IF turn.settled THEN [turn EXCEPT !.step = "cleanup"] ELSE Rest
  BY DEF PumpEnds
<1>3. turn # Rest /\ turn.key \in Keys /\ clearing = {}
  BY <1>1, <1>2, TurnFacts DEF Rest
<1>4. /\ turn' \in [key : Keys, step : {"schedule", "pump", "cleanup"}, settled : BOOLEAN]
                    \cup {Rest}
      /\ turn'.step \in {"none", "cleanup"}
      /\ \A j \in Keys : Settling(j) => Settling(j)'
  <2>1. CASE turn.settled
    <3>1. turn' = [key |-> turn.key, step |-> "cleanup", settled |-> turn.settled]
      BY <1>1, <1>2, <1>3, <2>1, TurnFacts
    <3> QED
      BY <1>3, <2>1, <3>1 DEF Settling
  <2>2. CASE ~turn.settled
    BY <1>2, <2>2 DEF Settling, Rest
  <2> QED
    BY <2>1, <2>2
<1>5. /\ WorkOK' /\ (Budget' <=> Budget)
      /\ \A j \in Keys : (Idle(j)' <=> Idle(j)) /\ (Startable(j)' <=> Startable(j))
  BY <1>1, <1>2, WorkStutter
<1>6. FrameOK'
  BY <1>1, <1>2, <1>3, <1>4 DEF FrameOK
<1>7. Mapped'
  BY <1>1, <1>2, <1>4, <1>5 DEF Mapped, FrameOK
<1>8. Lined'
  <2>1. Once(line)' /\ \A j : In(j, line)' <=> In(j, line)
    BY <1>1, <1>2 DEF Lined, Once, In
  <2>2. \A j \in Keys : Startable(j) => In(j, line)
    BY <1>1, <1>2 DEF Lined, Unscheduled
  <2> QED
    BY <1>1, <1>5, <2>1, <2>2 DEF Lined
<1>9. Conserving'
  BY <1>2, <1>5 DEF Conserving
<1> QED
  BY <1>5, <1>6, <1>7, <1>8, <1>9 DEF IInv, TypeOK, WorkOK, FrameOK

\* An idle key leaves the map with its drains, and no other key does.
LEMMA LeaveMapEffect ==
  ASSUME FrameOK, WorkOK', drains \subseteq live, NEW k \in live, LeaveMap(k)
  PROVE  /\ live' \subseteq live /\ live' \subseteq Keys /\ Cardinality(live') <= MaxKeys
         /\ \A j \in live : j # k => j \in live'
         /\ k \in live' <=> ~Idle(k)'
         /\ drains' \subseteq live'
<1>1. /\ live' = live \ {j \in live \cap {k} : items'[j] = <<>> /\ active'[j] = {}}
      /\ drains' = drains \ {j \in live \cap {k} : items'[j] = <<>> /\ active'[j] = {}}
  BY DEF LeaveMap, ResolveDrains
<1>2. live \subseteq Keys /\ Cardinality(live) <= MaxKeys
  BY DEF FrameOK
<1>3. Idle(k)' <=> items'[k] = <<>> /\ active'[k] = {}
  BY DEF Idle
<1>4. Cardinality(live') <= MaxKeys
  <2>1. IsFiniteSet(live) /\ Cardinality(live) \in Nat /\ live' \in SUBSET live
    BY <1>1, <1>2, LiveFinite
  <2>2. Cardinality(live') <= Cardinality(live) /\ Cardinality(live') \in Nat
    BY <2>1, FS_Subset, FS_CardinalityType
  <2> QED
    BY <1>2, <2>1, <2>2, Bounds
<1> QED
  BY <1>1, <1>2, <1>3, <1>4

LEMMA CleanupKeeps ==
  ASSUME IInv, Cleanup
  PROVE  IInv'
<1>1. WorkOK /\ FrameOK /\ Mapped /\ Lined /\ Conserving
  BY Parts
<1>2. /\ turn.step = "cleanup" /\ UNCHANGED <<work, clearing>> /\ turn' = Rest
      /\ LeaveMap(turn.key)
      /\ line' = IF Idle(turn.key) THEN Unlinked(line, turn.key) ELSE line
  BY DEF Cleanup
<1>3. turn # Rest /\ turn.key \in Keys /\ clearing = {}
  BY <1>1, <1>2, TurnFacts DEF Rest
<1>4. PICK k \in Keys : k = turn.key
  BY <1>3
<1>5. /\ WorkOK' /\ (Budget' <=> Budget)
      /\ \A j \in Keys : (Idle(j)' <=> Idle(j)) /\ (Startable(j)' <=> Startable(j))
  BY <1>1, <1>2, WorkStutter
<1>6. /\ line' \in Seq(Keys) /\ Once(line') /\ (line = <<>> => line' = <<>>)
      /\ \A j \in Keys : In(j, line') <=> In(j, line)
  <2>1. line \in Seq(Keys) /\ Once(line)
    BY <1>1 DEF FrameOK, Lined
  <2>2. CASE Idle(k)
    <3>1. ~In(k, line)
      BY <1>1, <2>2 DEF Lined, Idle, Startable, HasStartable
    <3>2. line' = Unlinked(line, k)
      BY <1>2, <1>4, <2>2
    <3> QED
      BY <2>1, <3>1, <3>2, UnlinkedEffect
  <2>3. CASE ~Idle(k)
    BY <1>2, <1>4, <2>1, <2>3
  <2> QED
    BY <2>2, <2>3
<1>7. /\ live' \subseteq live /\ live' \subseteq Keys /\ Cardinality(live') <= MaxKeys
      /\ \A j \in live : j # k => j \in live'
      /\ k \in live' => ~Idle(k)
      /\ ~Idle(k) => k \in live'
      /\ drains' \subseteq live'
  <2>1. drains \subseteq live
    BY <1>1 DEF Mapped
  <2>2. LeaveMap(k)
    BY <1>2, <1>4
  <2>3. CASE k \in live
    BY <1>1, <1>5, <2>1, <2>2, <2>3, LeaveMapEffect
  <2>4. CASE k \notin live
    <3>1. Idle(k)
      BY <1>1, <2>4 DEF Mapped
    <3>2. live' = live /\ drains' = drains
      BY <2>2, <2>4 DEF LeaveMap, ResolveDrains
    <3> QED
      BY <1>1, <2>1, <2>4, <3>1, <3>2 DEF FrameOK
  <2> QED
    BY <2>3, <2>4
<1>8. FrameOK'
  BY <1>2, <1>3, <1>6, <1>7 DEF FrameOK, Mapped
<1>9. Mapped'
  <2>1. \A j \in Keys : ~Idle(j)' => j \in live'
    BY <1>1, <1>5, <1>7 DEF Mapped
  <2>2. \A j \in live' : ~Idle(j)'
    <3> SUFFICES ASSUME NEW j \in live' PROVE ~Idle(j)'
      OBVIOUS
    <3>1. CASE j = k
      BY <1>5, <1>7, <3>1
    <3>2. CASE j # k
      <4>1. ~Settling(j)
        BY <1>4, <3>2 DEF Settling
      <4> QED
        BY <1>1, <1>5, <1>7, <4>1 DEF Mapped, FrameOK
    <3> QED
      BY <3>1, <3>2
  <2> QED
    BY <1>7, <2>1, <2>2 DEF Mapped
<1>10. Lined'
  <2>1. Once(line)' /\ \A j \in Keys : In(j, line)' <=> In(j, line)
    BY <1>6 DEF Once, In
  <2>2. \A j \in Keys : Startable(j) => In(j, line)
    BY <1>1, <1>2 DEF Lined, Unscheduled
  <2> QED
    BY <1>1, <1>5, <2>1, <2>2 DEF Lined
<1>11. Conserving'
  BY <1>1, <1>2, <1>5, <1>6 DEF Conserving
<1> QED
  BY <1>5, <1>8, <1>9, <1>10, <1>11 DEF IInv, TypeOK, WorkOK, FrameOK

LEMMA ClearKeyKeeps ==
  ASSUME IInv, turn = Rest, NEW k \in live, ClearKey(k), clearing' \subseteq live \ {k}
  PROVE  IInv'
<1>1. WorkOK /\ FrameOK /\ Mapped /\ Lined /\ Conserving /\ k \in Keys
  BY Parts DEF FrameOK
<1>2. /\ WorkOK' /\ active' = active /\ items'[k] = <<>>
      /\ \A j \in Keys : j # k => items'[j] = items[j]
  BY <1>1, ClearKeepsWork
<1>3. /\ line' = Unlinked(line, k) /\ running' = running /\ turn' = Rest /\ LeaveMap(k)
  BY DEF ClearKey, PlaceLeft
<1>4. /\ line' \in Seq(Keys) /\ Once(line') /\ (line = <<>> => line' = <<>>)
      /\ \A j : In(j, line') <=> In(j, line) /\ j # k
  BY <1>1, <1>3, UnlinkedEffect DEF FrameOK, Lined
<1>5. /\ live' \subseteq live /\ live' \subseteq Keys /\ Cardinality(live') <= MaxKeys
      /\ \A j \in live : j # k => j \in live'
      /\ k \in live' <=> ~Idle(k)'
      /\ drains' \subseteq live'
  BY <1>1, <1>2, <1>3, LeaveMapEffect DEF Mapped
<1>6. /\ \A j \in Keys : j # k => (Idle(j)' <=> Idle(j)) /\ (Startable(j)' <=> Startable(j))
      /\ ~Startable(k)'
  BY <1>2 DEF Idle, Startable, HasStartable
<1>7. FrameOK'
  BY <1>1, <1>3, <1>4, <1>5 DEF FrameOK
<1>8. Mapped'
  <2>1. \A j \in live : ~Idle(j)
    BY <1>1 DEF Mapped, Settling, Rest
  <2>2. \A j \in live' : ~Idle(j)'
    BY <1>5, <1>6, <2>1
  <2>3. \A j \in Keys : ~Idle(j)' => j \in live'
    BY <1>1, <1>5, <1>6 DEF Mapped
  <2> QED
    BY <1>5, <2>2, <2>3 DEF Mapped
<1>9. Lined'
  <2>1. Once(line)' /\ \A j : In(j, line)' <=> In(j, line')
    BY <1>4 DEF Once, In
  <2>2. \A j \in Keys : Startable(j) => In(j, line)
    BY <1>1 DEF Lined, Unscheduled, Rest
  <2>3. \A j \in Keys : In(j, line)' => Startable(j)'
    BY <1>1, <1>4, <1>6, <2>1 DEF Lined
  <2>4. \A j \in Keys : Startable(j)' => In(j, line)'
    BY <1>4, <1>6, <2>1, <2>2
  <2> QED
    BY <2>1, <2>3, <2>4 DEF Lined
<1>10. Conserving'
  <2>1. line = <<>> \/ ~Budget
    BY <1>1 DEF Conserving, Rest
  <2> QED
    BY <1>3, <1>4, <2>1 DEF Conserving, Budget
<1> QED
  BY <1>2, <1>7, <1>8, <1>9, <1>10 DEF IInv, TypeOK, WorkOK, FrameOK

LEMMA DrainKeeps ==
  ASSUME IInv, NEW ks \in SUBSET live, Drain(ks)
  PROVE  IInv'
<1>1. WorkOK /\ FrameOK /\ Mapped /\ Lined /\ Conserving
  BY Parts
<1>2. /\ drains' = drains \cup {k \in ks : ~Idle(k)}
      /\ UNCHANGED <<live, work, line, turn, clearing>>
  BY DEF Drain
<1>3. /\ WorkOK' /\ (Budget' <=> Budget)
      /\ \A j \in Keys : (Idle(j)' <=> Idle(j)) /\ (Startable(j)' <=> Startable(j))
  BY <1>1, <1>2, WorkStutter
<1>4. drains' \subseteq live
  BY <1>1, <1>2 DEF Mapped
<1>5. FrameOK'
  BY <1>1, <1>2, <1>4 DEF FrameOK
<1>6. Mapped'
  BY <1>1, <1>2, <1>3, <1>4 DEF Mapped, FrameOK, Settling
<1>7. Lined'
  BY <1>1, <1>2, <1>3 DEF Lined, Once, In, Unscheduled
<1>8. Conserving'
  BY <1>1, <1>2, <1>3 DEF Conserving
<1> QED
  BY <1>3, <1>5, <1>6, <1>7, <1>8 DEF IInv, TypeOK, WorkOK, FrameOK

LEMMA StutterKeeps ==
  ASSUME IInv, UNCHANGED vars
  PROVE  IInv'
BY DEF IInv, TypeOK, Distinct, Counted, Mapped, Lined, Conserving, Once, In, Idle, Settling,
       Startable, HasStartable, Unscheduled, Budget, WaitingPlaces, RunningTasks, vars, work

LEMMA InitIInv == Init => IInv
<1> SUFFICES ASSUME Init PROVE IInv
  OBVIOUS
<1>1. /\ live = {} /\ line = <<>> /\ pending = 0 /\ running = 0 /\ drains = {}
      /\ items = [k \in Keys |-> <<>>] /\ active = [k \in Keys |-> {}]
      /\ turn = Rest /\ clearing = {}
  BY DEF Init
<1>2. Cardinality({}) = 0
  BY FS_EmptySet
<1>3. \A k \in Keys : items[k] = <<>> /\ Len(items[k]) = 0 /\ active[k] = {}
  BY <1>1
<1>4. WaitingPlaces = {} /\ RunningTasks = {}
  <2>1. \A i \in 1..MaxSize : ~(i <= 0)
    BY Bounds
  <2> QED
    BY <1>3, <2>1 DEF WaitingPlaces, RunningTasks
<1>5. TypeOK
  <2>1. items \in [Keys -> Seq(Tasks)] /\ active \in [Keys -> SUBSET Tasks]
    BY <1>1
  <2>2. \A k \in Keys : Len(items[k]) <= MaxSize /\ Cardinality(active[k]) <= Concurrency
    <3>1. \A k \in Keys : Len(items[k]) = 0 /\ Cardinality(active[k]) = 0
      BY <1>2, <1>3
    <3> QED
      BY <3>1, Bounds
  <2>3. pending \in 0..MaxPending /\ running \in 0..MaxRunning /\ line \in Seq(Keys)
    BY <1>1, Bounds
  <2>4. Cardinality(live) <= MaxKeys
    BY <1>1, <1>2, Bounds
  <2> QED
    BY <1>1, <2>1, <2>2, <2>3, <2>4 DEF TypeOK
<1>6. Distinct
  BY <1>3 DEF Distinct, Once
<1>7. Counted
  BY <1>1, <1>2, <1>4 DEF Counted
<1>8. Mapped /\ Lined
  <2>1. \A k \in Keys : Idle(k) /\ ~Startable(k)
    BY <1>3 DEF Idle, Startable, HasStartable
  <2>2. Len(line) = 0
    BY <1>1
  <2> QED
    BY <1>1, <2>1, <2>2 DEF Mapped, Lined, Once, In
<1>9. Conserving
  BY <1>1 DEF Conserving
<1> QED
  BY <1>5, <1>6, <1>7, <1>8, <1>9 DEF IInv

LEMMA NextIInv == IInv /\ [Next]_vars => IInv'
<1> SUFFICES ASSUME IInv, [Next]_vars PROVE IInv'
  OBVIOUS
<1>0. FrameOK
  BY Parts
<1>1. ASSUME NEW k \in Keys, NEW t \in Tasks, Push(t, k) PROVE IInv'
  BY <1>1, PushKeeps
<1>2. ASSUME NEW k \in Keys, NEW t \in Tasks, Complete(t, k) PROVE IInv'
  BY <1>2, CompleteKeeps
<1>3. CASE Schedule \/ PumpRound \/ PumpEnds \/ Cleanup
  BY <1>3, ScheduleKeeps, PumpRoundKeeps, PumpEndsKeeps, CleanupKeeps
<1>4. CASE ClearGoesOn
  <2>1. PICK k \in clearing : ClearKey(k) /\ clearing' = clearing \ {k}
    BY <1>4 DEF ClearGoesOn
  <2>2. turn = Rest /\ k \in live /\ clearing' \subseteq live \ {k}
    BY <1>0, <2>1 DEF FrameOK
  <2> QED
    BY <2>1, <2>2, ClearKeyKeeps
<1>5. ASSUME NEW ks \in {{k} : k \in live} \cup {live}, Clear(ks) \/ Drain(ks) PROVE IInv'
  <2>1. ks \in SUBSET live
    OBVIOUS
  <2>2. CASE Clear(ks)
    <3>1. PICK k \in ks : ClearKey(k) /\ clearing' = ks \ {k}
      BY <2>2 DEF Clear
    <3>2. turn = Rest /\ k \in live /\ clearing' \subseteq live \ {k}
      BY <2>1, <2>2, <3>1 DEF Clear, AtRest
    <3> QED
      BY <3>1, <3>2, ClearKeyKeeps
  <2> QED
    BY <1>5, <2>1, <2>2, DrainKeeps
<1>6. CASE UNCHANGED vars
  BY <1>6, StutterKeeps
<1> QED
  BY <1>1, <1>2, <1>3, <1>4, <1>5, <1>6 DEF Next

LEMMA SpecIInv == Spec => []IInv
BY InitIInv, NextIInv, PTL DEF Spec

-----------------------------------------------------------------------------
(* The theorems.                                                           *)

\* Type correctness: no key, no backlog and no budget outgrows the bound the plugin was
\* given for it, in the middle of a call included.
THEOREM TypeCorrect == Spec => []TypeOK
<1>1. IInv => TypeOK
  BY DEF IInv
<1> QED
  BY <1>1, SpecIInv, PTL

\* Between two calls the service line names exactly the keys with startable work, once.
THEOREM LineCorrect == Spec => []LineExact
<1>1. IInv => LineExact
  <2> SUFFICES ASSUME IInv, AtRest PROVE LineExact
    BY DEF LineExact
  <2>1. WorkOK /\ FrameOK /\ Mapped /\ Lined /\ turn = Rest
    BY Parts DEF AtRest
  <2>2. line \in Seq(Keys) /\ DOMAIN line = 1..Len(line)
    BY <2>1 DEF FrameOK
  <2>3. \A k \in Keys : InLine(k) <=> In(k, line)
    BY <2>2 DEF InLine, In
  <2>4. \A k \in Keys : In(k, line) <=> Startable(k)
    BY <2>1 DEF Lined, Unscheduled, Rest
  <2>5. \A k \in Keys : Startable(k) => k \in live
    BY <2>1 DEF Mapped, Idle, Startable, HasStartable
  <2>6. live \subseteq Keys
    BY <2>1 DEF FrameOK
  <2>7. {k \in Keys : InLine(k)} = {k \in live : Startable(k)}
    BY <2>3, <2>4, <2>5, <2>6
  <2> QED
    BY <2>1, <2>2, <2>7 DEF LineExact, Lined, Once
<1> QED
  BY <1>1, SpecIInv, PTL

\* No task that could start waits while the running budget has room.
THEOREM Conserves == Spec => []WorkConserving
<1>1. IInv => WorkConserving
  <2> SUFFICES ASSUME IInv, AtRest, NEW k \in Keys, Startable(k) PROVE ~Budget
    BY DEF WorkConserving
  <2>1. FrameOK /\ Lined /\ Conserving /\ turn = Rest
    BY Parts DEF AtRest
  <2>2. In(k, line)
    BY <2>1 DEF Lined, Unscheduled, Rest
  <2>3. line # <<>>
    BY <2>2 DEF In
  <2> QED
    BY <2>1, <2>3 DEF Conserving, Rest
<1> QED
  BY <1>1, SpecIInv, PTL

\* The counters that bound the backlog and the running tasks are exact, the map holds
\* exactly the keys with work, and every drain waits for a key that will resolve it.
THEOREM CountsCorrect == Spec => []CountersExact
<1>1. IInv => CountersExact
  <2> SUFFICES ASSUME IInv, AtRest PROVE CountersExact
    BY DEF CountersExact
  <2>1. FrameOK /\ WorkOK /\ Mapped /\ turn = Rest
    BY Parts DEF AtRest
  <2>2. \A k \in live : ~Idle(k)
    BY <2>1 DEF Mapped, Settling, Rest
  <2>3. live = {k \in Keys : ~Idle(k)}
    BY <2>1, <2>2 DEF Mapped, FrameOK
  <2> QED
    BY <2>1, <2>3 DEF CountersExact, WorkOK, Counted, Mapped
<1> QED
  BY <1>1, SpecIInv, PTL

\* A key starts a task only when no other key is ahead of it in the service line.
THEOREM NobodyJumps == Spec => NoQueueJumping
<1>1. IInv /\ [Next]_vars =>
        [\A k \in Keys : active'[k] \ active[k] # {} => line = <<>> \/ Head(line) = k]_vars
  <2> SUFFICES ASSUME IInv, Next, NEW k \in Keys, active'[k] \ active[k] # {}
               PROVE  line = <<>> \/ Head(line) = k
    OBVIOUS
  <2>1. WorkOK
    BY Parts
  <2>2. ASSUME NEW j \in Keys, j # k, Start(j) PROVE FALSE
    BY <2>1, <2>2 DEF Start, WorkOK
  <2>3. active' # active
    OBVIOUS
  <2>4. CASE Schedule
    <3>1. Shortcut(turn.key)
      BY <2>3, <2>4 DEF Schedule, work
    <3> QED
      BY <3>1 DEF Shortcut
  <2>5. CASE PumpRound
    <3>1. line # <<>> /\ line \in Seq(Keys) /\ Start(Head(line))
      BY <2>3, <2>5, Parts DEF PumpRound, FrameOK, work
    <3>2. Head(line) \in Keys
      BY <3>1, TailPlaces
    <3> QED
      BY <2>2, <3>1, <3>2
  <2>6. ASSUME NEW j \in Keys, NEW t \in Tasks, Complete(t, j) PROVE FALSE
    <3>1. active'[k] \subseteq active[k]
      BY <2>1, <2>6 DEF Complete, WorkOK
    <3> QED
      BY <3>1
  <2>7. ASSUME NEW j \in Keys, NEW t \in Tasks, Push(t, j) PROVE FALSE
    BY <2>3, <2>7 DEF Push
  <2>8. CASE PumpEnds \/ Cleanup
    BY <2>3, <2>8 DEF PumpEnds, Cleanup, work
  <2>9. CASE ClearGoesOn
    BY <2>3, <2>9 DEF ClearGoesOn, ClearKey
  <2>10. ASSUME NEW ks, Clear(ks) \/ Drain(ks) PROVE FALSE
    BY <2>3, <2>10 DEF Clear, ClearKey, Drain, work
  <2> QED
    BY <2>4, <2>5, <2>6, <2>7, <2>8, <2>9, <2>10 DEF Next
<1> QED
  BY <1>1, SpecIInv, PTL DEF Spec, NoQueueJumping
=============================================================================
