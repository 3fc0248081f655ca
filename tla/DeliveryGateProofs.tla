-------------------------- MODULE DeliveryGateProofs --------------------------
(***************************************************************************)
(* Proofs about DeliveryGate, for any finite set of sockets, any bound on  *)
(* what a socket may hold and either answer to an overflow.                *)
(*                                                                         *)
(* The inductive invariant adds to the types and the exact counts          *)
(*   Phases   what each phase of a backlog says of its queue, its head's   *)
(*            verdict and the operation under way;                         *)
(*   Ordered  the frames a socket holds are numbered in the order they     *)
(*            were offered, above what was sent and up to the newest;      *)
(*   Barred   a socket that was refused a frame and is still open has a    *)
(*            failed backlog, and its close is among the deferred work of  *)
(*            the operation under way.                                     *)
(***************************************************************************)
EXTENDS DeliveryGate, FiniteSetTheorems, TLAPS

Sorted(q, lo, hi) ==
  /\ lo <= hi
  /\ \A i \in 1..Len(q) : lo <= q[i].n /\ q[i].n <= hi
  /\ \A i, j \in 1..Len(q) : i <= j => q[i].n <= q[j].n

Closes(q, s) == \E i \in 1..Len(q) : q[i].op = "refusedEnd" /\ q[i].s = s

Phases ==
  /\ ~busy => work = <<>>
  /\ \A s \in Sockets :
       /\ gate[s] \in {"none", "failed"} => queue[s] = <<>>
       /\ Held(s) => armed
       /\ gate[s] = "pumping" => busy
       /\ ready[s] => gate[s] = "pumping"
       /\ ready[s] /\ ~Full(s) => fresh[s]

Offered == \A i \in 1..Len(work) : IsFrame(work[i]) => work[i].n = next

Ordered == Offered /\ \A s \in Sockets : Sorted(queue[s], sent[s], next)

Barred ==
  \A s \in Sockets : refused[s] /\ native[s] = "open" =>
    /\ busy /\ armed /\ gate[s] = "failed"
    /\ Closes(work, s) \/ Closes(jobs, s)

IInv == TypeOK /\ HeldIsBounded /\ EndingsExact /\ Phases /\ Ordered /\ Barred

-----------------------------------------------------------------------------
(* Queues of frames and of operations.                                     *)

\* What the policy issues is a sequence of operations.
LEMMA NestedType ==
  ASSUME NEW nested \in Nested
  PROVE  nested \in Seq(Item)
<1>1. \A op \in {"app", "control", "end"}, s \in Sockets : Do(op, s) \in Item
  BY DEF Do, Item, Ops
<1>2. CASE nested = <<>>
  BY <1>2
<1>3. CASE nested # <<>>
  <2>1. PICK op \in {"app", "control", "end"}, s \in Sockets : nested = <<Do(op, s)>>
    BY <1>3 DEF Nested
  <2> QED
    BY <1>1, <2>1
<1> QED
  BY <1>2, <1>3

\* The close that a refusal defers is an operation.
LEMMA CloseType ==
  ASSUME NEW s \in Sockets, NEW op \in {"refusedEnd", "overflowClose", "end"}
  PROVE  /\ Do(op, s) \in Item
         /\ <<Do(op, s)>> \in Seq(Item)
         /\ Do(op, s).op = op /\ Do(op, s).s = s
BY DEF Do, Item, Ops

\* A queue that loses its head stays in order, above that head.
LEMMA TailSorted ==
  ASSUME NEW q \in Seq(Item), q # <<>>, NEW lo \in Nat, NEW hi \in Nat, Sorted(q, lo, hi)
  PROVE  /\ Tail(q) \in Seq(Item) /\ Len(Tail(q)) = Len(q) - 1
         /\ Head(q) \in Item /\ Head(q).n \in Nat
         /\ lo <= Head(q).n
         /\ Sorted(Tail(q), Head(q).n, hi)
         /\ Sorted(Tail(q), lo, hi)
<1>1. /\ Len(q) \in Nat /\ Len(q) >= 1
      /\ Tail(q) \in Seq(Item) /\ Len(Tail(q)) = Len(q) - 1
      /\ Head(q) = q[1] /\ q[1] \in Item
      /\ \A i \in 1..Len(Tail(q)) : Tail(q)[i] = q[i + 1]
  OBVIOUS
<1>2. q[1].n \in Nat
  BY <1>1 DEF Item
<1>3. /\ lo <= q[1].n /\ q[1].n <= hi
      /\ \A i \in 1..Len(q) : q[1].n <= q[i].n /\ q[i].n <= hi /\ lo <= q[i].n
  BY <1>1 DEF Sorted
<1>4. \A i, j \in 1..Len(Tail(q)) : i <= j => Tail(q)[i].n <= Tail(q)[j].n
  <2>1. TAKE i, j \in 1..Len(Tail(q))
  <2>2. HAVE i <= j
  <2>3. i + 1 \in 1..Len(q) /\ j + 1 \in 1..Len(q) /\ i + 1 <= j + 1
    BY <1>1, <2>2
  <2>4. q[i + 1].n <= q[j + 1].n
    BY <2>3 DEF Sorted
  <2> QED
    BY <1>1, <2>4
<1>5. \A i \in 1..Len(Tail(q)) :
        q[1].n <= Tail(q)[i].n /\ Tail(q)[i].n <= hi /\ lo <= Tail(q)[i].n
  <2>1. TAKE i \in 1..Len(Tail(q))
  <2>2. i + 1 \in 1..Len(q)
    BY <1>1
  <2> QED
    BY <1>1, <1>3, <2>2
<1>6. lo <= hi
  BY DEF Sorted
<1> QED
  BY <1>1, <1>2, <1>3, <1>4, <1>5, <1>6 DEF Sorted

\* The newest frame may join any queue.
LEMMA AppendSorted ==
  ASSUME NEW q \in Seq(Item), NEW item \in Item, NEW lo \in Nat, Sorted(q, lo, item.n)
  PROVE  /\ Append(q, item) \in Seq(Item) /\ Len(Append(q, item)) = Len(q) + 1
         /\ Sorted(Append(q, item), lo, item.n)
<1> DEFINE r == Append(q, item)
<1>1. /\ Len(q) \in Nat
      /\ r \in Seq(Item) /\ Len(r) = Len(q) + 1
      /\ r[Len(q) + 1] = item
      /\ \A i \in 1..Len(q) : r[i] = q[i]
  OBVIOUS
<1>2. item.n \in Nat /\ lo <= item.n
  BY DEF Item, Sorted
<1>3. \A i \in 1..Len(r) : i \in 1..Len(q) \/ i = Len(q) + 1
  BY <1>1
<1> HIDE DEF r
<1>4. \A i \in 1..Len(r) : lo <= r[i].n /\ r[i].n <= item.n
  BY <1>1, <1>2, <1>3 DEF Sorted
<1>5. \A i, j \in 1..Len(r) : i <= j => r[i].n <= r[j].n
  <2>1. TAKE i, j \in 1..Len(r)
  <2>2. HAVE i <= j
  <2>3. CASE j = Len(q) + 1
    BY <1>1, <1>4, <2>3
  <2>4. CASE j \in 1..Len(q)
    <3>1. i \in 1..Len(q)
      BY <1>1, <2>2, <2>4
    <3> QED
      BY <1>1, <2>2, <2>4, <3>1 DEF Sorted
  <2> QED
    BY <1>3, <2>3, <2>4
<1> QED
  BY <1>1, <1>2, <1>4, <1>5 DEF r, Sorted

\* Order does not depend on how many frames came since.
LEMMA RaiseSorted ==
  ASSUME NEW q \in Seq(Item), NEW lo \in Nat, NEW hi \in Nat, NEW top \in Nat,
         Sorted(q, lo, hi), hi <= top
  PROVE  Sorted(q, lo, top)
<1>1. \A i \in 1..Len(q) : q[i] \in Item
  OBVIOUS
<1>2. \A i \in 1..Len(q) : q[i].n \in Nat
  BY <1>1 DEF Item
<1> QED
  BY <1>2 DEF Sorted

\* A queue with nothing in it.
LEMMA EmptySorted ==
  ASSUME NEW lo \in Nat, NEW hi \in Nat, lo <= hi
  PROVE  Sorted(<<>>, lo, hi)
BY DEF Sorted

\* A deferred close stays deferred until its turn comes.
LEMMA ClosesTail ==
  ASSUME NEW q \in Seq(Item), q # <<>>, NEW s, Closes(q, s)
  PROVE  \/ Head(q).op = "refusedEnd" /\ Head(q).s = s
         \/ Closes(Tail(q), s)
<1>1. PICK i \in 1..Len(q) : q[i].op = "refusedEnd" /\ q[i].s = s
  BY DEF Closes
<1>2. CASE i = 1
  BY <1>1, <1>2
<1>3. CASE i # 1
  <2>1. i - 1 \in 1..Len(Tail(q)) /\ Tail(q)[i - 1] = q[i]
    BY <1>1, <1>3
  <2> QED
    BY <1>1, <2>1 DEF Closes
<1> QED
  BY <1>2, <1>3

LEMMA ClosesConcat ==
  ASSUME NEW q \in Seq(Item), NEW r \in Seq(Item), NEW s, Closes(q, s) \/ Closes(r, s)
  PROVE  q \o r \in Seq(Item) /\ Closes(q \o r, s)
<1>1. /\ Len(q) \in Nat /\ Len(r) \in Nat
      /\ q \o r \in Seq(Item) /\ Len(q \o r) = Len(q) + Len(r)
      /\ \A i \in 1..Len(q) : (q \o r)[i] = q[i]
      /\ \A i \in 1..Len(r) : (q \o r)[Len(q) + i] = r[i]
  OBVIOUS
<1>2. CASE Closes(q, s)
  <2>1. PICK i \in 1..Len(q) : q[i].op = "refusedEnd" /\ q[i].s = s
    BY <1>2 DEF Closes
  <2>2. i \in 1..Len(q \o r)
    BY <1>1
  <2> QED
    BY <1>1, <2>1, <2>2 DEF Closes
<1>3. CASE Closes(r, s)
  <2>1. PICK i \in 1..Len(r) : r[i].op = "refusedEnd" /\ r[i].s = s
    BY <1>3 DEF Closes
  <2>2. Len(q) + i \in 1..Len(q \o r)
    BY <1>1
  <2> QED
    BY <1>1, <2>1, <2>2 DEF Closes
<1> QED
  BY <1>1, <1>2, <1>3

LEMMA ClosesOne ==
  ASSUME NEW s \in Sockets
  PROVE  Closes(<<Do("refusedEnd", s)>>, s)
BY CloseType DEF Closes

-----------------------------------------------------------------------------
(* What the writes change.                                                 *)

\* A frame reaches an open socket's transport, and no other socket's.
LEMMA TransmitEffect ==
  ASSUME TypeOK, NEW s \in Sockets, NEW n \in Nat, Transmit(s, n)
  PROVE  /\ sent' \in [Sockets -> Nat] /\ fresh' \in [Sockets -> BOOLEAN]
         /\ buf' \in [Sockets -> {"empty", "full", "flushed"}]
         /\ \A t \in Sockets : t # s =>
              sent'[t] = sent[t] /\ fresh'[t] = fresh[t] /\ buf'[t] = buf[t]
         /\ sent'[s] # sent[s] => native[s] = "open" /\ sent'[s] = n
<1>1. CASE native[s] = "open" /\ sent' # sent
  <2>1. /\ sent' = [sent EXCEPT ![s] = n] /\ fresh' = [fresh EXCEPT ![s] = FALSE]
        /\ \E b \in {buf[s], "full"} : buf' = [buf EXCEPT ![s] = b]
    BY <1>1 DEF Transmit
  <2>2. PICK b \in {"empty", "full", "flushed"} : buf' = [buf EXCEPT ![s] = b]
    BY <2>1 DEF TypeOK
  <2> QED
    BY <1>1, <2>1, <2>2 DEF TypeOK
<1>2. CASE sent' = sent
  <2>1. /\ (fresh' = fresh \/ fresh' = [fresh EXCEPT ![s] = FALSE])
        /\ \E b \in {"empty", "full", "flushed"} :
             buf' = buf \/ buf' = [buf EXCEPT ![s] = b]
    BY DEF TypeOK, Transmit
  <2>2. PICK b \in {"empty", "full", "flushed"} :
             buf' = buf \/ buf' = [buf EXCEPT ![s] = b]
    BY <2>1
  <2>3. buf' \in [Sockets -> {"empty", "full", "flushed"}]
        /\ \A t \in Sockets : t # s => buf'[t] = buf[t]
    <3>1. buf \in [Sockets -> {"empty", "full", "flushed"}]
      BY DEF TypeOK
    <3>2. CASE buf' = buf
      BY <3>1, <3>2
    <3>3. CASE buf' = [buf EXCEPT ![s] = b]
      BY <3>1, <3>3
    <3> QED
      BY <2>2, <3>2, <3>3
  <2>4. fresh' \in [Sockets -> BOOLEAN] /\ \A t \in Sockets : t # s => fresh'[t] = fresh[t]
    BY <2>1 DEF TypeOK
  <2> QED
    BY <1>2, <2>3, <2>4 DEF TypeOK
<1> QED
  BY <1>1, <1>2 DEF Transmit

\* The socket's backlog is emptied, and no other's.
LEMMA ReleaseEffect ==
  ASSUME TypeOK, NEW s \in Sockets, NEW phase \in {"none", "failed"}, Release(s, phase)
  PROVE  /\ gate' \in [Sockets -> {"none", "open", "pumping", "waiting", "failed"}]
         /\ queue' \in [Sockets -> Seq(Item)]
         /\ ready' \in [Sockets -> BOOLEAN] /\ ending' \in [Sockets -> BOOLEAN]
         /\ gate'[s] = phase /\ queue'[s] = <<>> /\ ~ready'[s] /\ ~ending'[s]
         /\ \A t \in Sockets : t # s =>
              /\ gate'[t] = gate[t] /\ queue'[t] = queue[t]
              /\ ready'[t] = ready[t] /\ ending'[t] = ending[t]
BY DEF TypeOK, Release

\* A release settles the end that waited for the held frames, once.
LEMMA ReleaseCounts ==
  ASSUME TypeOK, EndingsExact,
         NEW s \in Sockets, NEW phase \in {"none", "failed"}, Release(s, phase)
  PROVE  EndingsExact' /\ endings' \in Nat /\ waiters' \in BOOLEAN
<1> DEFINE E == {t \in Sockets : ending[t]}
<1>1. IsFiniteSet(E) /\ Cardinality(E) \in Nat /\ endings = Cardinality(E)
  BY ConstantsAssumption, FS_Subset, FS_CardinalityType DEF EndingsExact
<1>2. {t \in Sockets : ending'[t]} = E \ {s}
  BY ReleaseEffect
<1>3. \A t \in Sockets : ending'[t] => Held(t)'
  BY ReleaseEffect DEF EndingsExact, Held
<1>4. endings' = IF ending[s] THEN endings - 1 ELSE endings
  BY DEF Release, SettleEnding
<1>5. waiters' = (waiters /\ ~(ending[s] /\ endings = 1))
  BY DEF Release, SettleEnding
<1>6. waiters => endings > 0
  BY DEF EndingsExact
<1>7. waiters \in BOOLEAN /\ waiters' \in BOOLEAN
  BY <1>5 DEF TypeOK
<1>8. CASE ending[s]
  <2>1. s \in E /\ E # {}
    BY <1>8
  <2>2. Cardinality(E \ {s}) = Cardinality(E) - 1
    BY <1>1, <2>1, FS_RemoveElement
  <2>3. Cardinality(E) # 0
    BY <1>1, <2>1, FS_EmptySet
  <2>4. endings' = Cardinality(E \ {s}) /\ endings' \in Nat
    BY <1>1, <1>4, <1>8, <2>2, <2>3
  <2>5. waiters' => endings # 1
    BY <1>5, <1>8
  <2>6. waiters' => endings' > 0
    BY <1>1, <1>4, <1>8, <2>3, <2>5
  <2> QED
    BY <1>2, <1>3, <1>7, <2>4, <2>6 DEF EndingsExact
<1>9. CASE ~ending[s]
  <2>1. E \ {s} = E
    BY <1>9
  <2>2. endings' = endings /\ (waiters' => waiters)
    BY <1>4, <1>5, <1>9
  <2> QED
    BY <1>1, <1>2, <1>3, <1>6, <1>7, <2>1, <2>2 DEF EndingsExact
<1> QED
  BY <1>8, <1>9

\* A held frame joins its own socket's backlog, which is open or opens.
LEMMA HoldEffect ==
  ASSUME TypeOK, NEW item \in Item, NEW phase \in {"open", "waiting"}, Hold(item, phase)
  PROVE  /\ gate' \in [Sockets -> {"none", "open", "pumping", "waiting", "failed"}]
         /\ queue' \in [Sockets -> Seq(Item)]
         /\ item.s \in Sockets /\ item.n \in Nat
         /\ queue'[item.s] = Append(queue[item.s], item)
         /\ gate'[item.s] = (IF gate[item.s] = "none" THEN phase ELSE gate[item.s])
         /\ \A t \in Sockets : t # item.s => gate'[t] = gate[t] /\ queue'[t] = queue[t]
         /\ UNCHANGED <<ready, ending>>
<1>1. item.s \in Sockets /\ item.n \in Nat
  BY DEF Item
<1>2. Append(queue[item.s], item) \in Seq(Item)
  BY <1>1 DEF TypeOK
<1> QED
  BY <1>1, <1>2 DEF TypeOK, Hold

\* The head leaves a queue, whatever becomes of it.
LEMMA HandOverEffect ==
  ASSUME TypeOK, NEW s \in Sockets, queue[s] # <<>>, HandOver(s)
  PROVE  /\ gate' \in [Sockets -> {"none", "open", "pumping", "waiting", "failed"}]
         /\ queue' \in [Sockets -> Seq(Item)] /\ ready' \in [Sockets -> BOOLEAN]
         /\ Head(queue[s]) \in Item /\ Head(queue[s]).n \in Nat
         /\ Transmit(s, Head(queue[s]).n)
         /\ queue'[s] = Tail(queue[s]) /\ ~ready'[s] /\ gate'[s] \in {"open", "pumping"}
         /\ gate'[s] = "pumping" \/ Len(queue[s]) > 1
         /\ \A t \in Sockets : t # s =>
              gate'[t] = gate[t] /\ queue'[t] = queue[t] /\ ready'[t] = ready[t]
         /\ UNCHANGED <<native, ending, endVars, orphans, refused>>
<1>1. queue[s] \in Seq(Item)
  BY DEF TypeOK
<1>2. Head(queue[s]) \in Item /\ Tail(queue[s]) \in Seq(Item)
  BY <1>1
<1>3. Head(queue[s]).n \in Nat
  BY <1>2 DEF Item
<1> QED
  BY <1>2, <1>3 DEF TypeOK, HandOver

\* The frame or operation that is admitted next.
LEMMA WorkHead ==
  ASSUME TypeOK, work # <<>>
  PROVE  /\ Head(work) \in Item /\ Head(work).s \in Sockets /\ Head(work).n \in Nat
         /\ Head(work).op \in Ops /\ Head(work) = work[1]
         /\ Tail(work) \in Seq(Item) /\ Len(Tail(work)) = Len(work) - 1
         /\ Len(work) \in Nat \ {0}
         /\ \A i \in 1..Len(Tail(work)) : i + 1 \in 1..Len(work) /\ Tail(work)[i] = work[i + 1]
<1>1. work \in Seq(Item)
  BY DEF TypeOK
<1>2. Head(work) \in Item
  BY <1>1
<1>3. Head(work).s \in Sockets /\ Head(work).n \in Nat /\ Head(work).op \in Ops
  BY <1>2 DEF Item
<1> QED
  BY <1>1, <1>2, <1>3

\* Deferring operations keeps the types, and the closes that were deferred.
LEMMA JobsEffect ==
  ASSUME TypeOK, NEW r \in Seq(Item)
  PROVE  /\ jobs \o r \in Seq(Item)
         /\ \A s : Closes(jobs, s) \/ Closes(r, s) => Closes(jobs \o r, s)
<1>1. jobs \in Seq(Item)
  BY DEF TypeOK
<1> QED
  BY <1>1, ClosesConcat

-----------------------------------------------------------------------------
(* Steps that leave most of the state alone.                               *)

\* Ends are counted from the backlogs alone.
LEMMA EndingsStutter ==
  ASSUME EndingsExact, UNCHANGED <<ending, endings, waiters>>,
         \A s \in Sockets : Held(s) => Held(s)'
  PROVE  EndingsExact'
BY DEF EndingsExact

\* Offering new frames leaves the order of the held ones.
LEMMA OrderedRaised ==
  ASSUME TypeOK, Ordered, UNCHANGED <<queue, sent>>, next' \in Nat, next' >= next, Offered'
  PROVE  Ordered'
<1>1. \A s \in Sockets : Sorted(queue[s], sent[s], next')
  BY RaiseSorted DEF TypeOK, Ordered
<1> QED
  BY <1>1 DEF Ordered

\* Nothing but the deferred closes changed of what a refusal rests on.
LEMMA BarredStutter ==
  ASSUME Barred, UNCHANGED <<armed, busy, refused>>,
         \A s \in Sockets : native'[s] = "open" => native[s] = "open",
         \A s \in Sockets : gate[s] = "failed" => gate'[s] = "failed",
         \A s \in Sockets : native'[s] = "open" /\ (Closes(work, s) \/ Closes(jobs, s))
           => Closes(work', s) \/ Closes(jobs', s)
  PROVE  Barred'
BY DEF Barred, Closes

\* No socket is refused and open between two operations.
LEMMA QuietBarred ==
  ASSUME Barred, ~busy
  PROVE  \A s \in Sockets : refused[s] => native[s] # "open"
BY DEF Barred

\* Between two operations no backlog is pumping and no head is decided.
LEMMA QuietPhases ==
  ASSUME Phases, ~busy
  PROVE  work = <<>> /\ \A s \in Sockets : gate[s] # "pumping" /\ ~ready[s]
BY DEF Phases

-----------------------------------------------------------------------------
(* Operations begin.                                                       *)

LEMMA EndKeeps ==
  ASSUME IInv, NEW s \in Sockets, End(s)
  PROVE  IInv'
<1> USE DEF IInv
<1>1. TypeOK'
  BY CloseType DEF TypeOK, End, Start, backlog, endVars, history
<1>2. HeldIsBounded' /\ EndingsExact' /\ Phases'
  BY DEF HeldIsBounded, EndingsExact, Phases, Held, Full, End, Start, backlog, endVars, history
<1>3. Ordered'
  <2>1. Offered'
    BY DEF Offered, IsFrame, End, Start, Do
  <2>2. UNCHANGED <<queue, sent, next>> /\ next \in Nat
    BY DEF TypeOK, End, Start, backlog, history
  <2> QED
    BY <2>1, <2>2, OrderedRaised
<1>4. Barred'
  BY QuietBarred DEF Barred, End, Start, history
<1> QED
  BY <1>1, <1>2, <1>3, <1>4

LEMMA SendKeeps ==
  ASSUME IInv, NEW s \in Sockets, NEW op \in Ops, Send(op, s)
  PROVE  IInv'
<1> USE DEF IInv
<1>1. [op |-> op, s |-> s, n |-> next + 1] \in Item
  BY DEF TypeOK, Item
<1>2. TypeOK'
  BY <1>1 DEF TypeOK, Send, Start, backlog, endVars, history
<1>3. HeldIsBounded' /\ EndingsExact' /\ Phases'
  BY DEF HeldIsBounded, EndingsExact, Phases, Held, Full, Send, Start, backlog, endVars, history
<1>4. Ordered'
  <2>1. Offered'
    BY DEF Offered, Send, Start
  <2>2. UNCHANGED <<queue, sent>> /\ next' \in Nat /\ next' >= next
    BY DEF TypeOK, Send, Start, backlog, history
  <2> QED
    BY <2>1, <2>2, OrderedRaised
<1>5. Barred'
  BY QuietBarred DEF Barred, Send, Start, history
<1> QED
  BY <1>2, <1>3, <1>4, <1>5

LEMMA PublishKeeps ==
  ASSUME IInv, NEW first \in Sockets, NEW second \in Sockets, Publish(first, second)
  PROVE  IInv'
<1> USE DEF IInv
<1> DEFINE Frame(s) == [op |-> "app", s |-> s, n |-> next + 1]
<1>1. Frame(first) \in Item /\ Frame(second) \in Item
  BY DEF TypeOK, Item, Ops
<1>2. work' = <<Frame(first), Frame(second)>>
  BY DEF Publish, Start
<1>3. TypeOK'
  BY <1>1, <1>2 DEF TypeOK, Publish, Start, backlog, endVars, history
<1>4. HeldIsBounded' /\ EndingsExact' /\ Phases'
  BY DEF HeldIsBounded, EndingsExact, Phases, Held, Full, Publish, Start, backlog, endVars, history
<1>5. Ordered'
  <2>1. Offered'
    BY <1>2 DEF Offered, Publish
  <2>2. UNCHANGED <<queue, sent>> /\ next' \in Nat /\ next' >= next
    BY DEF TypeOK, Publish, Start, backlog, history
  <2> QED
    BY <2>1, <2>2, OrderedRaised
<1>6. Barred'
  BY QuietBarred DEF Barred, Publish, Start, history
<1> QED
  BY <1>3, <1>4, <1>5, <1>6

LEMMA SendUnarmedKeeps ==
  ASSUME IInv, NEW s \in Sockets, SendUnarmed(s)
  PROVE  IInv'
<1> USE DEF IInv
<1>1. /\ ~busy /\ ~armed /\ next' = next + 1 /\ next + 1 \in Nat
      /\ Transmit(s, next + 1)
      /\ UNCHANGED <<armed, busy, work, jobs, native, gate, queue, ready, ending,
                     endings, waiters, orphans, refused>>
  BY DEF TypeOK, SendUnarmed, backlog, endVars
<1>2. TypeOK'
  BY <1>1, TransmitEffect DEF TypeOK
<1>3. HeldIsBounded' /\ EndingsExact'
  BY <1>1 DEF HeldIsBounded, EndingsExact, Held
<1>4. \A t \in Sockets : ~ready[t] /\ queue[t] = <<>>
  BY <1>1, QuietPhases DEF Phases, TypeOK, Held
<1>5. Phases'
  BY <1>1, <1>4, QuietPhases DEF Phases, Held
<1>6. Ordered'
  <2>1. Offered'
    BY <1>1, QuietPhases DEF Offered
  <2>2. \A t \in Sockets : sent'[t] \in Nat /\ sent'[t] <= next'
    <3>1. \A t \in Sockets : sent'[t] = sent[t] \/ sent'[t] = next + 1
      BY <1>1, TransmitEffect
    <3>2. next \in Nat /\ \A t \in Sockets : sent[t] \in Nat /\ sent[t] <= next
      BY DEF TypeOK, Ordered, Sorted
    <3>3. next' = next + 1
      BY <1>1
    <3> QED
      BY <3>1, <3>2, <3>3
  <2>3. next' \in Nat
    BY <1>1
  <2>4. \A t \in Sockets : Sorted(<<>>, sent'[t], next')
    BY <2>2, <2>3, EmptySorted
  <2> QED
    BY <1>1, <1>4, <2>1, <2>4 DEF Ordered
<1>7. Barred'
  BY <1>1, QuietBarred DEF Barred
<1> QED
  BY <1>2, <1>3, <1>5, <1>6, <1>7

-----------------------------------------------------------------------------
(* Releases, refusals and closes.                                          *)

\* Emptying a queue leaves what is held in order.
LEMMA OrderedEmptied ==
  ASSUME TypeOK, Ordered, UNCHANGED <<sent, next>>, Offered',
         \A s \in Sockets : queue'[s] = queue[s] \/ queue'[s] = <<>>
  PROVE  Ordered'
<1>1. \A s \in Sockets : sent[s] \in Nat /\ next \in Nat /\ sent[s] <= next
  BY DEF TypeOK, Ordered, Sorted
<1>2. \A s \in Sockets : Sorted(<<>>, sent[s], next)
  BY <1>1, EmptySorted
<1> QED
  BY <1>2 DEF Ordered

\* The newest frame may be sent to a socket that holds none.
LEMMA OrderedSent ==
  ASSUME TypeOK, Ordered, UNCHANGED <<queue, next>>, Offered',
         \A s \in Sockets : sent'[s] = sent[s] \/ (sent'[s] = next /\ queue[s] = <<>>)
  PROVE  Ordered'
<1>1. next \in Nat
  BY DEF TypeOK
<1>2. Sorted(<<>>, next, next)
  BY <1>1, EmptySorted
<1> QED
  BY <1>2 DEF Ordered

\* A released backlog holds nothing, so nothing is asked of its phase.
LEMMA ReleaseKeeps ==
  ASSUME TypeOK, HeldIsBounded, Phases,
         NEW s \in Sockets, NEW phase \in {"none", "failed"}, Release(s, phase),
         UNCHANGED armed, busy => busy', ~busy' => work' = <<>>,
         \A t \in Sockets : t # s => fresh'[t] = fresh[t] /\ buf'[t] = buf[t]
  PROVE  HeldIsBounded' /\ Phases'
<1>1. HeldIsBounded'
  <2>1. Len(queue'[s]) = 0
    BY ReleaseEffect
  <2>2. 0 <= MaxPending + 1
    BY ConstantsAssumption
  <2> QED
    BY <2>1, <2>2, ReleaseEffect DEF HeldIsBounded
<1>2. Phases'
  <2>1. /\ gate' \in [Sockets -> {"none", "open", "pumping", "waiting", "failed"}]
        /\ gate'[s] = phase /\ queue'[s] = <<>> /\ ~ready'[s] /\ ~ending'[s]
        /\ \A t \in Sockets : t # s =>
             /\ gate'[t] = gate[t] /\ queue'[t] = queue[t]
             /\ ready'[t] = ready[t] /\ ending'[t] = ending[t]
    BY ReleaseEffect
  <2> QED
    BY <2>1 DEF Phases, Held, Full
<1> QED
  BY <1>1, <1>2

\* The close that a refusal defers is due before the socket is barred.
LEMMA FailBarred ==
  ASSUME TypeOK, Barred, NEW s \in Sockets, Fail(s), armed, busy', UNCHANGED <<armed, native>>,
         \A t \in Sockets :
           t = s \/ Closes(work, t) \/ Closes(jobs, t) => Closes(work', t) \/ Closes(jobs', t)
  PROVE  Barred'
<1>1. Release(s, "failed") /\ refused' = [refused EXCEPT ![s] = TRUE]
  BY DEF Fail
<1>2. gate'[s] = "failed" /\ \A t \in Sockets : t # s => gate'[t] = gate[t]
  BY <1>1, ReleaseEffect
<1>3. \A t \in Sockets : t # s => refused'[t] = refused[t]
  BY <1>1 DEF TypeOK
<1> QED
  BY <1>2, <1>3 DEF Barred, Closes

\* The close event of a socket.
LEMMA GoneEffect ==
  ASSUME TypeOK, NEW s \in Sockets, Gone(s)
  PROVE  /\ Release(s, "none")
         /\ native' \in [Sockets -> {"open", "ending", "closed"}]
         /\ buf' \in [Sockets -> {"empty", "full", "flushed"}]
         /\ fresh' \in [Sockets -> BOOLEAN]
         /\ native'[s] = "closed"
         /\ \A t \in Sockets : t # s =>
              native'[t] = native[t] /\ fresh'[t] = fresh[t] /\ buf'[t] = buf[t]
BY DEF TypeOK, Gone

LEMMA GoneBarred ==
  ASSUME TypeOK, Barred, NEW s \in Sockets, Gone(s), UNCHANGED <<armed, busy, refused>>,
         \A t \in Sockets :
           Closes(work, t) \/ Closes(jobs, t) => Closes(work', t) \/ Closes(jobs', t)
  PROVE  Barred'
<1>1. native'[s] # "open" /\ \A t \in Sockets : t # s => native'[t] = native[t]
  BY GoneEffect
<1>2. \A t \in Sockets : t # s => gate'[t] = gate[t]
  BY GoneEffect, ReleaseEffect
<1> QED
  BY <1>1, <1>2 DEF Barred, Closes

\* Ending a socket, whatever state it is in.
LEMMA EndNativeEffect ==
  ASSUME TypeOK, NEW s \in Sockets, EndNative(s)
  PROVE  /\ native' \in [Sockets -> {"open", "ending", "closed"}]
         /\ native'[s] # "open"
         /\ \A t \in Sockets : t # s => native'[t] = native[t]
BY DEF TypeOK, EndNative

-----------------------------------------------------------------------------
(* admit.                                                                  *)

\* The next frame leaves the operation under way; it is the newest one.
LEMMA AdmittingEffect ==
  ASSUME TypeOK, Offered, Admitting(Head(work))
  PROVE  /\ busy /\ UNCHANGED <<armed, busy, next>> /\ work' \in Seq(Item)
         /\ Head(work) \in Item /\ Head(work).s \in Sockets
         /\ Head(work).n \in Nat /\ Head(work).op \in Ops
         /\ IsFrame(Head(work)) => Head(work).n = next
         /\ Offered'
         /\ \A s \in Sockets : gate[s] # "pumping"
         /\ \A s \in Sockets : Closes(work, s) =>
              Closes(work', s) \/ (Head(work).op = "refusedEnd" /\ Head(work).s = s)
<1>1. work # <<>> /\ work' = Tail(work) /\ work \in Seq(Item)
  BY DEF TypeOK, Admitting
<1>2. busy /\ UNCHANGED <<armed, busy, next>> /\ \A s \in Sockets : gate[s] # "pumping"
  BY DEF Admitting, Pumping
<1>3. IsFrame(Head(work)) => Head(work).n = next
  BY <1>1, WorkHead DEF Offered
<1>4. Offered'
  BY <1>1, <1>2, WorkHead DEF Offered, IsFrame
<1> QED
  BY <1>1, <1>2, <1>3, <1>4, WorkHead, ClosesTail

LEMMA AdmitUncheckedKeeps ==
  ASSUME IInv, AdmitUnchecked(Head(work))
  PROVE  IInv'
<1> USE DEF IInv
<1> DEFINE s == Head(work).s
           n == Head(work).n
<1>1. /\ Admitting(Head(work)) /\ IsFrame(Head(work)) /\ Unguarded(Head(work))
      /\ Transmit(s, n)
      /\ UNCHANGED <<jobs, native, gate, queue, ready, ending, endings, waiters, orphans, refused>>
  BY DEF AdmitUnchecked, backlog, endVars
<1>2. /\ busy /\ UNCHANGED <<armed, busy, next>> /\ work' \in Seq(Item)
      /\ s \in Sockets /\ n = next /\ n \in Nat /\ Offered'
      /\ \A t \in Sockets : gate[t] # "pumping"
      /\ \A t \in Sockets : Closes(work, t) => Closes(work', t)
  BY <1>1, AdmittingEffect DEF Ordered, IsFrame
<1> HIDE DEF s, n
<1>3. TypeOK'
  BY <1>1, <1>2, TransmitEffect DEF TypeOK
<1>4. HeldIsBounded' /\ EndingsExact'
  BY <1>1 DEF HeldIsBounded, EndingsExact, Held
<1>5. Phases'
  BY <1>1, <1>2 DEF Phases, Held
<1>6. Ordered'
  <2>1. sent'[s] # sent[s] => queue[s] = <<>>
    <3>1. HAVE sent'[s] # sent[s]
    <3>2. native[s] = "open"
      BY <1>1, <1>2, <3>1, TransmitEffect
    <3>3. ~armed \/ gate[s] = "none"
      BY <1>1, <3>2 DEF Unguarded, s
    <3> QED
      BY <1>2, <3>3 DEF Phases, Held, TypeOK
  <2>2. \A t \in Sockets : sent'[t] = sent[t] \/ (sent'[t] = next /\ queue[t] = <<>>)
    BY <1>1, <1>2, <2>1, TransmitEffect
  <2> QED
    BY <1>1, <1>2, <2>2, OrderedSent
<1>7. Barred'
  BY <1>1, <1>2, BarredStutter
<1> QED
  BY <1>3, <1>4, <1>5, <1>6, <1>7

\* The frame that joins a backlog is the newest of all.
LEMMA HoldKeeps ==
  ASSUME TypeOK, HeldIsBounded, EndingsExact, Phases, Ordered,
         NEW item \in Item, NEW phase \in {"open", "waiting"}, Hold(item, phase),
         armed, busy, gate[item.s] # "failed", Len(queue[item.s]) <= MaxPending,
         item.n = next, Offered',
         UNCHANGED <<armed, busy, next, sent, buf, fresh, endings, waiters>>
  PROVE  HeldIsBounded' /\ EndingsExact' /\ Phases' /\ Ordered'
<1> DEFINE s == item.s
<1>1. /\ s \in Sockets /\ queue'[s] = Append(queue[s], item)
      /\ gate'[s] = (IF gate[s] = "none" THEN phase ELSE gate[s])
      /\ \A t \in Sockets : t # s => gate'[t] = gate[t] /\ queue'[t] = queue[t]
      /\ UNCHANGED <<ready, ending>>
  BY HoldEffect
<1>2. queue[s] \in Seq(Item) /\ sent[s] \in Nat
  BY <1>1 DEF TypeOK
<1>3. Sorted(queue[s], sent[s], item.n)
  BY <1>1 DEF Ordered
<1>4. Len(Append(queue[s], item)) = Len(queue[s]) + 1
      /\ Sorted(Append(queue[s], item), sent[s], item.n)
  BY <1>2, <1>3, AppendSorted
<1> HIDE DEF s
<1>5. HeldIsBounded'
  <2>1. Len(queue[s]) + 1 <= MaxPending + 1
    BY <1>2, ConstantsAssumption DEF s
  <2> QED
    BY <1>1, <1>4, <2>1 DEF HeldIsBounded
<1>6. EndingsExact'
  BY <1>1, EndingsStutter DEF Held
<1>7. Phases'
  BY <1>1 DEF Phases, Held, Full, s
<1>8. Ordered'
  BY <1>1, <1>4 DEF Ordered
<1> QED
  BY <1>5, <1>6, <1>7, <1>8

LEMMA AdmitHeldKeeps ==
  ASSUME IInv, AdmitHeld(Head(work))
  PROVE  IInv'
<1> USE DEF IInv
<1> DEFINE item == Head(work)
           s == item.s
<1>1. /\ Admitting(item) /\ IsFrame(item) /\ ~Unguarded(item)
      /\ gate[s] # "none" \/ Full(s)
      /\ UNCHANGED <<native, buf, endings, waiters, orphans, sent, fresh, refused>>
  BY DEF AdmitHeld, Behind, endVars, history
<1>2. /\ busy /\ UNCHANGED <<armed, busy, next>> /\ work' \in Seq(Item)
      /\ item \in Item /\ s \in Sockets /\ item.n = next /\ Offered'
      /\ \A t \in Sockets : gate[t] # "pumping"
      /\ \A t \in Sockets : Closes(work, t) => Closes(work', t)
  BY <1>1, AdmittingEffect DEF Ordered, IsFrame
<1>3. armed
  BY <1>1 DEF Unguarded
<1>4. CASE Refuses(s) \/ Overflows(s)
  <2>1. /\ UNCHANGED <<gate, queue, ready, ending>>
        /\ jobs' = jobs \/ jobs' = Append(jobs, Do("overflowClose", s))
    BY <1>4 DEF AdmitHeld, backlog
  <2>2. /\ jobs' \in Seq(Item)
        /\ \A t \in Sockets : Closes(jobs, t) => Closes(jobs', t)
    <3>1. jobs \in Seq(Item) /\ <<Do("overflowClose", s)>> \in Seq(Item)
      BY <1>2, CloseType DEF TypeOK
    <3>2. Append(jobs, Do("overflowClose", s)) = jobs \o <<Do("overflowClose", s)>>
      BY <3>1
    <3> QED
      BY <2>1, <3>1, <3>2, JobsEffect
  <2>3. TypeOK'
    BY <1>1, <1>2, <2>1, <2>2 DEF TypeOK
  <2>4. HeldIsBounded' /\ EndingsExact' /\ Phases'
    BY <1>1, <1>2, <2>1 DEF HeldIsBounded, EndingsExact, Phases, Held, Full
  <2>5. Ordered'
    BY <1>1, <1>2, <2>1, OrderedEmptied
  <2>6. Barred'
    BY <1>1, <1>2, <2>1, <2>2, BarredStutter
  <2> QED
    BY <2>3, <2>4, <2>5, <2>6
<1>5. CASE ~(Refuses(s) \/ Overflows(s))
  <2>1. Hold(item, "open") /\ UNCHANGED jobs
    BY <1>5 DEF AdmitHeld
  <2>2. /\ gate' \in [Sockets -> {"none", "open", "pumping", "waiting", "failed"}]
        /\ queue' \in [Sockets -> Seq(Item)]
        /\ UNCHANGED <<ready, ending>>
        /\ \A t \in Sockets : gate[t] = "failed" => gate'[t] = "failed"
    BY <1>2, <2>1, HoldEffect
  <2>3. TypeOK'
    BY <1>1, <1>2, <2>1, <2>2 DEF TypeOK
  <2>4. gate[s] # "failed" /\ Len(queue[s]) <= MaxPending
    <3>1. Len(queue[s]) \in Nat
      BY <1>2 DEF TypeOK
    <3>2. gate[s] # "failed" /\ ~Overflows(s)
      BY <1>5 DEF Refuses
    <3>3. CASE Full(s)
      BY <3>1, <3>2, <3>3, ConstantsAssumption DEF Overflows
    <3>4. CASE ~Full(s)
      BY <3>1, <3>2, <3>4, ConstantsAssumption DEF Overflows
    <3> QED
      BY <3>2, <3>3, <3>4
  <2>5. HeldIsBounded' /\ EndingsExact' /\ Phases' /\ Ordered'
    BY <1>1, <1>2, <1>3, <2>1, <2>4, HoldKeeps
  <2>6. Barred'
    BY <1>1, <1>2, <2>1, <2>2, BarredStutter
  <2> QED
    BY <2>3, <2>5, <2>6
<1> QED
  BY <1>4, <1>5

LEMMA AdmitEndKeeps ==
  ASSUME IInv, AdmitEnd(Head(work))
  PROVE  IInv'
<1> USE DEF IInv
<1> DEFINE s == Head(work).s
           E == {t \in Sockets : ending[t]}
<1>1. /\ Admitting(Head(work)) /\ Head(work).op = "end"
      /\ UNCHANGED <<jobs, buf, gate, queue, ready, waiters, orphans, sent, fresh, refused>>
  BY DEF AdmitEnd, history
<1>2. /\ busy /\ UNCHANGED <<armed, busy, next>> /\ work' \in Seq(Item)
      /\ s \in Sockets /\ Offered'
      /\ \A t \in Sockets : Closes(work, t) => Closes(work', t)
  BY <1>1, AdmittingEffect DEF Ordered
<1>3. \/ EndNative(s) /\ UNCHANGED <<ending, endings>>
      \/ UNCHANGED <<native, ending, endings>>
      \/ /\ UNCHANGED native /\ gate[s] # "none" /\ ~Refuses(s)
         /\ ending' = [ending EXCEPT ![s] = TRUE] /\ endings' = endings + 1
  BY DEF AdmitEnd
<1> HIDE DEF s
<1>4. /\ native' \in [Sockets -> {"open", "ending", "closed"}]
      /\ \A t \in Sockets : native'[t] = "open" => native[t] = "open"
  BY <1>2, <1>3, EndNativeEffect DEF TypeOK
<1>5. TypeOK'
  <2>1. \/ ending' = ending /\ endings' = endings
        \/ ending' = [ending EXCEPT ![s] = TRUE] /\ endings' = endings + 1
    BY <1>3
  <2>2. endings' \in Nat
    BY <2>1 DEF TypeOK
  <2>3. ending' \in [Sockets -> BOOLEAN]
    BY <2>1, Zenon DEF TypeOK
  <2> QED
    BY <1>1, <1>2, <1>4, <2>2, <2>3 DEF TypeOK
<1>6. HeldIsBounded' /\ Phases'
  BY <1>1, <1>2 DEF HeldIsBounded, Phases, Held, Full
<1>7. EndingsExact'
  <2>1. CASE UNCHANGED <<ending, endings>>
    BY <1>1, <2>1, EndingsStutter DEF Held
  <2>2. CASE /\ gate[s] # "none" /\ ~Refuses(s)
             /\ ending' = [ending EXCEPT ![s] = TRUE] /\ endings' = endings + 1
    <3>1. IsFiniteSet(E) /\ Cardinality(E) \in Nat /\ endings = Cardinality(E)
      BY ConstantsAssumption, FS_Subset, FS_CardinalityType DEF EndingsExact
    <3>2. s \notin E /\ Held(s)
      BY <1>2, <2>2 DEF Refuses, Held, TypeOK
    <3>3. {t \in Sockets : ending'[t]} = E \cup {s}
      BY <1>2, <2>2 DEF TypeOK
    <3>4. Cardinality(E \cup {s}) = Cardinality(E) + 1
      BY <3>1, <3>2, FS_AddElement
    <3>5. endings' = Cardinality({t \in Sockets : ending'[t]}) /\ endings' > 0
      BY <2>2, <3>1, <3>3, <3>4
    <3>6. \A t \in Sockets : ending'[t] => Held(t)'
      BY <1>1, <1>2, <2>2, <3>2 DEF EndingsExact, Held, TypeOK
    <3> QED
      BY <3>5, <3>6 DEF EndingsExact
  <2> QED
    BY <1>3, <2>1, <2>2
<1>8. Ordered'
  BY <1>1, <1>2, OrderedEmptied
<1>9. Barred'
  BY <1>1, <1>2, <1>4, BarredStutter
<1> QED
  BY <1>5, <1>6, <1>7, <1>8, <1>9

LEMMA AdmitCloseKeeps ==
  ASSUME IInv, AdmitClose(Head(work))
  PROVE  IInv'
<1> USE DEF IInv
<1> DEFINE s == Head(work).s
<1>1. /\ Admitting(Head(work)) /\ EndNative(s)
      /\ UNCHANGED <<jobs, buf, gate, queue, ready, ending, endings, waiters, orphans,
                     sent, fresh, refused>>
  BY DEF AdmitClose, backlog, endVars, history
<1>2. /\ busy /\ UNCHANGED <<armed, busy, next>> /\ work' \in Seq(Item)
      /\ s \in Sockets /\ Offered'
      /\ \A t \in Sockets : Closes(work, t) => Closes(work', t) \/ t = s
  BY <1>1, AdmittingEffect DEF Ordered
<1> HIDE DEF s
<1>3. /\ native' \in [Sockets -> {"open", "ending", "closed"}] /\ native'[s] # "open"
      /\ \A t \in Sockets : native'[t] = "open" => native[t] = "open"
  BY <1>1, <1>2, EndNativeEffect
<1>4. TypeOK'
  BY <1>1, <1>2, <1>3 DEF TypeOK
<1>5. HeldIsBounded' /\ EndingsExact' /\ Phases'
  BY <1>1, <1>2 DEF HeldIsBounded, EndingsExact, Phases, Held, Full
<1>6. Ordered'
  BY <1>1, <1>2, OrderedEmptied
<1>7. Barred'
  BY <1>1, <1>2, <1>3, BarredStutter
<1> QED
  BY <1>4, <1>5, <1>6, <1>7

LEMMA AdmitDecidedKeeps ==
  ASSUME IInv, NEW verdict \in Verdicts, NEW nested \in Nested,
         AdmitDecided(Head(work), verdict, nested)
  PROVE  IInv'
<1> USE DEF IInv
<1> DEFINE item == Head(work)
           s == item.s
           r == nested \o <<Do("refusedEnd", s)>>
<1>1. /\ Admitting(item) /\ item.op = "app" /\ ~Unguarded(item) /\ gate[s] = "none"
      /\ UNCHANGED <<native, orphans>>
  BY DEF AdmitDecided, MayDecide
<1>2. /\ busy /\ UNCHANGED <<armed, busy, next>> /\ work' \in Seq(Item)
      /\ item \in Item /\ s \in Sockets /\ item.n = next /\ item.n \in Nat /\ Offered'
      /\ \A t \in Sockets : gate[t] # "pumping"
      /\ \A t \in Sockets : Closes(work, t) => Closes(work', t)
  BY <1>1, AdmittingEffect DEF Ordered, IsFrame
<1>3. armed
  BY <1>1 DEF Unguarded
<1>4. nested \in Seq(Item) /\ jobs \in Seq(Item)
  BY NestedType DEF TypeOK
<1>5. queue[s] = <<>> /\ \A t \in Sockets : ~ready[t]
  BY <1>1, <1>2 DEF Phases, TypeOK
<1>6. CASE verdict = "true"
  <2>1. Transmit(s, item.n) /\ jobs' = jobs \o nested
        /\ UNCHANGED <<gate, queue, ready, ending, endings, waiters, refused>>
    BY <1>6 DEF AdmitDecided, backlog, endVars
  <2>2. TypeOK'
    BY <1>1, <1>2, <1>4, <2>1, TransmitEffect, JobsEffect DEF TypeOK
  <2>3. HeldIsBounded' /\ EndingsExact'
    BY <2>1 DEF HeldIsBounded, EndingsExact, Held
  <2>4. Phases'
    BY <1>2, <1>5, <2>1 DEF Phases, Held
  <2>5. Ordered'
    <3>1. \A t \in Sockets : sent'[t] = sent[t] \/ (sent'[t] = next /\ queue[t] = <<>>)
      BY <1>2, <1>5, <2>1, TransmitEffect
    <3> QED
      BY <1>2, <2>1, <3>1, OrderedSent
  <2>6. Barred'
    BY <1>1, <1>2, <1>4, <2>1, JobsEffect, BarredStutter
  <2> QED
    BY <2>2, <2>3, <2>4, <2>5, <2>6
<1>7. CASE verdict = "later"
  <2>1. Hold(item, "waiting") /\ jobs' = jobs \o nested
        /\ UNCHANGED <<buf, endings, waiters, sent, fresh, refused>>
    BY <1>7 DEF AdmitDecided, endVars, history
  <2>2. /\ gate' \in [Sockets -> {"none", "open", "pumping", "waiting", "failed"}]
        /\ queue' \in [Sockets -> Seq(Item)]
        /\ UNCHANGED <<ready, ending>>
        /\ \A t \in Sockets : gate[t] = "failed" => gate'[t] = "failed"
    BY <1>2, <2>1, HoldEffect
  <2>3. TypeOK'
    BY <1>1, <1>2, <1>4, <2>1, <2>2, JobsEffect DEF TypeOK
  <2>4. Len(queue[s]) <= MaxPending
    BY <1>5, ConstantsAssumption
  <2>5. HeldIsBounded' /\ EndingsExact' /\ Phases' /\ Ordered'
    BY <1>1, <1>2, <1>3, <2>1, <2>4, HoldKeeps
  <2>6. Barred'
    BY <1>1, <1>2, <1>4, <2>1, <2>2, JobsEffect, BarredStutter
  <2> QED
    BY <2>3, <2>5, <2>6
<1>8. CASE verdict = "refuse"
  <2>1. Fail(s) /\ jobs' = jobs \o nested \o <<Do("refusedEnd", s)>>
        /\ UNCHANGED <<buf, sent, fresh>>
    BY <1>8 DEF AdmitDecided
  <2>2. /\ jobs' \in Seq(Item)
        /\ \A t \in Sockets : t = s \/ Closes(jobs, t) => Closes(jobs', t)
    <3>1. jobs \o nested \in Seq(Item) /\ <<Do("refusedEnd", s)>> \in Seq(Item)
      BY <1>2, <1>4, CloseType
    <3>2. \A t \in Sockets : Closes(jobs, t) => Closes(jobs \o nested, t)
      BY <1>4, JobsEffect
    <3> QED
      BY <1>2, <2>1, <3>1, <3>2, ClosesConcat, ClosesOne
  <2>3. Release(s, "failed") /\ refused' = [refused EXCEPT ![s] = TRUE]
    BY <2>1 DEF Fail
  <2>4. TypeOK'
    <3>1. EndingsExact' /\ endings' \in Nat /\ waiters' \in BOOLEAN
      BY <1>2, <2>3, ReleaseCounts
    <3> QED
      BY <1>1, <1>2, <2>1, <2>2, <2>3, <3>1, ReleaseEffect DEF TypeOK
  <2>5. EndingsExact'
    BY <1>2, <2>3, ReleaseCounts
  <2>6. HeldIsBounded' /\ Phases'
    BY <1>2, <2>1, <2>3, ReleaseKeeps
  <2>7. Ordered'
    BY <1>2, <2>1, <2>3, ReleaseEffect, OrderedEmptied
  <2>8. Barred'
    BY <1>1, <1>2, <1>3, <2>1, <2>2, FailBarred
  <2> QED
    BY <2>4, <2>5, <2>6, <2>7, <2>8
<1> QED
  BY <1>6, <1>7, <1>8 DEF Verdicts

LEMMA AdmitClosedByPolicyKeeps ==
  ASSUME IInv, NEW verdict \in Verdicts, NEW nested \in Nested,
         AdmitClosedByPolicy(Head(work), verdict, nested)
  PROVE  IInv'
<1> USE DEF IInv
<1> DEFINE item == Head(work)
           s == item.s
<1>1. /\ Admitting(item) /\ item.op = "app" /\ Gone(s) /\ jobs' = jobs \o nested
      /\ orphans' = (IF verdict = "later" THEN orphans \cup {s} ELSE orphans)
      /\ UNCHANGED <<sent, refused>>
  BY DEF AdmitClosedByPolicy, MayDecide
<1>2. /\ busy /\ UNCHANGED <<armed, busy, next>> /\ work' \in Seq(Item)
      /\ s \in Sockets /\ Offered'
      /\ \A t \in Sockets : Closes(work, t) => Closes(work', t)
  BY <1>1, AdmittingEffect DEF Ordered, IsFrame
<1>3. jobs' \in Seq(Item) /\ \A t \in Sockets : Closes(jobs, t) => Closes(jobs', t)
  BY <1>1, NestedType, JobsEffect
<1>4. Release(s, "none") /\ orphans' \subseteq Sockets
  BY <1>1, <1>2, GoneEffect DEF TypeOK
<1>5. EndingsExact' /\ endings' \in Nat /\ waiters' \in BOOLEAN
  BY <1>2, <1>4, ReleaseCounts
<1>6. TypeOK'
  BY <1>1, <1>2, <1>3, <1>4, <1>5, GoneEffect, ReleaseEffect DEF TypeOK
<1>7. HeldIsBounded' /\ Phases'
  BY <1>1, <1>2, <1>4, GoneEffect, ReleaseKeeps
<1>8. Ordered'
  BY <1>1, <1>2, <1>4, ReleaseEffect, OrderedEmptied
<1>9. Barred'
  BY <1>1, <1>2, <1>3, GoneBarred
<1> QED
  BY <1>5, <1>6, <1>7, <1>8, <1>9

\* The next deferred operation begins, numbered as it does, or nothing is left to close.
LEMMA LeaveKeeps ==
  ASSUME IInv, Leave
  PROVE  IInv'
<1> USE DEF IInv
<1>1. /\ work = <<>> /\ UNCHANGED <<armed, native, buf, gate, queue, ready, ending, endings,
                                    waiters, orphans, sent, fresh, refused>>
      /\ \A s \in Sockets : gate[s] # "pumping"
      /\ work \in Seq(Item) /\ jobs \in Seq(Item) /\ next \in Nat
  BY DEF TypeOK, Leave, Pumping, backlog, endVars, history
<1>2. CASE jobs = <<>>
  <2>1. busy' = FALSE /\ UNCHANGED <<work, jobs, next>>
    BY <1>2 DEF Leave
  <2>2. TypeOK' /\ HeldIsBounded' /\ EndingsExact' /\ Phases' /\ Ordered'
    BY <1>1, <2>1, OrderedEmptied
       DEF TypeOK, HeldIsBounded, EndingsExact, Phases, Held, Full, Offered, Ordered
  <2>3. \A s \in Sockets : ~Closes(work, s) /\ ~Closes(jobs, s)
    BY <1>1, <1>2 DEF Closes
  <2>4. Barred'
    BY <1>1, <2>3 DEF Barred
  <2> QED
    BY <2>2, <2>4
<1>3. CASE jobs # <<>>
  <2> DEFINE j == Head(jobs)
  <2>1. j \in Item /\ Tail(jobs) \in Seq(Item)
    BY <1>1, <1>3
  <2>2. /\ busy /\ UNCHANGED busy /\ jobs' = Tail(jobs)
        /\ next' = (IF IsFrame(j) THEN next + 1 ELSE next)
        /\ work' = <<IF IsFrame(j) THEN [j EXCEPT !.n = next + 1] ELSE j>>
    BY <1>3 DEF Leave
  <2>3. next' \in Nat /\ next' >= next
    BY <1>1, <2>2
  <2> HIDE DEF j
  <2>4. PICK k \in Item : work' = <<k>> /\ k.op = j.op /\ k.s = j.s
                          /\ (IsFrame(k) => k.n = next')
    <3>1. CASE IsFrame(j)
      <4> DEFINE k == [j EXCEPT !.n = next + 1]
      <4>1. k \in Item /\ k.op = j.op /\ k.s = j.s /\ k.n = next + 1
        BY <1>1, <2>1 DEF Item
      <4> QED
        BY <2>2, <3>1, <4>1
    <3>2. CASE ~IsFrame(j)
      BY <2>1, <2>2, <3>2
    <3> QED
      BY <3>1, <3>2
  <2>5. TypeOK'
    <3>1. work' \in Seq(Item)
      BY <2>4
    <3> QED
      BY <1>1, <2>1, <2>2, <2>3, <3>1 DEF TypeOK
  <2>6. HeldIsBounded' /\ EndingsExact' /\ Phases'
    BY <1>1, <2>2 DEF HeldIsBounded, EndingsExact, Phases, Held, Full
  <2>7. Ordered'
    <3>1. Offered'
      BY <2>4 DEF Offered
    <3> QED
      BY <1>1, <2>3, <3>1, OrderedRaised
  <2>8. Barred'
    <3>1. \A s \in Sockets : Closes(work, s) \/ Closes(jobs, s) =>
            Closes(work', s) \/ Closes(jobs', s)
      <4>1. \A s \in Sockets : ~Closes(work, s)
        BY <1>1 DEF Closes
      <4>2. \A s \in Sockets : Closes(jobs, s) =>
              (j.op = "refusedEnd" /\ j.s = s) \/ Closes(jobs', s)
        BY <1>1, <1>3, <2>2, ClosesTail DEF j
      <4>3. \A s \in Sockets : j.op = "refusedEnd" /\ j.s = s => Closes(work', s)
        BY <2>4 DEF Closes
      <4> QED
        BY <4>1, <4>2, <4>3
    <3> QED
      BY <1>1, <2>2, <3>1, BarredStutter
  <2> QED
    BY <2>5, <2>6, <2>7, <2>8
<1> QED
  BY <1>2, <1>3

-----------------------------------------------------------------------------
(* drainQueue and retire.                                                  *)

LEMMA PumpEffect ==
  ASSUME IInv, NEW s \in Sockets, Pump(s)
  PROVE  /\ busy /\ gate[s] = "pumping" /\ Held(s) /\ armed
         /\ UNCHANGED <<armed, busy, work, next>> /\ Offered'
         /\ queue[s] \in Seq(Item)
BY DEF IInv, Pump, TypeOK, Phases, Ordered, Offered, Held

LEMMA RetireKeeps ==
  ASSUME IInv, NEW s \in Sockets, Retire(s)
  PROVE  IInv'
<1> USE DEF IInv
<1>1. /\ Pump(s) /\ Release(s, "none") /\ UNCHANGED <<jobs, buf, orphans, sent, fresh, refused>>
      /\ EndNative(s) \/ UNCHANGED native
  BY DEF Retire, history
<1>2. /\ native' \in [Sockets -> {"open", "ending", "closed"}]
      /\ \A t \in Sockets : native'[t] = "open" => native[t] = "open"
  BY <1>1, EndNativeEffect DEF TypeOK
<1>3. EndingsExact' /\ endings' \in Nat /\ waiters' \in BOOLEAN
  BY <1>1, ReleaseCounts
<1>4. TypeOK'
  <2>1. /\ gate' \in [Sockets -> {"none", "open", "pumping", "waiting", "failed"}]
        /\ queue' \in [Sockets -> Seq(Item)]
        /\ ready' \in [Sockets -> BOOLEAN] /\ ending' \in [Sockets -> BOOLEAN]
    BY <1>1, ReleaseEffect
  <2>2. UNCHANGED <<armed, busy, work, next>>
    BY <1>1, PumpEffect
  <2> QED
    BY <1>1, <1>2, <1>3, <2>1, <2>2 DEF TypeOK
<1>5. HeldIsBounded' /\ Phases'
  BY <1>1, PumpEffect, ReleaseKeeps
<1>6. Ordered'
  BY <1>1, PumpEffect, ReleaseEffect, OrderedEmptied
<1>7. Barred'
  BY <1>1, <1>2, PumpEffect, ReleaseEffect, BarredStutter
<1> QED
  BY <1>3, <1>4, <1>5, <1>6, <1>7

LEMMA PumpBlockedKeeps ==
  ASSUME IInv, NEW s \in Sockets, PumpBlocked(s)
  PROVE  IInv'
<1> USE DEF IInv
<1>1. /\ Pump(s)
      /\ gate' = [gate EXCEPT ![s] = "open"] /\ ready' = [ready EXCEPT ![s] = FALSE]
      /\ UNCHANGED <<jobs, native, buf, queue, ending, endings, waiters, orphans,
                     sent, fresh, refused>>
  BY DEF PumpBlocked, ForgetVerdict, endVars, history
<1>2. /\ busy /\ gate[s] = "pumping" /\ armed /\ UNCHANGED <<armed, busy, work, next>> /\ Offered'
  BY <1>1, PumpEffect
<1>3. /\ gate' \in [Sockets -> {"none", "open", "pumping", "waiting", "failed"}]
      /\ ready' \in [Sockets -> BOOLEAN]
      /\ gate'[s] = "open" /\ ~ready'[s]
      /\ \A t \in Sockets : t # s => gate'[t] = gate[t] /\ ready'[t] = ready[t]
  BY <1>1 DEF TypeOK
<1>4. TypeOK'
  BY <1>1, <1>2, <1>3 DEF TypeOK
<1>5. HeldIsBounded' /\ EndingsExact'
  BY <1>1, <1>3, EndingsStutter DEF HeldIsBounded, Held
<1>6. Phases'
  BY <1>1, <1>2, <1>3 DEF Phases, Held, Full
<1>7. Ordered'
  BY <1>1, <1>2, OrderedEmptied
<1>8. Barred'
  BY <1>1, <1>2, <1>3, BarredStutter
<1> QED
  BY <1>4, <1>5, <1>6, <1>7, <1>8

\* The head is handed on: what stays in the queue is above it.
LEMMA HandOverKeeps ==
  ASSUME IInv, NEW s \in Sockets, Pump(s), queue[s] # <<>>, HandOver(s),
         jobs' \in Seq(Item), \A t \in Sockets : Closes(jobs, t) => Closes(jobs', t)
  PROVE  IInv'
<1> USE DEF IInv
<1> DEFINE n == Head(queue[s]).n
<1>1. /\ busy /\ gate[s] = "pumping" /\ armed /\ Offered'
      /\ UNCHANGED <<armed, busy, work, next>> /\ queue[s] \in Seq(Item)
  BY PumpEffect
<1>2. /\ gate' \in [Sockets -> {"none", "open", "pumping", "waiting", "failed"}]
      /\ queue' \in [Sockets -> Seq(Item)] /\ ready' \in [Sockets -> BOOLEAN]
      /\ n \in Nat /\ Transmit(s, n)
      /\ queue'[s] = Tail(queue[s]) /\ ~ready'[s] /\ gate'[s] \in {"open", "pumping"}
      /\ \A t \in Sockets : t # s =>
           gate'[t] = gate[t] /\ queue'[t] = queue[t] /\ ready'[t] = ready[t]
      /\ UNCHANGED <<native, ending, endings, waiters, orphans, refused>>
  BY HandOverEffect DEF endVars
<1>3. /\ sent[s] \in Nat /\ next \in Nat /\ Sorted(queue[s], sent[s], next)
      /\ Len(Tail(queue[s])) = Len(queue[s]) - 1
      /\ Sorted(Tail(queue[s]), n, next) /\ Sorted(Tail(queue[s]), sent[s], next)
  <2>1. sent[s] \in Nat /\ next \in Nat /\ Sorted(queue[s], sent[s], next)
    BY DEF TypeOK, Ordered
  <2> QED
    BY <1>1, <2>1, TailSorted
<1> HIDE DEF n
<1>4. TypeOK'
  BY <1>1, <1>2, TransmitEffect DEF TypeOK
<1>5. HeldIsBounded'
  <2>1. Len(queue[s]) \in Nat /\ Len(queue[s]) <= MaxPending + 1
    BY <1>1 DEF HeldIsBounded
  <2>2. Len(queue'[s]) <= MaxPending + 1
    BY <1>2, <1>3, <2>1, ConstantsAssumption
  <2> QED
    BY <1>2, <2>2 DEF HeldIsBounded
<1>6. EndingsExact'
  BY <1>2, EndingsStutter DEF Held
<1>7. Phases'
  <2>1. \A t \in Sockets : t # s => fresh'[t] = fresh[t] /\ buf'[t] = buf[t]
    BY <1>2, TransmitEffect
  <2> QED
    BY <1>1, <1>2, <2>1 DEF Phases, Held, Full
<1>8. Ordered'
  <2>1. /\ \A t \in Sockets : t # s => sent'[t] = sent[t]
        /\ sent'[s] = sent[s] \/ sent'[s] = n
    BY <1>2, TransmitEffect
  <2> QED
    BY <1>1, <1>2, <1>3, <2>1 DEF Ordered
<1>9. Barred'
  BY <1>1, <1>2, BarredStutter
<1> QED
  BY <1>4, <1>5, <1>6, <1>7, <1>8, <1>9

LEMMA PumpApprovedKeeps ==
  ASSUME IInv, NEW s \in Sockets, PumpApproved(s)
  PROVE  IInv'
<1>1. Pump(s) /\ queue[s] # <<>> /\ HandOver(s) /\ UNCHANGED jobs
  BY DEF PumpApproved
<1>2. jobs' \in Seq(Item) /\ \A t \in Sockets : Closes(jobs, t) => Closes(jobs', t)
  BY <1>1 DEF IInv, TypeOK
<1> QED
  BY <1>1, <1>2, HandOverKeeps

LEMMA PumpDecidedKeeps ==
  ASSUME IInv, NEW s \in Sockets, NEW verdict \in Verdicts, NEW nested \in Nested,
         PumpDecided(s, verdict, nested)
  PROVE  IInv'
<1> USE DEF IInv
<1>1. Pump(s) /\ queue[s] # <<>> /\ ~ready[s]
  BY DEF PumpDecided, Undecided
<1>2. /\ busy /\ gate[s] = "pumping" /\ armed /\ UNCHANGED <<armed, busy, work, next>> /\ Offered'
  BY <1>1, PumpEffect
<1>3. /\ nested \in Seq(Item) /\ jobs \o nested \in Seq(Item)
      /\ \A t \in Sockets : Closes(jobs, t) => Closes(jobs \o nested, t)
  BY NestedType, JobsEffect
<1>4. CASE verdict = "true"
  <2>1. HandOver(s) /\ jobs' = jobs \o nested
    BY <1>4 DEF PumpDecided
  <2> QED
    BY <1>1, <1>3, <2>1, HandOverKeeps
<1>5. CASE verdict = "later"
  <2>1. /\ gate' = [gate EXCEPT ![s] = "waiting"] /\ jobs' = jobs \o nested
        /\ UNCHANGED <<native, buf, queue, ready, ending, endings, waiters, orphans,
                       sent, fresh, refused>>
    BY <1>5 DEF PumpDecided, endVars, history
  <2>2. /\ gate' \in [Sockets -> {"none", "open", "pumping", "waiting", "failed"}]
        /\ gate'[s] = "waiting" /\ \A t \in Sockets : t # s => gate'[t] = gate[t]
    BY <2>1 DEF TypeOK
  <2>3. TypeOK'
    BY <1>2, <1>3, <2>1, <2>2 DEF TypeOK
  <2>4. HeldIsBounded' /\ EndingsExact'
    BY <2>1, <2>2, EndingsStutter DEF HeldIsBounded, Held
  <2>5. Phases'
    BY <1>1, <1>2, <2>1, <2>2 DEF Phases, Held, Full
  <2>6. Ordered'
    BY <1>2, <2>1, OrderedEmptied
  <2>7. Barred'
    BY <1>2, <1>3, <2>1, <2>2, BarredStutter
  <2> QED
    BY <2>3, <2>4, <2>5, <2>6, <2>7
<1>6. CASE verdict = "refuse"
  <2>1. Fail(s) /\ jobs' = jobs \o nested \o <<Do("refusedEnd", s)>>
        /\ UNCHANGED <<native, buf, orphans, sent, fresh>>
    BY <1>6 DEF PumpDecided
  <2>2. /\ jobs' \in Seq(Item)
        /\ \A t \in Sockets : t = s \/ Closes(jobs, t) => Closes(jobs', t)
    BY <1>3, <2>1, CloseType, ClosesConcat, ClosesOne
  <2>3. Release(s, "failed") /\ refused' = [refused EXCEPT ![s] = TRUE]
    BY <2>1 DEF Fail
  <2>4. EndingsExact' /\ endings' \in Nat /\ waiters' \in BOOLEAN
    BY <2>3, ReleaseCounts
  <2>5. TypeOK'
    BY <1>2, <2>1, <2>2, <2>3, <2>4, ReleaseEffect DEF TypeOK
  <2>6. HeldIsBounded' /\ Phases'
    BY <1>2, <2>1, <2>3, ReleaseKeeps
  <2>7. Ordered'
    BY <1>2, <2>1, <2>3, ReleaseEffect, OrderedEmptied
  <2>8. Barred'
    BY <1>2, <2>1, <2>2, FailBarred
  <2> QED
    BY <2>4, <2>5, <2>6, <2>7, <2>8
<1> QED
  BY <1>4, <1>5, <1>6 DEF Verdicts

LEMMA PumpClosedByPolicyKeeps ==
  ASSUME IInv, NEW s \in Sockets, NEW verdict \in Verdicts, NEW nested \in Nested,
         PumpClosedByPolicy(s, verdict, nested)
  PROVE  IInv'
<1> USE DEF IInv
<1>1. /\ Pump(s) /\ Gone(s) /\ jobs' = jobs \o nested
      /\ orphans' = (IF verdict = "later" THEN orphans \cup {s} ELSE orphans)
      /\ UNCHANGED <<sent, refused>>
  BY DEF PumpClosedByPolicy
<1>2. busy /\ UNCHANGED <<armed, busy, work, next>> /\ Offered'
  BY <1>1, PumpEffect
<1>3. jobs' \in Seq(Item) /\ \A t \in Sockets : Closes(jobs, t) => Closes(jobs', t)
  BY <1>1, NestedType, JobsEffect
<1>4. Release(s, "none") /\ orphans' \subseteq Sockets
  BY <1>1, GoneEffect DEF TypeOK
<1>5. EndingsExact' /\ endings' \in Nat /\ waiters' \in BOOLEAN
  BY <1>4, ReleaseCounts
<1>6. TypeOK'
  BY <1>1, <1>2, <1>3, <1>4, <1>5, GoneEffect, ReleaseEffect DEF TypeOK
<1>7. HeldIsBounded' /\ Phases'
  BY <1>1, <1>2, <1>4, GoneEffect, ReleaseKeeps
<1>8. Ordered'
  BY <1>1, <1>2, <1>4, ReleaseEffect, OrderedEmptied
<1>9. Barred'
  BY <1>1, <1>2, <1>3, GoneBarred
<1> QED
  BY <1>5, <1>6, <1>7, <1>8, <1>9

-----------------------------------------------------------------------------
(* Between operations.                                                     *)

LEMMA QuietEffect ==
  ASSUME IInv, Quiet
  PROVE  /\ ~busy /\ UNCHANGED <<armed, work, next>> /\ work = <<>> /\ Offered'
         /\ jobs \in Seq(Item)
         /\ \A t \in Sockets : gate[t] # "pumping" /\ ~ready[t]
         /\ \A t \in Sockets : refused[t] => native[t] # "open"
BY DEF IInv, Quiet, TypeOK, Phases, Ordered, Offered, Barred

\* An event that leaves the backlogs alone.
LEMMA EventKeeps ==
  ASSUME IInv, Quiet, busy' \in BOOLEAN, jobs' \in Seq(Item), waiters' \in BOOLEAN,
         UNCHANGED <<native, gate, queue, ready, ending, endings, sent, refused>>,
         buf' \in [Sockets -> {"empty", "full", "flushed"}], fresh' \in [Sockets -> BOOLEAN],
         orphans' \subseteq Sockets, waiters' => endings > 0
  PROVE  IInv'
<1> USE DEF IInv
<1>1. TypeOK'
  BY QuietEffect DEF TypeOK
<1>2. HeldIsBounded' /\ EndingsExact'
  BY DEF HeldIsBounded, EndingsExact, Held
<1>3. Phases'
  BY QuietEffect DEF Phases, Held
<1>4. Ordered'
  BY QuietEffect, OrderedEmptied
<1>5. Barred'
  BY QuietEffect DEF Barred
<1> QED
  BY <1>1, <1>2, <1>3, <1>4, <1>5

LEMMA FlushKeeps ==
  ASSUME IInv, NEW s \in Sockets, Flush(s)
  PROVE  IInv'
<1>1. /\ Quiet /\ UNCHANGED <<busy, jobs, native, gate, queue, ready, ending, endings, waiters,
                              orphans, sent, fresh, refused>>
      /\ buf' = [buf EXCEPT ![s] = "flushed"]
  BY DEF Flush, backlog, endVars, history
<1>2. buf' \in [Sockets -> {"empty", "full", "flushed"}]
  BY <1>1 DEF IInv, TypeOK
<1> QED
  BY <1>1, <1>2, EventKeeps DEF IInv, TypeOK, EndingsExact

LEMMA RawSendKeeps ==
  ASSUME IInv, NEW s \in Sockets, RawSend(s)
  PROVE  IInv'
<1>1. /\ Quiet /\ UNCHANGED <<busy, jobs, native, gate, queue, ready, ending, endings, waiters,
                              orphans, sent, refused>>
      /\ buf' = [buf EXCEPT ![s] = "full"] /\ fresh' = [fresh EXCEPT ![s] = FALSE]
  BY DEF RawSend, backlog, endVars
<1>2. buf' \in [Sockets -> {"empty", "full", "flushed"}] /\ fresh' \in [Sockets -> BOOLEAN]
  BY <1>1 DEF IInv, TypeOK
<1> QED
  BY <1>1, <1>2, EventKeeps DEF IInv, TypeOK, EndingsExact

LEMMA OrphanDecisionKeeps ==
  ASSUME IInv, NEW s \in Sockets, OrphanDecision(s)
  PROVE  IInv'
<1>1. /\ Quiet /\ busy' = TRUE /\ orphans' = orphans \ {s}
      /\ UNCHANGED <<jobs, native, buf, gate, queue, ready, ending, endings, waiters,
                     sent, fresh, refused>>
  BY DEF OrphanDecision, backlog, endVars, history
<1> QED
  BY <1>1, EventKeeps DEF IInv, TypeOK, EndingsExact

LEMMA DecisionContinuesKeeps ==
  ASSUME IInv, NEW s \in Sockets, NEW nested \in Nested, DecisionContinues(s, nested)
  PROVE  IInv'
<1>1. /\ Quiet /\ jobs' = jobs \o nested
      /\ UNCHANGED <<busy, native, buf, gate, queue, ready, ending, endings, waiters,
                     orphans, sent, fresh, refused>>
  BY DEF DecisionContinues, backlog, endVars, history
<1>2. jobs' \in Seq(Item)
  BY <1>1, NestedType, JobsEffect DEF IInv
<1> QED
  BY <1>1, <1>2, EventKeeps DEF IInv, TypeOK, EndingsExact

LEMMA EndedKeeps ==
  ASSUME IInv, Ended
  PROVE  IInv'
<1>1. /\ Quiet /\ endings > 0 /\ waiters' = TRUE
      /\ UNCHANGED <<busy, jobs, native, buf, gate, queue, ready, ending, endings,
                     orphans, sent, fresh, refused>>
  BY DEF Ended, backlog, history
<1> QED
  BY <1>1, EventKeeps DEF IInv, TypeOK

LEMMA DrainKeeps ==
  ASSUME IInv, NEW s \in Sockets, Drain(s)
  PROVE  IInv'
<1> USE DEF IInv
<1>1. /\ Quiet /\ busy' = (armed /\ gate[s] # "none")
      /\ buf[s] = "flushed" /\ buf' = [buf EXCEPT ![s] = "empty"]
      /\ gate' = [gate EXCEPT ![s] = IF @ = "open" /\ armed THEN "pumping" ELSE @]
      /\ UNCHANGED <<jobs, native, queue, ready, ending, endings, waiters, orphans,
                     sent, fresh, refused>>
  BY DEF Drain, endVars, history
<1>2. /\ gate' \in [Sockets -> {"none", "open", "pumping", "waiting", "failed"}]
      /\ gate'[s] = (IF gate[s] = "open" /\ armed THEN "pumping" ELSE gate[s])
      /\ \A t \in Sockets : t # s => gate'[t] = gate[t]
  BY <1>1 DEF TypeOK
<1>3. buf' \in [Sockets -> {"empty", "full", "flushed"}]
  BY <1>1 DEF TypeOK
<1>4. busy' \in BOOLEAN
  BY <1>1
<1>5. TypeOK'
  BY <1>1, <1>2, <1>3, <1>4, QuietEffect DEF TypeOK
<1>6. HeldIsBounded' /\ EndingsExact'
  BY <1>1, <1>2, EndingsStutter DEF HeldIsBounded, Held
<1>7. Phases'
  <2>1. /\ UNCHANGED <<armed, queue>> /\ work' = <<>>
        /\ \A t \in Sockets : ~ready'[t] /\ gate[t] # "pumping"
    BY <1>1, QuietEffect
  <2>2. \A t \in Sockets : gate'[t] = gate[t] \/ (t = s /\ gate[s] = "open" /\ armed /\ busy')
    BY <1>1, <1>2
  <2> QED
    BY <1>2, <2>1, <2>2 DEF Phases, Held
<1>8. Ordered'
  BY <1>1, QuietEffect, OrderedEmptied
<1>9. Barred'
  BY <1>1, QuietEffect DEF Barred
<1> QED
  BY <1>5, <1>6, <1>7, <1>8, <1>9

\* An event that ends a socket and releases its backlog.
LEMMA EndedReleaseKeeps ==
  ASSUME IInv, Quiet, NEW s \in Sockets, NEW phase \in {"none", "failed"}, Release(s, phase),
         UNCHANGED <<busy, jobs, sent>>, orphans' \subseteq Sockets,
         native' \in [Sockets -> {"open", "ending", "closed"}], native'[s] # "open",
         buf' \in [Sockets -> {"empty", "full", "flushed"}],
         fresh' \in [Sockets -> BOOLEAN], refused' \in [Sockets -> BOOLEAN],
         \A t \in Sockets : t # s =>
           /\ native'[t] = native[t] /\ refused'[t] = refused[t]
           /\ fresh'[t] = fresh[t] /\ buf'[t] = buf[t]
  PROVE  IInv'
<1> USE DEF IInv
<1>1. EndingsExact' /\ endings' \in Nat /\ waiters' \in BOOLEAN
  BY ReleaseCounts
<1>2. TypeOK'
  BY <1>1, QuietEffect, ReleaseEffect DEF TypeOK
<1>3. HeldIsBounded' /\ Phases'
  <2>1. UNCHANGED armed /\ (busy => busy') /\ (~busy' => work' = <<>>)
    BY QuietEffect
  <2> QED
    BY <2>1, ReleaseKeeps
<1>4. Ordered'
  BY QuietEffect, ReleaseEffect, OrderedEmptied
<1>5. Barred'
  BY QuietEffect DEF Barred
<1> QED
  BY <1>1, <1>2, <1>3, <1>4, <1>5

LEMMA TimeoutKeeps ==
  ASSUME IInv, NEW s \in Sockets, Timeout(s)
  PROVE  IInv'
<1> USE DEF IInv
<1>1. /\ Quiet /\ Release(s, "failed") /\ EndNative(s)
      /\ refused' = [refused EXCEPT ![s] = TRUE] /\ orphans' = orphans \cup {s}
      /\ UNCHANGED <<busy, jobs, buf, sent, fresh>>
  BY DEF Timeout, Fail
<1>2. /\ refused' \in [Sockets -> BOOLEAN] /\ orphans' \subseteq Sockets
      /\ buf' \in [Sockets -> {"empty", "full", "flushed"}] /\ fresh' \in [Sockets -> BOOLEAN]
      /\ \A t \in Sockets : t # s => refused'[t] = refused[t]
  BY <1>1 DEF TypeOK
<1>3. /\ native' \in [Sockets -> {"open", "ending", "closed"}] /\ native'[s] # "open"
      /\ \A t \in Sockets : t # s => native'[t] = native[t]
  BY <1>1, EndNativeEffect
<1>4. "failed" \in {"none", "failed"}
  OBVIOUS
<1> QED
  BY <1>1, <1>2, <1>3, <1>4, EndedReleaseKeeps

LEMMA EndTimerKeeps ==
  ASSUME IInv, NEW s \in Sockets, EndTimer(s)
  PROVE  IInv'
<1> USE DEF IInv
<1>1. /\ Quiet /\ Release(s, "none") /\ EndNative(s)
      /\ orphans' = (IF gate[s] = "waiting" THEN orphans \cup {s} ELSE orphans)
      /\ UNCHANGED <<busy, jobs, buf, sent, fresh, refused>>
  BY DEF EndTimer, history
<1>2. /\ refused' \in [Sockets -> BOOLEAN] /\ orphans' \subseteq Sockets
      /\ buf' \in [Sockets -> {"empty", "full", "flushed"}] /\ fresh' \in [Sockets -> BOOLEAN]
  BY <1>1 DEF TypeOK
<1> QED
  BY <1>1, <1>2, EndNativeEffect, EndedReleaseKeeps

LEMMA CloseEventKeeps ==
  ASSUME IInv, NEW s \in Sockets, CloseEvent(s)
  PROVE  IInv'
<1> USE DEF IInv
<1>1. /\ Quiet /\ Gone(s)
      /\ orphans' = (IF gate[s] = "waiting" THEN orphans \cup {s} ELSE orphans)
      /\ UNCHANGED <<busy, jobs, sent, refused>>
  BY DEF CloseEvent
<1>2. refused' \in [Sockets -> BOOLEAN] /\ orphans' \subseteq Sockets
  BY <1>1 DEF TypeOK
<1> QED
  BY <1>1, <1>2, GoneEffect, EndedReleaseKeeps

LEMMA DecisionKeeps ==
  ASSUME IInv, NEW s \in Sockets, NEW verdict \in Verdicts, Decision(s, verdict)
  PROVE  IInv'
<1> USE DEF IInv
<1>1. Quiet /\ gate[s] = "waiting" /\ busy' = TRUE /\ UNCHANGED <<native, buf, orphans, sent>>
  BY DEF Decision
<1>2. armed
  BY <1>1 DEF Phases, Held
<1>3. CASE verdict = "true"
  <2>1. /\ gate' = [gate EXCEPT ![s] = "pumping"] /\ ready' = [ready EXCEPT ![s] = TRUE]
        /\ fresh' = [fresh EXCEPT ![s] = ~Full(s)]
        /\ UNCHANGED <<jobs, queue, ending, endings, waiters, refused>>
    BY <1>3 DEF Decision, endVars
  <2>2. /\ gate' \in [Sockets -> {"none", "open", "pumping", "waiting", "failed"}]
        /\ ready' \in [Sockets -> BOOLEAN]
        /\ gate'[s] = "pumping"
        /\ \A t \in Sockets : t # s => gate'[t] = gate[t] /\ ready'[t] = ready[t]
    BY <2>1 DEF TypeOK
  <2>3. /\ fresh' \in [Sockets -> BOOLEAN]
        /\ ~Full(s) => fresh'[s]
        /\ \A t \in Sockets : t # s => fresh'[t] = fresh[t]
    BY <2>1 DEF TypeOK, Full
  <2>4. TypeOK'
    BY <1>1, <2>1, <2>2, <2>3, QuietEffect DEF TypeOK
  <2>5. HeldIsBounded' /\ EndingsExact'
    BY <2>1, <2>2, EndingsStutter DEF HeldIsBounded, Held
  <2>6. Phases'
    BY <1>1, <1>2, <2>1, <2>2, <2>3, QuietEffect DEF Phases, Held, Full
  <2>7. Ordered'
    BY <1>1, <2>1, QuietEffect, OrderedEmptied
  <2>8. Barred'
    BY <1>1, <2>1, QuietEffect DEF Barred
  <2> QED
    BY <2>4, <2>5, <2>6, <2>7, <2>8
<1>4. CASE verdict = "refuse"
  <2>1. Fail(s) /\ jobs' = Append(jobs, Do("refusedEnd", s)) /\ UNCHANGED fresh
    BY <1>4 DEF Decision
  <2>2. /\ jobs' \in Seq(Item)
        /\ \A t \in Sockets : t = s \/ Closes(jobs, t) => Closes(jobs', t)
    <3>1. jobs \in Seq(Item) /\ <<Do("refusedEnd", s)>> \in Seq(Item)
      BY CloseType DEF TypeOK
    <3>2. jobs' = jobs \o <<Do("refusedEnd", s)>>
      BY <2>1, <3>1
    <3> QED
      BY <3>1, <3>2, JobsEffect, ClosesOne
  <2>3. Release(s, "failed") /\ refused' = [refused EXCEPT ![s] = TRUE]
    BY <2>1 DEF Fail
  <2>4. EndingsExact' /\ endings' \in Nat /\ waiters' \in BOOLEAN
    BY <2>3, ReleaseCounts
  <2>5. TypeOK'
    BY <1>1, <2>1, <2>2, <2>3, <2>4, QuietEffect, ReleaseEffect DEF TypeOK
  <2>6. HeldIsBounded' /\ Phases'
    BY <1>1, <2>1, <2>3, QuietEffect, ReleaseKeeps
  <2>7. Ordered'
    BY <1>1, <2>3, QuietEffect, ReleaseEffect, OrderedEmptied
  <2>8. Barred'
    BY <1>1, <1>2, <2>1, <2>2, QuietEffect, FailBarred
  <2> QED
    BY <2>4, <2>5, <2>6, <2>7, <2>8
<1> QED
  BY <1>3, <1>4 DEF Decision

LEMMA ResetKeeps ==
  ASSUME IInv, Reset
  PROVE  IInv'
<1> USE DEF IInv
<1>1. /\ ~busy /\ armed' = FALSE
      /\ gate' = [t \in Sockets |-> IF Held(t) THEN "failed" ELSE gate[t]]
      /\ queue' = [t \in Sockets |-> <<>>]
      /\ ready' = [t \in Sockets |-> FALSE] /\ ending' = [t \in Sockets |-> FALSE]
      /\ endings' = 0 /\ waiters' = FALSE
      /\ orphans' = orphans \cup {t \in Sockets : gate[t] = "waiting"}
      /\ UNCHANGED <<busy, work, jobs, next, buf, sent, fresh>>
  BY DEF Reset
<1>2. /\ native' = [t \in Sockets |->
           IF Held(t) /\ native[t] = "open" THEN "ending" ELSE native[t]]
      /\ refused' = [t \in Sockets |-> refused[t] \/ Held(t)]
  BY DEF Reset
<1>3. /\ \A t \in Sockets : gate'[t] \in {"none", "failed"}
      /\ gate' \in [Sockets -> {"none", "open", "pumping", "waiting", "failed"}]
  BY <1>1 DEF TypeOK, Held
<1>4. native' \in [Sockets -> {"open", "ending", "closed"}] /\ refused' \in [Sockets -> BOOLEAN]
  BY <1>2 DEF TypeOK
<1>5. /\ \A t \in Sockets : queue'[t] = <<>> /\ ready'[t] = FALSE /\ ending'[t] = FALSE
      /\ queue' \in [Sockets -> Seq(Item)]
      /\ ready' \in [Sockets -> BOOLEAN] /\ ending' \in [Sockets -> BOOLEAN]
  BY <1>1
<1>6. TypeOK'
  BY <1>1, <1>3, <1>4, <1>5 DEF TypeOK
<1>7. HeldIsBounded'
  BY <1>5, ConstantsAssumption DEF HeldIsBounded
<1>8. EndingsExact'
  <2>1. {t \in Sockets : ending'[t]} = {}
    BY <1>5
  <2> QED
    BY <1>1, <1>5, <2>1, FS_EmptySet DEF EndingsExact
<1>9. Phases'
  BY <1>1, <1>3, <1>5 DEF Phases, Held
<1>10. Ordered'
  BY <1>1, <1>5, OrderedEmptied DEF Ordered, Offered
<1>11. Barred'
  <2>1. \A t \in Sockets : native'[t] = "open" => native[t] = "open" /\ ~Held(t)
    BY <1>2
  <2>2. \A t \in Sockets : refused'[t] => refused[t] \/ Held(t)
    BY <1>2
  <2> QED
    BY <1>1, <2>1, <2>2, QuietBarred DEF Barred
<1> QED
  BY <1>6, <1>7, <1>8, <1>9, <1>10, <1>11

LEMMA ConfigureKeeps ==
  ASSUME IInv, Configure
  PROVE  IInv'
<1> USE DEF IInv
<1>1. /\ ~busy /\ armed' = TRUE
      /\ UNCHANGED <<busy, work, jobs, next, native, buf, gate, queue, ready, ending,
                     endings, waiters, orphans, sent, fresh, refused>>
  BY DEF Configure, backlog, endVars, history
<1>2. TypeOK' /\ HeldIsBounded' /\ EndingsExact' /\ Phases'
  BY <1>1 DEF TypeOK, HeldIsBounded, EndingsExact, Phases, Held, Full
<1>3. Ordered' /\ Barred'
  BY <1>1 DEF Ordered, Offered, Barred
<1> QED
  BY <1>2, <1>3

-----------------------------------------------------------------------------
(* The invariant.                                                          *)

LEMMA InitIInv == Init => IInv
<1> SUFFICES ASSUME Init PROVE IInv
  OBVIOUS
<1> USE DEF Init
<1>1. TypeOK
  <2>1. work \in Seq(Item) /\ jobs \in Seq(Item) /\ queue \in [Sockets -> Seq(Item)]
    OBVIOUS
  <2>2. /\ ready \in [Sockets -> BOOLEAN] /\ ending \in [Sockets -> BOOLEAN]
        /\ fresh \in [Sockets -> BOOLEAN] /\ refused \in [Sockets -> BOOLEAN]
    BY Zenon
  <2>3. /\ native \in [Sockets -> {"open", "ending", "closed"}]
        /\ buf \in [Sockets -> {"empty", "full", "flushed"}]
        /\ gate \in [Sockets -> {"none", "open", "pumping", "waiting", "failed"}]
        /\ endings \in Nat /\ next \in Nat /\ sent \in [Sockets -> Nat]
    OBVIOUS
  <2>4. armed \in BOOLEAN /\ busy \in BOOLEAN /\ waiters \in BOOLEAN /\ orphans \subseteq Sockets
    OBVIOUS
  <2> HIDE DEF Init
  <2> QED
    BY <2>1, <2>2, <2>3, <2>4 DEF TypeOK
<1>2. HeldIsBounded
  BY ConstantsAssumption DEF HeldIsBounded
<1>3. EndingsExact
  <2>1. {s \in Sockets : ending[s]} = {}
    OBVIOUS
  <2> QED
    BY <2>1, FS_EmptySet DEF EndingsExact, Held
<1>4. Phases
  BY DEF Phases, Held
<1>5. Ordered
  <2>1. Sorted(<<>>, 0, 0)
    BY EmptySorted
  <2> QED
    BY <2>1 DEF Ordered, Offered
<1>6. Barred
  BY DEF Barred
<1> QED
  BY <1>1, <1>2, <1>3, <1>4, <1>5, <1>6 DEF IInv

LEMMA AdmitKeeps ==
  ASSUME IInv, Admit
  PROVE  IInv'
BY AdmitUncheckedKeeps, AdmitHeldKeeps, AdmitEndKeeps, AdmitCloseKeeps, AdmitDecidedKeeps,
   AdmitClosedByPolicyKeeps DEF Admit

LEMMA PumpStepKeeps ==
  ASSUME IInv, NEW s \in Sockets, PumpStep(s)
  PROVE  IInv'
BY RetireKeeps, PumpBlockedKeeps, PumpApprovedKeeps, PumpDecidedKeeps,
   PumpClosedByPolicyKeeps DEF PumpStep

LEMMA OperationKeeps ==
  ASSUME IInv, Operation
  PROVE  IInv'
BY EndKeeps, SendUnarmedKeeps, SendKeeps, PublishKeeps DEF Operation

LEMMA AnyEventKeeps ==
  ASSUME IInv, Event
  PROVE  IInv'
BY FlushKeeps, DrainKeeps, RawSendKeeps, TimeoutKeeps, OrphanDecisionKeeps, EndTimerKeeps,
   CloseEventKeeps, DecisionKeeps, DecisionContinuesKeeps, EndedKeeps, ResetKeeps,
   ConfigureKeeps DEF Event

\* A step that changes nothing keeps everything.
LEMMA StutterKeeps ==
  ASSUME IInv, UNCHANGED vars
  PROVE  IInv'
<1>1. UNCHANGED <<armed, busy, work, jobs, next, native, buf, gate, queue, ready, ending,
                  endings, waiters, orphans, sent, fresh, refused>>
  BY DEF vars, worker, backlog, endVars, history
<1>2. TypeOK' /\ HeldIsBounded' /\ EndingsExact' /\ Phases'
  BY <1>1 DEF IInv, TypeOK, HeldIsBounded, EndingsExact, Phases, Held, Full
<1>3. Ordered' /\ Barred'
  BY <1>1 DEF IInv, Ordered, Offered, Barred
<1> QED
  BY <1>2, <1>3 DEF IInv

LEMMA NextIInv == IInv /\ [Next]_vars => IInv'
BY AdmitKeeps, LeaveKeeps, PumpStepKeeps, OperationKeeps, AnyEventKeeps, StutterKeeps
   DEF Next, Running

LEMMA SpecIInv == Spec => []IInv
BY InitIInv, NextIInv, PTL DEF Spec

-----------------------------------------------------------------------------
(* The steps that hand a frame to the transport.                           *)

\* Only an admission and a pump change what was sent to a socket; neither does so to a
\* socket that was refused, and a pump only while the transport has room.
LEMMA SentChanges ==
  ASSUME IInv, Next, NEW s \in Sockets, sent'[s] # sent[s]
  PROVE  /\ sent'[s] >= sent[s]
         /\ ~refused[s]
         /\ gate[s] = "pumping" => ~Full(s)
<1> USE DEF IInv
<1>1. /\ sent \in [Sockets -> Nat] /\ next \in Nat /\ sent[s] <= next
      /\ Sorted(queue[s], sent[s], next) /\ queue[s] \in Seq(Item)
  BY DEF TypeOK, Ordered, Sorted
<1>2. ASSUME NEW t \in Sockets, SendUnarmed(t)
      PROVE  sent'[s] >= sent[s] /\ ~refused[s] /\ gate[s] # "pumping"
  <2>1. ~busy /\ Transmit(t, next + 1)
    BY <1>2 DEF SendUnarmed
  <2>2. sent'[s] = next + 1 /\ native[s] = "open"
    BY <1>1, <2>1, TransmitEffect
  <2> QED
    BY <1>1, <2>1, <2>2, QuietBarred, QuietPhases
<1>3. ASSUME Admitting(Head(work)), ~armed \/ gate[s] = "none",
             Transmit(Head(work).s, Head(work).n), IsFrame(Head(work))
      PROVE  sent'[s] >= sent[s] /\ ~refused[s] /\ gate[s] # "pumping"
  <2>1. /\ Head(work).s \in Sockets /\ Head(work).n = next /\ gate[s] # "pumping"
        /\ Head(work).n \in Nat
    BY <1>3, AdmittingEffect DEF Ordered
  <2>2. sent'[s] = next /\ native[s] = "open"
    BY <1>3, <2>1, TransmitEffect
  <2> QED
    BY <1>1, <1>3, <2>1, <2>2 DEF Barred
<1>4. ASSUME NEW t \in Sockets, Pump(t), queue[t] # <<>>, ~Full(t), HandOver(t)
      PROVE  sent'[s] >= sent[s] /\ ~refused[s] /\ ~Full(s)
  <2>1. Transmit(t, Head(queue[t]).n) /\ Head(queue[t]).n \in Nat
    BY <1>4, HandOverEffect
  <2>2. t = s /\ sent'[s] = Head(queue[s]).n /\ native[s] = "open"
    BY <2>1, TransmitEffect
  <2>3. sent[s] <= Head(queue[s]).n
    BY <1>1, <1>4, <2>2, TailSorted
  <2>4. gate[s] = "pumping"
    BY <1>4, <2>2 DEF Pump
  <2> QED
    BY <1>1, <1>4, <2>2, <2>3, <2>4 DEF Barred
<1>5. CASE Admit
  <2>1. ASSUME AdmitUnchecked(Head(work))
        PROVE  sent'[s] >= sent[s] /\ ~refused[s] /\ gate[s] # "pumping"
    <3>1. /\ Admitting(Head(work)) /\ IsFrame(Head(work)) /\ Unguarded(Head(work))
          /\ Transmit(Head(work).s, Head(work).n)
      BY <2>1 DEF AdmitUnchecked
    <3>2. s = Head(work).s /\ native[s] = "open"
      BY <3>1, AdmittingEffect, TransmitEffect DEF Ordered
    <3> QED
      BY <1>3, <3>1, <3>2 DEF Unguarded
  <2>2. ASSUME NEW verdict \in Verdicts, NEW nested \in Nested,
               AdmitDecided(Head(work), verdict, nested)
        PROVE  sent'[s] >= sent[s] /\ ~refused[s] /\ gate[s] # "pumping"
    <3>1. /\ Admitting(Head(work)) /\ IsFrame(Head(work)) /\ gate[Head(work).s] = "none"
          /\ Transmit(Head(work).s, Head(work).n)
      BY <2>2 DEF AdmitDecided, MayDecide, IsFrame, history
    <3>2. s = Head(work).s
      BY <3>1, AdmittingEffect, TransmitEffect DEF Ordered
    <3> QED
      BY <1>3, <3>1, <3>2
  <2>3. ~AdmitHeld(Head(work)) /\ ~AdmitEnd(Head(work)) /\ ~AdmitClose(Head(work))
    BY DEF AdmitHeld, AdmitEnd, AdmitClose, history
  <2>4. \A verdict, nested : ~AdmitClosedByPolicy(Head(work), verdict, nested)
    BY DEF AdmitClosedByPolicy
  <2> QED
    BY <1>5, <2>1, <2>2, <2>3, <2>4 DEF Admit
<1>6. ASSUME NEW t \in Sockets, PumpStep(t)
      PROVE  sent'[s] >= sent[s] /\ ~refused[s] /\ ~Full(s)
  <2>1. ~Retire(t) /\ ~PumpBlocked(t)
    BY DEF Retire, PumpBlocked, history
  <2>2. \A verdict, nested : ~PumpClosedByPolicy(t, verdict, nested)
    BY DEF PumpClosedByPolicy
  <2>3. Pump(t) /\ queue[t] # <<>> /\ ~Full(t) /\ HandOver(t)
    BY <1>6, <2>1, <2>2 DEF PumpStep, PumpApproved, PumpDecided, Undecided, history
  <2> QED
    BY <1>4, <2>3
<1>7. ~Leave /\ ~Event
  BY DEF Leave, Event, Flush, Drain, RawSend, Timeout, OrphanDecision, EndTimer, CloseEvent,
         Decision, DecisionContinues, Ended, Reset, Configure, history
<1>8. \A t \in Sockets : ~End(t) /\ \A op \in Ops : ~Send(op, t)
  BY DEF End, Send, Start, history
<1>9. \A first, second \in Sockets : ~Publish(first, second)
  BY DEF Publish, Start, history
<1> QED
  BY <1>2, <1>5, <1>6, <1>7, <1>8, <1>9 DEF Next, Operation, Running

-----------------------------------------------------------------------------
(* The theorems.                                                           *)

\* Type correctness: the worker's and every socket's state stay in their types, for any
\* finite set of connections and any bound.
THEOREM TypeCorrect == Spec => []TypeOK
<1>1. IInv => TypeOK
  BY DEF IInv
<1> QED
  BY <1>1, SpecIInv, PTL

\* A socket never holds more than maxPendingBytes and the entry that crossed it.
THEOREM HoldsBounded == Spec => []HeldIsBounded
<1>1. IInv => HeldIsBounded
  BY DEF IInv
<1> QED
  BY <1>1, SpecIInv, PTL

\* endings counts the ends that wait for held frames, whatever released the backlog, and
\* a shutdown that waits for them is never left waiting for none.
THEOREM EndingsCounted == Spec => []EndingsExact
<1>1. IInv => EndingsExact
  BY DEF IInv
<1> QED
  BY <1>1, SpecIInv, PTL

\* No frame passes a held one on its way to a socket.
THEOREM NeverOvertakes == Spec => NoOvertaking
<1>1. IInv /\ [Next]_vars => [\A s \in Sockets : sent'[s] >= sent[s]]_vars
  <2> SUFFICES ASSUME IInv, Next, NEW s \in Sockets
               PROVE  sent'[s] >= sent[s]
    BY DEF vars, worker, backlog, endVars, history
  <2>1. CASE sent'[s] = sent[s]
    BY <2>1 DEF IInv, TypeOK
  <2> QED
    BY <2>1, SentChanges
<1> QED
  BY <1>1, SpecIInv, PTL DEF Spec, NoOvertaking

\* Nothing reaches a socket after a frame of it was refused.
THEOREM RefusalBars == Spec => NothingAfterRefusal
<1>1. IInv /\ [Next]_vars => [\A s \in Sockets : refused[s] => sent'[s] = sent[s]]_vars
  BY SentChanges
<1> QED
  BY <1>1, SpecIInv, PTL DEF Spec, NothingAfterRefusal

\* A held application frame reaches an empty transport on a verdict that is still good.
THEOREM DecidesLate == Spec => DecidedLate
<1>1. ASSUME IInv, Next, NEW s \in Sockets, gate[s] = "pumping", sent'[s] # sent[s]
      PROVE  ~Full(s) /\ (ready[s] => fresh[s])
  <2>1. ~Full(s)
    BY <1>1, SentChanges
  <2> QED
    BY <1>1, <2>1 DEF IInv, Phases
<1>2. IInv /\ [Next]_vars =>
        [\A s \in Sockets :
           (/\ gate[s] = "pumping" /\ queue[s] # <<>> /\ Head(queue[s]).op = "app"
            /\ sent'[s] # sent[s])
             => ~Full(s) /\ (ready[s] => fresh[s])]_vars
  BY <1>1
<1> QED
  BY <1>2, SpecIInv, PTL DEF Spec, DecidedLate

=============================================================================
