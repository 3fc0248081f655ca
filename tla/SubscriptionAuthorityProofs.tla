--------------------- MODULE SubscriptionAuthorityProofs ---------------------
(***************************************************************************)
(* Proofs about SubscriptionAuthority, for any finite sets of topics and   *)
(* attempts and any values of the caps.                                    *)
(*                                                                         *)
(* The inductive invariant says four things beyond the types: the record   *)
(* counts the parked attempts; a parked attempt that a revocation overtook *)
(* carries a stamp below its topic's epoch; a flag of authority on an      *)
(* entry is backed by an authorized membership; and a membership without   *)
(* authority is one that an attempt in flight has still to judge.          *)
(***************************************************************************)
EXTENDS SubscriptionAuthority, FiniteSetTheorems, TLAPS

ParkedOn(t) == {a \in Attempts : Parked(a) /\ att[a].topic = t}
ParkedAll   == {a \in Attempts : Parked(a)}

Stamped ==
  ~closed => \A a \in Attempts :
    Parked(a) => /\ att[a].token <= epoch[att[a].topic]
                 /\ att[a].revoked => att[a].token < epoch[att[a].topic]

FlagBacked == \A t \in Topics : granted[t] => Entry(t) /\ t \in subs /\ authority[t]

Judged == \A t \in subs : authority[t] \/ Unconfirmed(t)

Counted ==
  ~closed =>
    /\ \A t \in Topics : inflight[t] = Cardinality(ParkedOn(t))
    /\ total = Cardinality(ParkedAll)

Emptied == closed => subs = {}

IInv == TypeOK /\ Counted /\ Stamped /\ FlagBacked /\ Judged /\ Emptied

-----------------------------------------------------------------------------
(* Counting.                                                               *)

\* Adding a new element to a finite set, and removing one from it, moves its
\* cardinality by one: what one enrolment and one settle do to the record.
LEMMA AddOne ==
  ASSUME NEW S, NEW x, IsFiniteSet(S), x \notin S
  PROVE  Cardinality(S \cup {x}) = Cardinality(S) + 1
BY FS_AddElement

LEMMA RemoveOne ==
  ASSUME NEW S, NEW x, IsFiniteSet(S), x \in S
  PROVE  /\ Cardinality(S \ {x}) = Cardinality(S) - 1
         /\ Cardinality(S) \in Nat \ {0}
<1>1. Cardinality(S) \in Nat
  BY FS_CardinalityType
<1>2. S # {}
  OBVIOUS
<1>3. Cardinality(S) # 0
  BY <1>2, FS_EmptySet
<1>4. Cardinality(S \ {x}) = Cardinality(S) - 1
  BY FS_RemoveElement
<1> QED
  BY <1>1, <1>3, <1>4

LEMMA FiniteParked ==
  /\ IsFiniteSet(ParkedAll)
  /\ \A t \in Topics : IsFiniteSet(ParkedOn(t))
<1>1. \A S \in SUBSET Attempts : IsFiniteSet(S)
  BY ConstantsAssumption, FS_Subset
<1> QED
  BY <1>1 DEF ParkedAll, ParkedOn

\* A parked attempt always finds its entry: the record counts at least itself.
LEMMA ParkedHasEntry ==
  ASSUME TypeOK, Counted, ~closed, NEW a \in Attempts, Parked(a)
  PROVE  /\ Entry(att[a].topic)
         /\ total > 0
         /\ inflight[att[a].topic] <= 1 =>
              \A b \in Attempts : Parked(b) /\ att[b].topic = att[a].topic => b = a
<1> DEFINE t == att[a].topic
<1>1. t \in Topics
  BY DEF TypeOK, AttemptState
<1>2. a \in ParkedOn(t) /\ a \in ParkedAll
  BY DEF ParkedOn, ParkedAll
<1>3. /\ Cardinality(ParkedOn(t)) \in Nat \ {0}
      /\ Cardinality(ParkedOn(t) \ {a}) = Cardinality(ParkedOn(t)) - 1
      /\ Cardinality(ParkedAll) \in Nat \ {0}
  BY <1>1, <1>2, FiniteParked, RemoveOne
<1>4. inflight[t] = Cardinality(ParkedOn(t)) /\ total = Cardinality(ParkedAll)
  BY <1>1 DEF Counted
<1>5. Entry(t) /\ total > 0
  BY <1>3, <1>4 DEF Entry
<1>6. ASSUME inflight[t] <= 1, NEW b \in Attempts, Parked(b), att[b].topic = t
      PROVE  b = a
  <2>1. Cardinality(ParkedOn(t) \ {a}) = 0
    BY <1>3, <1>4, <1>6
  <2>2. IsFiniteSet(ParkedOn(t) \ {a})
    BY <1>1, FiniteParked, FS_Difference
  <2>3. ParkedOn(t) \ {a} = {}
    BY <2>1, <2>2, FS_EmptySet
  <2> QED
    BY <1>6, <2>3 DEF ParkedOn
<1> QED
  BY <1>5, <1>6

\* Steps that neither enrol nor settle an attempt leave the count exact.
LEMMA SameCounts ==
  ASSUME Counted, closed' = closed, inflight' = inflight, total' = total,
         \A a \in Attempts : Parked(a)' <=> Parked(a),
         \A a \in Attempts : Parked(a) => att'[a].topic = att[a].topic
  PROVE  Counted'
<1>1. ParkedAll' = ParkedAll
  BY DEF ParkedAll
<1>2. \A t \in Topics : ParkedOn(t)' = ParkedOn(t)
  BY DEF ParkedOn
<1> QED
  BY <1>1, <1>2 DEF Counted

\* An enrolment is counted once, for its topic and in the total.
LEMMA EnterCounts ==
  ASSUME TypeOK, Counted, NEW a \in Attempts, NEW t \in Topics,
         NEW lane, NEW verdict, NEW recover,
         ~Parked(a), Enrol(a, t, lane, verdict, recover)
  PROVE  Counted'
<1>1. /\ Parked(a)' /\ att'[a].topic = t
      /\ \A b \in Attempts \ {a} : att'[b] = att[b]
  BY DEF Enrol, TypeOK, Parked
<1>2. \A b \in Attempts \ {a} : (Parked(b)' <=> Parked(b)) /\ att'[b].topic = att[b].topic
  BY <1>1 DEF Parked
<1>3. /\ ParkedAll' = ParkedAll \cup {a} /\ a \notin ParkedAll
      /\ ParkedOn(t)' = ParkedOn(t) \cup {a} /\ a \notin ParkedOn(t)
      /\ \A u \in Topics \ {t} : ParkedOn(u)' = ParkedOn(u)
  BY <1>1, <1>2 DEF ParkedAll, ParkedOn
<1>4. /\ Cardinality(ParkedAll') = Cardinality(ParkedAll) + 1
      /\ Cardinality(ParkedOn(t)') = Cardinality(ParkedOn(t)) + 1
  BY <1>3, FiniteParked, AddOne
<1>5. /\ closed' = closed
      /\ total' = total + 1
      /\ \A u \in Topics : inflight'[u] = IF u = t THEN inflight[u] + 1 ELSE inflight[u]
  BY DEF Enrol, TypeOK
<1> QED
  BY <1>3, <1>4, <1>5 DEF Counted

\* A settle is discounted once, for its topic and in the total.
LEMMA LeaveCounts ==
  ASSUME TypeOK, Counted, NEW a \in Attempts, NEW mark,
         NEW t \in Topics, att[a].topic = t,
         Parked(a), ~Parked(a)', closed' = closed,
         \A b \in Attempts \ {a} : att'[b] = att[b],
         Leave(t, mark)
  PROVE  Counted'
<1>2. \A b \in Attempts \ {a} : (Parked(b)' <=> Parked(b)) /\ att'[b].topic = att[b].topic
  BY DEF Parked
<1>3. /\ ParkedAll' = ParkedAll \ {a} /\ a \in ParkedAll
      /\ ParkedOn(t)' = ParkedOn(t) \ {a} /\ a \in ParkedOn(t)
      /\ \A u \in Topics \ {t} : ParkedOn(u)' = ParkedOn(u)
  BY <1>2 DEF ParkedAll, ParkedOn
<1>4. /\ Cardinality(ParkedAll') = Cardinality(ParkedAll) - 1
      /\ Cardinality(ParkedOn(t)') = Cardinality(ParkedOn(t)) - 1
  BY <1>3, FiniteParked, RemoveOne
<1>5. /\ total' = total - 1
      /\ \A u \in Topics : inflight'[u] = IF u = t THEN inflight[u] - 1 ELSE inflight[u]
  BY DEF Leave, TypeOK
<1> QED
  BY <1>3, <1>4, <1>5 DEF Counted

-----------------------------------------------------------------------------
(* What one settle does to the record, whoever settles.                    *)

\* A settle keeps the record well-typed and every remaining stamp meaningful:
\* the epoch restarts only when nobody holds a stamp of the topic.
LEMMA LeaveRecord ==
  ASSUME IInv, ~closed, closed' = closed, NEW a \in Attempts, NEW mark \in BOOLEAN,
         NEW t \in Topics, att[a].topic = t,
         Parked(a), ~Parked(a)', Leave(t, mark),
         \A b \in Attempts \ {a} : att'[b] = att[b]
  PROVE  /\ epoch' \in [Topics -> Nat]
         /\ inflight' \in [Topics -> Nat]
         /\ granted' \in [Topics -> BOOLEAN]
         /\ total' \in Nat
         /\ Counted'
         /\ Stamped'
         /\ \A u \in Topics : u # t =>
              granted'[u] = granted[u] /\ (Entry(u)' <=> Entry(u))
         /\ Entry(t)' <=> inflight[t] > 1
         /\ granted'[t] <=> (inflight[t] > 1 /\ mark)
<1>0. inflight[t] \in Nat /\ total \in Nat
  BY DEF IInv, TypeOK
<1>1. /\ Entry(t) /\ total > 0
      /\ inflight[t] <= 1 => \A b \in Attempts : Parked(b) /\ att[b].topic = t => b = a
  BY ParkedHasEntry DEF IInv
<1>2. Counted'
  BY LeaveCounts DEF IInv
<1>3. /\ epoch' \in [Topics -> Nat]
      /\ inflight' \in [Topics -> Nat]
      /\ granted' \in [Topics -> BOOLEAN]
      /\ total' \in Nat
  <2> DEFINE m == IF inflight[t] <= 1 THEN FALSE ELSE mark
             k == IF inflight[t] <= 1 THEN 0 ELSE epoch[t]
             n == inflight[t] - 1
  <2>1. m \in BOOLEAN
    OBVIOUS
  <2>2. k \in Nat /\ n \in Nat /\ total - 1 \in Nat
    BY <1>0, <1>1 DEF IInv, TypeOK, Entry
  <2>3. /\ epoch' = [epoch EXCEPT ![t] = k] /\ granted' = [granted EXCEPT ![t] = m]
        /\ inflight' = [inflight EXCEPT ![t] = n] /\ total' = total - 1
    BY DEF Leave
  <2> HIDE DEF m, k, n
  <2> QED
    BY <2>1, <2>2, <2>3 DEF IInv, TypeOK
<1>4. Stamped'
  <2> SUFFICES ASSUME NEW b \in Attempts, Parked(b)'
               PROVE  /\ att'[b].token <= epoch'[att'[b].topic]
                      /\ att'[b].revoked => att'[b].token < epoch'[att'[b].topic]
    BY DEF Stamped
  <2>1. b # a /\ att'[b] = att[b] /\ Parked(b) /\ att[b].topic \in Topics
    BY DEF Parked, IInv, TypeOK, AttemptState
  <2>2. epoch'[att[b].topic] = epoch[att[b].topic]
    BY <1>0, <1>1, <2>1 DEF Leave, IInv, TypeOK
  <2> QED
    BY <2>1, <2>2 DEF IInv, Stamped
<1>5. \A u \in Topics : u # t => granted'[u] = granted[u] /\ inflight'[u] = inflight[u]
  BY DEF Leave, IInv, TypeOK
<1>6. /\ inflight'[t] = inflight[t] - 1
      /\ granted'[t] = (IF inflight[t] <= 1 THEN FALSE ELSE mark)
  BY <1>0 DEF Leave, IInv, TypeOK
<1> QED
  BY <1>0, <1>1, <1>2, <1>3, <1>4, <1>5, <1>6 DEF Entry

-----------------------------------------------------------------------------
(* One lemma per way a step can move the attempt and the record.           *)

LEMMA Resting ==
  ASSUME TypeOK, NEW a \in Attempts, NEW st \in {"idle", "acked"}, NEW t \in Topics,
         NEW refused \in BOOLEAN, att' = [att EXCEPT ![a] = Rest(st, t, refused)]
  PROVE  /\ att' \in [Attempts -> AttemptState]
         /\ att'[a].st = st /\ att'[a].topic = t /\ ~Parked(a)'
         /\ \A b \in Attempts \ {a} : att'[b] = att[b]
<1>1. Rest(st, t, refused) \in AttemptState
  BY DEF Rest, AttemptState, AllLanes
<1>2. att'[a] = Rest(st, t, refused)
  BY DEF TypeOK
<1> QED
  BY <1>1, <1>2 DEF TypeOK, Rest, Parked

\* Steps that leave the record, the memberships and every running attempt's
\* stamp alone keep the invariant.
LEMMA QuietKeeps ==
  ASSUME IInv, TypeOK', UNCHANGED <<closed, record, subs, authority>>,
         closed \/ \A a \in Attempts : Parked(a)' <=> Parked(a),
         \A a \in Attempts : Parked(a) /\ Parked(a)' =>
            /\ att'[a].topic = att[a].topic
            /\ att'[a].token = att[a].token
            /\ att'[a].revoked = att[a].revoked
  PROVE  IInv'
<1>0. UNCHANGED <<closed, epoch, inflight, granted, total, subs, authority>>
  BY DEF record
<1>1. Counted'
  <2>1. CASE closed
    BY <1>0, <2>1 DEF Counted
  <2>2. CASE ~closed
    BY <1>0, <2>2, SameCounts DEF IInv
  <2> QED
    BY <2>1, <2>2
<1>2. Stamped'
  <2>1. CASE closed
    BY <1>0, <2>1 DEF Stamped
  <2>2. CASE ~closed
    BY <1>0, <2>2 DEF IInv, Stamped
  <2> QED
    BY <2>1, <2>2
<1>3. FlagBacked' /\ Judged' /\ Emptied'
  BY <1>0 DEF IInv, FlagBacked, Judged, Emptied, Entry, Unconfirmed
<1> QED
  BY <1>1, <1>2, <1>3 DEF IInv

\* An enrolment seeds the flag only from a membership that is authorized.
LEMMA EnrolKeeps ==
  ASSUME IInv, ~closed, NEW a \in Attempts, NEW t \in Topics, NEW lane \in AllLanes,
         NEW verdict \in {"open", "allow", "deny"}, NEW recover \in BOOLEAN,
         att[a].st = "idle", Enrol(a, t, lane, verdict, recover)
  PROVE  IInv'
<1> DEFINE r == [st |-> "gate", lane |-> lane, topic |-> t, token |-> epoch[t],
                 verdict |-> verdict, recover |-> recover, revoked |-> FALSE,
                 refused |-> FALSE]
           g == IF Entry(t) THEN granted[t] ELSE t \in subs
<1>0. /\ UNCHANGED <<closed, hook, armed, strict, subs, taps, authority, epoch>>
      /\ inflight' = [inflight EXCEPT ![t] = inflight[t] + 1]
      /\ granted' = [granted EXCEPT ![t] = g]
      /\ total' = total + 1
      /\ att' = [att EXCEPT ![a] = r]
  BY DEF Enrol, members, posture
<1>1. r \in AttemptState /\ g \in BOOLEAN /\ inflight[t] \in Nat
  <2>1. epoch[t] \in Nat /\ inflight[t] \in Nat /\ granted[t] \in BOOLEAN
    BY DEF IInv, TypeOK
  <2>2. r \in AttemptState
    BY <2>1 DEF AttemptState
  <2>3. (t \in subs) \in BOOLEAN
    OBVIOUS
  <2>4. g \in BOOLEAN
    BY <2>1, <2>3, Zenon
  <2> QED
    BY <2>1, <2>2, <2>4
<1>2. TypeOK'
  <2> HIDE DEF r, g
  <2> QED
    BY <1>0, <1>1 DEF IInv, TypeOK
<1>3. Counted'
  BY EnterCounts DEF IInv, Parked
<1>4. Stamped'
  <2> SUFFICES ASSUME NEW b \in Attempts, Parked(b)'
               PROVE  /\ att'[b].token <= epoch'[att'[b].topic]
                      /\ att'[b].revoked => att'[b].token < epoch'[att'[b].topic]
    BY DEF Stamped
  <2>1. CASE b = a
    BY <1>0, <2>1 DEF IInv, TypeOK
  <2>2. CASE b # a
    BY <1>0, <2>2 DEF IInv, TypeOK, Stamped, Parked
  <2> QED
    BY <2>1, <2>2
<1>5. Entry(t)' /\ \A u \in Topics \ {t} : (Entry(u)' <=> Entry(u)) /\ granted'[u] = granted[u]
  BY <1>0, <1>1 DEF Entry, IInv, TypeOK
<1>6. granted'[t] = g
  BY <1>0 DEF IInv, TypeOK
<1>7. FlagBacked'
  BY <1>0, <1>5, <1>6 DEF IInv, FlagBacked, Judged, Unconfirmed
<1>8. Judged'
  BY <1>0, <1>5, <1>6 DEF IInv, Judged, Unconfirmed, TypeOK
<1> QED
  BY <1>0, <1>2, <1>3, <1>4, <1>7, <1>8 DEF IInv, Emptied

\* What a settle must do to the topic it settles: leave a flag only over
\* authority, and leave no membership that nothing authorized and nobody will judge.
LEMMA SettleKeeps ==
  ASSUME IInv, ~closed, UNCHANGED <<closed, posture>>,
         NEW a \in Attempts, NEW t \in Topics, NEW mark \in BOOLEAN,
         att[a].topic = t, Parked(a), ~Parked(a)', Leave(t, mark),
         att' \in [Attempts -> AttemptState],
         \A b \in Attempts \ {a} : att'[b] = att[b],
         subs' \subseteq Topics, taps' \subseteq Topics,
         authority' \in [Topics -> BOOLEAN],
         \A u \in Topics \ {t} : (u \in subs' <=> u \in subs) /\ authority'[u] = authority[u],
         inflight[t] > 1 /\ mark => t \in subs' /\ authority'[t],
         t \in subs' => authority'[t] \/ (inflight[t] > 1 /\ ~mark)
  PROVE  IInv'
<1>1. /\ epoch' \in [Topics -> Nat]
      /\ inflight' \in [Topics -> Nat]
      /\ granted' \in [Topics -> BOOLEAN]
      /\ total' \in Nat
      /\ Counted'
      /\ Stamped'
      /\ \A u \in Topics : u # t => granted'[u] = granted[u] /\ (Entry(u)' <=> Entry(u))
      /\ Entry(t)' <=> inflight[t] > 1
      /\ granted'[t] <=> (inflight[t] > 1 /\ mark)
  BY LeaveRecord
<1>2. TypeOK'
  BY <1>1 DEF IInv, TypeOK, posture
<1>3. FlagBacked'
  BY <1>1 DEF IInv, FlagBacked
<1>4. Judged'
  <2> SUFFICES ASSUME NEW u \in subs' PROVE authority'[u] \/ (Entry(u)' /\ ~granted'[u])
    BY DEF Judged, Unconfirmed
  <2>1. CASE u = t
    BY <1>1, <2>1
  <2>2. CASE u # t
    BY <1>1, <2>2 DEF IInv, Judged, Unconfirmed
  <2> QED
    BY <2>1, <2>2
<1> QED
  BY <1>1, <1>2, <1>3, <1>4 DEF IInv, Emptied

\* A refusal leaves the topic judged: the last attempt out unwinds what nothing backs.
LEMMA SettleDeniedKeeps ==
  ASSUME IInv, ~closed, UNCHANGED <<closed, posture>>, NEW a \in Attempts,
         Parked(a), SettleDenied(a)
  PROVE  IInv'
<1> PICK t \in Topics : att[a].topic = t
  BY DEF IInv, TypeOK, AttemptState
<1>1. /\ Leave(t, granted[t]) /\ Finish(a)
      /\ granted[t] \in BOOLEAN /\ inflight[t] \in Nat
      /\ authority \in [Topics -> BOOLEAN] /\ subs \subseteq Topics /\ taps \subseteq Topics
  BY DEF SettleDenied, IInv, TypeOK
<1>2. /\ att' \in [Attempts -> AttemptState] /\ ~Parked(a)'
      /\ \A b \in Attempts \ {a} : att'[b] = att[b]
  BY <1>1, Resting DEF Finish, IInv
<1>3. CASE t \in subs /\ ~granted[t] /\ inflight[t] <= 1
  <2>1. /\ subs' = subs \ {t} /\ taps' = taps \ {t}
        /\ authority' = [authority EXCEPT ![t] = FALSE]
    BY <1>3 DEF SettleDenied, Unwind
  <2> QED
    BY <1>1, <1>2, <1>3, <2>1, SettleKeeps
<1>4. CASE ~(t \in subs /\ ~granted[t] /\ inflight[t] <= 1)
  <2>1. UNCHANGED <<subs, taps, authority>>
    BY <1>4 DEF SettleDenied, members
  <2>2. granted[t] => t \in subs /\ authority[t]
    BY DEF IInv, FlagBacked
  <2>3. t \in subs => authority[t] \/ (inflight[t] > 1 /\ ~granted[t])
    BY <1>1, <1>4, <2>2
  <2> QED
    BY <1>1, <1>2, <2>1, <2>2, <2>3, SettleKeeps
<1> QED
  BY <1>3, <1>4

\* A landing that finds the topic held acks only what authority backs.
LEMMA SettleHeldKeeps ==
  ASSUME IInv, ~closed, UNCHANGED <<closed, posture>>, NEW a \in Attempts,
         Parked(a), SettleHeld(a), att[a].topic \in subs
  PROVE  IInv'
<1> PICK t \in Topics : att[a].topic = t
  BY DEF IInv, TypeOK, AttemptState
<1> DEFINE ack == Live(a) \/ granted[t]
<1>1. /\ Leave(t, ack)
      /\ granted[t] \in BOOLEAN /\ inflight[t] \in Nat
      /\ authority \in [Topics -> BOOLEAN] /\ subs \subseteq Topics /\ taps \subseteq Topics
      /\ att[a] \in AttemptState
  BY DEF SettleHeld, IInv, TypeOK
<1>2. ack \in BOOLEAN
  BY <1>1, Zenon DEF Live
<1>3. Live(a) => ~att[a].revoked
  BY <1>1 DEF Live, IInv, Stamped, TypeOK, AttemptState
<1>4. granted[t] => authority[t]
  BY DEF IInv, FlagBacked
<1>5. CASE ack
  <2>1. /\ UNCHANGED <<subs, taps>>
        /\ authority' = [authority EXCEPT ![t] = @ \/ ~att[a].revoked]
    BY <1>5 DEF SettleHeld
  <2>2. authority'[t] /\ authority' \in [Topics -> BOOLEAN]
    BY <1>1, <1>3, <1>4, <1>5, <2>1 DEF AttemptState
  <2>3. /\ att' \in [Attempts -> AttemptState] /\ ~Parked(a)'
        /\ \A b \in Attempts \ {a} : att'[b] = att[b]
    <3>1. CASE att[a].lane = "derived"
      BY <1>1, <1>5, <3>1 DEF SettleHeld, IInv, TypeOK, AttemptState, Parked
    <3>2. CASE att[a].lane # "derived"
      <4>1. att' = [att EXCEPT ![a] = Rest("acked", t, att[a].refused)]
        BY <1>5, <3>2 DEF SettleHeld, Ack
      <4>2. att[a].refused \in BOOLEAN
        BY <1>1 DEF AttemptState
      <4> QED
        BY <4>1, <4>2, Resting DEF IInv
    <3> QED
      BY <3>1, <3>2
  <2> HIDE DEF ack
  <2> QED
    BY <1>1, <1>2, <2>1, <2>2, <2>3, SettleKeeps
<1>6. CASE ~ack
  <2>1. Finish(a) /\ (IF inflight[t] <= 1 THEN Unwind(t) ELSE UNCHANGED members)
    BY <1>6 DEF SettleHeld
  <2>2. /\ att' \in [Attempts -> AttemptState] /\ ~Parked(a)'
        /\ \A b \in Attempts \ {a} : att'[b] = att[b]
    BY <2>1, Resting DEF Finish, IInv
  <2> HIDE DEF ack
  <2>3. CASE inflight[t] <= 1
    <3>1. /\ subs' = subs \ {t} /\ taps' = taps \ {t}
          /\ authority' = [authority EXCEPT ![t] = FALSE]
      BY <2>1, <2>3 DEF Unwind
    <3> QED
      BY <1>1, <1>2, <1>6, <2>2, <2>3, <3>1, SettleKeeps
  <2>4. CASE ~(inflight[t] <= 1)
    <3>1. UNCHANGED <<subs, taps, authority>>
      BY <2>1, <2>4 DEF members
    <3> QED
      BY <1>1, <1>2, <1>6, <2>2, <2>4, <3>1, SettleKeeps
  <2> QED
    BY <2>3, <2>4
<1> QED
  BY <1>5, <1>6

\* An attempt a revocation overtook leaves without touching any membership.
LEMMA SettleStaleKeeps ==
  ASSUME IInv, ~closed, UNCHANGED <<closed, posture>>, NEW a \in Attempts,
         Parked(a), SettleStale(a), att[a].topic \notin subs
  PROVE  IInv'
<1> PICK t \in Topics : att[a].topic = t
  BY DEF IInv, TypeOK, AttemptState
<1>1. /\ Leave(t, granted[t]) /\ Finish(a) /\ UNCHANGED <<subs, taps, authority>>
      /\ granted[t] \in BOOLEAN /\ ~granted[t]
      /\ authority \in [Topics -> BOOLEAN] /\ subs \subseteq Topics /\ taps \subseteq Topics
  BY DEF SettleStale, members, IInv, TypeOK, FlagBacked
<1>2. /\ att' \in [Attempts -> AttemptState] /\ ~Parked(a)'
      /\ \A b \in Attempts \ {a} : att'[b] = att[b]
  BY <1>1, Resting DEF Finish, IInv
<1> QED
  BY <1>1, <1>2, SettleKeeps

\* An install is by an attempt no revocation overtook, so authority backs it.
LEMMA SettleInstallKeeps ==
  ASSUME IInv, ~closed, UNCHANGED <<closed, posture>>, NEW a \in Attempts,
         Parked(a), Live(a), SettleInstall(a)
  PROVE  IInv'
<1> PICK t \in Topics : att[a].topic = t
  BY DEF IInv, TypeOK, AttemptState
<1>1. /\ Leave(t, TRUE) /\ Ack(a) /\ subs' = subs \cup {t} /\ taps' = taps
      /\ authority' = [authority EXCEPT ![t] = ~att[a].revoked]
      /\ authority \in [Topics -> BOOLEAN] /\ subs \subseteq Topics /\ taps \subseteq Topics
      /\ att[a] \in AttemptState
  BY DEF SettleInstall, IInv, TypeOK
<1>2. ~att[a].revoked
  BY <1>1 DEF Live, IInv, Stamped, TypeOK, AttemptState
<1>3. authority'[t] /\ authority' \in [Topics -> BOOLEAN]
  BY <1>1, <1>2
<1>4. /\ att' \in [Attempts -> AttemptState] /\ ~Parked(a)'
      /\ \A b \in Attempts \ {a} : att'[b] = att[b]
  BY <1>1, Resting DEF Ack, IInv, AttemptState
<1> QED
  BY <1>1, <1>3, <1>4, SettleKeeps

\* An observer's landing leaves a membership alone, whatever it answers.
LEMMA LandObserverKeeps ==
  ASSUME IInv, NEW a \in Attempts, LandObserver(a)
  PROVE  IInv'
<1> PICK t \in Topics : att[a].topic = t
  BY DEF IInv, TypeOK, AttemptState
<1>1. ~closed /\ Parked(a) /\ t \notin subs /\ UNCHANGED <<closed, posture>>
  BY DEF LandObserver, Allowed, MayLand, Parked
<1>2. CASE Live(a)
  <2>1. /\ Leave(t, granted[t]) /\ UNCHANGED <<subs, taps, authority>>
        /\ att' = [att EXCEPT ![a].st = "tapping"]
    BY <1>2 DEF LandObserver, members
  <2>2. /\ att' \in [Attempts -> AttemptState] /\ ~Parked(a)'
        /\ \A b \in Attempts \ {a} : att'[b] = att[b]
    BY <2>1 DEF IInv, TypeOK, AttemptState, Parked
  <2>3. /\ granted[t] \in BOOLEAN /\ ~granted[t]
        /\ authority \in [Topics -> BOOLEAN] /\ subs \subseteq Topics /\ taps \subseteq Topics
    BY <1>1 DEF IInv, TypeOK, FlagBacked
  <2> QED
    BY <1>1, <2>1, <2>2, <2>3, SettleKeeps
<1>3. CASE ~Live(a)
  <2>1. SettleStale(a)
    BY <1>3 DEF LandObserver
  <2> QED
    BY <1>1, <2>1, SettleStaleKeeps
<1> QED
  BY <1>2, <1>3

\* A fresh landing is refused, overtaken, or installs under a live stamp.
LEMMA LandFreshKeeps ==
  ASSUME IInv, NEW a \in Attempts, LandFresh(a)
  PROVE  IInv'
<1>1. ~closed /\ Parked(a) /\ att[a].topic \notin subs /\ UNCHANGED <<closed, posture>>
  BY DEF LandFresh, Allowed, MayLand, Parked
<1>2. SettleDenied(a) \/ (Live(a) /\ SettleInstall(a)) \/ SettleStale(a)
  BY DEF LandFresh
<1> QED
  BY <1>1, <1>2, SettleDeniedKeeps, SettleInstallKeeps, SettleStaleKeeps

\* Marking an attempt as overtaken changes nothing else of it.
LEMMA Marking ==
  ASSUME NEW r \in AttemptState
  PROVE  /\ [r EXCEPT !.revoked = TRUE] \in AttemptState
         /\ [r EXCEPT !.revoked = TRUE].topic = r.topic
         /\ [r EXCEPT !.revoked = TRUE].token = r.token
         /\ [r EXCEPT !.revoked = TRUE].st = r.st
BY DEF AttemptState

Prepared(r, w, no) == [r EXCEPT !.st = "prepared", !.refused = no, !.verdict = w]

\* Preparing a recovery entry changes its phase, its verdict and its history only.
LEMMA Preparing ==
  ASSUME NEW r \in AttemptState, NEW w \in {"open", "allow", "deny"}, NEW no \in BOOLEAN
  PROVE  /\ Prepared(r, w, no) \in AttemptState /\ Prepared(r, w, no).st = "prepared"
         /\ Prepared(r, w, no).topic = r.topic /\ Prepared(r, w, no).token = r.token
         /\ Prepared(r, w, no).revoked = r.revoked
BY DEF AttemptState, Prepared

\* A prepared entry waits on; every other attempt is left alone.
LEMMA PrepareMoves ==
  ASSUME IInv, NEW a \in Attempts, PrepareBatchRecovery(a)
  PROVE  /\ att' \in [Attempts -> AttemptState] /\ att'[a].st = "prepared"
         /\ att'[a].topic = att[a].topic /\ att'[a].token = att[a].token
         /\ att'[a].revoked = att[a].revoked
         /\ \A b \in Attempts \ {a} : att'[b] = att[b]
<1>1. PICK v \in Verdicts(a) :
        att' = [att EXCEPT ![a] =
          [att[a] EXCEPT !.st = "prepared", !.refused = (v = "deny"),
                         !.verdict = IF Cancelled(a) THEN "allow" ELSE v]]
  BY DEF PrepareBatchRecovery
<1> DEFINE w == IF Cancelled(a) THEN "allow" ELSE v
           no == (v = "deny")
           r == Prepared(att[a], w, no)
<1>2. w \in {"open", "allow", "deny"} /\ no \in BOOLEAN /\ att[a] \in AttemptState
  BY DEF Verdicts, IInv, TypeOK
<1>3. /\ r \in AttemptState /\ r.st = "prepared"
      /\ r.topic = att[a].topic /\ r.token = att[a].token /\ r.revoked = att[a].revoked
  <2> HIDE DEF w, no
  <2> QED
    BY <1>2, Preparing
<1>4. att' = [att EXCEPT ![a] = r]
  BY <1>1 DEF Prepared
<1> HIDE DEF r
<1>5. /\ att' \in [Attempts -> AttemptState] /\ att'[a].st = "prepared"
      /\ att'[a].topic = att[a].topic /\ att'[a].token = att[a].token
      /\ att'[a].revoked = att[a].revoked
      /\ \A b \in Attempts \ {a} : att'[b] = att[b]
  BY <1>3, <1>4 DEF IInv, TypeOK
<1> QED
  BY <1>5

\* A revocation raises the epoch past every stamp in flight and withdraws the
\* flag and the membership in the same turn.
LEMMA RevocationKeeps ==
  ASSUME IInv, ~closed, UNCHANGED <<closed, posture>>, NEW t \in Topics,
         Tombstone(t), Revoked(t),
         subs' = subs \ {t}, taps' \subseteq taps,
         authority' = [authority EXCEPT ![t] = FALSE]
  PROVE  IInv'
<1>1. /\ \A a \in Attempts : att'[a] =
           IF Running(a) /\ att[a].topic = t THEN [att[a] EXCEPT !.revoked = TRUE] ELSE att[a]
      /\ DOMAIN att' = Attempts
  BY DEF Revoked
<1>2. \A a \in Attempts : /\ att'[a].topic = att[a].topic
                          /\ att'[a].token = att[a].token
                          /\ att'[a].st = att[a].st
                          /\ att'[a] \in AttemptState
                          /\ ~(Running(a) /\ att[a].topic = t) => att'[a] = att[a]
  <2> SUFFICES ASSUME NEW a \in Attempts
               PROVE  /\ att'[a].topic = att[a].topic
                      /\ att'[a].token = att[a].token
                      /\ att'[a].st = att[a].st
                      /\ att'[a] \in AttemptState
                      /\ ~(Running(a) /\ att[a].topic = t) => att'[a] = att[a]
    OBVIOUS
  <2>1. att[a] \in AttemptState
    BY DEF IInv, TypeOK
  <2>2. CASE Running(a) /\ att[a].topic = t
    BY <1>1, <2>1, <2>2, Marking, Zenon
  <2>3. CASE ~(Running(a) /\ att[a].topic = t)
    BY <1>1, <2>1, <2>3, Zenon
  <2> QED
    BY <2>2, <2>3
<1>3. /\ att' \in [Attempts -> AttemptState]
      /\ \A a \in Attempts : Parked(a)' <=> Parked(a)
  <2>1. att' = [a \in Attempts |-> att'[a]]
    BY DEF Revoked
  <2> QED
    BY <1>2, <2>1 DEF Parked
<1>4. /\ inflight' = inflight /\ total' = total
      /\ granted' = [granted EXCEPT ![t] = FALSE]
      /\ epoch' = [epoch EXCEPT ![t] = IF Entry(t) THEN epoch[t] + 1 ELSE epoch[t]]
  BY DEF Tombstone
<1>5. TypeOK'
  <2>1. epoch' \in [Topics -> Nat]
    BY <1>4 DEF IInv, TypeOK
  <2> QED
    BY <1>3, <1>4, <2>1 DEF IInv, TypeOK, posture
<1>6. Counted'
  BY <1>2, <1>3, <1>4, SameCounts DEF IInv
<1>7. Stamped'
  <2> SUFFICES ASSUME NEW a \in Attempts, Parked(a)
               PROVE  /\ att'[a].token <= epoch'[att'[a].topic]
                      /\ att'[a].revoked => att'[a].token < epoch'[att'[a].topic]
    BY <1>3 DEF Stamped
  <2>1. /\ att[a].token <= epoch[att[a].topic]
        /\ att[a].revoked => att[a].token < epoch[att[a].topic]
        /\ att[a].token \in Nat /\ att[a].topic \in Topics /\ epoch[att[a].topic] \in Nat
        /\ Entry(att[a].topic)
    BY ParkedHasEntry DEF IInv, Stamped, TypeOK, AttemptState
  <2>2. CASE att[a].topic = t
    <3>1. epoch'[t] = epoch[t] + 1
      BY <1>4, <2>1, <2>2 DEF IInv, TypeOK
    <3> QED
      BY <1>2, <2>1, <2>2, <3>1
  <2>3. CASE att[a].topic # t
    <3>1. epoch'[att[a].topic] = epoch[att[a].topic]
      BY <1>4, <2>1, <2>3 DEF IInv, TypeOK
    <3> QED
      BY <1>2, <2>1, <2>3, <3>1
  <2> QED
    BY <2>2, <2>3
<1>8. FlagBacked' /\ Judged' /\ Emptied'
  BY <1>4 DEF IInv, TypeOK, FlagBacked, Judged, Emptied, Entry, Unconfirmed
<1> QED
  BY <1>5, <1>6, <1>7, <1>8 DEF IInv

\* A plugin's join is authority unless an attempt in flight will judge it.
LEMMA PluginJoinKeeps ==
  ASSUME IInv, NEW t \in Topics, PluginJoin(t)
  PROVE  IInv'
<1>1. /\ ~closed /\ t \notin subs /\ subs' = subs \cup {t}
      /\ authority' = [authority EXCEPT ![t] = ~Entry(t)]
      /\ UNCHANGED <<closed, hook, armed, strict, taps, epoch, inflight, granted, total, att>>
  BY DEF PluginJoin, posture, record
<1>2. (~Entry(t)) \in BOOLEAN
  BY Zenon DEF Entry
<1>3. TypeOK'
  BY <1>1, <1>2 DEF IInv, TypeOK
<1>4. Counted' /\ Stamped' /\ Emptied'
  BY <1>1 DEF IInv, Counted, Stamped, Emptied, ParkedOn, ParkedAll, Parked
<1>5. ~granted[t]
  BY <1>1 DEF IInv, FlagBacked
<1>6. /\ authority'[t] <=> ~Entry(t)
      /\ \A u \in Topics \ {t} : authority'[u] = authority[u]
  BY <1>1 DEF IInv, TypeOK
<1>7. FlagBacked'
  BY <1>1, <1>5, <1>6 DEF IInv, FlagBacked, Entry
<1>8. Judged'
  BY <1>1, <1>3, <1>5, <1>6 DEF IInv, Judged, Unconfirmed, Entry, TypeOK
<1> QED
  BY <1>3, <1>4, <1>7, <1>8 DEF IInv

\* Releasing a membership withdraws its flag with it.
LEMMA ReleaseKeeps ==
  ASSUME IInv, NEW t \in Topics, ReleaseSubscription(t)
  PROVE  IInv'
<1>1. /\ ~closed /\ subs' = subs \ {t} /\ taps' = taps \ {t}
      /\ authority' = [authority EXCEPT ![t] = FALSE]
      /\ granted' = [granted EXCEPT ![t] = FALSE]
      /\ UNCHANGED <<closed, hook, armed, strict, epoch, inflight, total, att>>
  BY DEF ReleaseSubscription, Unwind, posture
<1>2. TypeOK'
  BY <1>1 DEF IInv, TypeOK
<1>3. Counted' /\ Stamped' /\ Emptied'
  BY <1>1 DEF IInv, Counted, Stamped, Emptied, ParkedOn, ParkedAll, Parked
<1>4. FlagBacked' /\ Judged'
  BY <1>1 DEF IInv, TypeOK, FlagBacked, Judged, Unconfirmed, Entry
<1> QED
  BY <1>2, <1>3, <1>4 DEF IInv

\* Closing empties the record and the memberships together.
LEMMA CloseKeeps ==
  ASSUME IInv, Close
  PROVE  IInv'
<1>1. /\ closed' = TRUE /\ subs' = {} /\ taps' = {}
      /\ authority' = [t \in Topics |-> FALSE]
      /\ epoch' = [t \in Topics |-> 0]
      /\ inflight' = [t \in Topics |-> 0]
      /\ granted' = [t \in Topics |-> FALSE]
      /\ total' = 0
      /\ UNCHANGED <<hook, armed, strict, att>>
  BY DEF Close, posture
<1>2. TypeOK'
  BY <1>1 DEF IInv, TypeOK
<1> QED
  BY <1>1, <1>2 DEF IInv, Counted, Stamped, FlagBacked, Judged, Emptied

-----------------------------------------------------------------------------
(* Quiet steps: an attempt that neither enters nor leaves the record.       *)

\* An ack on sight, an ack sent, a tap installed and a landing after close end
\* an attempt the record does not count.
LEMMA RestingKeeps ==
  ASSUME IInv, NEW a \in Attempts, closed \/ ~Parked(a),
         NEW st \in {"idle", "acked"}, NEW t \in Topics, NEW refused \in BOOLEAN,
         att' = [att EXCEPT ![a] = Rest(st, t, refused)], taps' \subseteq Topics,
         UNCHANGED <<closed, posture, record, subs, authority>>
  PROVE  IInv'
<1>1. /\ att' \in [Attempts -> AttemptState]
      /\ ~Parked(a)' /\ \A b \in Attempts \ {a} : att'[b] = att[b]
  BY Resting DEF IInv
<1>2. TypeOK'
  BY <1>1 DEF IInv, TypeOK, posture, record
<1>3. \A b \in Attempts : b # a => (Parked(b)' <=> Parked(b))
  BY <1>1 DEF Parked
<1>4. closed \/ \A b \in Attempts : Parked(b)' <=> Parked(b)
  BY <1>1, <1>3
<1>5. \A b \in Attempts : Parked(b) /\ Parked(b)' => att'[b] = att[b]
  BY <1>1
<1> QED
  BY <1>2, <1>4, <1>5, QuietKeeps

\* An attempt that moves from the hook to the prepared recovery, or from either to
\* the history read, keeps its topic and its stamp.
LEMMA WaitingKeeps ==
  ASSUME IInv, NEW a \in Attempts, att[a].st \in {"gate", "prepared"},
         NEW st \in {"resume", "prepared"}, att' \in [Attempts -> AttemptState],
         att'[a].st = st, att'[a].topic = att[a].topic,
         att'[a].token = att[a].token, att'[a].revoked = att[a].revoked,
         \A b \in Attempts \ {a} : att'[b] = att[b],
         UNCHANGED <<closed, posture, members, record>>
  PROVE  IInv'
<1>1. UNCHANGED <<subs, taps, authority>>
  BY DEF members
<1>2. TypeOK'
  BY <1>1 DEF IInv, TypeOK, posture, record
<1>3. \A b \in Attempts : Parked(b)' <=> Parked(b)
  BY DEF Parked
<1>4. \A b \in Attempts : /\ att'[b].topic = att[b].topic
                          /\ att'[b].token = att[b].token
                          /\ att'[b].revoked = att[b].revoked
  OBVIOUS
<1> QED
  BY <1>1, <1>2, <1>3, <1>4, QuietKeeps

-----------------------------------------------------------------------------
(* The invariant.                                                          *)

\* A connection starts with no record, no membership and no attempt.
LEMMA InitInvariant == Init => IInv
<1> SUFFICES ASSUME Init PROVE IInv
  OBVIOUS
<1>1. (CHOOSE t \in Topics : TRUE) \in Topics
  BY ConstantsAssumption
<1>2. Rest("idle", CHOOSE t \in Topics : TRUE, FALSE) \in AttemptState
  BY <1>1 DEF Rest, AttemptState, AllLanes
<1>3. TypeOK
  BY <1>2 DEF Init, TypeOK
<1>4. \A a \in Attempts : ~Parked(a)
  BY DEF Init, Rest, Parked
<1>5. Counted
  <2>1. ParkedAll = {} /\ \A t \in Topics : ParkedOn(t) = {}
    BY <1>4 DEF ParkedAll, ParkedOn
  <2> QED
    BY <2>1, FS_EmptySet DEF Counted, Init
<1> QED
  BY <1>3, <1>4, <1>5 DEF IInv, Init, Stamped, FlagBacked, Judged, Emptied

\* Every synchronous turn of the runtime keeps the record, the epochs and the
\* memberships in agreement.
LEMMA NextInvariant == IInv /\ [Next]_vars => IInv'
<1> SUFFICES ASSUME IInv, [Next]_vars PROVE IInv'
  OBVIOUS
<1> USE DEF posture, members
<1>1. ASSUME NEW a \in Attempts, NEW t \in Topics, SubscribeHeld(a, t) PROVE IInv'
  <2>1. ~Parked(a) /\ att' = [att EXCEPT ![a] = Rest("acked", t, FALSE)]
    BY <1>1 DEF SubscribeHeld, Parked
  <2> QED
    BY <1>1, <2>1, RestingKeeps DEF SubscribeHeld, IInv, TypeOK
<1>2. ASSUME NEW a \in Attempts, NEW t \in Topics, NEW lane \in Lanes, NEW recover \in BOOLEAN,
             Subscribe(a, t, lane, recover)
      PROVE IInv'
  BY <1>2, EnrolKeeps, ConstantsAssumption DEF Subscribe
<1>3. ASSUME NEW a \in Attempts, NEW t \in Topics, NEW lane \in Lanes, BatchStamp(a, t, lane)
      PROVE IInv'
  <2>1. /\ ~closed /\ att[a].st = "idle" /\ lane \in AllLanes
        /\ Enrol(a, t, lane, IF PreHookDenies(t) THEN "deny" ELSE "open", FALSE)
    BY <1>3, ConstantsAssumption DEF BatchStamp
  <2> QED
    BY <2>1, EnrolKeeps
<1>4. ASSUME NEW a \in Attempts, NEW t \in Topics, Observe(a, t) PROVE IInv'
  <2>1. /\ ~closed /\ att[a].st = "idle" /\ "derived" \in AllLanes
        /\ Enrol(a, t, "derived", IF ObserveDenies(t) THEN "deny" ELSE "open", FALSE)
    BY <1>4 DEF Observe, AllLanes
  <2> QED
    BY <2>1, EnrolKeeps
<1>5. ASSUME NEW a \in Attempts, Resume(a) PROVE IInv'
  <2>1. /\ att[a].st \in {"gate", "prepared"}
        /\ att' = [att EXCEPT ![a].st = "resume"]
        /\ UNCHANGED <<closed, posture, members, record>>
    BY <1>5 DEF Resume
  <2>2. /\ att' \in [Attempts -> AttemptState] /\ att'[a].st = "resume"
        /\ att'[a].topic = att[a].topic /\ att'[a].token = att[a].token
        /\ att'[a].revoked = att[a].revoked
        /\ \A b \in Attempts \ {a} : att'[b] = att[b]
    BY <2>1 DEF IInv, TypeOK, AttemptState
  <2> QED
    BY <2>1, <2>2, WaitingKeeps
<1>6. ASSUME NEW a \in Attempts, PrepareBatchRecovery(a) PROVE IInv'
  <2>1. att[a].st = "gate" /\ UNCHANGED <<closed, posture, members, record>>
    BY <1>6 DEF PrepareBatchRecovery
  <2> QED
    BY <1>6, <2>1, PrepareMoves, WaitingKeeps
<1>7. ASSUME NEW a \in Attempts, LandRefused(a) PROVE IInv'
  BY <1>7, SettleDeniedKeeps DEF LandRefused, MayLand, Parked
<1>8. ASSUME NEW a \in Attempts, LandHeld(a) PROVE IInv'
  BY <1>8, SettleHeldKeeps DEF LandHeld, Allowed, MayLand, Parked
<1>9. ASSUME NEW a \in Attempts, LandFresh(a) \/ LandObserver(a) PROVE IInv'
  BY <1>9, LandFreshKeeps, LandObserverKeeps
<1>10. ASSUME NEW a \in Attempts, InstallTap(a) \/ LandClosed(a) \/ Acked(a) PROVE IInv'
  <2>1. PICK t \in Topics : att[a].topic = t
    BY DEF IInv, TypeOK, AttemptState
  <2>2. /\ closed \/ ~Parked(a)
        /\ Finish(a) /\ UNCHANGED <<closed, hook, armed, strict, record, subs, authority>>
    BY <1>10 DEF InstallTap, LandClosed, Acked, Parked
  <2>3. taps' \subseteq Topics
    BY <1>10, <2>1 DEF InstallTap, LandClosed, Acked, IInv, TypeOK
  <2> QED
    BY <2>1, <2>2, <2>3, RestingKeeps DEF Finish
<1>11. ASSUME NEW t \in Topics, PluginJoin(t) \/ ReleaseSubscription(t) PROVE IInv'
  BY <1>11, PluginJoinKeeps, ReleaseKeeps
<1>12. ASSUME NEW t \in Topics, Unsubscribe(t) \/ PluginEvict(t) PROVE IInv'
  BY <1>12, RevocationKeeps DEF Unsubscribe, PluginEvict, Unwind
<1>13. ASSUME NEW mode \in {"legacy", "strict"}, AuthorizeWireSubscribe(mode) PROVE IInv'
  <2>1. /\ armed' = TRUE /\ strict' \in BOOLEAN
        /\ UNCHANGED <<closed, hook, subs, taps, authority, record, att>>
    BY <1>13 DEF AuthorizeWireSubscribe, IInv, TypeOK
  <2>2. TypeOK'
    BY <2>1 DEF IInv, TypeOK, record
  <2> QED
    BY <2>1, <2>2, QuietKeeps DEF Parked
<1>14. CASE Close
  BY <1>14, CloseKeeps
<1>15. CASE UNCHANGED vars
  <2>1. UNCHANGED <<closed, hook, armed, strict, subs, taps, authority, record, att>>
    BY <1>15 DEF vars
  <2>2. TypeOK'
    BY <2>1 DEF IInv, TypeOK, record
  <2> QED
    BY <2>1, <2>2, QuietKeeps DEF Parked
<1> QED
  BY <1>1, <1>2, <1>3, <1>4, <1>5, <1>6, <1>7, <1>8, <1>9, <1>10, <1>11, <1>12,
     <1>13, <1>14, <1>15 DEF Next

-----------------------------------------------------------------------------
(* What the record promises.                                               *)

\* Type correctness of every variable in every behaviour.
THEOREM TypeCorrect == Spec => []TypeOK
<1>1. IInv => TypeOK
  BY DEF IInv
<1> QED
  BY <1>1, InitInvariant, NextInvariant, PTL DEF Spec

\* Every grant read by the wire gate, the observer lane, the resume filter or the
\* server short circuit is of a membership authorized after its last revocation.
THEOREM GrantsAuthorized == Spec => []GrantsAreAuthorized
<1>1. IInv => GrantsAreAuthorized
  BY DEF IInv, Judged, GrantsAreAuthorized, Grant
<1> QED
  BY <1>1, InitInvariant, NextInvariant, PTL DEF Spec

\* The pending budget is exact: no lane leaks a slot or frees one twice.
THEOREM BudgetExact == Spec => []PendingExact
<1>1. IInv => PendingExact
  BY DEF IInv, Counted, PendingExact, ParkedOn, ParkedAll
<1> QED
  BY <1>1, InitInvariant, NextInvariant, PTL DEF Spec

\* A membership that no attempt is left to judge is one somebody authorized, so an
\* unsubscribe is never undone by a subscribe that was parked when it ran.
THEOREM NothingResurrected == Spec => []NoResurrection
<1>1. ASSUME IInv PROVE NoResurrection
  <2> SUFFICES ASSUME NEW t \in subs,
                      \A a \in Attempts : ~(Parked(a) /\ att[a].topic = t)
               PROVE  authority[t]
    BY DEF NoResurrection
  <2>1. ~closed /\ t \in Topics
    BY <1>1 DEF IInv, Emptied, TypeOK
  <2>2. ParkedOn(t) = {}
    BY DEF ParkedOn
  <2>3. inflight[t] = 0
    BY <1>1, <2>1, <2>2, FS_EmptySet DEF IInv, Counted
  <2> QED
    BY <1>1, <2>3 DEF IInv, Judged, Unconfirmed, Entry
<1> QED
  BY <1>1, InitInvariant, NextInvariant, PTL DEF Spec

-----------------------------------------------------------------------------
(* What one step may do.                                                   *)

LandingOf(a) == LandRefused(a) \/ LandHeld(a) \/ LandFresh(a) \/ LandObserver(a)

\* Only its own action moves an attempt from one phase to another.
LEMMA OwnMoves ==
  ASSUME IInv, Next, NEW a \in Attempts, att'[a].st # att[a].st
  PROVE  \/ \E t \in Topics : SubscribeHeld(a, t)
         \/ att[a].st = "idle" /\ att'[a].st = "gate" /\ UNCHANGED subs
         \/ Resume(a) \/ PrepareBatchRecovery(a) \/ LandingOf(a)
         \/ InstallTap(a) \/ LandClosed(a) \/ Acked(a)
<1> USE DEF IInv, TypeOK
<1>1. ASSUME NEW b \in Attempts, NEW t \in Topics,
             SubscribeHeld(b, t)
      PROVE  SubscribeHeld(a, t)
  <2>1. b = a
    BY <1>1 DEF SubscribeHeld
  <2> QED
    BY <1>1, <2>1
<1>2. ASSUME NEW b \in Attempts, NEW t \in Topics,
             \/ \E lane \in Lanes, recover \in BOOLEAN : Subscribe(b, t, lane, recover)
             \/ \E lane \in Lanes : BatchStamp(b, t, lane)
             \/ Observe(b, t)
      PROVE  att[a].st = "idle" /\ att'[a].st = "gate" /\ UNCHANGED subs
  <2>1. /\ att[b].st = "idle"
        /\ \E lane, verdict, recover : Enrol(b, t, lane, verdict, recover)
    BY <1>2 DEF Subscribe, BatchStamp, Observe
  <2> QED
    BY <2>1 DEF Enrol, members
<1>3. ASSUME NEW b \in Attempts, Resume(b) \/ PrepareBatchRecovery(b)
      PROVE  Resume(a) \/ PrepareBatchRecovery(a)
  <2>1. \A c \in Attempts \ {b} : att'[c] = att[c]
    BY <1>3 DEF Resume, PrepareBatchRecovery
  <2> QED
    BY <1>3, <2>1
<1>4. ASSUME NEW b \in Attempts, LandingOf(b)
      PROVE  LandingOf(a)
  <2>1. \A c \in Attempts \ {b} : att'[c] = att[c]
    BY <1>4 DEF LandingOf, LandRefused, LandHeld, LandFresh, LandObserver,
       SettleDenied, SettleHeld, SettleStale, SettleInstall, Finish, Ack
  <2> QED
    BY <1>4, <2>1
<1>5. ASSUME NEW b \in Attempts, InstallTap(b) \/ LandClosed(b) \/ Acked(b)
      PROVE  InstallTap(a) \/ LandClosed(a) \/ Acked(a)
  <2>1. \A c \in Attempts \ {b} : att'[c] = att[c]
    BY <1>5 DEF InstallTap, LandClosed, Acked, Finish
  <2> QED
    BY <1>5, <2>1
<1>6. ASSUME NEW t \in Topics,
             PluginJoin(t) \/ ReleaseSubscription(t) \/ Unsubscribe(t) \/ PluginEvict(t)
      PROVE  FALSE
  <2>1. UNCHANGED att \/ Revoked(t)
    BY <1>6 DEF PluginJoin, ReleaseSubscription, Unsubscribe, PluginEvict
  <2>2. att[a] \in AttemptState
    OBVIOUS
  <2>3. att'[a] = att[a] \/ att'[a] = [att[a] EXCEPT !.revoked = TRUE]
    BY <2>1, Zenon DEF Revoked
  <2> QED
    BY <2>2, <2>3, Marking, Zenon
<1>7. ASSUME (\E mode \in {"legacy", "strict"} : AuthorizeWireSubscribe(mode)) \/ Close
      PROVE  FALSE
  BY <1>7 DEF AuthorizeWireSubscribe, Close
<1> QED
  BY <1>1, <1>2, <1>3, <1>4, <1>5, <1>6, <1>7 DEF Next, LandingOf

\* A subscribe is acked only into a membership that stands and is authorized.
THEOREM AcksBacked == Spec => AcksAreBacked
<1>1. ASSUME IInv, [Next]_vars, NEW a \in Attempts PROVE AckBacked(a)
  <2> SUFFICES ASSUME att[a].st # "acked", att'[a].st = "acked"
               PROVE  att'[a].topic \in subs' /\ authority'[att'[a].topic]
    BY DEF AckBacked
  <2>1. PICK t \in Topics : att[a].topic = t
    BY <1>1 DEF IInv, TypeOK, AttemptState
  <2>2. Next
    BY <1>1 DEF vars
  <2>3. ASSUME NEW u \in Topics, SubscribeHeld(a, u)
        PROVE  att'[a].topic \in subs' /\ authority'[att'[a].topic]
    <3>1. att'[a].topic = u /\ UNCHANGED <<subs, authority>> /\ u \in subs /\ ~Unconfirmed(u)
      BY <1>1, <2>3 DEF SubscribeHeld, AcksHeld, members, Rest, IInv, TypeOK
    <3> QED
      BY <1>1, <3>1 DEF IInv, Judged
  <2>4. CASE LandHeld(a)
    <3>1. Live(a) \/ granted[t]
      BY <1>1, <2>1, <2>4 DEF LandHeld, SettleHeld, Finish, Rest, IInv, TypeOK
    <3>2. /\ UNCHANGED subs /\ t \in subs
          /\ authority' = [authority EXCEPT ![t] = @ \/ ~att[a].revoked]
      BY <2>1, <2>4, <3>1 DEF LandHeld, SettleHeld
    <3>3. authority[t] \/ ~att[a].revoked
      <4>1. Parked(a) /\ ~closed
        BY <2>4 DEF LandHeld, Allowed, MayLand, Parked
      <4> QED
        BY <1>1, <2>1, <3>1, <4>1
           DEF Live, IInv, FlagBacked, Stamped, TypeOK, AttemptState
    <3>4. authority'[t]
      BY <1>1, <3>2, <3>3 DEF IInv, TypeOK
    <3>5. att'[a].topic = t
      BY <1>1, <2>1, <2>4, <3>1 DEF LandHeld, SettleHeld, Ack, Rest, IInv, TypeOK,
         AttemptState
    <3> QED
      BY <3>2, <3>4, <3>5
  <2>5. CASE LandFresh(a)
    <3>1. Parked(a) /\ ~closed
      BY <2>5 DEF LandFresh, Allowed, MayLand, Parked
    <3>2. Live(a) /\ SettleInstall(a)
      BY <1>1, <2>5 DEF LandFresh, SettleDenied, SettleStale, Finish, Rest, IInv, TypeOK
    <3>3. ~att[a].revoked
      BY <1>1, <2>1, <3>1, <3>2 DEF Live, IInv, Stamped, TypeOK, AttemptState
    <3>4. t \in subs' /\ authority'[t] /\ att'[a].topic = t
      BY <1>1, <2>1, <3>2, <3>3 DEF SettleInstall, Ack, Rest, IInv, TypeOK
    <3> QED
      BY <3>4
  <2>6. ~LandRefused(a) /\ ~LandObserver(a)
    BY <1>1 DEF LandRefused, LandObserver, SettleDenied, SettleStale, Finish, Rest,
       IInv, TypeOK, AttemptState
  <2>7. ~Resume(a) /\ ~PrepareBatchRecovery(a)
    <3>1. ~Resume(a)
      BY <1>1 DEF Resume, IInv, TypeOK, AttemptState
    <3>2. ~PrepareBatchRecovery(a)
      BY <1>1, PrepareMoves
    <3> QED
      BY <3>1, <3>2
  <2>8. ~InstallTap(a) /\ ~LandClosed(a) /\ ~Acked(a)
    BY <1>1 DEF InstallTap, LandClosed, Acked, Finish, Rest, IInv, TypeOK
  <2> QED
    BY <1>1, <2>2, <2>3, <2>4, <2>5, <2>6, <2>7, <2>8, OwnMoves DEF LandingOf
<1>2. IInv /\ [Next]_vars => [\A a \in Attempts : AckBacked(a)]_vars
  BY <1>1
<1> QED
  BY <1>2, InitInvariant, NextInvariant, PTL DEF Spec, AcksAreBacked

\* A landing settles its attempt: it is parked no longer.
LEMMA LandingLeaves ==
  ASSUME IInv, NEW a \in Attempts, LandingOf(a) \/ LandClosed(a)
  PROVE  ~Parked(a)'
<1> USE DEF IInv, TypeOK
<1>1. ASSUME Finish(a) \/ Ack(a) PROVE ~Parked(a)'
  BY <1>1 DEF Finish, Ack, Rest, Parked
<1>2. ASSUME att' = [att EXCEPT ![a].st = "tapping"] PROVE ~Parked(a)'
  BY <1>2 DEF Parked, AttemptState
<1>3. ASSUME SettleDenied(a) \/ SettleStale(a) \/ SettleInstall(a) PROVE ~Parked(a)'
  BY <1>1, <1>3 DEF SettleDenied, SettleStale, SettleInstall
<1>4. CASE LandRefused(a) \/ LandFresh(a) \/ LandClosed(a)
  BY <1>1, <1>3, <1>4 DEF LandRefused, LandFresh, LandClosed
<1>5. CASE LandHeld(a)
  BY <1>1, <1>2, <1>5 DEF LandHeld, SettleHeld
<1>6. CASE LandObserver(a)
  BY <1>2, <1>3, <1>6 DEF LandObserver
<1> QED
  BY <1>4, <1>5, <1>6 DEF LandingOf

\* A step in which an attempt stops being parked is its own, and is a landing.
LEMMA LeavesByLanding ==
  ASSUME IInv, Next, NEW a \in Attempts, Parked(a), ~Parked(a)'
  PROVE  LandingOf(a) \/ LandClosed(a)
<1>1. att'[a].st # att[a].st
  BY DEF Parked
<1>2. ~(\E t \in Topics : SubscribeHeld(a, t)) /\ ~InstallTap(a) /\ ~Acked(a)
  BY DEF SubscribeHeld, InstallTap, Acked, Parked
<1>3. ~Resume(a)
  BY DEF Resume, Parked, IInv, TypeOK, AttemptState
<1>4. ~PrepareBatchRecovery(a)
  BY PrepareMoves DEF Parked
<1> QED
  BY <1>1, <1>2, <1>3, <1>4, OwnMoves DEF Parked

\* An attempt a revocation overtook lands without putting its topic back.
THEOREM RevokedStaysOut == Spec => RevokedNeverInstalls
<1> DEFINE Out(a) == (Parked(a) /\ ~Parked(a)' /\ att[a].revoked)
                       => (att[a].topic \in subs' => att[a].topic \in subs)
<1>1. ASSUME IInv, [Next]_vars, NEW a \in Attempts,
             Parked(a), ~Parked(a)', att[a].revoked, att[a].topic \in subs'
      PROVE  att[a].topic \in subs
  <2>1. LandingOf(a) \/ LandClosed(a)
    BY <1>1, LeavesByLanding DEF vars, Parked
  <2>2. ~Live(a) \/ closed
    BY <1>1 DEF Live, IInv, Stamped, TypeOK, AttemptState
  <2>3. ~closed \/ LandClosed(a)
    BY <2>1 DEF LandingOf, LandRefused, LandHeld, LandFresh, LandObserver, Allowed, MayLand
  <2>4. subs' \subseteq subs
    <3>1. CASE LandClosed(a)
      BY <3>1 DEF LandClosed, members
    <3>2. CASE ~closed /\ LandingOf(a)
      BY <2>2, <3>2 DEF LandingOf, LandRefused, LandHeld, LandFresh, LandObserver,
         SettleDenied, SettleHeld, SettleStale, Unwind, members
    <3> QED
      BY <2>1, <2>3, <3>1, <3>2
  <2> QED
    BY <1>1, <2>4
<1>2. IInv /\ [Next]_vars => [\A a \in Attempts : Out(a)]_vars
  BY <1>1
<1> QED
  BY <1>2, InitInvariant, NextInvariant, PTL DEF Spec, RevokedNeverInstalls

\* A topic's history is served only to an attempt no revocation overtook, or into
\* a membership authorized again since.
THEOREM HistoryAuthorized == Spec => HistoryIsAuthorized
<1> DEFINE Served(a) == (att[a].st # "resume" /\ att'[a].st = "resume" /\ att[a].revoked)
                          => att[a].topic \in subs /\ authority[att[a].topic]
<1>1. ASSUME IInv, [Next]_vars, NEW a \in Attempts,
             att[a].st # "resume", att'[a].st = "resume", att[a].revoked
      PROVE  att[a].topic \in subs /\ authority[att[a].topic]
  <2>1. Resume(a)
    <3>1. Next /\ Parked(a)'
      BY <1>1 DEF vars, Parked
    <3>2. ~LandingOf(a) /\ ~LandClosed(a)
      BY <1>1, <3>1, LandingLeaves
    <3>3. ~PrepareBatchRecovery(a)
      BY <1>1, PrepareMoves
    <3>4. ~(\E t \in Topics : SubscribeHeld(a, t)) /\ ~InstallTap(a) /\ ~Acked(a)
      BY <1>1 DEF SubscribeHeld, InstallTap, Acked, Finish, Rest, IInv, TypeOK
    <3> QED
      BY <1>1, <3>1, <3>2, <3>3, <3>4, OwnMoves
  <2>2. ~closed /\ ~RecoverRevoked(a) /\ Parked(a)
    BY <2>1 DEF Resume, Parked
  <2>3. ~Live(a) /\ Entry(att[a].topic)
    BY <1>1, <2>2, ParkedHasEntry DEF Live, IInv, Stamped, TypeOK, AttemptState
  <2>4. att[a].topic \in subs /\ granted[att[a].topic]
    BY <2>2, <2>3 DEF RecoverRevoked, Cancelled, HeldWouldAck
  <2> QED
    BY <1>1, <2>4 DEF IInv, FlagBacked, TypeOK
<1>2. IInv /\ [Next]_vars => [\A a \in Attempts : Served(a)]_vars
  BY <1>1
<1> QED
  BY <1>2, InitInvariant, NextInvariant, PTL DEF Spec, HistoryIsAuthorized
\* The grant gate, armed while a client's attempt is parked, is asked again where
\* the attempt lands: the landing adds no topic.
THEOREM ArmedGateJudges == Spec => ArmedGateJudgesInFlight
<1> DEFINE Kept(a) == (Parked(a) /\ ~Parked(a)' /\ att[a].lane # "server" /\ GrantGateDecides)
                        => (att[a].topic \in subs' => att[a].topic \in subs)
<1>1. ASSUME IInv, [Next]_vars, NEW a \in Attempts,
             Parked(a), ~Parked(a)', att[a].lane # "server", GrantGateDecides
      PROVE  subs' \subseteq subs
  <2>1. LandingOf(a) \/ LandClosed(a)
    BY <1>1, LeavesByLanding DEF vars, Parked
  <2>2. CASE LandClosed(a)
    BY <2>2 DEF LandClosed, members
  <2>3. CASE LandRefused(a) \/ LandHeld(a)
    BY <2>3 DEF LandRefused, LandHeld, SettleDenied, SettleHeld, Unwind, members
  <2>4. CASE LandFresh(a)
    BY <1>1, <2>4 DEF LandFresh, LandingDenies, SettleDenied, Unwind, members
  <2>5. CASE LandObserver(a)
    BY <2>5 DEF LandObserver, SettleStale, members
  <2> QED
    BY <2>1, <2>2, <2>3, <2>4, <2>5 DEF LandingOf
<1>2. IInv /\ [Next]_vars => [\A a \in Attempts : Kept(a)]_vars
  BY <1>1
<1> QED
  BY <1>2, InitInvariant, NextInvariant, PTL DEF Spec, ArmedGateJudgesInFlight

-----------------------------------------------------------------------------
(* The caps.                                                               *)

Room == Cardinality(subs) + Cardinality(taps) <= MaxSubs

\* A step that only takes topics away, or adds one where there was room for it,
\* keeps the connection within its cap.
LEMMA RoomKept ==
  ASSUME TypeOK, Room,
         \/ subs' \subseteq subs /\ taps' \subseteq taps
         \/ ~AtCap /\ taps' = taps /\ \E t \in Topics : subs' = subs \cup {t}
         \/ ~AtCap /\ subs' = subs /\ \E t \in Topics : taps' = taps \cup {t}
  PROVE  Room'
<1>1. IsFiniteSet(subs) /\ IsFiniteSet(taps)
  BY ConstantsAssumption, FS_Subset DEF TypeOK
<1>2. Cardinality(subs) \in Nat /\ Cardinality(taps) \in Nat /\ MaxSubs \in Nat
  BY <1>1, FS_CardinalityType, ConstantsAssumption
<1>3. ASSUME NEW S, IsFiniteSet(S), NEW t, Cardinality(S) \in Nat
      PROVE  Cardinality(S \cup {t}) \in Nat /\ Cardinality(S \cup {t}) <= Cardinality(S) + 1
  BY <1>3, FS_AddElement
<1>4. CASE subs' \subseteq subs /\ taps' \subseteq taps
  <2>1. /\ Cardinality(subs') <= Cardinality(subs) /\ Cardinality(subs') \in Nat
        /\ Cardinality(taps') <= Cardinality(taps) /\ Cardinality(taps') \in Nat
    BY <1>1, <1>4, FS_Subset, FS_CardinalityType
  <2> QED
    BY <1>2, <2>1 DEF Room
<1>5. CASE ~AtCap /\ taps' = taps /\ \E t \in Topics : subs' = subs \cup {t}
  <2>1. Cardinality(subs') \in Nat /\ Cardinality(subs') <= Cardinality(subs) + 1
    BY <1>1, <1>2, <1>3, <1>5
  <2> QED
    BY <1>2, <1>5, <2>1 DEF Room, AtCap
<1>6. CASE ~AtCap /\ subs' = subs /\ \E t \in Topics : taps' = taps \cup {t}
  <2>1. Cardinality(taps') \in Nat /\ Cardinality(taps') <= Cardinality(taps) + 1
    BY <1>1, <1>2, <1>3, <1>6
  <2> QED
    BY <1>2, <1>6, <2>1 DEF Room, AtCap
<1> QED
  BY <1>4, <1>5, <1>6

\* Only a landing or a plugin's join adds a topic, and only where there is room.
LEMMA GrowsWithRoom ==
  ASSUME IInv, Next
  PROVE  \/ subs' \subseteq subs /\ taps' \subseteq taps
         \/ ~AtCap /\ taps' = taps /\ \E t \in Topics : subs' = subs \cup {t}
         \/ ~AtCap /\ subs' = subs /\ \E t \in Topics : taps' = taps \cup {t}
<1> USE DEF members
<1>1. ASSUME NEW a \in Attempts, NEW t \in Topics,
             \/ SubscribeHeld(a, t) \/ Observe(a, t)
             \/ \E lane \in Lanes, recover \in BOOLEAN : Subscribe(a, t, lane, recover)
             \/ \E lane \in Lanes : BatchStamp(a, t, lane)
      PROVE  UNCHANGED <<subs, taps>>
  BY <1>1 DEF SubscribeHeld, Observe, Subscribe, BatchStamp, Enrol
<1>2. ASSUME NEW a \in Attempts,
             Resume(a) \/ PrepareBatchRecovery(a) \/ LandClosed(a) \/ Acked(a)
      PROVE  UNCHANGED <<subs, taps>>
  BY <1>2 DEF Resume, PrepareBatchRecovery, LandClosed, Acked
<1>3. ASSUME NEW a \in Attempts, LandRefused(a) \/ LandHeld(a) \/ LandObserver(a)
      PROVE  subs' \subseteq subs /\ taps' \subseteq taps
  BY <1>3 DEF LandRefused, LandHeld, LandObserver, SettleDenied, SettleHeld, SettleStale, Unwind
<1>4. ASSUME NEW a \in Attempts, LandFresh(a)
      PROVE  \/ subs' \subseteq subs /\ taps' \subseteq taps
             \/ ~AtCap /\ taps' = taps /\ \E t \in Topics : subs' = subs \cup {t}
  <2>1. att[a].topic \in Topics
    BY DEF IInv, TypeOK, AttemptState
  <2>2. CASE LandingAtCap \/ ~SettleInstall(a)
    BY <1>4, <2>2 DEF LandFresh, SettleDenied, SettleStale, Unwind
  <2>3. CASE ~LandingAtCap /\ SettleInstall(a)
    BY <2>1, <2>3 DEF SettleInstall, LandingAtCap
  <2> QED
    BY <2>2, <2>3
<1>5. ASSUME NEW a \in Attempts, InstallTap(a)
      PROVE  \/ subs' \subseteq subs /\ taps' \subseteq taps
             \/ ~AtCap /\ subs' = subs /\ \E t \in Topics : taps' = taps \cup {t}
  <2>1. att[a].topic \in Topics
    BY DEF IInv, TypeOK, AttemptState
  <2> QED
    BY <1>5, <2>1 DEF InstallTap
<1>6. ASSUME NEW t \in Topics, PluginJoin(t)
      PROVE  ~AtCap /\ taps' = taps /\ subs' = subs \cup {t}
  BY <1>6 DEF PluginJoin
<1>7. ASSUME NEW t \in Topics, Unsubscribe(t) \/ PluginEvict(t) \/ ReleaseSubscription(t)
      PROVE  subs' \subseteq subs /\ taps' \subseteq taps
  BY <1>7 DEF Unsubscribe, PluginEvict, ReleaseSubscription, Unwind
<1>8. ASSUME (\E mode \in {"legacy", "strict"} : AuthorizeWireSubscribe(mode)) \/ Close
      PROVE  subs' \subseteq subs /\ taps' \subseteq taps
  BY <1>8 DEF AuthorizeWireSubscribe, Close
<1> QED
  BY <1>1, <1>2, <1>3, <1>4, <1>5, <1>6, <1>7, <1>8 DEF Next

\* The pending budget grows only by an enrolment that found it below its cap.
LEMMA BudgetKept ==
  ASSUME IInv, Next, total <= MaxPending
  PROVE  total' <= MaxPending
<1> USE DEF record
<1> DEFINE
      Steady ==
        \/ total' = total
        \/ total' = total - 1
        \/ total < MaxPending /\ total' = total + 1
<1>1. total \in Nat /\ MaxPending \in Nat
  BY ConstantsAssumption DEF IInv, TypeOK
<1>2. ASSUME NEW a \in Attempts, NEW t \in Topics,
             \/ SubscribeHeld(a, t) \/ Observe(a, t)
             \/ \E lane \in Lanes, recover \in BOOLEAN : Subscribe(a, t, lane, recover)
             \/ \E lane \in Lanes : BatchStamp(a, t, lane)
      PROVE  Steady
  <2>1. CASE SubscribeHeld(a, t)
    BY <2>1 DEF SubscribeHeld
  <2>2. ASSUME NEW lane, NEW recover, Subscribe(a, t, lane, recover) PROVE Steady
    BY <2>2 DEF Subscribe, Enrol
  <2>3. ASSUME NEW lane, BatchStamp(a, t, lane) PROVE Steady
    BY <2>3 DEF BatchStamp, Enrol
  <2>4. CASE Observe(a, t)
    BY <2>4 DEF Observe, Enrol
  <2> QED
    BY <1>2, <2>1, <2>2, <2>3, <2>4
<1>3. ASSUME NEW a \in Attempts, LandingOf(a)
      PROVE  Steady
  BY <1>3 DEF LandingOf, LandRefused, LandHeld, LandFresh, LandObserver, SettleDenied,
     SettleHeld, SettleStale, SettleInstall, Leave
<1>4. ASSUME NEW a \in Attempts,
             \/ Resume(a) \/ PrepareBatchRecovery(a) \/ InstallTap(a)
             \/ LandClosed(a) \/ Acked(a)
      PROVE  Steady
  BY <1>4 DEF Resume, PrepareBatchRecovery, InstallTap, LandClosed, Acked
<1>5. ASSUME NEW t \in Topics,
             PluginJoin(t) \/ Unsubscribe(t) \/ PluginEvict(t) \/ ReleaseSubscription(t)
      PROVE  Steady
  BY <1>5 DEF PluginJoin, Unsubscribe, PluginEvict, ReleaseSubscription, Tombstone
<1>6. ASSUME NEW mode \in {"legacy", "strict"}, AuthorizeWireSubscribe(mode)
      PROVE  Steady
  BY <1>6 DEF AuthorizeWireSubscribe
<1>7. CASE Close
  <2>1. total' = 0
    BY <1>7 DEF Close
  <2> QED
    BY <1>1, <2>1
<1>8. ASSUME Steady PROVE total' <= MaxPending
  BY <1>1, <1>8
<1> HIDE DEF Steady
<1>9. Steady \/ Close
  BY <1>2, <1>3, <1>4, <1>5, <1>6 DEF Next, LandingOf
<1> QED
  BY <1>7, <1>8, <1>9

\* However many attempts are admitted before any of them lands, the connection
\* stays within its cap of topics and its budget of attempts.
THEOREM CapsHold == Spec => []WithinCaps
<1> DEFINE CInv == IInv /\ WithinCaps
<1>1. Init => CInv
  <2> SUFFICES ASSUME Init PROVE WithinCaps
    BY InitInvariant
  <2>1. Cardinality(subs) = 0 /\ Cardinality(taps) = 0 /\ total = 0
    BY FS_EmptySet DEF Init
  <2> QED
    BY <2>1, ConstantsAssumption DEF WithinCaps
<1>2. CInv /\ [Next]_vars => CInv'
  <2> SUFFICES ASSUME CInv, [Next]_vars PROVE WithinCaps'
    BY NextInvariant
  <2>1. CASE Next
    <3>1. TypeOK /\ Room /\ total <= MaxPending
      BY DEF IInv, WithinCaps, Room
    <3>2. Room'
      BY <2>1, <3>1, GrowsWithRoom, RoomKept
    <3>3. total' <= MaxPending
      BY <2>1, <3>1, BudgetKept
    <3> QED
      BY <3>2, <3>3 DEF WithinCaps, Room
  <2>2. CASE UNCHANGED vars
    BY <2>2 DEF vars, members, record, WithinCaps
  <2> QED
    BY <2>1, <2>2
<1>3. CInv => WithinCaps
  OBVIOUS
<1> QED
  BY <1>1, <1>2, <1>3, PTL DEF Spec
==============================================================================
