------------------------- MODULE ServerLifetimeProofs -------------------------
(***************************************************************************)
(* Proofs about ServerLifetime, for any finite sets of handshakes and      *)
(* requests and any values of the ceilings.                                *)
(*                                                                         *)
(* The inductive invariant adds to the types and the exact counts what     *)
(* each statement of the shutdown leaves behind it (Latched): from the     *)
(* drain of the sockets on none is open, after a drain that ended in time  *)
(* none is left, and after the drain of the requests none is unfinished.   *)
(***************************************************************************)
EXTENDS ServerLifetime, FiniteSetTheorems, TLAPS

Latched ==
  /\ stage \notin {"booting", "serving"} => draining
  /\ stage \in {"settling", "requests", "cleanup", "exited"} => In("open") = {}
  /\ stage \in {"requests", "cleanup", "exited"} /\ clean =>
       wsConnections = {} /\ (late \/ pendingCloseHooks = {})
  /\ stage \in {"cleanup", "exited"} /\ clean => lifetimes.unfinished = {}
  /\ Over => lifetimes.requestSignals = {}

IInv == TypeOK /\ SlotsExact /\ RequestsExact /\ PacingExact /\ Latched

-----------------------------------------------------------------------------
(* Counting.                                                               *)

\* Taking a slot, and giving it back, moves the number of its holders by one.
LEMMA AddOne ==
  ASSUME NEW S, NEW x, IsFiniteSet(S), x \notin S
  PROVE  Cardinality(S \cup {x}) = Cardinality(S) + 1
BY FS_AddElement

LEMMA RemoveOne ==
  ASSUME NEW S, NEW x, IsFiniteSet(S), x \in S
  PROVE  /\ Cardinality(S \ {x}) = Cardinality(S) - 1
         /\ Cardinality(S) \in Nat \ {0}
<1>1. Cardinality(S) \in Nat
  BY FS_CardinalityType
<1>2. S # {}
  OBVIOUS
<1>3. Cardinality(S) # 0
  BY <1>2, FS_EmptySet
<1>4. Cardinality(S \ {x}) = Cardinality(S) - 1
  BY FS_RemoveElement
<1> QED
  BY <1>1, <1>3, <1>4

\* Any set of handshakes is finite.
LEMMA FiniteHolders ==
  ASSUME NEW S \in SUBSET Handshakes
  PROVE  IsFiniteSet(S) /\ Cardinality(S) \in Nat
BY AdmissionAssumption, FS_Subset, FS_CardinalityType

-----------------------------------------------------------------------------
(* The slots.  Held is what every release leaves true, also in the middle  *)
(* of a step that hands a permit over.                                     *)

SlotsType ==
  [inFlight : 0..MaxConcurrent, cursorInFlight : 0..CursorMax,
   connectionPermits : 0..MaxConnections, overReleaseTotal : {0},
   lane : SUBSET Handshakes, cursor : SUBSET Handshakes,
   permit : SUBSET Handshakes, marked : SUBSET Handshakes]

Held(s) ==
  /\ s \in SlotsType
  /\ s.inFlight = Cardinality(s.lane)
  /\ s.cursorInFlight = Cardinality(s.cursor)
  /\ s.connectionPermits = Cardinality(s.permit \cup s.marked)
  /\ s.permit \cap s.marked = {}
  /\ s.cursor \subseteq s.lane

\* A handshake that holds nothing takes all its slots.
LEMMA AcquireHeld ==
  ASSUME NEW s, Held(s), NEW h \in Handshakes, NEW cursor \in BOOLEAN, HasRoom(s, cursor),
         h \notin s.lane, h \notin s.permit, h \notin s.marked
  PROVE  /\ Held(Acquire(s, h, cursor))
         /\ Acquire(s, h, cursor).lane = s.lane \cup {h}
         /\ Acquire(s, h, cursor).permit = s.permit \cup {h}
         /\ Acquire(s, h, cursor).marked = s.marked
<1>1. /\ s.inFlight + 1 \in 0..MaxConcurrent
      /\ s.connectionPermits + 1 \in 0..MaxConnections
      /\ cursor => s.cursorInFlight + 1 \in 0..CursorMax
  BY AdmissionAssumption DEF Held, SlotsType, HasRoom
<1>2. Cardinality(s.lane \cup {h}) = Cardinality(s.lane) + 1
  BY FiniteHolders, AddOne DEF Held, SlotsType
<1>3. Cardinality(s.cursor \cup {h}) = Cardinality(s.cursor) + 1
  BY FiniteHolders, AddOne DEF Held, SlotsType
<1>4. Cardinality((s.permit \cup {h}) \cup s.marked) = Cardinality(s.permit \cup s.marked) + 1
  <2>1. (s.permit \cup {h}) \cup s.marked = (s.permit \cup s.marked) \cup {h}
    OBVIOUS
  <2>2. s.permit \cup s.marked \in SUBSET Handshakes /\ h \notin s.permit \cup s.marked
    BY DEF Held, SlotsType
  <2> QED
    BY <2>1, <2>2, FiniteHolders, AddOne
<1> DEFINE a == Acquire(s, h, cursor)
<1>5. CASE cursor
  <2>1. a = [s EXCEPT !.inFlight = @ + 1, !.cursorInFlight = @ + 1, !.connectionPermits = @ + 1,
                      !.lane = @ \cup {h}, !.cursor = @ \cup {h}, !.permit = @ \cup {h}]
    BY <1>5, Zenon DEF Acquire
  <2> HIDE DEF a
  <2>2. /\ a \in SlotsType
        /\ a.inFlight = s.inFlight + 1 /\ a.connectionPermits = s.connectionPermits + 1
        /\ a.cursorInFlight = s.cursorInFlight + 1
        /\ a.lane = s.lane \cup {h} /\ a.cursor = s.cursor \cup {h}
        /\ a.permit = s.permit \cup {h} /\ a.marked = s.marked
    BY <1>1, <1>5, <2>1 DEF Held, SlotsType
  <2>3. Held(a)
    BY <1>2, <1>3, <1>4, <2>2 DEF Held
  <2> QED
    BY <2>2, <2>3 DEF a
<1>6. CASE ~cursor
  <2>1. a = [s EXCEPT !.inFlight = @ + 1, !.cursorInFlight = @, !.connectionPermits = @ + 1,
                      !.lane = @ \cup {h}, !.cursor = @, !.permit = @ \cup {h}]
    BY <1>6, Zenon DEF Acquire
  <2> HIDE DEF a
  <2>2. /\ a \in SlotsType
        /\ a.inFlight = s.inFlight + 1 /\ a.connectionPermits = s.connectionPermits + 1
        /\ a.cursorInFlight = s.cursorInFlight
        /\ a.lane = s.lane \cup {h} /\ a.cursor = s.cursor
        /\ a.permit = s.permit \cup {h} /\ a.marked = s.marked
    BY <1>1, <1>6, <2>1 DEF Held, SlotsType
  <2>3. Held(a)
    BY <1>2, <1>4, <2>2 DEF Held
  <2> QED
    BY <2>2, <2>3 DEF a
<1> QED
  BY <1>5, <1>6

\* The permit becomes the socket's.
LEMMA HandOverHeld ==
  ASSUME NEW s, Held(s), NEW h \in Handshakes, h \in s.permit
  PROVE  /\ Held(HandOver(s, h))
         /\ HandOver(s, h).lane = s.lane
         /\ HandOver(s, h).permit = s.permit \ {h}
         /\ HandOver(s, h).marked = s.marked \cup {h}
<1>1. (s.permit \ {h}) \cup (s.marked \cup {h}) = s.permit \cup s.marked
  OBVIOUS
<1>2. (s.permit \ {h}) \cap (s.marked \cup {h}) = {}
  BY DEF Held
<1> QED
  BY <1>1, <1>2 DEF Held, SlotsType, HandOver

\* And becomes the handshake's again.
LEMMA ReclaimHeld ==
  ASSUME NEW s, Held(s), NEW h \in Handshakes, h \in s.marked
  PROVE  /\ Held(Reclaim(s, h))
         /\ Reclaim(s, h).lane = s.lane
         /\ Reclaim(s, h).permit = s.permit \cup {h}
         /\ Reclaim(s, h).marked = s.marked \ {h}
<1>1. (s.permit \cup {h}) \cup (s.marked \ {h}) = s.permit \cup s.marked
  OBVIOUS
<1>2. (s.permit \cup {h}) \cap (s.marked \ {h}) = {}
  BY DEF Held
<1> QED
  BY <1>1, <1>2 DEF Held, SlotsType, Reclaim

\* The sockets hs release what is still marked, and never more than is counted.
LEMMA ReleaseMarkedHeld ==
  ASSUME NEW s, Held(s), NEW hs \in SUBSET Handshakes
  PROVE  /\ Held(ReleaseMarked(s, hs))
         /\ ReleaseMarked(s, hs).lane = s.lane
         /\ ReleaseMarked(s, hs).permit = s.permit
         /\ ReleaseMarked(s, hs).marked = s.marked \ hs
<1> DEFINE all == s.permit \cup s.marked
           gone == hs \cap s.marked
<1>1. all \in SUBSET Handshakes /\ gone \in SUBSET all
  BY DEF Held, SlotsType
<1>2. Cardinality(all \ gone) = Cardinality(all) - Cardinality(all \cap gone)
  BY <1>1, FiniteHolders, FS_Difference
<1>3. all \cap gone = gone /\ all \ gone = s.permit \cup (s.marked \ hs)
  BY DEF Held
<1>4. /\ Cardinality(gone) \in Nat /\ Cardinality(all) \in Nat
      /\ Cardinality(gone) <= Cardinality(all)
  BY <1>1, FiniteHolders, FS_Subset
<1>5. s.connectionPermits = Cardinality(all) /\ s.connectionPermits \in 0..MaxConnections
  BY DEF Held, SlotsType
<1>6. ReleaseMarked(s, hs) = [s EXCEPT !.connectionPermits = @ - Cardinality(gone),
                                       !.marked = @ \ hs]
  BY <1>4, <1>5 DEF ReleaseMarked, ReleaseConnections, Held, SlotsType
<1>7. s.connectionPermits - Cardinality(gone) \in 0..MaxConnections
  BY <1>4, <1>5, AdmissionAssumption
<1>8. s.connectionPermits - Cardinality(gone) = Cardinality(s.permit \cup (s.marked \ hs))
  BY <1>2, <1>3, <1>5
<1> HIDE DEF all, gone
<1> QED
  BY <1>6, <1>7, <1>8 DEF Held, SlotsType

\* Whatever a handshake still holds goes back, once.
LEMMA GiveBackHeld ==
  ASSUME NEW s, Held(s), NEW h \in Handshakes
  PROVE  /\ Held(GiveBack(s, h))
         /\ GiveBack(s, h).lane = s.lane \ {h}
         /\ GiveBack(s, h).permit = s.permit \ {h}
         /\ GiveBack(s, h).marked = s.marked
<1> DEFINE u == IF h \in s.lane THEN ReleaseLane(s, h) ELSE s
<1>1. /\ Held(u) /\ u.lane = s.lane \ {h} /\ u.permit = s.permit /\ u.marked = s.marked
  <2>1. CASE h \in s.lane
    <3>1. /\ Cardinality(s.lane \ {h}) = Cardinality(s.lane) - 1
          /\ Cardinality(s.lane) \in Nat \ {0}
      BY <2>1, FiniteHolders, RemoveOne DEF Held, SlotsType
    <3>2. h \in s.cursor => /\ Cardinality(s.cursor \ {h}) = Cardinality(s.cursor) - 1
                            /\ Cardinality(s.cursor) \in Nat \ {0}
      BY FiniteHolders, RemoveOne DEF Held, SlotsType
    <3>3. h \notin s.cursor => s.cursor \ {h} = s.cursor
      OBVIOUS
    <3>4. u = [s EXCEPT !.inFlight = @ - 1,
                        !.cursorInFlight = IF h \in s.cursor THEN @ - 1 ELSE @,
                        !.lane = @ \ {h}, !.cursor = @ \ {h}]
      BY <2>1 DEF ReleaseLane
    <3>5. s.inFlight - 1 \in 0..MaxConcurrent
      BY <3>1, AdmissionAssumption DEF Held, SlotsType
    <3>6. h \in s.cursor => s.cursorInFlight - 1 \in 0..CursorMax
      BY <3>2, AdmissionAssumption DEF Held, SlotsType
    <3> HIDE DEF u
    <3> QED
      BY <3>1, <3>2, <3>3, <3>4, <3>5, <3>6 DEF Held, SlotsType
  <2>2. CASE h \notin s.lane
    BY <2>2
  <2> QED
    BY <2>1, <2>2
<1>2. GiveBack(s, h) = IF h \in s.permit
                       THEN [ReleaseConnections(u, 1) EXCEPT !.permit = @ \ {h}] ELSE u
  BY DEF GiveBack
<1> HIDE DEF u
<1>3. CASE h \in s.permit
  <2>1. /\ Cardinality((u.permit \cup u.marked) \ {h}) = Cardinality(u.permit \cup u.marked) - 1
        /\ Cardinality(u.permit \cup u.marked) \in Nat \ {0}
    <3>1. u.permit \cup u.marked \in SUBSET Handshakes /\ h \in u.permit \cup u.marked
      BY <1>1, <1>3 DEF Held, SlotsType
    <3> QED
      BY <3>1, FiniteHolders, RemoveOne
  <2>2. (u.permit \cup u.marked) \ {h} = (u.permit \ {h}) \cup u.marked
    BY <1>1, <1>3 DEF Held
  <2>3. 1 <= u.connectionPermits /\ u.connectionPermits - 1 \in 0..MaxConnections
    BY <1>1, <2>1, AdmissionAssumption DEF Held, SlotsType
  <2>4. GiveBack(s, h) = [u EXCEPT !.connectionPermits = @ - 1, !.permit = @ \ {h}]
    BY <1>1, <1>2, <1>3, <2>3 DEF ReleaseConnections, Held, SlotsType
  <2> QED
    BY <1>1, <2>1, <2>2, <2>3, <2>4 DEF Held, SlotsType
<1>4. CASE h \notin s.permit
  BY <1>1, <1>2, <1>4
<1> QED
  BY <1>3, <1>4

-----------------------------------------------------------------------------
(* The handshakes and their slots.                                         *)

\* What one handshake's move does to the sets its phase puts it in.
LEMMA MovedSets ==
  ASSUME phase \in [Handshakes -> Phases],
         NEW h \in Handshakes, NEW p \in Phases, Moves(h, p)
  PROVE  /\ phase' \in [Handshakes -> Phases]
         /\ Handshaking' = IF p \in {"hook", "parked", "granted"}
                           THEN Handshaking \cup {h} ELSE Handshaking \ {h}
         /\ Sockets' = IF p \in {"open", "ending"} THEN Sockets \cup {h} ELSE Sockets \ {h}
         /\ \A q \in Phases : In(q)' = IF q = p THEN In(q) \cup {h} ELSE In(q) \ {h}
<1>1. \A q \in Phases : In(q)' = IF q = p THEN In(q) \cup {h} ELSE In(q) \ {h}
  BY DEF Moves, In
<1>2. {"hook", "parked", "granted", "open", "ending"} \subseteq Phases
  BY DEF Phases
<1>3. phase' \in [Handshakes -> Phases]
  BY DEF Moves
<1> QED
  BY <1>1, <1>2, <1>3 DEF Handshaking, Sockets

\* The phases keep a handshake, a socket and its close hook apart.
LEMMA ApartSets ==
  /\ Handshaking \cap Sockets = {}
  /\ Handshaking \subseteq Handshakes /\ Sockets \subseteq Handshakes
  /\ \A h \in Handshakes :
       /\ phase[h] \in {"hook", "parked", "granted"} <=> h \in Handshaking
       /\ phase[h] \in {"open", "ending"} <=> h \in Sockets
BY DEF Handshaking, Sockets, In

LEMMA HeldNow ==
  ASSUME TypeOK, SlotsExact
  PROVE  Held(slots)
BY DEF TypeOK, AdmissionTypeOK, SlotsExact, Held, SlotsType

\* The part of the invariant that is about slots and phases.
SlotsInv ==
  /\ slots \in SlotsType /\ phase \in [Handshakes -> Phases]
  /\ wsConnections \subseteq Handshakes
  /\ SlotsExact

LEMMA ExactAgain ==
  ASSUME phase' \in [Handshakes -> Phases], Held(slots'), slots'.lane = slots'.permit,
         slots'.permit \subseteq Handshaking', slots'.marked = Sockets',
         wsConnections' = Sockets'
  PROVE  SlotsInv'
<1>1. Sockets' \subseteq Handshakes
  BY DEF Sockets, In
<1> QED
  BY <1>1 DEF SlotsInv, SlotsExact, Held

\* An answered handshake holds nothing.
LEMMA AnswerKeepsSlots ==
  ASSUME SlotsInv, Held(slots), NEW h \in Handshakes, h \in Handshaking, Answer(h)
  PROVE  SlotsInv'
<1>1. /\ phase' \in [Handshakes -> Phases]
      /\ Handshaking' = Handshaking \ {h} /\ Sockets' = Sockets \ {h}
  BY MovedSets DEF Answer, Phases, SlotsInv
<1>2. /\ Held(slots') /\ slots'.lane = slots.lane \ {h}
      /\ slots'.permit = slots.permit \ {h} /\ slots'.marked = slots.marked
  BY GiveBackHeld DEF Answer
<1>3. Sockets' = Sockets
  BY <1>1, ApartSets
<1> QED
  BY <1>1, <1>2, <1>3, ExactAgain DEF Answer, SlotsInv, SlotsExact

\* A step that leaves the slots and the registry alone, and moves one handshake between
\* the things it may wait for.
LEMMA WaitKeepsSlots ==
  ASSUME SlotsInv, Held(slots), NEW h \in Handshakes, h \in Handshaking,
         NEW p \in {"hook", "parked", "granted"}, Moves(h, p),
         UNCHANGED <<slots, wsConnections>>
  PROVE  SlotsInv'
<1>1. /\ phase' \in [Handshakes -> Phases]
      /\ Handshaking' = Handshaking \cup {h} /\ Sockets' = Sockets \ {h}
  BY MovedSets DEF Phases, SlotsInv
<1>2. Sockets' = Sockets
  BY <1>1, ApartSets
<1> QED
  BY <1>1, <1>2, ExactAgain DEF SlotsInv, SlotsExact

\* The close callbacks of hs, while the policy may keep the end of other sockets for later.
EndsOf(hs) ==
  /\ phase' \in [Handshakes -> Phases]
  /\ \A h \in Handshakes \ hs :
       phase'[h] = phase[h] \/ (phase[h] = "open" /\ phase'[h] = "ending")
  /\ \A h \in hs : phase'[h] \in {"closed", "idle"}
  /\ slots' = ReleaseMarked(slots, hs)
  /\ wsConnections' = wsConnections \ hs

LEMMA CloseKeepsSlots ==
  ASSUME SlotsInv, Held(slots), NEW hs \in SUBSET Sockets, EndsOf(hs)
  PROVE  SlotsInv'
<1>1. Sockets' = Sockets \ hs /\ Handshaking' = Handshaking
  BY DEF Sockets, Handshaking, In, SlotsInv, EndsOf
<1>2. hs \in SUBSET Handshakes
  BY DEF Sockets, In
<1>3. /\ Held(slots') /\ slots'.lane = slots.lane
      /\ slots'.permit = slots.permit /\ slots'.marked = slots.marked \ hs
  BY <1>2, ReleaseMarkedHeld DEF EndsOf
<1> QED
  BY <1>1, <1>3, ExactAgain DEF SlotsInv, SlotsExact, EndsOf

\* srv.upgrade, whichever of its three ways it goes.
LEMMA UpgradeKeepsSlots ==
  ASSUME SlotsInv, Held(slots), NEW h \in Handshakes,
         RuntimeRefuses(h) \/ Opens(h) \/ OpensAndCloses(h)
  PROVE  SlotsInv'
<1>1. h \in Handshaking /\ h \in slots.permit /\ h \notin Sockets
  BY ApartSets DEF RuntimeRefuses, Opens, OpensAndCloses, MayTakeSocket
<1> DEFINE over == HandOver(slots, h)
<1>2. /\ Held(over) /\ over.lane = slots.lane
      /\ over.permit = slots.permit \ {h} /\ over.marked = slots.marked \cup {h}
  BY <1>1, HandOverHeld
<1> HIDE DEF over
<1>3. CASE RuntimeRefuses(h)
  <2>1. /\ phase' \in [Handshakes -> Phases]
        /\ Handshaking' = Handshaking \ {h} /\ Sockets' = Sockets \ {h}
    BY <1>3, MovedSets DEF RuntimeRefuses, Phases, SlotsInv
  <2> DEFINE back == Reclaim(over, h)
  <2>2. /\ Held(back) /\ back.lane = slots.lane
        /\ back.permit = slots.permit /\ back.marked = slots.marked \ {h}
    <3>1. h \in over.marked
      BY <1>2
    <3>2. /\ Held(back) /\ back.lane = over.lane
          /\ back.permit = over.permit \cup {h} /\ back.marked = over.marked \ {h}
      BY <1>2, <3>1, ReclaimHeld
    <3> HIDE DEF back
    <3> QED
      BY <1>1, <1>2, <3>2
  <2>3. slots' = GiveBack(back, h)
    BY <1>3 DEF RuntimeRefuses, over
  <2> HIDE DEF back
  <2>4. /\ Held(slots') /\ slots'.lane = slots.lane \ {h}
        /\ slots'.permit = slots.permit \ {h} /\ slots'.marked = slots.marked \ {h}
    BY <2>2, <2>3, GiveBackHeld
  <2>5. wsConnections' = wsConnections /\ Sockets' = Sockets
    BY <1>1, <1>3, <2>1 DEF RuntimeRefuses
  <2> QED
    BY <1>1, <2>1, <2>4, <2>5, ExactAgain DEF SlotsInv, SlotsExact
<1>4. CASE Opens(h)
  <2>1. /\ phase' \in [Handshakes -> Phases]
        /\ Handshaking' = Handshaking \ {h} /\ Sockets' = Sockets \cup {h}
    BY <1>4, MovedSets DEF Opens, Phases, SlotsInv
  <2>2. slots' = GiveBack(over, h) /\ wsConnections' = wsConnections \cup {h}
    BY <1>4 DEF Opens, over
  <2>3. /\ Held(slots') /\ slots'.lane = slots.lane \ {h}
        /\ slots'.permit = slots.permit \ {h} /\ slots'.marked = slots.marked \cup {h}
    BY <1>2, <2>2, GiveBackHeld
  <2> QED
    BY <2>1, <2>2, <2>3, ExactAgain DEF SlotsInv, SlotsExact
<1>5. CASE OpensAndCloses(h)
  <2>1. PICK p \in {"closed", "idle"} : Moves(h, p)
    BY <1>5 DEF OpensAndCloses
  <2>2. /\ phase' \in [Handshakes -> Phases]
        /\ Handshaking' = Handshaking \ {h} /\ Sockets' = Sockets \ {h}
    BY <2>1, MovedSets DEF Phases, SlotsInv
  <2>3. PICK t \in {over, ReleaseMarked(over, {h})} :
          slots' = GiveBack(ReleaseMarked(t, {h}), h)
    BY <1>5 DEF OpensAndCloses, over
  <2>4. /\ Held(t) /\ t.lane = slots.lane /\ t.permit = slots.permit \ {h}
        /\ t.marked \ {h} = slots.marked \ {h}
    <3>1. CASE t = over
      BY <1>2, <3>1
    <3>2. CASE t = ReleaseMarked(over, {h})
      BY <1>2, <3>2, ReleaseMarkedHeld
    <3> QED
      BY <2>3, <3>1, <3>2
  <2> DEFINE released == ReleaseMarked(t, {h})
  <2>5. /\ Held(released) /\ released.lane = slots.lane
        /\ released.permit = slots.permit \ {h} /\ released.marked = slots.marked \ {h}
    BY <2>4, ReleaseMarkedHeld
  <2>6. slots' = GiveBack(released, h)
    BY <2>3
  <2> HIDE DEF released
  <2>7. /\ Held(slots') /\ slots'.lane = slots.lane \ {h}
        /\ slots'.permit = slots.permit \ {h} /\ slots'.marked = slots.marked \ {h}
    BY <2>5, <2>6, GiveBackHeld
  <2>8. wsConnections' = wsConnections \ {h}
    BY <1>5 DEF OpensAndCloses
  <2> QED
    BY <2>2, <2>7, <2>8, ExactAgain DEF SlotsInv, SlotsExact
<1> QED
  BY <1>3, <1>4, <1>5

\* What a drain of the ring calls is parked.
LEMMA CalledAreParked ==
  ASSUME TypeOK, PacingExact
  PROVE  /\ Turns(pacing) \in 0..pacing.depth
         /\ {pacing.deferred[i] : i \in First(pacing, Turns(pacing))} \subseteq In("parked")
<1>1. PerTick \in Nat /\ pacing.depth \in Nat
  BY AdmissionAssumption DEF TypeOK, AdmissionTypeOK
<1>2. Turns(pacing) \in 0..pacing.depth
  BY <1>1 DEF Turns
<1>3. First(pacing, Turns(pacing)) \subseteq First(pacing, pacing.depth)
  BY <1>1, <1>2 DEF First
<1> QED
  BY <1>2, <1>3 DEF PacingExact

\* Every step of a handshake or a socket leaves the slots exact.
LEMMA HandshakeKeepsSlots ==
  ASSUME TypeOK, SlotsExact, PacingExact, HandshakeStep
  PROVE  SlotsInv'
<1>1. SlotsInv /\ Held(slots)
  BY HeldNow DEF TypeOK, AdmissionTypeOK, SlotsInv, SlotsType
<1>2. ASSUME NEW h \in Handshakes, NEW cursor \in BOOLEAN, TryUpgrade(h, cursor)
      PROVE  SlotsInv'
  <2>1. h \notin Handshaking /\ h \notin Sockets
    BY <1>2, ApartSets DEF TryUpgrade
  <2>2. /\ phase' \in [Handshakes -> Phases]
        /\ Handshaking' = Handshaking \cup {h} /\ Sockets' = Sockets \ {h}
    BY <1>1, <1>2, MovedSets DEF TryUpgrade, Phases, SlotsInv
  <2>3. /\ Held(slots') /\ slots'.lane = slots.lane \cup {h}
        /\ slots'.permit = slots.permit \cup {h} /\ slots'.marked = slots.marked
    BY <1>1, <1>2, <2>1, AcquireHeld DEF TryUpgrade, SlotsExact
  <2>4. Sockets' = Sockets /\ wsConnections' = wsConnections
    BY <1>2, <2>1, <2>2 DEF TryUpgrade
  <2> QED
    BY <2>2, <2>3, <2>4, ExactAgain DEF SlotsExact
<1>3. ASSUME NEW h \in Handshakes, HangUp(h)
      PROVE  SlotsInv'
  <2>1. /\ Held(slots') /\ slots'.lane = slots.lane \ {h}
        /\ slots'.permit = slots.permit \ {h} /\ slots'.marked = slots.marked
    BY <1>1, <1>3, GiveBackHeld DEF HangUp
  <2>2. phase' = phase /\ wsConnections' = wsConnections
    BY <1>3 DEF HangUp
  <2>3. Handshaking' = Handshaking /\ Sockets' = Sockets
    BY <2>2 DEF Handshaking, Sockets, In
  <2> QED
    BY <1>1, <2>1, <2>2, <2>3, ExactAgain DEF SlotsInv, SlotsExact
<1>4. ASSUME NEW h \in Handshakes, HookRefuses(h) \/ HookAccepts(h) \/ Declined(h)
      PROVE  SlotsInv'
  <2>1. h \in Handshaking
    BY <1>4, ApartSets DEF HookRefuses, HookAccepts, Declined
  <2>2. \/ Answer(h)
        \/ \E p \in {"parked", "granted"} : Moves(h, p) /\ UNCHANGED <<slots, wsConnections>>
    BY <1>4 DEF HookRefuses, HookAccepts, Declined
  <2> QED
    BY <1>1, <2>1, <2>2, AnswerKeepsSlots, WaitKeepsSlots
<1>5. ASSUME NEW h \in Handshakes, SocketCloses(h) \/ EndHeld(h) \/ CloseHookSettles(h)
      PROVE  SlotsInv'
  <2>1. CASE SocketCloses(h)
    <3>1. PICK hooked \in SUBSET {h} : CloseCallback({h}, hooked)
      BY <2>1 DEF SocketCloses
    <3>2. EndsOf({h})
      BY <1>1, <3>1 DEF CloseCallback, SlotsInv, Phases, EndsOf
    <3>3. {h} \in SUBSET Sockets
      BY <2>1 DEF SocketCloses
    <3> QED
      BY <1>1, <3>2, <3>3, CloseKeepsSlots
  <2>2. CASE EndHeld(h)
    <3>1. /\ phase' \in [Handshakes -> Phases]
          /\ Handshaking' = Handshaking \ {h} /\ Sockets' = Sockets \cup {h}
      BY <1>1, <2>2, MovedSets DEF EndHeld, Phases, SlotsInv
    <3>2. h \in Sockets /\ h \notin Handshaking
      BY <2>2, ApartSets DEF EndHeld
    <3>3. UNCHANGED <<slots, wsConnections>>
      BY <2>2 DEF EndHeld
    <3>4. Handshaking' = Handshaking /\ Sockets' = Sockets
      BY <3>1, <3>2
    <3> QED
      BY <1>1, <3>1, <3>3, <3>4, ExactAgain DEF SlotsInv, SlotsExact
  <2>3. CASE CloseHookSettles(h)
    <3>1. /\ phase' \in [Handshakes -> Phases]
          /\ Handshaking' = Handshaking \ {h} /\ Sockets' = Sockets \ {h}
      BY <1>1, <2>3, MovedSets DEF CloseHookSettles, Phases, SlotsInv
    <3>2. h \notin Sockets /\ h \notin Handshaking
      BY <2>3, ApartSets DEF CloseHookSettles
    <3>3. UNCHANGED <<slots, wsConnections>>
      BY <2>3 DEF CloseHookSettles
    <3>4. Handshaking' = Handshaking /\ Sockets' = Sockets
      BY <3>1, <3>2
    <3> QED
      BY <1>1, <3>1, <3>3, <3>4, ExactAgain DEF SlotsInv, SlotsExact
  <2> QED
    BY <1>5, <2>1, <2>2, <2>3
<1>6. CASE DrainDeferred
  <2> DEFINE called == {pacing.deferred[i] : i \in First(pacing, Turns(pacing))}
  <2>1. called \subseteq In("parked")
    BY CalledAreParked
  <2>2. phase' = [h \in Handshakes |-> IF h \in called THEN "granted" ELSE phase[h]]
    BY <1>6 DEF DrainDeferred
  <2> HIDE DEF called
  <2>3. phase' \in [Handshakes -> Phases]
    BY <1>1, <2>2 DEF SlotsInv, Phases
  <2>4. Handshaking' = Handshaking /\ Sockets' = Sockets
    BY <2>1, <2>2 DEF Handshaking, Sockets, In
  <2>5. UNCHANGED <<slots, wsConnections>>
    BY <1>6 DEF DrainDeferred
  <2> QED
    BY <1>1, <2>3, <2>4, <2>5, ExactAgain DEF SlotsInv, SlotsExact
<1> QED
  BY <1>1, <1>2, <1>3, <1>4, <1>5, <1>6, UpgradeKeepsSlots DEF HandshakeStep

-----------------------------------------------------------------------------
(* The ring.                                                               *)

PacingType ==
  [count : 0..PerTick, deferred : [Places -> Handshakes \cup {Nobody}],
   head : Places, tail : Places, depth : 0..MaxDeferred, scheduled : BOOLEAN]

PacingInv == pacing \in PacingType /\ PacingExact

\* Counting around the ring from its head meets every place once.
LEMMA RingPlaces ==
  ASSUME NEW p \in PacingType
  PROVE  /\ \A i \in 0..MaxDeferred : PlaceAt(p, i) \in Places
         /\ \A i, j \in Places : PlaceAt(p, i) = PlaceAt(p, j) => i = j
         /\ \A n \in 0..MaxDeferred : First(p, n) \subseteq Places
<1>1. MaxDeferred \in Nat \ {0}
  BY AdmissionAssumption
<1>2. p.head \in 0..(MaxDeferred - 1)
  BY DEF PacingType, Places
<1>3. \A i \in 0..MaxDeferred : PlaceAt(p, i) \in Places
  BY <1>1, <1>2 DEF PlaceAt, Places
<1>4. \A i, j \in Places : PlaceAt(p, i) = PlaceAt(p, j) => i = j
  BY <1>1, <1>2 DEF PlaceAt, Places
<1>5. \A n \in 0..MaxDeferred : First(p, n) \subseteq Places
  BY <1>1, <1>3 DEF First
<1> QED
  BY <1>3, <1>4, <1>5

\* A step that parks nobody and calls nobody.
LEMMA PacingKept ==
  ASSUME PacingInv, UNCHANGED pacing, In("parked")' = In("parked")
  PROVE  PacingInv'
BY DEF PacingInv, PacingExact, First, PlaceAt

\* Spending the budget of this turn.
LEMMA SpendKeepsRing ==
  ASSUME PacingInv, pacing.count < PerTick, In("parked")' = In("parked"),
         pacing' = [pacing EXCEPT !.count = @ + 1, !.scheduled = TRUE]
  PROVE  PacingInv'
<1>0. pacing \in PacingType /\ pacing.count + 1 \in 0..PerTick
  BY AdmissionAssumption DEF PacingInv, PacingType
<1>1. /\ pacing'.count = pacing.count + 1 /\ pacing'.scheduled = TRUE
      /\ pacing'.deferred = pacing.deferred /\ pacing'.head = pacing.head
      /\ pacing'.tail = pacing.tail /\ pacing'.depth = pacing.depth
      /\ pacing' \in PacingType
  BY <1>0 DEF PacingType
<1>2. /\ First(pacing', pacing'.depth) = First(pacing, pacing.depth)
      /\ PlaceAt(pacing', pacing'.depth) = PlaceAt(pacing, pacing.depth)
  BY <1>1 DEF First, PlaceAt
<1> QED
  BY <1>1, <1>2 DEF PacingInv, PacingExact

\* The newcomer takes the place behind the last.
LEMMA EnqueueKeepsRing ==
  ASSUME PacingInv, NEW h \in Handshakes, h \notin In("parked"),
         pacing.depth < MaxDeferred, pacing' = Enqueue(pacing, h),
         In("parked")' = In("parked") \cup {h}
  PROVE  PacingInv'
<1> DEFINE tail == pacing.tail
           depth == pacing.depth
           old == First(pacing, depth)
<1>1. /\ MaxDeferred \in Nat \ {0} /\ pacing \in PacingType
      /\ pacing.head \in 0..(MaxDeferred - 1) /\ depth \in 0..(MaxDeferred - 1)
      /\ tail \in Places /\ tail = PlaceAt(pacing, depth)
  BY AdmissionAssumption DEF PacingInv, PacingExact, PacingType, Places
<1>2. NextPlace(tail) \in Places /\ NextPlace(tail) = PlaceAt(pacing, depth + 1)
  BY <1>1 DEF NextPlace, PlaceAt, Places
<1>3. /\ pacing'.deferred = [pacing.deferred EXCEPT ![tail] = h]
      /\ pacing'.head = pacing.head /\ pacing'.tail = NextPlace(tail)
      /\ pacing'.depth = depth + 1 /\ pacing'.scheduled = TRUE
      /\ pacing' \in PacingType
  <2>1. depth + 1 \in 0..MaxDeferred
    BY <1>1
  <2>2. [pacing.deferred EXCEPT ![tail] = h] \in [Places -> Handshakes \cup {Nobody}]
    BY <1>1 DEF PacingType
  <2>3. pacing' = [pacing EXCEPT !.deferred = [pacing.deferred EXCEPT ![tail] = h],
                                 !.tail = NextPlace(tail), !.depth = depth + 1,
                                 !.scheduled = TRUE]
    BY DEF Enqueue
  <2> HIDE DEF tail, depth
  <2> QED
    BY <1>1, <1>2, <2>1, <2>2, <2>3 DEF PacingType
<1>4. \A i \in Nat : PlaceAt(pacing', i) = PlaceAt(pacing, i)
  BY <1>3 DEF PlaceAt
<1>5. old \subseteq Places /\ tail \notin old
  <2>1. \A i \in 0..(depth - 1) : PlaceAt(pacing, i) # PlaceAt(pacing, depth)
    BY <1>1, RingPlaces DEF Places
  <2> QED
    BY <1>1, <2>1, RingPlaces DEF First
<1>6. First(pacing', depth + 1) = old \cup {tail}
  <2>1. 0..((depth + 1) - 1) = 0..(depth - 1) \cup {depth}
    BY <1>1
  <2>2. 0..((depth + 1) - 1) \subseteq Nat /\ 0..(depth - 1) \subseteq Nat
    BY <1>1
  <2> QED
    BY <1>1, <1>4, <2>1, <2>2 DEF First
<1>7. /\ {pacing.deferred[i] : i \in old} = In("parked")
      /\ \A i, j \in old : pacing.deferred[i] = pacing.deferred[j] => i = j
      /\ \A i \in Places \ old : pacing.deferred[i] = Nobody
  BY DEF PacingInv, PacingExact
<1>8. /\ pacing'.deferred[tail] = h
      /\ \A i \in Places \ {tail} : pacing'.deferred[i] = pacing.deferred[i]
  BY <1>1, <1>3 DEF PacingType
<1> HIDE DEF old, tail, depth
<1>9. {pacing'.deferred[i] : i \in old \cup {tail}} = In("parked")'
  BY <1>5, <1>7, <1>8
<1>10. \A i, j \in old \cup {tail} : pacing'.deferred[i] = pacing'.deferred[j] => i = j
  BY <1>5, <1>7, <1>8
<1>11. \A i \in Places \ (old \cup {tail}) : pacing'.deferred[i] = Nobody
  BY <1>5, <1>7, <1>8
<1>12. pacing'.tail = PlaceAt(pacing', pacing'.depth)
  <2>1. depth + 1 \in Nat
    BY <1>1
  <2> QED
    BY <1>2, <1>3, <1>4, <2>1
<1> QED
  BY <1>3, <1>6, <1>9, <1>10, <1>11, <1>12 DEF PacingInv, PacingExact

\* Turns of them leave from the head on; a ring that empties is as it was at the start.
LEMMA DrainKeepsRing ==
  ASSUME PacingInv, pacing' = Drained(pacing),
         In("parked")' = In("parked")
           \ {pacing.deferred[i] : i \in First(pacing, Turns(pacing))}
  PROVE  PacingInv'
<1> DEFINE depth == pacing.depth
           k == Turns(pacing)
           old == First(pacing, depth)
           gone == First(pacing, k)
<1>1. /\ MaxDeferred \in Nat \ {0} /\ pacing \in PacingType
      /\ pacing.head \in 0..(MaxDeferred - 1) /\ depth \in 0..MaxDeferred
  BY AdmissionAssumption DEF PacingInv, PacingType, Places
<1>2. k \in 0..depth /\ k \in 0..PerTick /\ (depth > 0 => k > 0)
  BY <1>1, AdmissionAssumption DEF Turns
<1>3. \A i \in 0..MaxDeferred : PlaceAt(pacing, i) \in Places
  BY <1>1, RingPlaces
<1> HIDE DEF k
<1>4. /\ pacing'.deferred = [i \in Places |-> IF i \in gone THEN Nobody ELSE pacing.deferred[i]]
      /\ pacing'.head = IF k = depth THEN 0 ELSE PlaceAt(pacing, k)
      /\ pacing'.tail = IF k = depth THEN 0 ELSE pacing.tail
      /\ pacing'.depth = depth - k /\ pacing'.count = k
      /\ pacing'.scheduled = (depth - k > 0 \/ k > 0)
      /\ DOMAIN pacing' = DOMAIN pacing
  BY <1>1 DEF Drained, Dequeue, PacingType, k
<1>5. pacing' \in PacingType
  <2>1. pacing' = [pacing EXCEPT
                     !.deferred = pacing'.deferred, !.head = pacing'.head,
                     !.tail = pacing'.tail, !.depth = pacing'.depth,
                     !.count = pacing'.count, !.scheduled = pacing'.scheduled]
    BY <1>1 DEF Drained, Dequeue, PacingType
  <2>2. pacing'.deferred \in [Places -> Handshakes \cup {Nobody}]
    BY <1>1, <1>4 DEF PacingType
  <2>3. pacing'.head \in Places /\ pacing'.tail \in Places
    <3>1. k \in 0..MaxDeferred /\ 0 \in Places
      BY <1>1, <1>2 DEF Places
    <3>2. PlaceAt(pacing, k) \in Places /\ pacing.tail \in Places
      BY <1>1, <1>3, <3>1 DEF PacingType
    <3> QED
      BY <1>4, <3>1, <3>2
  <2>4. pacing'.depth \in 0..MaxDeferred /\ pacing'.count \in 0..PerTick
    BY <1>1, <1>2, <1>4
  <2>5. pacing'.scheduled \in BOOLEAN
    BY <1>4
  <2> QED
    BY <1>1, <2>1, <2>2, <2>3, <2>4, <2>5 DEF PacingType
<1>6. /\ {pacing.deferred[i] : i \in old} = In("parked")
      /\ \A i, j \in old : pacing.deferred[i] = pacing.deferred[j] => i = j
      /\ \A i \in Places \ old : pacing.deferred[i] = Nobody
      /\ pacing.tail = PlaceAt(pacing, depth)
  BY DEF PacingInv, PacingExact
<1>7. In("parked")' = In("parked") \ {pacing.deferred[i] : i \in gone}
  BY DEF k
<1>8. gone \subseteq old /\ old \subseteq Places
  BY <1>1, <1>2, RingPlaces DEF First
<1>9. CASE k = depth
  <2>1. First(pacing', pacing'.depth) = {}
    BY <1>4, <1>9, <1>1 DEF First
  <2>2. In("parked")' = {}
    BY <1>6, <1>7, <1>9
  <2>3. \A i \in Places : pacing'.deferred[i] = Nobody
    BY <1>4, <1>6, <1>9
  <2>4. pacing'.tail = PlaceAt(pacing', pacing'.depth)
    BY <1>1, <1>4, <1>9 DEF PlaceAt
  <2>5. pacing'.depth > 0 \/ pacing'.count > 0 => pacing'.scheduled
    BY <1>4
  <2> QED
    BY <1>5, <2>1, <2>2, <2>3, <2>4, <2>5 DEF PacingInv, PacingExact
<1>10. CASE k # depth
  <2>1. k \in 0..(depth - 1) /\ pacing'.head = PlaceAt(pacing, k) /\ pacing'.tail = pacing.tail
    BY <1>1, <1>2, <1>4, <1>10
  <2>2. \A i \in 0..(depth - k) : PlaceAt(pacing', i) = PlaceAt(pacing, k + i)
    BY <1>1, <2>1 DEF PlaceAt
  <2>3. First(pacing', depth - k) = old \ gone
    <3>1. First(pacing', depth - k) = {PlaceAt(pacing, k + i) : i \in 0..((depth - k) - 1)}
      BY <1>1, <2>1, <2>2 DEF First
    <3>2. {PlaceAt(pacing, k + i) : i \in 0..((depth - k) - 1)}
            = {PlaceAt(pacing, j) : j \in k..(depth - 1)}
      <4>1. \A i \in 0..((depth - k) - 1) : k + i \in k..(depth - 1)
        BY <1>1, <2>1
      <4>2. \A j \in k..(depth - 1) : j - k \in 0..((depth - k) - 1) /\ k + (j - k) = j
        BY <1>1, <2>1
      <4> QED
        BY <4>1, <4>2
    <3>3. 0..(depth - 1) = 0..(k - 1) \cup k..(depth - 1)
      BY <1>1, <2>1
    <3>4. \A i \in 0..(k - 1), j \in k..(depth - 1) : PlaceAt(pacing, i) # PlaceAt(pacing, j)
      BY <1>1, <2>1, RingPlaces DEF Places
    <3> QED
      BY <3>1, <3>2, <3>3, <3>4 DEF First
  <2>4. \A i \in old \ gone : pacing'.deferred[i] = pacing.deferred[i]
    BY <1>4, <1>8
  <2> HIDE DEF old, gone
  <2>5. {pacing'.deferred[i] : i \in old \ gone} = In("parked")'
    BY <1>6, <1>7, <1>8, <2>4
  <2>6. \A i, j \in old \ gone : pacing'.deferred[i] = pacing'.deferred[j] => i = j
    BY <1>6, <2>4
  <2>7. \A i \in Places \ (old \ gone) : pacing'.deferred[i] = Nobody
    BY <1>4, <1>6
  <2>8. pacing'.tail = PlaceAt(pacing', pacing'.depth)
    <3>1. depth - k \in 0..(depth - k) /\ k + (depth - k) = depth
      BY <1>1, <2>1
    <3> QED
      BY <1>4, <1>6, <2>1, <2>2, <3>1
  <2>9. pacing'.depth > 0 \/ pacing'.count > 0 => pacing'.scheduled
    BY <1>4
  <2> QED
    BY <1>4, <1>5, <2>3, <2>5, <2>6, <2>7, <2>8, <2>9 DEF PacingInv, PacingExact
<1> QED
  BY <1>9, <1>10

\* Nothing that changes only other phases touches the ring.
LEMMA ParkedKept ==
  ASSUME PacingInv, UNCHANGED pacing,
         \A g \in Handshakes : phase'[g] = "parked" <=> phase[g] = "parked"
  PROVE  PacingInv'
<1>1. In("parked")' = In("parked")
  BY DEF In
<1> QED
  BY <1>1, PacingKept

\* Every step of a handshake or a socket leaves the ring exact.
LEMMA HandshakeKeepsRing ==
  ASSUME TypeOK, PacingExact, HandshakeStep
  PROVE  PacingInv'
<1>1. PacingInv /\ phase \in [Handshakes -> Phases]
  BY DEF TypeOK, AdmissionTypeOK, PacingInv, PacingType
<1>2. ASSUME NEW h \in Handshakes, NEW cursor \in BOOLEAN, TryUpgrade(h, cursor)
      PROVE  PacingInv'
  <2>1. \A g \in Handshakes : phase'[g] = "parked" <=> phase[g] = "parked"
    BY <1>1, <1>2 DEF TryUpgrade, Moves
  <2> QED
    BY <1>1, <1>2, <2>1, ParkedKept DEF TryUpgrade
<1>3. ASSUME NEW h \in Handshakes,
             \/ HangUp(h) \/ HookRefuses(h) \/ Declined(h) \/ RuntimeRefuses(h) \/ Opens(h)
             \/ OpensAndCloses(h) \/ SocketCloses(h) \/ EndHeld(h) \/ CloseHookSettles(h)
      PROVE  PacingInv'
  <2>1. CASE HangUp(h) \/ HookRefuses(h) \/ Declined(h) \/ RuntimeRefuses(h)
    <3>1. \A g \in Handshakes : phase'[g] = "parked" <=> phase[g] = "parked"
      BY <1>1, <2>1 DEF HangUp, HookRefuses, Declined, RuntimeRefuses, Answer, Moves
    <3> QED
      BY <1>1, <2>1, <3>1, ParkedKept DEF HangUp, HookRefuses, Declined, RuntimeRefuses
  <2>2. CASE Opens(h) \/ OpensAndCloses(h) \/ EndHeld(h) \/ CloseHookSettles(h)
    <3>1. \A g \in Handshakes : phase'[g] = "parked" <=> phase[g] = "parked"
      BY <1>1, <2>2 DEF Opens, OpensAndCloses, EndHeld, CloseHookSettles, Moves
    <3> QED
      BY <1>1, <2>2, <3>1, ParkedKept DEF Opens, OpensAndCloses, EndHeld, CloseHookSettles
  <2>3. CASE SocketCloses(h)
    <3>1. phase[h] # "parked"
      BY <2>3 DEF SocketCloses, Sockets, In
    <3>2. \A g \in Handshakes : phase'[g] = "parked" <=> phase[g] = "parked"
      BY <1>1, <2>3, <3>1 DEF SocketCloses, CloseCallback
    <3> QED
      BY <1>1, <2>3, <3>2, ParkedKept DEF SocketCloses
  <2> QED
    BY <1>3, <2>1, <2>2, <2>3
<1>4. ASSUME NEW h \in Handshakes, HookAccepts(h)
      PROVE  PacingInv'
  <2>1. phase[h] = "hook"
    BY <1>4 DEF HookAccepts
  <2>2. CASE Answer(h) /\ UNCHANGED pacing
    <3>1. \A g \in Handshakes : phase'[g] = "parked" <=> phase[g] = "parked"
      BY <1>1, <2>1, <2>2 DEF Answer, Moves
    <3> QED
      BY <1>1, <2>2, <3>1, ParkedKept
  <2>3. CASE /\ pacing.count < PerTick /\ Moves(h, "granted")
             /\ pacing' = [pacing EXCEPT !.count = @ + 1, !.scheduled = TRUE]
    <3>1. In("parked")' = In("parked")
      BY <1>1, <2>1, <2>3 DEF In, Moves
    <3> QED
      BY <1>1, <2>3, <3>1, SpendKeepsRing
  <2>4. CASE /\ pacing.depth < MaxDeferred /\ Moves(h, "parked")
             /\ pacing' = Enqueue(pacing, h)
    <3>1. In("parked")' = In("parked") \cup {h} /\ h \notin In("parked")
      BY <1>1, <2>1, <2>4 DEF In, Moves
    <3> QED
      BY <1>1, <2>4, <3>1, EnqueueKeepsRing
  <2> QED
    BY <1>4, <2>2, <2>3, <2>4 DEF HookAccepts
<1>5. CASE DrainDeferred
  <2> DEFINE called == {pacing.deferred[i] : i \in First(pacing, Turns(pacing))}
  <2>1. phase' = [h \in Handshakes |-> IF h \in called THEN "granted" ELSE phase[h]]
    BY <1>5 DEF DrainDeferred
  <2> HIDE DEF called
  <2>2. In("parked")' = In("parked") \ called
    BY <2>1 DEF In
  <2> QED
    BY <1>1, <1>5, <2>2, DrainKeepsRing DEF DrainDeferred, called
<1> QED
  BY <1>2, <1>3, <1>4, <1>5 DEF HandshakeStep

-----------------------------------------------------------------------------
(* Behind the latch.                                                       *)

\* Once the latch is set, no step of a handshake makes a socket of one, and a close hook
\* is left running only by a socket that was there.
LEMMA LatchKeepsOut ==
  ASSUME TypeOK, HandshakeStep
  PROVE  /\ draining' = draining
         /\ draining => /\ Sockets' \subseteq Sockets
                        /\ In("open")' \subseteq In("open")
                        /\ In("closed")' \subseteq In("closed") \cup Sockets
<1> DEFINE Kept(g) == /\ phase'[g] \in {"open", "ending"} => phase[g] \in {"open", "ending"}
                      /\ phase'[g] = "open" => phase[g] = "open"
                      /\ phase'[g] = "closed" => phase[g] \in {"open", "ending", "closed"}
<1>1. phase \in [Handshakes -> Phases]
  BY DEF TypeOK, AdmissionTypeOK
<1>2. ASSUME NEW h \in Handshakes, NEW cursor \in BOOLEAN, TryUpgrade(h, cursor)
      PROVE  draining' = draining /\ (draining => \A g \in Handshakes : Kept(g))
  BY <1>2 DEF TryUpgrade
<1>3. ASSUME NEW h \in Handshakes,
             HangUp(h) \/ HookRefuses(h) \/ Declined(h) \/ RuntimeRefuses(h) \/ HookAccepts(h)
      PROVE  draining' = draining /\ (draining => \A g \in Handshakes : Kept(g))
  BY <1>1, <1>3
  DEF HangUp, HookRefuses, Declined, RuntimeRefuses, HookAccepts, Answer, Moves
<1>4. ASSUME NEW h \in Handshakes,
             Opens(h) \/ OpensAndCloses(h) \/ EndHeld(h) \/ CloseHookSettles(h)
      PROVE  draining' = draining /\ (draining => \A g \in Handshakes : Kept(g))
  BY <1>1, <1>4 DEF Opens, OpensAndCloses, MayTakeSocket, EndHeld, CloseHookSettles, Moves
<1>5. ASSUME NEW h \in Handshakes, SocketCloses(h)
      PROVE  draining' = draining /\ (draining => \A g \in Handshakes : Kept(g))
  <2>1. phase[h] \in {"open", "ending"}
    BY <1>5 DEF SocketCloses, Sockets, In
  <2> QED
    BY <1>1, <1>5, <2>1 DEF SocketCloses, CloseCallback
<1>6. ASSUME DrainDeferred
      PROVE  draining' = draining /\ (draining => \A g \in Handshakes : Kept(g))
  <2> DEFINE called == {pacing.deferred[i] : i \in First(pacing, Turns(pacing))}
  <2>1. /\ phase' = [h \in Handshakes |-> IF h \in called THEN "granted" ELSE phase[h]]
        /\ draining' = draining
    BY <1>6 DEF DrainDeferred
  <2> HIDE DEF called
  <2> QED
    BY <2>1
<1>7. draining' = draining /\ (draining => \A g \in Handshakes : Kept(g))
  <2> HIDE DEF Kept
  <2> QED
    BY <1>2, <1>3, <1>4, <1>5, <1>6 DEF HandshakeStep
<1> QED
  BY <1>7 DEF Sockets, In

-----------------------------------------------------------------------------
(* The requests.                                                           *)

LifetimesType ==
  [inFlightCount : 0..Cardinality(Requests),
   requestSignals : SUBSET Requests, unfinished : SUBSET Requests]

Counts(l) ==
  /\ l \in LifetimesType
  /\ l.inFlightCount = Cardinality(l.unfinished)
  /\ l.requestSignals \subseteq l.unfinished

RequestsInv == RequestTypeOK /\ RequestsExact

LEMMA FiniteRequests ==
  /\ Cardinality(Requests) \in Nat
  /\ \A S \in SUBSET Requests :
       IsFiniteSet(S) /\ Cardinality(S) \in 0..Cardinality(Requests)
<1>1. Cardinality(Requests) \in Nat
  BY RequestsAssumption, FS_CardinalityType
<1>2. ASSUME NEW S \in SUBSET Requests
      PROVE  IsFiniteSet(S) /\ Cardinality(S) \in 0..Cardinality(Requests)
  <2>1. IsFiniteSet(S) /\ Cardinality(S) <= Cardinality(Requests)
    BY RequestsAssumption, FS_Subset
  <2>2. Cardinality(S) \in Nat
    BY <2>1, FS_CardinalityType
  <2> QED
    BY <1>1, <2>1, <2>2
<1> QED
  BY <1>1, <1>2

\* The first ending of a request counts it out; the later ones find it finished.
LEMMA FinishedCounts ==
  ASSUME NEW l, Counts(l), NEW r \in Requests
  PROVE  /\ Counts(Finished(l, r))
         /\ Finished(l, r).unfinished = l.unfinished \ {r}
<1>1. CASE r \in l.unfinished
  <2>1. Finished(l, r) = [l EXCEPT !.inFlightCount = @ - 1,
                           !.requestSignals = @ \ {r}, !.unfinished = @ \ {r}]
    BY <1>1 DEF Finished
  <2>2. /\ l.unfinished \in SUBSET Requests /\ l.unfinished \ {r} \in SUBSET Requests
        /\ IsFiniteSet(l.unfinished)
    BY FiniteRequests DEF Counts, LifetimesType
  <2>3. Cardinality(l.unfinished \ {r}) = Cardinality(l.unfinished) - 1
    BY <1>1, <2>2, RemoveOne
  <2>4. Cardinality(l.unfinished \ {r}) \in 0..Cardinality(Requests)
    BY <2>2, FiniteRequests
  <2> QED
    BY <2>1, <2>3, <2>4 DEF Counts, LifetimesType
<1>2. CASE r \notin l.unfinished
  BY <1>2 DEF Finished
<1> QED
  BY <1>1, <1>2

LEMMA CountsNow == RequestsInv <=> Counts(lifetimes) /\ work \in [Requests -> {"none", "render", "read"}]
BY DEF RequestsInv, RequestTypeOK, RequestsExact, Counts, LifetimesType

\* Every step of a request counts it exactly.
LEMMA RequestKeepsCount ==
  ASSUME RequestsInv, RequestStep
  PROVE  RequestsInv'
<1>1. Counts(lifetimes) /\ work \in [Requests -> {"none", "render", "read"}]
  BY CountsNow
<1> SUFFICES Counts(lifetimes') /\ work' \in [Requests -> {"none", "render", "read"}]
  BY DEF RequestsInv, RequestTypeOK, RequestsExact, Counts, LifetimesType
<1>2. PICK r \in Requests :
        \/ OpenRequest(r) \/ BodyOverLimit(r) \/ ClientLeaves(r) \/ StreamCancelled(r)
        \/ RenderCompletes(r) \/ RenderStreams(r) \/ ReadSettles(r)
  BY DEF RequestStep
<1>3. work' \in [Requests -> {"none", "render", "read"}]
  BY <1>1, <1>2 DEF OpenRequest, BodyOverLimit, ClientLeaves, StreamCancelled,
     RenderCompletes, RenderStreams, ReadSettles
<1>4. CASE OpenRequest(r)
  <2>1. /\ lifetimes.unfinished \in SUBSET Requests /\ IsFiniteSet(lifetimes.unfinished)
        /\ lifetimes.unfinished \cup {r} \in SUBSET Requests
    BY <1>1, FiniteRequests DEF Counts, LifetimesType
  <2>2. Cardinality(lifetimes.unfinished \cup {r}) = Cardinality(lifetimes.unfinished) + 1
    BY <1>4, <2>1, AddOne DEF OpenRequest
  <2>3. Cardinality(lifetimes.unfinished \cup {r}) \in 0..Cardinality(Requests)
    BY <2>1, FiniteRequests
  <2>4. lifetimes' = [inFlightCount |-> lifetimes.inFlightCount + 1,
                      requestSignals |-> lifetimes.requestSignals \cup {r},
                      unfinished |-> lifetimes.unfinished \cup {r}]
    BY <1>4 DEF OpenRequest
  <2> QED
    BY <1>1, <1>3, <2>2, <2>3, <2>4 DEF Counts, LifetimesType
<1>5. CASE RenderStreams(r)
  BY <1>1, <1>3, <1>5 DEF RenderStreams
<1>6. CASE StreamCancelled(r)
  BY <1>1, <1>3, <1>6, FinishedCounts DEF StreamCancelled
<1>7. CASE BodyOverLimit(r) \/ ClientLeaves(r) \/ RenderCompletes(r) \/ ReadSettles(r)
  BY <1>1, <1>3, <1>7, FinishedCounts
  DEF BodyOverLimit, ClientLeaves, RenderCompletes, ReadSettles, Finish
<1> QED
  BY <1>2, <1>4, <1>5, <1>6, <1>7

\* abortInFlightRequests counts nobody out.
LEMMA AbortKeepsCount ==
  ASSUME RequestsInv, lifetimes' = Aborted(lifetimes), work' = work
  PROVE  RequestsInv'
BY DEF RequestsInv, RequestTypeOK, RequestsExact, Aborted

-----------------------------------------------------------------------------
(* The invariant.                                                          *)

\* The invariant in the parts its steps keep.
LEMMA Parts ==
  IInv <=> /\ SlotsInv /\ PacingInv /\ RequestsInv /\ Latched
           /\ draining \in BOOLEAN /\ stage \in Stages
           /\ {clean, expired, late} \subseteq BOOLEAN
BY DEF IInv, TypeOK, AdmissionTypeOK, SlotsInv, SlotsType, PacingInv, PacingType, RequestsInv

LEMMA PartsNext ==
  IInv' <=> /\ SlotsInv' /\ PacingInv' /\ RequestsInv' /\ Latched'
            /\ draining' \in BOOLEAN /\ stage' \in Stages
            /\ {clean', expired', late'} \subseteq BOOLEAN
BY DEF IInv, TypeOK, AdmissionTypeOK, SlotsInv, SlotsType, PacingInv, PacingType, RequestsInv

LEMMA InitInvariant == Init => IInv
<1> SUFFICES ASSUME Init PROVE IInv
  OBVIOUS
<1>1. MaxDeferred \in Nat \ {0} /\ {MaxConcurrent, CursorMax, MaxConnections, PerTick} \subseteq Nat
  BY AdmissionAssumption
<1>2. Cardinality({}) = 0 /\ Cardinality(Requests) \in Nat
  BY FS_EmptySet, FiniteRequests
<1>3. \A p \in Phases : In(p) = IF p = "idle" THEN Handshakes ELSE {}
  BY DEF Init, AdmissionInit, In
<1>4. Handshaking = {} /\ Sockets = {} /\ In("parked") = {} /\ pendingCloseHooks = {} /\ In("open") = {}
  BY <1>3 DEF Handshaking, Sockets, pendingCloseHooks, Phases
<1>5. SlotsInv
  <2>1. slots \in SlotsType
    BY <1>1 DEF Init, AdmissionInit, SlotsType
  <2>2. phase \in [Handshakes -> Phases]
    BY DEF Init, AdmissionInit, Phases
  <2> QED
    BY <1>2, <1>4, <2>1, <2>2 DEF Init, AdmissionInit, SlotsInv, SlotsExact
<1>6. PacingInv
  <2>1. pacing \in PacingType
    BY <1>1 DEF Init, AdmissionInit, PacingType, Places
  <2>2. First(pacing, pacing.depth) = {} /\ pacing.tail = PlaceAt(pacing, pacing.depth)
    BY <1>1 DEF Init, AdmissionInit, First, PlaceAt
  <2>3. /\ \A i \in Places : pacing.deferred[i] = Nobody
        /\ ~(pacing.depth > 0 \/ pacing.count > 0)
    BY <1>1 DEF Init, AdmissionInit
  <2> QED
    BY <1>4, <2>1, <2>2, <2>3 DEF PacingInv, PacingExact
<1>7. RequestsInv
  BY <1>2 DEF Init, RequestInit, RequestsInv, RequestTypeOK, RequestsExact
<1>8. Latched
  BY <1>4 DEF Init, RequestInit, Latched, Over
<1> QED
  BY <1>5, <1>6, <1>7, <1>8, Parts DEF Init, AdmissionInit, Stages

\* A step that leaves a part's variables alone leaves the part.
LEMMA AdmissionKept ==
  ASSUME SlotsInv, PacingInv, UNCHANGED admission
  PROVE  SlotsInv' /\ PacingInv'
<1>1. SlotsInv'
  BY DEF admission, SlotsInv, SlotsExact, Handshaking, Sockets, In
<1>2. PacingInv'
  BY DEF admission, PacingInv, PacingExact, First, PlaceAt, In
<1> QED
  BY <1>1, <1>2

LEMMA RequestsKept ==
  ASSUME RequestsInv, UNCHANGED requests
  PROVE  RequestsInv'
BY DEF requests, RequestsInv, RequestTypeOK, RequestsExact

\* A step of a handshake, at any statement of the shutdown.
LEMMA HandshakeInvariant ==
  ASSUME IInv, Handshake
  PROVE  IInv'
<1>1. SlotsInv /\ PacingInv /\ RequestsInv /\ Latched
  BY Parts
<1>2. SlotsInv' /\ PacingInv'
  BY HandshakeKeepsSlots, HandshakeKeepsRing DEF IInv, Handshake
<1>3. RequestsInv'
  BY <1>1, RequestsKept DEF Handshake
<1>4. /\ draining' = draining
      /\ draining => /\ Sockets' \subseteq Sockets
                     /\ In("open")' \subseteq In("open")
                     /\ In("closed")' \subseteq In("closed") \cup Sockets
  BY LatchKeepsOut DEF IInv, Handshake
<1>5. wsConnections = Sockets /\ wsConnections' = Sockets'
  BY <1>1, <1>2 DEF SlotsInv, SlotsExact
<1>6. UNCHANGED <<stage, clean, expired, late, lifetimes>>
  BY DEF Handshake, requests, shutdown
<1>7. Latched'
  <2>1. stage \notin {"booting", "serving"} => draining
    BY <1>1 DEF Latched
  <2>2. CASE stage \in {"booting", "serving"}
    BY <1>6, <2>2 DEF Latched, Over
  <2>3. CASE stage \notin {"booting", "serving"}
    BY <1>1, <1>4, <1>5, <1>6, <2>1, <2>3 DEF Latched, Over, pendingCloseHooks
  <2> QED
    BY <2>2, <2>3
<1> QED
  BY <1>2, <1>3, <1>4, <1>6, <1>7, Parts, PartsNext

\* A step of a request: behind the stop of the server none begins.
LEMMA RequestInvariant ==
  ASSUME IInv, Request
  PROVE  IInv'
<1>1. SlotsInv /\ PacingInv /\ RequestsInv /\ Latched
  BY Parts
<1>2. SlotsInv' /\ PacingInv'
  BY <1>1, AdmissionKept DEF Request
<1>3. RequestsInv'
  BY <1>1, RequestKeepsCount DEF Request
<1>4. UNCHANGED <<phase, wsConnections, draining, stage, clean, expired, late>>
  BY DEF Request, admission, shutdown
<1>5. /\ ~Over
      /\ Listening \/ lifetimes'.unfinished \subseteq lifetimes.unfinished
  BY DEF Request
<1>6. Latched'
  <2>1. \A p \in Phases : In(p)' = In(p)
    BY <1>4 DEF In
  <2>2. {"open", "closed"} \subseteq Phases
    BY DEF Phases
  <2>3. stage \in {"cleanup", "exited"} => ~Listening
    BY DEF Listening
  <2> QED
    BY <1>1, <1>4, <1>5, <2>1, <2>2, <2>3 DEF Latched, Over, pendingCloseHooks
<1> QED
  BY <1>2, <1>3, <1>4, <1>6, Parts, PartsNext

\* The drain of the sockets ends every one the registry holds.
LEMMA HookOverInvariant ==
  ASSUME IInv, HookOver
  PROVE  IInv'
<1>1. SlotsInv /\ PacingInv /\ RequestsInv /\ Latched /\ Held(slots)
  BY Parts, HeldNow DEF IInv
<1>2. PICK ended \in SUBSET (wsConnections \cap In("open")) :
        \E hooked \in SUBSET ended :
          /\ phase' = [h \in Handshakes |->
                         CASE h \in hooked -> "closed"
                           [] h \in ended \ hooked -> "idle"
                           [] h \in (wsConnections \cap In("open")) \ ended -> "ending"
                           [] OTHER -> phase[h]]
          /\ wsConnections' = wsConnections \ ended
          /\ slots' = ReleaseMarked(slots, ended)
  BY DEF HookOver
<1>3. PICK hooked \in SUBSET ended :
        phase' = [h \in Handshakes |->
                   CASE h \in hooked -> "closed"
                     [] h \in ended \ hooked -> "idle"
                     [] h \in (wsConnections \cap In("open")) \ ended -> "ending"
                     [] OTHER -> phase[h]]
  BY <1>2
<1>4. In("open") \subseteq wsConnections /\ phase \in [Handshakes -> Phases]
  BY <1>1 DEF SlotsInv, SlotsExact, Sockets
<1>5. \A h \in Handshakes :
        /\ h \in hooked => phase'[h] = "closed"
        /\ h \in ended \ hooked => phase'[h] = "idle"
        /\ h \in In("open") \ ended => phase'[h] = "ending"
        /\ h \notin In("open") => phase'[h] = phase[h]
        /\ phase'[h] \in Phases
  BY <1>3, <1>4 DEF Phases
<1>6. phase' \in [Handshakes -> Phases]
  BY <1>3, <1>5
<1>7. ended \subseteq In("open") /\ ended \in SUBSET Sockets /\ ended \subseteq Handshakes
  BY <1>1 DEF SlotsInv, SlotsExact, Sockets, In
<1>8. EndsOf(ended)
  <2>1. \A h \in Handshakes \ ended :
          phase'[h] = phase[h] \/ (phase[h] = "open" /\ phase'[h] = "ending")
    BY <1>5, <1>7 DEF In
  <2>2. \A h \in ended : phase'[h] \in {"closed", "idle"}
    BY <1>5, <1>7
  <2> QED
    BY <1>2, <1>6, <2>1, <2>2 DEF EndsOf
<1>9. SlotsInv'
  BY <1>1, <1>7, <1>8, CloseKeepsSlots
<1>10. PacingInv'
  <2>1. \A h \in Handshakes : phase'[h] = "parked" <=> phase[h] = "parked"
    BY <1>5, <1>7 DEF In
  <2>2. UNCHANGED pacing
    BY DEF HookOver
  <2> QED
    BY <1>1, <2>1, <2>2, ParkedKept
<1>11. RequestsInv'
  BY <1>1, RequestsKept DEF HookOver
<1>12. /\ stage = "hook" /\ stage' = "settling" /\ clean' = (clean /\ ~expired)
       /\ UNCHANGED <<expired, late, draining, lifetimes>>
  BY DEF HookOver, Wait, requests
<1>13. Latched'
  <2>1. In("open")' = {}
    BY <1>5, <1>7 DEF In
  <2>2. draining
    BY <1>1, <1>12 DEF Latched
  <2> QED
    BY <1>12, <2>1, <2>2 DEF Latched, Over
<1> QED
  BY <1>9, <1>10, <1>11, <1>12, <1>13, Parts, PartsNext DEF Stages, Waits

\* The other statements of the shutdown move on with what they waited for.
LEMMA WaitInvariant ==
  ASSUME IInv, SocketsDrained \/ RequestsDrained \/ CleanedUp \/ CleanupFails
  PROVE  IInv'
<1>1. /\ SlotsInv /\ PacingInv /\ RequestsInv /\ Latched
      /\ wsConnections = Sockets /\ {clean, expired, late} \subseteq BOOLEAN
  BY Parts DEF SlotsInv, SlotsExact
<1>2. UNCHANGED admission
  BY DEF SocketsDrained, RequestsDrained, CleanedUp, CleanupFails
<1>3. SlotsInv' /\ PacingInv' /\ UNCHANGED <<phase, wsConnections, draining>>
  BY <1>1, <1>2, AdmissionKept DEF admission
<1>4. RequestsInv'
  BY <1>1, RequestsKept, AbortKeepsCount
  DEF SocketsDrained, RequestsDrained, CleanedUp, CleanupFails
<1>5. In("open")' = In("open") /\ pendingCloseHooks' = pendingCloseHooks
  BY <1>3 DEF In, pendingCloseHooks
<1>6. CASE SocketsDrained
  <2>1. /\ stage = "settling" /\ stage' = "requests" /\ clean' = (clean /\ ~expired)
        /\ In("ending") = {} \/ expired
        /\ late' = ~Settled /\ UNCHANGED <<expired, lifetimes>>
    BY <1>6 DEF SocketsDrained, Wait, requests
  <2>2. draining /\ In("open") = {}
    BY <1>1, <2>1 DEF Latched
  <2>3. clean' => wsConnections = {}
    BY <1>1, <2>1, <2>2 DEF Sockets
  <2>4. Latched'
    BY <1>3, <1>5, <2>1, <2>2, <2>3 DEF Latched, Over, Settled
  <2> QED
    BY <1>1, <1>3, <1>4, <2>1, <2>4, Parts, PartsNext DEF Stages, Waits, Settled
<1>7. CASE RequestsDrained
  <2>1. /\ stage = "requests" /\ stage' = "cleanup" /\ clean' = (clean /\ ~expired)
        /\ lifetimes.inFlightCount = 0 \/ expired
        /\ lifetimes' = Aborted(lifetimes) /\ UNCHANGED <<expired, late>>
    BY <1>7 DEF RequestsDrained, Wait
  <2>2. clean' => lifetimes.unfinished = {}
    <3>1. lifetimes.inFlightCount = Cardinality(lifetimes.unfinished)
          /\ lifetimes.unfinished \in SUBSET Requests
      BY <1>1 DEF RequestsInv, RequestsExact, RequestTypeOK
    <3>2. lifetimes.inFlightCount = 0 => lifetimes.unfinished = {}
      BY <3>1, FiniteRequests, FS_EmptySet
    <3> QED
      BY <2>1, <3>2
  <2>3. lifetimes'.unfinished = lifetimes.unfinished
    BY <1>1, <2>1 DEF Aborted, RequestsInv, RequestTypeOK
  <2>4. Latched'
    BY <1>1, <1>3, <1>5, <2>1, <2>2, <2>3 DEF Latched, Over
  <2> QED
    BY <1>1, <1>3, <1>4, <2>1, <2>4, Parts, PartsNext DEF Stages, Waits
<1>8. CASE CleanedUp \/ CleanupFails
  <2>1. /\ stage = "cleanup" /\ stage' = "exited" /\ (clean' => clean) /\ clean' \in BOOLEAN
        /\ lifetimes' = Aborted(lifetimes) /\ UNCHANGED <<expired, late>>
    BY <1>1, <1>8 DEF CleanedUp, CleanupFails, Wait
  <2>2. lifetimes'.unfinished = lifetimes.unfinished /\ lifetimes'.requestSignals = {}
    BY <1>1, <2>1 DEF Aborted, RequestsInv, RequestTypeOK
  <2>3. Latched'
    BY <1>1, <1>3, <1>5, <2>1, <2>2 DEF Latched, Over
  <2> QED
    BY <1>1, <1>3, <1>4, <2>1, <2>3, Parts, PartsNext DEF Stages, Waits
<1> QED
  BY <1>6, <1>7, <1>8

\* The signals, the end of the boot, the delay and the budget.
LEMMA SignalInvariant ==
  ASSUME IInv, BootDone \/ Signal \/ SecondSignal \/ DelayOver \/ BudgetExpires
  PROVE  IInv'
<1>1. /\ SlotsInv /\ PacingInv /\ RequestsInv /\ Latched
      /\ draining \in BOOLEAN /\ stage \in Stages /\ {clean, expired, late} \subseteq BOOLEAN
  BY Parts
<1>2. UNCHANGED <<phase, slots, pacing, wsConnections, work, clean, late>>
  BY DEF BootDone, Signal, SecondSignal, DelayOver, BudgetExpires, admission, requests
<1>3. SlotsInv' /\ PacingInv'
  <2>1. SlotsInv'
    BY <1>1, <1>2 DEF SlotsInv, SlotsExact, Handshaking, Sockets, In
  <2>2. PacingInv'
    BY <1>1, <1>2, ParkedKept
  <2> QED
    BY <2>1, <2>2
<1>4. RequestsInv'
  BY <1>1, <1>2, RequestsKept, AbortKeepsCount
  DEF BootDone, Signal, SecondSignal, DelayOver, BudgetExpires, requests
<1>5. In("open")' = In("open") /\ pendingCloseHooks' = pendingCloseHooks
  BY <1>2 DEF In, pendingCloseHooks
<1>6. CASE BootDone \/ Signal
  <2>1. /\ stage \in {"booting", "serving"} /\ stage' \in {"booting", "serving", "delay"}
        /\ draining' \in BOOLEAN /\ (stage' = "delay" => draining')
        /\ UNCHANGED <<expired, lifetimes>>
    BY <1>1, <1>6 DEF BootDone, Signal, admission, requests
  <2>2. Latched'
    BY <2>1 DEF Latched, Over
  <2> QED
    BY <1>1, <1>2, <1>3, <1>4, <2>1, <2>2, PartsNext DEF Stages
<1>7. CASE SecondSignal
  <2>1. /\ draining /\ stage' = "killed" /\ UNCHANGED <<draining, expired>>
        /\ lifetimes' = Aborted(lifetimes)
    BY <1>7 DEF SecondSignal, admission
  <2>2. lifetimes'.requestSignals = {}
    BY <1>1, <2>1 DEF Aborted, RequestsInv, RequestTypeOK
  <2>3. Latched'
    BY <2>1, <2>2 DEF Latched
  <2> QED
    BY <1>1, <1>2, <1>3, <1>4, <2>1, <2>3, PartsNext DEF Stages
<1>8. CASE DelayOver
  <2>1. /\ stage = "delay" /\ stage' = "hook" /\ UNCHANGED <<draining, expired, lifetimes>>
    BY <1>8 DEF DelayOver, admission, requests
  <2>2. Latched'
    BY <1>1, <2>1 DEF Latched, Over
  <2> QED
    BY <1>1, <1>2, <1>3, <1>4, <2>1, <2>2, PartsNext DEF Stages, Waits
<1>9. CASE BudgetExpires
  <2>1. expired' = TRUE /\ UNCHANGED <<draining, stage, lifetimes>>
    BY <1>9 DEF BudgetExpires, admission, requests
  <2>2. Latched'
    BY <1>1, <1>2, <1>5, <2>1 DEF Latched, Over
  <2> QED
    BY <1>1, <1>2, <1>3, <1>4, <2>1, <2>2, PartsNext
<1> QED
  BY <1>6, <1>7, <1>8, <1>9

LEMMA NextInvariant == IInv /\ [Next]_vars => IInv'
<1> SUFFICES ASSUME IInv, [Next]_vars PROVE IInv'
  OBVIOUS
<1>1. CASE Next
  BY <1>1, HandshakeInvariant, RequestInvariant, HookOverInvariant, WaitInvariant,
     SignalInvariant DEF Next, GracefulStep
<1>2. CASE UNCHANGED vars
  <2>1. UNCHANGED <<admission, requests, shutdown>>
    BY <1>2 DEF vars
  <2>2. SlotsInv' /\ PacingInv' /\ RequestsInv'
    BY <2>1, AdmissionKept, RequestsKept, Parts
  <2>3. UNCHANGED <<phase, wsConnections, draining, lifetimes, stage, clean, expired, late>>
    BY <2>1 DEF admission, requests, shutdown
  <2>4. Latched'
    BY <2>3 DEF IInv, Latched, Over, In, pendingCloseHooks
  <2> QED
    BY <2>2, <2>3, <2>4, Parts, PartsNext
<1> QED
  BY <1>1, <1>2

LEMMA Invariant == Spec => []IInv
BY InitInvariant, NextInvariant, PTL DEF Spec

-----------------------------------------------------------------------------
(* The theorems.                                                           *)

\* No counter leaves its ceiling, none is released below zero, and the ring's head, tail
\* and depth stay in range.
THEOREM TypeCorrect == Spec => []TypeOK
<1>1. IInv => TypeOK
  BY DEF IInv
<1> QED
  BY <1>1, Invariant, PTL

\* Whatever ends a handshake, a socket or a request first, its slot is given back once.
THEOREM CountsCorrect == Spec => []CountersExact
<1>1. IInv => CountersExact
  BY DEF IInv, CountersExact
<1> QED
  BY <1>1, Invariant, PTL

\* The ring loses and repeats nobody, for every size of ring and budget of a tick.
THEOREM RingCorrect == Spec => []PacingExact
<1>1. IInv => PacingExact
  BY DEF IInv
<1> QED
  BY <1>1, Invariant, PTL

\* A shutdown that reports itself complete has left no socket and no request behind, and
\* no process exits with a request it could still abort.
THEOREM ExitsClean == Spec => []CleanExit
<1>1. IInv => CleanExit
  BY DEF IInv, Latched, CleanExit
<1> QED
  BY <1>1, Invariant, PTL

\* No handshake that was under way opens a socket behind the drain.
THEOREM DrainSeesAll == Spec => NoSocketBehindDrain
<1>1. IInv /\ [Next]_vars => [draining => Sockets' \subseteq Sockets]_admission
  <2> SUFFICES ASSUME IInv, Next, draining PROVE Sockets' \subseteq Sockets \/ UNCHANGED admission
    BY DEF vars
  <2>1. CASE Handshake
    BY <2>1, LatchKeepsOut DEF Handshake, IInv
  <2>2. CASE HookOver
    <3>1. SlotsInv' /\ SlotsInv /\ wsConnections' \subseteq wsConnections
      BY <2>2, HookOverInvariant, Parts, PartsNext DEF HookOver
    <3> QED
      BY <3>1 DEF SlotsInv, SlotsExact
  <2>3. CASE \/ Request \/ BootDone \/ SecondSignal \/ DelayOver \/ BudgetExpires
             \/ SocketsDrained \/ RequestsDrained \/ CleanedUp \/ CleanupFails
    BY <2>3 DEF Request, BootDone, SecondSignal, DelayOver, BudgetExpires,
       SocketsDrained, RequestsDrained, CleanedUp, CleanupFails
  <2>4. CASE Signal
    BY <2>4 DEF Signal
  <2> QED
    BY <2>1, <2>2, <2>3, <2>4 DEF Next, GracefulStep
<1> QED
  BY <1>1, Invariant, PTL DEF Spec, NoSocketBehindDrain
==============================================================================
