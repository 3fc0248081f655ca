------------------------- MODULE ResumeCutoverProofs -------------------------
(***************************************************************************)
(* Proofs about ResumeCutover, for any bounds: its types, and the order in *)
(* which live frames reach a connection.                                   *)
(***************************************************************************)
EXTENDS ResumeCutover, SubsequencesProofs

Data == {"frame", "history"}
Markers == {"truncated", "end-truncated", "rehydrate"}
Answered == {"subscribed", "RATE_LIMITED", "FORBIDDEN"}

Items == [k : Data \cup Markers \cup Answered, pub : Nat, seq : Nat, ref : Nat, ep : Epochs]

Requests ==
  [op : {"subscribe", "unsubscribe"}, ref : Nat, offset : 0..MaxPubs,
   epoch : Epochs \cup {NoEpoch}, seen : Epochs \cup {NoEpoch}]

Attempts ==
  [ref : Nat, offset : 1..MaxPubs, epoch : Epochs \cup {NoEpoch}, seen : Epochs \cup {NoEpoch},
   stage : {"serving", "served"}, before : 0..MaxPubs,
   upto : 0..MaxPubs, held : Seq(Nat), overflow : BOOLEAN, revoked : BOOLEAN]

Numbers ==
  /\ pubs \in 0..MaxPubs /\ origin \in 0..pubs /\ epoch \in Epochs /\ mark \in 0..(pubs - origin)

Flags ==
  /\ srv \in BOOLEAN /\ live \in BOOLEAN
  /\ link \in BOOLEAN /\ wanted \in BOOLEAN /\ timer \in BOOLEAN

Offsets ==
  /\ lastSeen \in 0..MaxPubs /\ lastEpoch \in Epochs \cup {NoEpoch}
  /\ pending \in [ref : 0..(nextRef - 1), highest : 0..MaxPubs]
  /\ retries \in 0..MaxRetries
  /\ nextRef \in Nat \ {0}

Ghosts ==
  /\ known \subseteq 1..pubs /\ base \in 0..pubs /\ newest \in 0..pubs
  /\ seenIn \in Epochs \cup {NoEpoch} /\ asked \subseteq 1..(nextRef - 1)

Scalars == Numbers /\ Flags /\ Offsets /\ Ghosts

\* An item of n publications and of refs below r.
ItemOK(m, n, r) ==
  /\ m.pub <= n /\ m.seq <= MaxPubs /\ m.ref < r
  /\ m.k \in Data => m.pub >= 1

Wires ==
  /\ s2c \in Seq(Items) /\ \A p \in 1..Len(s2c) : ItemOK(s2c[p], pubs, nextRef)
  /\ c2s \in Seq(Requests)
  /\ \A i \in 1..Len(c2s) : c2s[i].op = "subscribe" => c2s[i].ref \in 1..(nextRef - 1)

\* An attempt in the epoch of publications o + 1 to n, of refs below r.
AttemptOK(a, o, n, r) ==
  /\ a \in Attempts /\ a.ref \in 1..(r - 1)
  /\ Len(a.held) <= MaxHeld /\ \A j \in 1..Len(a.held) : a.held[j] \in (o + 1)..n

Parked == \A a \in attempts : AttemptOK(a, origin, pubs, nextRef)

\* What is under way goes with its connection.
Closed ==
  /\ ~link => ~srv /\ s2c = <<>> /\ retries = 0 /\ ~timer
  /\ ~srv => ~live /\ attempts = {} /\ c2s = <<>>

TypeInv == Scalars /\ Wires /\ Parked /\ Closed

LEMMA Bounds ==
  /\ MaxPubs \in Nat /\ MaxConns \in Nat /\ MaxRestarts \in Nat /\ MaxUpsets \in Nat
  /\ MaxRetries \in Nat /\ RingSize \in Nat
  /\ MaxHeld \in Nat /\ MaxHeld >= 1
BY ResumeBounds

LEMMA TypeInvImplies == TypeInv => TypeOK
<1> SUFFICES ASSUME TypeInv PROVE TypeOK
  OBVIOUS
<1>1. pubs \in 0..MaxPubs /\ origin \in 0..pubs /\ epoch \in Epochs /\ mark \in 0..Current
  BY DEF TypeInv, Scalars, Numbers, Current, Stamp
<1>2. srv \in BOOLEAN /\ live \in BOOLEAN /\ (live \/ attempts # {} => srv)
  BY DEF TypeInv, Scalars, Flags, Closed
<1>3. ASSUME NEW a \in attempts
      PROVE  /\ a.ref \in 1..(nextRef - 1) /\ a.stage \in {"serving", "served"}
             /\ a.offset \in 1..MaxPubs /\ {a.epoch, a.seen} \subseteq Epochs \cup {NoEpoch}
             /\ a.before \in 0..MaxPubs /\ a.upto \in 0..MaxPubs
             /\ {a.overflow, a.revoked} \subseteq BOOLEAN
             /\ Len(a.held) <= MaxHeld /\ \A i \in 1..Len(a.held) : a.held[i] \in (origin + 1)..pubs
  <2>1. AttemptOK(a, origin, pubs, nextRef)
    BY <1>3 DEF TypeInv, Parked
  <2>2. {a.overflow, a.revoked} \subseteq BOOLEAN
    BY <2>1 DEF AttemptOK, Attempts
  <2>3. /\ a.stage \in {"serving", "served"}
        /\ a.offset \in 1..MaxPubs /\ {a.epoch, a.seen} \subseteq Epochs \cup {NoEpoch}
        /\ a.before \in 0..MaxPubs /\ a.upto \in 0..MaxPubs
    BY <2>1 DEF AttemptOK, Attempts
  <2> QED
    BY <2>1, <2>2, <2>3 DEF AttemptOK
<1>4. \A i \in 1..Len(s2c) : s2c[i].pub \in 0..pubs /\ s2c[i].ep \in Epochs
  <2>1. ASSUME NEW i \in 1..Len(s2c) PROVE s2c[i].pub \in 0..pubs /\ s2c[i].ep \in Epochs
    <3>1. s2c[i] \in Items /\ ItemOK(s2c[i], pubs, nextRef)
      BY DEF TypeInv, Wires
    <3>2. s2c[i].pub \in Nat /\ s2c[i].ep \in Epochs
      BY <3>1 DEF Items
    <3> QED
      BY <3>1, <3>2 DEF TypeInv, Scalars, Numbers, ItemOK
  <2> QED
    BY <2>1
<1>5. /\ link \in BOOLEAN /\ wanted \in BOOLEAN
      /\ lastSeen \in 0..MaxPubs /\ lastEpoch \in Epochs \cup {NoEpoch}
      /\ pending.ref \in 0..(nextRef - 1) /\ pending.highest \in 0..MaxPubs
      /\ retries \in 0..MaxRetries /\ timer \in BOOLEAN
      /\ known \subseteq 1..pubs /\ base \in 0..pubs /\ newest \in 0..pubs
      /\ asked \subseteq 1..(nextRef - 1)
  BY DEF TypeInv, Scalars, Flags, Offsets, Ghosts
<1> QED
  BY <1>1, <1>2, <1>3, <1>4, <1>5 DEF TypeOK

LEMMA InitTypes == Init => TypeInv
<1> SUFFICES ASSUME Init PROVE TypeInv
  OBVIOUS
<1>1. Scalars
  <2>1. Flags
    BY DEF Init, Flags
  <2>2. Numbers /\ Ghosts
    BY Bounds DEF Init, Numbers, Ghosts, Epochs
  <2>3. Offsets
    BY Bounds DEF Init, Offsets, NoPending
  <2> QED
    BY <2>1, <2>2, <2>3 DEF Scalars
<1>2. Wires /\ Parked /\ Closed
  BY DEF Init, Wires, Parked, Closed
<1> QED
  BY <1>1, <1>2 DEF TypeInv

-----------------------------------------------------------------------------
(* What the server sends and the client takes.                             *)

\* The server sends w.
Sends(w) ==
  /\ w \in Seq(Items) /\ s2c' \in Seq(Items)
  /\ Len(s2c') = Len(s2c) + Len(w)
  /\ \A p \in 1..Len(s2c) : s2c'[p] = s2c[p]
  /\ \A m \in 1..Len(w) : s2c'[Len(s2c) + m] = w[m]

\* The client takes what arrived first.
Takes ==
  /\ Len(s2c) > 0 /\ s2c[1] \in Items /\ s2c' \in Seq(Items)
  /\ Len(s2c) = Len(s2c') + 1
  /\ \A p \in 1..Len(s2c') : s2c'[p] = s2c[p + 1]

LEMMA SendsThem ==
  ASSUME s2c \in Seq(Items), NEW w \in Seq(Items), s2c' = s2c \o w
  PROVE  Sends(w)
BY ConcatProperties DEF Sends

LEMMA SendsOne ==
  ASSUME s2c \in Seq(Items), NEW x \in Items, s2c' = Append(s2c, x)
  PROVE  Sends(<<x>>)
BY AppendProperties DEF Sends

LEMMA SendsNothing ==
  ASSUME s2c \in Seq(Items), s2c' = s2c
  PROVE  Sends(<<>>)
BY DEF Sends

LEMMA TakesOne ==
  ASSUME s2c \in Seq(Items), s2c # <<>>, s2c' = Tail(s2c)
  PROVE  Takes /\ Head(s2c) = s2c[1]
BY HeadTailProperties DEF Takes

\* The wires after the server sent good items.
LEMMA WiresSent ==
  ASSUME Wires, NEW w, Sends(w), pubs \in Int, pubs' \in Int, pubs' >= pubs,
         nextRef \in Int, nextRef' \in Int, nextRef' >= nextRef,
         \A m \in 1..Len(w) : ItemOK(w[m], pubs', nextRef')
  PROVE  s2c' \in Seq(Items) /\ \A p \in 1..Len(s2c') : ItemOK(s2c'[p], pubs', nextRef')
<1>1. Len(s2c) \in Nat /\ Len(w) \in Nat
  BY DEF Wires, Sends
<1>2. ASSUME NEW p \in 1..Len(s2c') PROVE ItemOK(s2c'[p], pubs', nextRef')
  <2>1. CASE p <= Len(s2c)
    <3>1. p \in 1..Len(s2c) /\ s2c'[p] = s2c[p]
      BY <1>1, <2>1 DEF Sends
    <3>2. ItemOK(s2c[p], pubs, nextRef) /\ s2c[p] \in Items
      BY <3>1 DEF Wires
    <3>3. s2c[p].pub \in Nat /\ s2c[p].ref \in Nat
      BY <3>2 DEF Items
    <3> QED
      BY <3>1, <3>2, <3>3 DEF ItemOK
  <2>2. CASE p > Len(s2c)
    <3>1. PICK m \in 1..Len(w) : p = Len(s2c) + m
      <4>1. p - Len(s2c) \in 1..Len(w) /\ p = Len(s2c) + (p - Len(s2c))
        BY <1>1, <2>2 DEF Sends
      <4> QED
        BY <4>1
    <3>2. s2c'[p] = w[m]
      BY <3>1 DEF Sends
    <3> QED
      BY <3>2
  <2> QED
    BY <1>1, <2>1, <2>2 DEF Sends
<1> QED
  BY <1>2 DEF Sends

\* The same when the client took the first.
LEMMA WiresTaken ==
  ASSUME Wires, Takes
  PROVE  s2c' \in Seq(Items) /\ \A p \in 1..Len(s2c') : ItemOK(s2c'[p], pubs, nextRef)
<1>1. ASSUME NEW p \in 1..Len(s2c') PROVE ItemOK(s2c'[p], pubs, nextRef)
  <2>1. p + 1 \in 1..Len(s2c) /\ s2c'[p] = s2c[p + 1]
    BY DEF Takes, Wires
  <2> QED
    BY <2>1 DEF Wires
<1> QED
  BY <1>1 DEF Takes

\* Items and attempts stay good as publications and refs are added.
LEMMA WiresLater ==
  ASSUME Wires, pubs \in Int, pubs' \in Int, pubs' >= pubs,
         nextRef \in Int, nextRef' \in Int, nextRef' >= nextRef, s2c' = s2c
  PROVE  s2c' \in Seq(Items) /\ \A p \in 1..Len(s2c') : ItemOK(s2c'[p], pubs', nextRef')
<1>1. Sends(<<>>)
  BY SendsNothing DEF Wires
<1> QED
  BY <1>1, WiresSent

-----------------------------------------------------------------------------
(* Types, one step per operation.                                          *)

LEMMA CaptureTypes ==
  ASSUME NEW a, NEW o \in Nat, NEW n \in Nat, NEW r, o <= n, AttemptOK(a, o, n, r)
  PROVE  AttemptOK(Capture(a, n + 1), o, n + 1, r)
<1>1. a \in Attempts /\ a.held \in Seq(Nat) /\ Len(a.held) \in Nat
  BY DEF Attempts, AttemptOK
<1>2. CASE Len(a.held) >= MaxHeld
  <2>1. Capture(a, n + 1) = [a EXCEPT !.overflow = TRUE]
    BY <1>2 DEF Capture
  <2>2. PICK b : b = [a EXCEPT !.overflow = TRUE]
    OBVIOUS
  <2>3. b \in Attempts /\ b.ref = a.ref /\ b.held = a.held
    BY <1>1, <2>2 DEF Attempts
  <2>4. \A j \in 1..Len(a.held) : a.held[j] \in (o + 1)..(n + 1)
    BY DEF AttemptOK
  <2> QED
    BY <2>1, <2>2, <2>3, <2>4 DEF AttemptOK
<1>3. CASE Len(a.held) < MaxHeld
  <2>1. PICK h : h = Append(a.held, n + 1)
    OBVIOUS
  <2>2. Capture(a, n + 1) = [a EXCEPT !.held = h]
    BY <1>1, <1>3, <2>1, Bounds DEF Capture
  <2>3. /\ h \in Seq(Nat) /\ Len(h) = Len(a.held) + 1
        /\ h[Len(a.held) + 1] = n + 1 /\ \A j \in 1..Len(a.held) : h[j] = a.held[j]
    BY <1>1, <2>1, AppendProperties
  <2>4. PICK b : b = [a EXCEPT !.held = h]
    OBVIOUS
  <2>5. b \in Attempts /\ b.ref = a.ref /\ b.held = h
    BY <1>1, <2>3, <2>4 DEF Attempts
  <2>6. \A j \in 1..Len(h) : h[j] \in (o + 1)..(n + 1)
    <3> SUFFICES ASSUME NEW j \in 1..Len(h) PROVE h[j] \in (o + 1)..(n + 1)
      OBVIOUS
    <3>1. CASE j <= Len(a.held)
      <4>1. j \in 1..Len(a.held)
        BY <1>1, <2>3, <3>1
      <4>2. a.held[j] \in (o + 1)..n /\ h[j] = a.held[j]
        BY <2>3, <4>1 DEF AttemptOK
      <4>3. PICK x : x = h[j]
        OBVIOUS
      <4>4. x \in (o + 1)..n
        BY <4>2, <4>3
      <4>5. x \in (o + 1)..(n + 1)
        BY <4>4
      <4> QED
        BY <4>3, <4>5
    <3>2. CASE j > Len(a.held)
      <4>1. j = Len(a.held) + 1
        BY <1>1, <2>3, <3>2
      <4> QED
        BY <2>3, <4>1
    <3> QED
      BY <1>1, <2>3, <3>1, <3>2
  <2>7. Len(h) <= MaxHeld
    BY <1>1, <1>3, <2>3, Bounds
  <2> QED
    BY <2>2, <2>4, <2>5, <2>6, <2>7 DEF AttemptOK
<1> QED
  BY <1>1, <1>2, <1>3, Bounds

LEMMA PublishTypes ==
  ASSUME TypeInv, Publish
  PROVE  TypeInv'
<1> USE DEF TypeInv
<1>1. PICK i : i = pubs + 1
  OBVIOUS
<1>2. /\ pubs < MaxPubs /\ pubs' = i
      /\ mark' = IF i - origin > mark THEN i - origin ELSE mark
      /\ attempts' = {Capture(a, i) : a \in attempts}
      /\ s2c' = IF live THEN Append(s2c, Frame(i)) ELSE s2c
      /\ newest' = IF live THEN i ELSE newest
      /\ UNCHANGED <<origin, epoch, srv, live, c2s, client, bounds, known, base, seenIn, asked>>
  BY <1>1 DEF Publish, Stamp
<1>3. /\ pubs \in Nat /\ origin \in Nat /\ origin <= pubs /\ i \in 1..MaxPubs
      /\ epoch \in Epochs /\ mark \in 0..(pubs - origin)
  BY <1>1, <1>2, Bounds DEF Scalars, Numbers
<1>4. Scalars'
  <2>1. Numbers'
    BY <1>1, <1>2, <1>3 DEF Numbers
  <2>2. Flags' /\ Offsets'
    BY <1>2 DEF Scalars, Flags, Offsets, client, bounds
  <2>3. Ghosts'
    BY <1>1, <1>2, <1>3 DEF Scalars, Ghosts, bounds
  <2> QED
    BY <2>1, <2>2, <2>3 DEF Scalars
<1>5. Frame(i) \in Items /\ ItemOK(Frame(i), pubs', nextRef')
  <2>1. i - origin \in 0..MaxPubs /\ nextRef' = nextRef /\ 0 < nextRef
    BY <1>1, <1>2, <1>3, Bounds DEF bounds, Scalars, Offsets
  <2> QED
    BY <1>2, <1>3, <2>1 DEF Frame, Item, Stamp, Items, ItemOK, Data
<1>6. s2c' \in Seq(Items) /\ \A p \in 1..Len(s2c') : ItemOK(s2c'[p], pubs', nextRef')
  <2>1. /\ pubs \in Int /\ pubs' \in Int /\ pubs' >= pubs
        /\ nextRef \in Int /\ nextRef' \in Int /\ nextRef' >= nextRef
    BY <1>1, <1>2, <1>3 DEF bounds, Scalars, Offsets
  <2>2. CASE live
    <3>1. Sends(<<Frame(i)>>)
      BY <1>2, <1>5, <2>2, SendsOne DEF Wires
    <3>2. \A m \in 1..Len(<<Frame(i)>>) : ItemOK(<<Frame(i)>>[m], pubs', nextRef')
      BY <1>5
    <3> QED
      BY <2>1, <3>1, <3>2, WiresSent
  <2>3. CASE ~live
    BY <1>2, <2>1, <2>3, WiresLater
  <2> QED
    BY <2>2, <2>3
<1>7. Wires'
  BY <1>2, <1>6 DEF Wires, bounds
<1>8. Parked'
  <2>1. ASSUME NEW a \in attempts PROVE AttemptOK(Capture(a, i), origin', pubs', nextRef')
    BY <1>1, <1>2, <1>3, CaptureTypes DEF Parked, bounds
  <2> QED
    BY <1>2, <2>1 DEF Parked
<1>9. Closed'
  <2>1. ~link' => ~srv' /\ s2c' = <<>> /\ retries' = 0 /\ ~timer'
    BY <1>2 DEF Closed, client
  <2>2. ~srv' => ~live' /\ attempts' = {} /\ c2s' = <<>>
    BY <1>2 DEF Closed
  <2> QED
    BY <2>1, <2>2 DEF Closed
<1> QED
  BY <1>4, <1>7, <1>8, <1>9

LEMMA EvictTypes ==
  ASSUME TypeInv, EvictMark
  PROVE  TypeInv'
<1>1. mark' = 0 /\ UNCHANGED <<pubs, origin, epoch, conn, client, bounds, ghosts>>
  BY DEF EvictMark
<1>2. Scalars'
  BY <1>1 DEF TypeInv, Scalars, Numbers, Flags, Offsets, Ghosts, conn, client, bounds, ghosts
<1>3. Wires' /\ Parked' /\ Closed'
  BY <1>1 DEF TypeInv, Wires, Parked, Closed, conn, client, bounds
<1> QED
  BY <1>2, <1>3 DEF TypeInv

LEMMA RestartTypes ==
  ASSUME TypeInv, Restart
  PROVE  TypeInv'
<1>1. /\ epoch < MaxRestarts /\ epoch' = epoch + 1 /\ origin' = pubs /\ mark' = 0
      /\ srv' = FALSE /\ live' = FALSE /\ attempts' = {} /\ c2s' = <<>>
      /\ UNCHANGED <<pubs, s2c, client, bounds, ghosts>>
  BY DEF Restart
<1>2. Scalars'
  <2>1. epoch \in 0..MaxRestarts /\ pubs \in 0..MaxPubs
    BY DEF TypeInv, Scalars, Numbers, Epochs
  <2>2. Numbers'
    BY <1>1, <2>1, Bounds DEF Numbers, Epochs
  <2>3. Flags'
    BY <1>1 DEF TypeInv, Scalars, Flags, client
  <2>4. Offsets' /\ Ghosts'
    BY <1>1 DEF TypeInv, Scalars, Offsets, Ghosts, client, bounds, ghosts
  <2> QED
    BY <2>2, <2>3, <2>4 DEF Scalars
<1>3. Wires' /\ Parked' /\ Closed'
  BY <1>1 DEF TypeInv, Wires, Parked, Closed, client, bounds
<1> QED
  BY <1>2, <1>3 DEF TypeInv

-----------------------------------------------------------------------------
(* What the hook serves.                                                   *)

HistoryOK(m) ==
  m.k = "history" /\ m.pub \in (origin + 1)..pubs /\ m.seq \in {0, m.pub - origin}

ServedOK(w, a) ==
  /\ w \in Seq(Items)
  /\ \A m \in 1..Len(w) :
       /\ w[m].ep = epoch /\ w[m].ref = 0
       /\ \/ w[m].k \in Markers /\ w[m].pub = 0 /\ w[m].seq = 0
          \/ HistoryOK(w[m])
  /\ \/ \E m \in 1..Len(w) : w[m].k \in Markers
     \/ \A i \in (origin + a.offset + 1)..pubs : \E m \in 1..Len(w) : w[m].pub = i

LEMMA MarkerIsItem ==
  ASSUME Numbers, NEW k \in Markers
  PROVE  /\ Marker(k) \in Items /\ Marker(k).k = k /\ Marker(k).ep = epoch
         /\ Marker(k).pub = 0 /\ Marker(k).seq = 0 /\ Marker(k).ref = 0
BY DEF Marker, Item, Items, Numbers

LEMMA ReplayedFacts ==
  ASSUME Numbers, NEW a \in Attempts, NEW stamped \in BOOLEAN
  PROVE  ServedOK(Replayed(a, stamped), a)
<1>0. /\ pubs \in Nat /\ origin \in Nat /\ origin <= pubs /\ epoch \in Epochs /\ RingSize \in Nat
      /\ a.offset \in Nat /\ a.offset >= 1
  BY Bounds DEF Numbers, Attempts
<1>1. PICK oldest, first, frames :
        /\ oldest = (IF Current > RingSize THEN Current - RingSize + 1 ELSE 1)
        /\ first = (IF a.offset + 1 > oldest THEN a.offset + 1 ELSE oldest)
        /\ frames = (IF first > Current THEN <<>>
                     ELSE [j \in 1..(Current - first + 1) |-> History(origin + first + j - 1, stamped)])
  OBVIOUS
<1>2. Replayed(a, stamped) = IF Current > 0 /\ oldest > a.offset + 1
                             THEN Append(frames, Marker("end-truncated")) ELSE frames
  BY <1>1 DEF Replayed
<1>3. PICK n : n = IF first > Current THEN 0 ELSE Current - first + 1
  OBVIOUS
<1>4. /\ n \in Nat /\ Current = pubs - origin /\ oldest \in Nat /\ oldest >= 1
      /\ first \in Nat /\ first >= 1 /\ first >= a.offset + 1
      /\ n > 0 => origin + first + n - 1 = pubs
      /\ oldest <= a.offset + 1 => first = a.offset + 1
      /\ n = 0 => origin + first > pubs
  <2>1. Current = pubs - origin /\ Current \in Nat /\ a.offset + 1 \in Nat
    BY <1>0 DEF Current, Stamp
  <2>2. oldest \in Nat /\ oldest >= 1
    BY <1>0, <1>1, <2>1
  <2>3. /\ first \in Nat /\ first >= 1 /\ first >= a.offset + 1
        /\ oldest <= a.offset + 1 => first = a.offset + 1
    BY <1>0, <1>1, <2>2
  <2>4. n \in Nat /\ (n > 0 => origin + first + n - 1 = pubs) /\ (n = 0 => origin + first > pubs)
    BY <1>0, <1>3, <2>1, <2>3
  <2> QED
    BY <2>1, <2>2, <2>3, <2>4
<1>5. frames = [j \in 1..n |-> History(origin + first + j - 1, stamped)]
  <2>1. CASE first > Current
    BY <1>1, <1>3, <2>1
  <2>2. CASE ~(first > Current)
    BY <1>1, <1>3, <2>2
  <2> QED
    BY <2>1, <2>2
<1>6. ASSUME NEW j \in 1..n
      PROVE  /\ origin + first + j - 1 \in (origin + 1)..pubs
             /\ History(origin + first + j - 1, stamped) \in Items
             /\ HistoryOK(History(origin + first + j - 1, stamped))
             /\ History(origin + first + j - 1, stamped).pub = origin + first + j - 1
             /\ History(origin + first + j - 1, stamped).ep = epoch
             /\ History(origin + first + j - 1, stamped).ref = 0
  <2>1. PICK i : i = origin + first + j - 1
    OBVIOUS
  <2>2. i \in (origin + 1)..pubs /\ i \in Nat
    BY <1>0, <1>4, <2>1
  <2>3. i - origin \in Nat
    BY <1>0, <2>2
  <2>4. History(i, stamped) = [k |-> "history", pub |-> i, seq |-> IF stamped THEN i - origin ELSE 0,
                               ref |-> 0, ep |-> epoch]
    BY DEF History, Item, Stamp
  <2>5. History(i, stamped) \in Items
    BY <1>0, <2>2, <2>3, <2>4 DEF Items, Data
  <2>6. HistoryOK(History(i, stamped))
    BY <2>2, <2>4 DEF HistoryOK
  <2> QED
    BY <2>1, <2>2, <2>4, <2>5, <2>6
<1>7. /\ frames \in Seq(Items) /\ Len(frames) = n
      /\ \A j \in 1..n : frames[j] = History(origin + first + j - 1, stamped)
  <2>1. frames \in [1..n -> Items]
    BY <1>5, <1>6
  <2> QED
    BY <1>4, <1>5, <2>1
<1>8. CASE ~(Current > 0 /\ oldest > a.offset + 1)
  <2>1. first = a.offset + 1
    BY <1>0, <1>1, <1>4, <1>8
  <2>2. ASSUME NEW i \in (origin + a.offset + 1)..pubs PROVE \E m \in 1..n : frames[m].pub = i
    <3>1. PICK m : m = i - origin - a.offset
      OBVIOUS
    <3>2. m \in 1..n /\ i = origin + first + m - 1
      BY <1>0, <1>4, <2>1, <3>1
    <3>3. History(origin + first + m - 1, stamped).pub = origin + first + m - 1
      BY <1>6, <3>2
    <3> QED
      BY <1>7, <3>2, <3>3
  <2>3. \A m \in 1..n : frames[m].ep = epoch /\ frames[m].ref = 0 /\ HistoryOK(frames[m])
    BY <1>6, <1>7
  <2>4. \A m \in 1..n : frames[m].k \notin Markers
    BY <2>3 DEF HistoryOK, Markers
  <2>5. Replayed(a, stamped) = frames
    BY <1>2, <1>8
  <2> QED
    BY <1>7, <2>2, <2>3, <2>4, <2>5 DEF ServedOK
<1>9. CASE Current > 0 /\ oldest > a.offset + 1
  <2>1. PICK x : x = Marker("end-truncated")
    OBVIOUS
  <2>2. x \in Items /\ x.k \in Markers /\ x.ep = epoch /\ x.pub = 0 /\ x.seq = 0 /\ x.ref = 0
    BY <2>1, MarkerIsItem DEF Markers
  <2>3. PICK w : w = Append(frames, x)
    OBVIOUS
  <2>4. /\ w \in Seq(Items) /\ Len(w) = n + 1 /\ w[n + 1] = x
        /\ \A j \in 1..n : w[j] = frames[j]
    BY <1>7, <2>2, <2>3, AppendProperties
  <2>5. \A m \in 1..(n + 1) : m \in 1..n \/ m = n + 1
    BY <1>4
  <2>6. \A m \in 1..n : frames[m].ep = epoch /\ frames[m].ref = 0 /\ HistoryOK(frames[m])
    BY <1>6, <1>7
  <2>7. \A m \in 1..Len(w) : /\ w[m].ep = epoch /\ w[m].ref = 0
                             /\ \/ w[m].k \in Markers /\ w[m].pub = 0 /\ w[m].seq = 0
                                \/ HistoryOK(w[m])
    BY <2>2, <2>4, <2>5, <2>6
  <2>8. n + 1 \in 1..Len(w)
    BY <1>4, <2>4
  <2>9. a.offset < pubs - origin
    BY <1>0, <1>1, <1>4, <1>9, Bounds
  <2>10. Replayed(a, stamped) = w
    BY <1>2, <1>9, <2>1, <2>3
  <2> QED
    BY <2>2, <2>4, <2>7, <2>8, <2>9, <2>10 DEF ServedOK
<1> QED
  BY <1>8, <1>9

LEMMA ServedFacts ==
  ASSUME Numbers, NEW a \in Attempts, NEW hook, NEW stamped \in BOOLEAN
  PROVE  /\ ServedOK(Served(a, hook, stamped), a)
         /\ Stale(a) /\ hook = "compares" =>
              \E m \in 1..Len(Served(a, hook, stamped)) : Served(a, hook, stamped)[m].k \in Markers
<1>1. CASE Stale(a) /\ hook = "compares"
  <2>1. PICK x : x = Marker("rehydrate")
    OBVIOUS
  <2>2. x \in Items /\ x.k \in Markers /\ x.ep = epoch /\ x.pub = 0 /\ x.seq = 0 /\ x.ref = 0
    BY <2>1, MarkerIsItem DEF Markers
  <2>3. Served(a, hook, stamped) = <<x>>
    BY <1>1, <2>1 DEF Served
  <2>4. <<x>> \in Seq(Items) /\ Len(<<x>>) = 1 /\ <<x>>[1] = x
    BY <2>2
  <2>5. 1 \in 1..1 /\ \A m \in 1..1 : m = 1
    OBVIOUS
  <2> QED
    BY <1>1, <2>2, <2>3, <2>4, <2>5 DEF ServedOK
<1>2. CASE ~(Stale(a) /\ hook = "compares")
  <2>1. Served(a, hook, stamped) = Replayed(a, stamped)
    BY <1>2 DEF Served
  <2> QED
    BY <1>2, <2>1, ReplayedFacts
<1> QED
  BY <1>1, <1>2

-----------------------------------------------------------------------------
(* What a flush sends.                                                     *)

\* The entry m of v is a marker, or a frame of u that those before it in u precede.
EntryOK(v, m, u) ==
  /\ v[m].ep = epoch /\ v[m].ref = 0
  /\ \/ v[m].k = "truncated" /\ v[m].pub = 0 /\ v[m].seq = 0
     \/ /\ v[m].k = "frame" /\ v[m].seq = v[m].pub - origin
        /\ \E l \in 1..Len(u) :
             /\ v[m].pub = u[l]
             /\ \A i \in 1..(l - 1) : \E j \in 1..m : v[j].pub = u[i]

FlushItems(v, u) == v \in Seq(Items) /\ \A m \in 1..Len(v) : EntryOK(v, m, u)

LEMMA FlushConcat ==
  ASSUME NEW u, NEW x, NEW y, FlushItems(x, u), FlushItems(y, u)
  PROVE  /\ FlushItems(x \o y, u) /\ Len(x \o y) = Len(x) + Len(y)
         /\ Len(x) \in Nat /\ Len(y) \in Nat
         /\ \A i \in 1..Len(x) : (x \o y)[i] = x[i]
         /\ \A i \in 1..Len(y) : (x \o y)[Len(x) + i] = y[i]
<1>1. PICK w : w = x \o y
  OBVIOUS
<1>2. /\ x \in Seq(Items) /\ y \in Seq(Items) /\ Len(x) \in Nat /\ Len(y) \in Nat
  BY DEF FlushItems
<1>3. /\ w \in Seq(Items) /\ Len(w) = Len(x) + Len(y)
      /\ \A i \in 1..Len(x) : w[i] = x[i]
      /\ \A i \in 1..Len(y) : w[Len(x) + i] = y[i]
  BY <1>1, <1>2, ConcatProperties
<1>4. ASSUME NEW m \in 1..Len(x) PROVE EntryOK(w, m, u)
  <2>0. \A j \in 1..m : j \in 1..Len(x)
    BY <1>2
  <2>1. \A j \in 1..m : w[j] = x[j]
    BY <1>3, <2>0
  <2>2. EntryOK(x, m, u) /\ w[m] = x[m]
    BY <1>3 DEF FlushItems
  <2> QED
    BY <2>1, <2>2 DEF EntryOK
<1>5. ASSUME NEW m \in 1..Len(y) PROVE EntryOK(w, Len(x) + m, u)
  <2>1. \A j \in 1..m : Len(x) + j \in 1..(Len(x) + m) /\ w[Len(x) + j] = y[j]
    BY <1>2, <1>3
  <2>2. EntryOK(y, m, u) /\ w[Len(x) + m] = y[m]
    BY <1>3 DEF FlushItems
  <2>3. CASE y[m].k = "truncated"
    BY <2>2, <2>3 DEF EntryOK
  <2>4. CASE y[m].k # "truncated"
    <3>1. PICK l \in 1..Len(u) :
            y[m].pub = u[l] /\ \A i \in 1..(l - 1) : \E j \in 1..m : y[j].pub = u[i]
      BY <2>2, <2>4 DEF EntryOK
    <3>2. ASSUME NEW i \in 1..(l - 1)
          PROVE  \E j \in 1..(Len(x) + m) : w[j].pub = u[i]
      <4>1. PICK j \in 1..m : y[j].pub = u[i]
        BY <3>1
      <4> QED
        BY <2>1, <4>1
    <3> QED
      BY <2>2, <2>4, <3>1, <3>2 DEF EntryOK
  <2> QED
    BY <2>3, <2>4
<1>6. ASSUME NEW m \in 1..Len(w) PROVE EntryOK(w, m, u)
  <2>1. CASE m <= Len(x)
    BY <1>2, <1>4, <2>1
  <2>2. CASE m > Len(x)
    <3>1. m - Len(x) \in 1..Len(y) /\ Len(x) + (m - Len(x)) = m
      BY <1>2, <1>3, <2>2
    <3> QED
      BY <1>5, <3>1
  <2> QED
    BY <1>2, <2>1, <2>2
<1> QED
  BY <1>1, <1>2, <1>3, <1>6 DEF FlushItems

LEMMA FlushNothing ==
  ASSUME NEW u
  PROVE  FlushItems(<<>>, u) /\ Len(<<>>) = 0
BY DEF FlushItems

LEMMA FlushMarker ==
  ASSUME Numbers, NEW u
  PROVE  /\ FlushItems(<<Marker("truncated")>>, u)
         /\ Len(<<Marker("truncated")>>) = 1
         /\ <<Marker("truncated")>>[1].k = "truncated"
<1>1. PICK x : x = Marker("truncated")
  OBVIOUS
<1>2. x \in Items /\ x.k = "truncated" /\ x.ep = epoch /\ x.pub = 0 /\ x.seq = 0 /\ x.ref = 0
  BY <1>1, MarkerIsItem DEF Markers
<1>3. <<x>> \in Seq(Items) /\ Len(<<x>>) = 1 /\ <<x>>[1] = x /\ \A m \in 1..1 : m = 1
  BY <1>2
<1> QED
  BY <1>1, <1>2, <1>3 DEF FlushItems, EntryOK

LEMMA FrameIsItem ==
  ASSUME Numbers, NEW i \in (origin + 1)..pubs
  PROVE  /\ Frame(i) \in Items /\ Frame(i).k = "frame" /\ Frame(i).ep = epoch
         /\ Frame(i).pub = i /\ Frame(i).seq = i - origin /\ Frame(i).ref = 0
<1>1. i \in Nat /\ i - origin \in Nat /\ epoch \in Epochs
  BY Bounds DEF Numbers
<1> QED
  BY <1>1 DEF Frame, Item, Stamp, Items, Data

FramesOf(sent) == [j \in 1..Len(sent) |-> Frame(sent[j])]

\* sent is the first t entries of u.
FirstOf(sent, t, u) == t \in 0..Len(u) /\ Len(sent) = t /\ \A l \in 1..t : sent[l] = u[l]

LEMMA FlushFrames ==
  ASSUME Numbers, NEW u \in Seq(Nat), \A l \in 1..Len(u) : u[l] \in (origin + 1)..pubs,
         NEW t, NEW sent, FirstOf(sent, t, u)
  PROVE  /\ FlushItems(FramesOf(sent), u) /\ Len(FramesOf(sent)) = t /\ Len(sent) = t
         /\ \A l \in 1..t : /\ FramesOf(sent)[l].pub = u[l] /\ FramesOf(sent)[l].k = "frame"
                            /\ sent[l] = u[l]
<1>2. t \in Nat /\ Len(u) \in Nat /\ t <= Len(u)
  BY DEF FirstOf
<1>3. Len(sent) = t /\ \A l \in 1..t : sent[l] = u[l]
  BY DEF FirstOf
<1>4. PICK v : v = [j \in 1..Len(sent) |-> Frame(sent[j])] /\ v = FramesOf(sent)
  BY DEF FramesOf
<1>5. \A l \in 1..t : v[l] = Frame(u[l]) /\ l \in 1..Len(u)
  BY <1>2, <1>3, <1>4
<1>6. \A l \in 1..t : /\ v[l] \in Items /\ v[l].k = "frame" /\ v[l].ep = epoch
                      /\ v[l].pub = u[l] /\ v[l].seq = u[l] - origin /\ v[l].ref = 0
  BY <1>5, FrameIsItem
<1>7. v \in Seq(Items) /\ Len(v) = t
  <2>1. v \in [1..t -> Items]
    BY <1>3, <1>4, <1>6
  <2> QED
    BY <1>2, <2>1
<1>8. ASSUME NEW m \in 1..t PROVE EntryOK(v, m, u)
  <2>1. m \in 1..Len(u) /\ \A i \in 1..(m - 1) : i \in 1..m /\ i \in 1..t
    BY <1>2
  <2> QED
    BY <1>6, <2>1 DEF EntryOK
<1> QED
  BY <1>3, <1>4, <1>6, <1>7, <1>8 DEF FlushItems

\* The frames a flush is about, in their order.
LEMMA UncoveredFacts ==
  ASSUME Numbers, NEW a, AttemptOK(a, origin, pubs, nextRef), NEW covered
  PROVE  LET u == Uncovered(a, covered) IN
         /\ u \in Seq(Nat) /\ Len(u) \in Nat
         /\ \A l \in 1..Len(u) :
              /\ u[l] \in (origin + 1)..pubs
              /\ \E j \in 1..Len(a.held) : u[l] = a.held[j] /\ Stamp(u[l]) > Floor(a, covered)
         /\ \A j \in 1..Len(a.held) : Stamp(a.held[j]) > Floor(a, covered) =>
              \E l \in 1..Len(u) : u[l] = a.held[j]
         /\ (\A i, j \in 1..Len(a.held) : i < j => a.held[i] < a.held[j]) =>
              \A l, m \in 1..Len(u) : l < m => u[l] < u[m]
<1>1. PICK q, L : q = a.held /\ L = {j \in 1..Len(q) : Stamp(q[j]) > Floor(a, covered)}
  OBVIOUS
<1>2. /\ q \in Seq(Nat) /\ Len(q) \in Nat /\ DOMAIN q = 1..Len(q)
      /\ \A j \in 1..Len(q) : q[j] \in (origin + 1)..pubs
  BY <1>1 DEF AttemptOK, Attempts
<1>3. L \in SUBSET (1..Len(q)) /\ Places(L, q)
  BY <1>1 DEF Places
<1>4. PICK u : u = Uncovered(a, covered)
  OBVIOUS
<1>5. u = Picked(q, L)
  BY <1>1, <1>2, <1>4 DEF Uncovered
<1>6. /\ u \in Seq(Nat) /\ Len(u) = Cardinality(L)
      /\ \A m \in 1..Cardinality(L) : Nth(L, m) \in L /\ u[m] = q[Nth(L, m)]
      /\ \A i \in L : \E m \in 1..Cardinality(L) : Nth(L, m) = i
  BY <1>2, <1>3, <1>5, PickedEntries
<1>7. ASSUME NEW l \in 1..Len(u)
      PROVE  /\ u[l] \in (origin + 1)..pubs
             /\ \E j \in 1..Len(q) : u[l] = q[j] /\ Stamp(u[l]) > Floor(a, covered)
  <2>1. PICK j \in L : u[l] = q[j]
    BY <1>6
  <2>2. j \in 1..Len(q) /\ Stamp(q[j]) > Floor(a, covered)
    BY <1>1
  <2> QED
    BY <1>2, <2>1, <2>2
<1>8. ASSUME NEW j \in 1..Len(q), Stamp(q[j]) > Floor(a, covered)
      PROVE  \E l \in 1..Len(u) : u[l] = q[j]
  <2>1. j \in L
    BY <1>1, <1>8
  <2> QED
    BY <1>6, <2>1
<1>9. ASSUME \A i, j \in 1..Len(q) : i < j => q[i] < q[j]
      PROVE  \A l, m \in 1..Len(u) : l < m => u[l] < u[m]
  <2>1. q \in Seq(Int)
    BY <1>2
  <2> QED
    BY <1>3, <1>5, <1>6, <1>9, <2>1, PickedIncreases
<1>10. Len(u) \in Nat
  BY <1>6
<1> QED
  BY <1>1, <1>4, <1>6, <1>7, <1>8, <1>9, <1>10

\* A flush that leaves the connection open either told the client that frames are gone,
\* or sent them all.
LEMMA FlushFacts ==
  ASSUME Numbers, NEW a, AttemptOK(a, origin, pubs, nextRef), NEW covered,
         NEW truncated \in BOOLEAN, NEW taken \in 0..Len(Uncovered(a, covered)),
         NEW m1 \in Answers, NEW m2 \in Answers
  PROVE  LET u == Uncovered(a, covered)
             f == Flush(a, covered, truncated, taken, m1, m2)
         IN  /\ FlushItems(f.items, u)
             /\ f.ended \in BOOLEAN
             /\ f.newest = newest \/ \E l \in 1..Len(u) : f.newest = u[l]
             /\ ~f.ended =>
                  \/ \E m \in 1..Len(f.items) : f.items[m].k = "truncated"
                  \/ /\ ~a.overflow /\ ~truncated
                     /\ \A l \in 1..Len(u) : \E m \in 1..Len(f.items) : f.items[m].pub = u[l]
<1>1. PICK u : u = Uncovered(a, covered)
  OBVIOUS
<1>2. u \in Seq(Nat) /\ Len(u) \in Nat /\ \A l \in 1..Len(u) : u[l] \in (origin + 1)..pubs
  BY <1>1, UncoveredFacts
<1>3. PICK early, told, gone, sent, late, mark1, mark2 :
        /\ early = (a.overflow \/ truncated)
        /\ told = (early /\ m1 = "delivered")
        /\ gone = (early /\ m1 = "gone")
        /\ sent = IF gone THEN <<>> ELSE SubSeq(u, 1, taken)
        /\ late = (~gone /\ ~told /\ (early \/ taken < Len(u)))
        /\ mark1 = IF told THEN <<Marker("truncated")>> ELSE <<>>
        /\ mark2 = IF late /\ m2 = "delivered" THEN <<Marker("truncated")>> ELSE <<>>
  OBVIOUS
<1>4. PICK v : v = [j \in 1..Len(sent) |-> Frame(sent[j])] /\ v = FramesOf(sent)
  BY DEF FramesOf
<1>5. PICK f : f = Flush(a, covered, truncated, taken, m1, m2)
  OBVIOUS
<1>6. /\ f.items = mark1 \o v \o mark2
      /\ f.newest = IF sent = <<>> THEN newest ELSE sent[Len(sent)]
      /\ f.ended = (gone \/ (late /\ m2 # "delivered"))
  BY <1>1, <1>3, <1>4, <1>5 DEF Flush
<1>7. /\ FlushItems(mark1, u) /\ FlushItems(mark2, u)
      /\ told => Len(mark1) = 1 /\ mark1[1].k = "truncated"
      /\ late /\ m2 = "delivered" => Len(mark2) = 1 /\ mark2[1].k = "truncated"
  BY <1>3, FlushNothing, FlushMarker
<1>8. /\ FlushItems(v, u) /\ Len(v) = Len(sent)
      /\ ~gone => Len(sent) = taken /\ \A l \in 1..taken : v[l].pub = u[l] /\ sent[l] = u[l]
  <2>1. CASE gone
    <3>1. sent = <<>> /\ v = <<>>
      BY <1>3, <1>4, <2>1
    <3> QED
      BY <2>1, <3>1, FlushNothing
  <2>2. CASE ~gone
    <3>1. sent = SubSeq(u, 1, taken) /\ taken \in 0..Len(u)
      BY <1>1, <1>3, <2>2
    <3>2. FirstOf(sent, taken, u)
      BY <1>2, <3>1, SubSeqProperties DEF FirstOf
    <3>3. /\ FlushItems(FramesOf(sent), u) /\ Len(FramesOf(sent)) = taken /\ Len(sent) = taken
          /\ \A l \in 1..taken : FramesOf(sent)[l].pub = u[l] /\ sent[l] = u[l]
      BY <1>2, <3>2, FlushFrames
    <3> QED
      BY <1>4, <3>3
  <2> QED
    BY <2>1, <2>2
<1>9. PICK y : y = mark1 \o v
  OBVIOUS
<1>10. PICK z : z = y \o mark2
  OBVIOUS
<1>11. /\ FlushItems(y, u) /\ Len(y) = Len(mark1) + Len(v)
       /\ Len(mark1) \in Nat /\ Len(v) \in Nat
       /\ \A i \in 1..Len(mark1) : y[i] = mark1[i]
       /\ \A i \in 1..Len(v) : y[Len(mark1) + i] = v[i]
  BY <1>7, <1>8, <1>9, FlushConcat
<1>12. /\ FlushItems(z, u) /\ Len(z) = Len(y) + Len(mark2)
       /\ Len(y) \in Nat /\ Len(mark2) \in Nat
       /\ \A i \in 1..Len(y) : z[i] = y[i]
       /\ \A i \in 1..Len(mark2) : z[Len(y) + i] = mark2[i]
  <2>1. FlushItems(y, u) /\ FlushItems(mark2, u)
    BY <1>7, <1>11
  <2> QED
    BY <1>10, <2>1, FlushConcat
<1>13. f.items = z
  BY <1>6, <1>9, <1>10
<1>14. f.newest = newest \/ \E l \in 1..Len(u) : f.newest = u[l]
  <2>1. CASE sent = <<>>
    BY <1>6, <2>1
  <2>2. CASE sent # <<>>
    <3>1. ~gone /\ sent = SubSeq(u, 1, taken)
      BY <1>3, <2>2
    <3>2. taken \in 0..Len(u) /\ Len(sent) = taken
      BY <1>1, <1>8, <3>1
    <3>3. taken \in 1..Len(u)
      <4>1. taken # 0
        BY <1>2, <2>2, <3>1
      <4> QED
        BY <1>2, <3>2, <4>1
    <3>4. sent[taken] = u[taken]
      BY <1>8, <3>1, <3>3
    <3> QED
      BY <1>6, <2>2, <3>2, <3>3, <3>4
  <2> QED
    BY <2>1, <2>2
<1>15. ASSUME ~f.ended
       PROVE  \/ \E m \in 1..Len(z) : z[m].k = "truncated"
              \/ /\ ~a.overflow /\ ~truncated
                 /\ \A l \in 1..Len(u) : \E m \in 1..Len(z) : z[m].pub = u[l]
  <2>1. ~gone /\ (late => m2 = "delivered")
    BY <1>6, <1>15
  <2>2. CASE told
    <3>1. Len(mark1) = 1
      BY <1>7, <2>2
    <3>2. 1 \in 1..Len(mark1) /\ 1 \in 1..Len(y) /\ 1 \in 1..Len(z)
      BY <1>11, <1>12, <3>1
    <3>3. z[1] = mark1[1]
      BY <1>11, <1>12, <3>2
    <3> QED
      BY <1>7, <2>2, <3>2, <3>3
  <2>3. CASE late
    <3>1. Len(y) + 1 \in 1..Len(z) /\ z[Len(y) + 1] = mark2[1]
      BY <1>7, <1>12, <2>1, <2>3
    <3> QED
      BY <1>7, <2>1, <2>3, <3>1
  <2>4. CASE ~told /\ ~late
    <3>1. ~early /\ ~(taken < Len(u))
      BY <1>3, <2>1, <2>4
    <3>2. taken = Len(u)
      BY <1>1, <1>2, <3>1
    <3>3. ASSUME NEW l \in 1..Len(u) PROVE \E m \in 1..Len(z) : z[m].pub = u[l]
      <4>1. l \in 1..Len(v) /\ v[l].pub = u[l]
        BY <1>8, <2>1, <3>2
      <4>2. Len(mark1) + l \in 1..Len(y) /\ y[Len(mark1) + l] = v[l]
        BY <1>11, <4>1
      <4>3. Len(mark1) + l \in 1..Len(z) /\ z[Len(mark1) + l] = v[l]
        BY <1>12, <4>2
      <4> QED
        BY <4>1, <4>3
    <3> QED
      BY <1>3, <3>1, <3>3
  <2> QED
    BY <2>2, <2>3, <2>4
<1>16. f.ended \in BOOLEAN
  BY <1>6
<1> QED
  BY <1>1, <1>5, <1>12, <1>13, <1>14, <1>15, <1>16

-----------------------------------------------------------------------------
(* Requests under way.                                                     *)

RequestOK(m, r) == m \in Requests /\ (m.op = "subscribe" => m.ref \in 1..(r - 1))

\* The requests q, of refs below r.
Asked(q, r) ==
  /\ q \in Seq(Requests)
  /\ \A i \in 1..Len(q) : q[i].op = "subscribe" => q[i].ref \in 1..(r - 1)

LEMMA AskedNothing ==
  ASSUME NEW r
  PROVE  Asked(<<>>, r)
BY DEF Asked

LEMMA AskedMore ==
  ASSUME NEW q, NEW r \in Int, NEW s \in Int, s >= r, Asked(q, r), NEW m, RequestOK(m, s)
  PROVE  Asked(Append(q, m), s) /\ Asked(<<m>>, s)
<1>1. PICK w : w = Append(q, m)
  OBVIOUS
<1>2. /\ q \in Seq(Requests) /\ Len(q) \in Nat /\ m \in Requests
      /\ w \in Seq(Requests) /\ Len(w) = Len(q) + 1 /\ w[Len(q) + 1] = m
      /\ \A i \in 1..Len(q) : w[i] = q[i]
  BY <1>1, AppendProperties DEF Asked, RequestOK
<1>3. ASSUME NEW i \in 1..Len(w), w[i].op = "subscribe" PROVE w[i].ref \in 1..(s - 1)
  <2>1. CASE i \in 1..Len(q)
    <3>1. q[i].ref \in 1..(r - 1)
      BY <1>2, <1>3, <2>1 DEF Asked
    <3> QED
      BY <1>2, <2>1, <3>1
  <2>2. CASE i = Len(q) + 1
    BY <1>2, <1>3, <2>2 DEF RequestOK
  <2> QED
    BY <1>2, <2>1, <2>2
<1>4. Asked(<<m>>, s)
  BY <1>2 DEF Asked, RequestOK
<1> QED
  BY <1>1, <1>2, <1>3, <1>4 DEF Asked

LEMMA AskedFirst ==
  ASSUME NEW q, NEW r, Asked(q, r), q # <<>>
  PROVE  RequestOK(Head(q), r) /\ Asked(Tail(q), r)
<1>1. PICK t : t = Tail(q)
  OBVIOUS
<1>2. /\ q \in Seq(Requests) /\ Len(q) \in Nat /\ Len(q) >= 1 /\ Head(q) = q[1]
      /\ t \in Seq(Requests) /\ Len(t) = Len(q) - 1
      /\ \A i \in 1..Len(t) : t[i] = q[i + 1]
  BY <1>1, HeadTailProperties DEF Asked
<1>3. 1 \in 1..Len(q) /\ \A i \in 1..Len(t) : i + 1 \in 1..Len(q)
  BY <1>2
<1>4. RequestOK(Head(q), r)
  BY <1>2, <1>3 DEF Asked, RequestOK
<1>5. Asked(t, r)
  BY <1>2, <1>3 DEF Asked
<1> QED
  BY <1>1, <1>4, <1>5

LEMMA WiresParts ==
  Wires <=> /\ s2c \in Seq(Items) /\ \A p \in 1..Len(s2c) : ItemOK(s2c[p], pubs, nextRef)
            /\ Asked(c2s, nextRef)
BY DEF Wires, Asked

LEMMA ControlIsItem ==
  ASSUME Numbers, NEW ref \in Nat, NEW reason \in {"RATE_LIMITED", "FORBIDDEN"}
  PROVE  /\ Ack(ref) \in Items /\ Ack(ref).k = "subscribed" /\ Ack(ref).ref = ref
         /\ Ack(ref).pub = 0 /\ Ack(ref).seq = 0 /\ Ack(ref).ep = epoch
         /\ Denied(ref, reason) \in Items /\ Denied(ref, reason).k = reason
         /\ Denied(ref, reason).ref = ref /\ Denied(ref, reason).pub = 0
         /\ Denied(ref, reason).seq = 0 /\ Denied(ref, reason).ep = epoch
BY DEF Numbers, Ack, Denied, Item, Items, Answered

\* An answer is a good item.
LEMMA ControlFits ==
  ASSUME Numbers, NEW r \in Nat, NEW ref \in Nat, ref < r,
         NEW reason \in {"RATE_LIMITED", "FORBIDDEN"}
  PROVE  ItemOK(Ack(ref), pubs, r) /\ ItemOK(Denied(ref, reason), pubs, r)
BY Bounds, ControlIsItem DEF ItemOK, Data, Numbers

LEMMA SubscribeTypes ==
  ASSUME TypeInv, ServerSubscribe
  PROVE  TypeInv'
<1> USE DEF TypeInv
<1>1. /\ srv /\ c2s # <<>> /\ Head(c2s).op = "subscribe" /\ c2s' = Tail(c2s)
      /\ UNCHANGED <<store, srv, client, nextRef, known, seenIn, asked, newest, refused>>
  BY DEF ServerSubscribe
<1>2. PICK m : m = Head(c2s)
  OBVIOUS
<1>3. /\ \/ \E reason \in {"RATE_LIMITED", "FORBIDDEN"} :
              /\ s2c' = Append(s2c, Denied(m.ref, reason))
              /\ UNCHANGED <<live, attempts, base, overtaken>>
         \/ m.offset = 0 /\ LandPlain(m)
         \/ m.offset # 0 /\ Begin(m) /\ UNCHANGED <<live, s2c, base, overtaken>>
  BY <1>2 DEF ServerSubscribe
<1>4. RequestOK(m, nextRef) /\ Asked(c2s', nextRef)
  <2>1. Asked(c2s, nextRef)
    BY DEF Wires, Asked
  <2> QED
    BY <1>1, <1>2, <2>1, AskedFirst
<1>5. /\ m.ref \in 1..(nextRef - 1) /\ m.offset \in 0..MaxPubs /\ m.epoch \in Epochs \cup {NoEpoch}
      /\ m.seen \in Epochs \cup {NoEpoch}
      /\ nextRef \in Nat /\ nextRef' = nextRef /\ pubs' = pubs /\ pubs \in Int
      /\ mark \in 0..MaxPubs /\ m.ref \in Nat /\ m.ref < nextRef
  <2>1. mark \in 0..(pubs - origin) /\ origin \in 0..pubs /\ pubs \in 0..MaxPubs
    BY DEF Scalars, Numbers
  <2>2. mark \in 0..MaxPubs /\ pubs \in Int
    BY <2>1, Bounds
  <2>3. /\ m.ref \in 1..(nextRef - 1) /\ m.offset \in 0..MaxPubs
        /\ m.epoch \in Epochs \cup {NoEpoch} /\ m.seen \in Epochs \cup {NoEpoch}
    BY <1>1, <1>2, <1>4 DEF RequestOK, Requests
  <2>4. nextRef \in Nat
    BY DEF Scalars, Offsets
  <2>5. m.ref \in Nat /\ m.ref < nextRef
    BY <2>3, <2>4
  <2> QED
    BY <1>1, <2>2, <2>3, <2>4, <2>5 DEF store
<1>6. Scalars'
  <2>1. base' \in 0..pubs
    BY <1>3 DEF Scalars, Numbers, Ghosts, LandPlain
  <2>2. live' \in BOOLEAN
    BY <1>3 DEF Scalars, Flags, LandPlain
  <2>3. Flags'
    BY <1>1, <2>2 DEF Scalars, Flags, client
  <2>4. Numbers' /\ Offsets'
    BY <1>1 DEF Scalars, Numbers, Offsets, store, client, bounds
  <2>5. Ghosts'
    BY <1>1, <2>1 DEF Scalars, Ghosts, store
  <2> QED
    BY <2>3, <2>4, <2>5 DEF Scalars
<1>7. s2c' \in Seq(Items) /\ \A p \in 1..Len(s2c') : ItemOK(s2c'[p], pubs', nextRef')
  <2>1. ASSUME NEW x \in Items, ItemOK(x, pubs, nextRef), s2c' = Append(s2c, x)
        PROVE  s2c' \in Seq(Items) /\ \A p \in 1..Len(s2c') : ItemOK(s2c'[p], pubs', nextRef')
    <3>1. Sends(<<x>>)
      BY <2>1, SendsOne DEF Wires
    <3>2. \A l \in 1..Len(<<x>>) : ItemOK(<<x>>[l], pubs', nextRef')
      BY <1>5, <2>1
    <3> QED
      BY <1>5, <3>1, <3>2, WiresSent
  <2>2. CASE s2c' = s2c
    BY <1>5, <2>2, WiresLater
  <2>3. CASE \E reason \in {"RATE_LIMITED", "FORBIDDEN"} : s2c' = Append(s2c, Denied(m.ref, reason))
    <3>1. PICK reason \in {"RATE_LIMITED", "FORBIDDEN"} : s2c' = Append(s2c, Denied(m.ref, reason))
      BY <2>3
    <3>2. Denied(m.ref, reason) \in Items /\ ItemOK(Denied(m.ref, reason), pubs, nextRef)
      BY <1>5, ControlIsItem, ControlFits DEF Scalars
    <3> QED
      BY <2>1, <3>1, <3>2
  <2>4. CASE s2c' = Append(s2c, Ack(m.ref))
    <3>1. Ack(m.ref) \in Items /\ ItemOK(Ack(m.ref), pubs, nextRef)
      BY <1>5, ControlIsItem, ControlFits DEF Scalars
    <3> QED
      BY <2>1, <2>4, <3>1
  <2> QED
    BY <1>3, <2>2, <2>3, <2>4 DEF LandPlain
<1>8. Wires'
  BY <1>4, <1>5, <1>7 DEF Wires, Asked
<1>9. Parked'
  <2>1. CASE attempts' = attempts
    BY <1>1, <2>1 DEF Parked, store, bounds
  <2>2. CASE m.offset # 0 /\ Begin(m)
    <3>1. PICK a : a =
            [ref |-> m.ref, offset |-> m.offset, epoch |-> m.epoch, seen |-> m.seen,
             stage |-> "serving", before |-> mark, upto |-> 0, held |-> <<>>, overflow |-> FALSE,
             revoked |-> FALSE]
      OBVIOUS
    <3>2. m.offset \in 1..MaxPubs /\ 0 \in 0..MaxPubs
      BY <1>5, <2>2, Bounds
    <3>3. a \in Attempts /\ a.ref = m.ref /\ a.held = <<>>
      BY <1>5, <3>1, <3>2 DEF Attempts
    <3>4. AttemptOK(a, origin, pubs, nextRef)
      BY <1>5, <3>3, Bounds DEF AttemptOK
    <3>5. attempts' = attempts \cup {a}
      BY <2>2, <3>1 DEF Begin
    <3> QED
      BY <1>1, <3>4, <3>5 DEF Parked, store, bounds
  <2> QED
    BY <1>3, <2>1, <2>2 DEF LandPlain
<1>10. Closed'
  BY <1>1 DEF Closed, client
<1> QED
  BY <1>6, <1>8, <1>9, <1>10

LEMMA UnsubscribeTypes ==
  ASSUME TypeInv, ServerUnsubscribe
  PROVE  TypeInv'
<1> USE DEF TypeInv
<1>1. /\ srv /\ c2s # <<>> /\ c2s' = Tail(c2s) /\ live' = FALSE
      /\ attempts' = {[a EXCEPT !.revoked = TRUE] : a \in attempts}
      /\ UNCHANGED <<store, srv, s2c, client, bounds, ghosts>>
  BY DEF ServerUnsubscribe
<1>2. Scalars'
  <2>1. Flags'
    BY <1>1 DEF Scalars, Flags, client
  <2>2. Numbers' /\ Offsets' /\ Ghosts'
    BY <1>1 DEF Scalars, Numbers, Offsets, Ghosts, store, client, bounds, ghosts
  <2> QED
    BY <2>1, <2>2 DEF Scalars
<1>3. Asked(c2s', nextRef)
  <2>1. Asked(c2s, nextRef)
    BY DEF Wires, Asked
  <2> QED
    BY <1>1, <2>1, AskedFirst
<1>4. Wires'
  BY <1>1, <1>3 DEF Wires, Asked, store, bounds
<1>5. Parked'
  <2>1. ASSUME NEW a \in attempts
        PROVE  AttemptOK([a EXCEPT !.revoked = TRUE], origin', pubs', nextRef')
    <3>1. PICK b : b = [a EXCEPT !.revoked = TRUE]
      OBVIOUS
    <3>2. AttemptOK(a, origin, pubs, nextRef)
      BY DEF Parked
    <3>3. b \in Attempts /\ b.ref = a.ref /\ b.held = a.held
      BY <3>1, <3>2 DEF AttemptOK, Attempts
    <3>4. UNCHANGED <<origin, pubs, nextRef>>
      BY <1>1 DEF store, bounds
    <3> QED
      BY <3>1, <3>2, <3>3, <3>4 DEF AttemptOK
  <2> QED
    BY <1>1, <2>1 DEF Parked
<1>6. Closed'
  BY <1>1 DEF Closed, client
<1> QED
  BY <1>2, <1>4, <1>5, <1>6

LEMMA OvertakeTypes ==
  ASSUME TypeInv, Overtake
  PROVE  TypeInv'
<1> USE DEF TypeInv
<1>1. /\ srv /\ live' = TRUE
      /\ UNCHANGED <<store, srv, attempts, c2s, s2c, client, nextRef, conns,
                     known, base, seenIn, asked, newest>>
  BY DEF Overtake
<1>2. Flags'
  BY <1>1 DEF Scalars, Flags, client
<1>3. Numbers' /\ Offsets' /\ Ghosts'
  BY <1>1 DEF Scalars, Numbers, Offsets, Ghosts, store, client
<1>4. Wires' /\ Parked' /\ Closed'
  BY <1>1 DEF Wires, Parked, Closed, store, client
<1> QED
  BY <1>2, <1>3, <1>4 DEF Scalars

LEMMA ServesTypes ==
  ASSUME TypeInv, HookServes
  PROVE  TypeInv'
<1> USE DEF TypeInv
<1>1. PICK a \in attempts, hook \in Hooks, stamped \in BOOLEAN :
        /\ s2c' = s2c \o Served(a, hook, stamped)
        /\ attempts' = (attempts \ {a}) \cup {[a EXCEPT !.stage = "served", !.upto = Current]}
        /\ UNCHANGED <<store, srv, live, c2s, client, bounds, known, base, seenIn, asked, newest>>
  BY DEF HookServes
<1>2. AttemptOK(a, origin, pubs, nextRef)
  BY DEF Parked
<1>3. UNCHANGED <<origin, pubs, nextRef>> /\ pubs \in Int /\ nextRef \in Nat /\ nextRef > 0
  BY <1>1 DEF store, bounds, Scalars, Numbers, Offsets
<1>4. Scalars'
  BY <1>1 DEF Scalars, Flags, Numbers, Offsets, Ghosts, store, client, bounds
<1>5. PICK w : w = Served(a, hook, stamped)
  OBVIOUS
<1>6. ServedOK(w, a)
  BY <1>2, <1>5, ServedFacts DEF AttemptOK, Scalars
<1>7. \A m \in 1..Len(w) : ItemOK(w[m], pubs', nextRef')
  <2>1. ASSUME NEW m \in 1..Len(w) PROVE ItemOK(w[m], pubs, nextRef)
    <3>1. /\ w[m].ref = 0
          /\ \/ w[m].k \in Markers /\ w[m].pub = 0 /\ w[m].seq = 0
             \/ HistoryOK(w[m])
      BY <1>6 DEF ServedOK
    <3>2. pubs \in 0..MaxPubs /\ origin \in 0..pubs
      BY DEF Scalars, Numbers
    <3>3. CASE w[m].k \in Markers /\ w[m].pub = 0 /\ w[m].seq = 0
      <4>1. w[m].k \notin Data
        BY <3>3 DEF Markers, Data
      <4> QED
        BY <1>3, <3>1, <3>2, <3>3, <4>1, Bounds DEF ItemOK
    <3>4. CASE HistoryOK(w[m])
      <4>1. PICK i : i = w[m].pub
        OBVIOUS
      <4>2. i \in (origin + 1)..pubs /\ w[m].seq \in {0, i - origin}
        BY <3>4, <4>1 DEF HistoryOK
      <4>3. i <= pubs /\ i >= 1 /\ w[m].seq <= MaxPubs
        BY <3>2, <4>2, Bounds
      <4> QED
        BY <1>3, <3>1, <4>1, <4>3 DEF ItemOK
    <3> QED
      BY <3>1, <3>3, <3>4
  <2> QED
    BY <1>3, <2>1
<1>8. Sends(w)
  BY <1>1, <1>5, <1>6, SendsThem DEF Wires, ServedOK
<1>9. s2c' \in Seq(Items) /\ \A p \in 1..Len(s2c') : ItemOK(s2c'[p], pubs', nextRef')
  BY <1>3, <1>7, <1>8, WiresSent
<1>10. Wires'
  BY <1>1, <1>3, <1>9 DEF Wires
<1>11. Parked'
  <2>1. PICK b : b = [a EXCEPT !.stage = "served", !.upto = Current]
    OBVIOUS
  <2>2. Current \in 0..MaxPubs
    BY Bounds DEF Scalars, Numbers, Current, Stamp
  <2>3. b \in Attempts /\ b.ref = a.ref /\ b.held = a.held
    BY <1>2, <2>1, <2>2 DEF AttemptOK, Attempts
  <2>4. AttemptOK(b, origin, pubs, nextRef)
    BY <1>2, <2>3 DEF AttemptOK
  <2>5. \A x \in attempts' : x = b \/ x \in attempts
    BY <1>1, <2>1
  <2> QED
    BY <1>3, <2>4, <2>5 DEF Parked
<1>12. Closed'
  BY <1>1 DEF Closed, client
<1> QED
  BY <1>4, <1>10, <1>11, <1>12

\* Whatever a flush sends is good.
LEMMA FlushFits ==
  ASSUME Numbers, NEW r \in Nat, r > 0, NEW u, NEW v, FlushItems(v, u),
         \A l \in 1..Len(u) : u[l] \in (origin + 1)..pubs
  PROVE  \A m \in 1..Len(v) : ItemOK(v[m], pubs, r)
<1> SUFFICES ASSUME NEW m \in 1..Len(v) PROVE ItemOK(v[m], pubs, r)
  OBVIOUS
<1>1. EntryOK(v, m, u)
  BY DEF FlushItems
<1>2. pubs \in 0..MaxPubs /\ origin \in 0..pubs
  BY DEF Numbers
<1>3. CASE v[m].k = "truncated" /\ v[m].pub = 0 /\ v[m].seq = 0
  BY <1>1, <1>2, <1>3, Bounds DEF ItemOK, EntryOK, Data
<1>4. CASE /\ v[m].k = "frame" /\ v[m].seq = v[m].pub - origin
           /\ \E l \in 1..Len(u) : v[m].pub = u[l]
  <2>1. PICK i \in (origin + 1)..pubs : i = v[m].pub
    BY <1>4
  <2>2. i <= pubs /\ i >= 1 /\ i - origin <= MaxPubs
    BY <1>2, <2>1, Bounds
  <2> QED
    BY <1>1, <1>4, <2>1, <2>2 DEF ItemOK, EntryOK
<1> QED
  BY <1>1, <1>3, <1>4 DEF EntryOK

\* What a landing sends, and the state of the connection after it.
LEMMA LandFits ==
  ASSUME TypeInv, NEW a \in attempts, NEW covered, NEW truncated \in BOOLEAN,
         Land(a, covered, truncated)
  PROVE  /\ \E w : Sends(w) /\ \A m \in 1..Len(w) : ItemOK(w[m], pubs, nextRef)
         /\ srv' \in BOOLEAN /\ live' \in BOOLEAN /\ (live' => srv')
         /\ newest' \in 0..pubs
<1> USE DEF TypeInv
<1>1. /\ AttemptOK(a, origin, pubs, nextRef) /\ a.ref \in Nat /\ a.ref < nextRef /\ Numbers
      /\ nextRef \in Nat /\ nextRef > 0 /\ newest \in 0..pubs /\ s2c \in Seq(Items)
      /\ srv = TRUE /\ live \in BOOLEAN /\ pubs \in Nat
  <2>1. AttemptOK(a, origin, pubs, nextRef) /\ nextRef \in Nat /\ nextRef > 0
    BY DEF Parked, Scalars, Offsets
  <2>2. a.ref \in Nat /\ a.ref < nextRef
    BY <2>1 DEF AttemptOK
  <2>3. srv = TRUE /\ live \in BOOLEAN
    BY DEF Closed, Scalars, Flags
  <2>4. newest \in 0..pubs /\ s2c \in Seq(Items) /\ Numbers /\ pubs \in Nat
    BY DEF Scalars, Ghosts, Wires, Numbers
  <2> QED
    BY <2>1, <2>2, <2>3, <2>4
<1>2. ASSUME NEW x \in Items, ItemOK(x, pubs, nextRef), s2c' = Append(s2c, x)
      PROVE  \E w : Sends(w) /\ \A m \in 1..Len(w) : ItemOK(w[m], pubs, nextRef)
  <2>1. Sends(<<x>>) /\ \A m \in 1..Len(<<x>>) : ItemOK(<<x>>[m], pubs, nextRef)
    BY <1>1, <1>2, SendsOne
  <2> QED
    BY <2>1
<1>3. CASE LandHeld(a)
  <2>1. s2c' = Append(s2c, Ack(a.ref)) /\ UNCHANGED <<srv, live, newest>>
    BY <1>3 DEF LandHeld
  <2>2. \E w : Sends(w) /\ \A m \in 1..Len(w) : ItemOK(w[m], pubs, nextRef)
    BY <1>1, <1>2, <2>1, ControlIsItem, ControlFits
  <2> QED
    BY <1>1, <2>1, <2>2
<1>4. CASE LandRefused(a)
  <2>1. PICK reason \in {"RATE_LIMITED", "FORBIDDEN"} :
          s2c' = Append(s2c, Denied(a.ref, reason)) /\ UNCHANGED <<srv, live, newest>>
    BY <1>4 DEF LandRefused
  <2>2. \E w : Sends(w) /\ \A m \in 1..Len(w) : ItemOK(w[m], pubs, nextRef)
    BY <1>1, <1>2, <2>1, ControlIsItem, ControlFits
  <2> QED
    BY <1>1, <2>1, <2>2
<1>5. CASE LandInstalled(a, covered, truncated)
  <2>1. PICK taken \in 0..Len(Uncovered(a, covered)), m1 \in Answers, m2 \in Answers,
             acked \in BOOLEAN :
          LET f == Flush(a, covered, truncated, taken, m1, m2) IN
            /\ s2c' = s2c \o f.items \o (IF acked /\ ~f.ended THEN <<Ack(a.ref)>> ELSE <<>>)
            /\ newest' = f.newest /\ srv' = ~f.ended /\ live' = ~f.ended
    BY <1>5 DEF LandInstalled
  <2>2. PICK f, u : /\ f = Flush(a, covered, truncated, taken, m1, m2)
                    /\ u = Uncovered(a, covered)
    OBVIOUS
  <2>3. PICK k : k = IF acked /\ ~f.ended THEN <<Ack(a.ref)>> ELSE <<>>
    OBVIOUS
  <2>4. /\ s2c' = s2c \o f.items \o k
        /\ newest' = f.newest /\ srv' = ~f.ended /\ live' = ~f.ended
    BY <2>1, <2>2, <2>3
  <2>5. /\ FlushItems(f.items, u) /\ f.ended \in BOOLEAN
        /\ f.newest = newest \/ \E l \in 1..Len(u) : f.newest = u[l]
    <3>1. /\ FlushItems(Flush(a, covered, truncated, taken, m1, m2).items, Uncovered(a, covered))
          /\ Flush(a, covered, truncated, taken, m1, m2).ended \in BOOLEAN
          /\ \/ Flush(a, covered, truncated, taken, m1, m2).newest = newest
             \/ \E l \in 1..Len(Uncovered(a, covered)) :
                  Flush(a, covered, truncated, taken, m1, m2).newest = Uncovered(a, covered)[l]
      BY <1>1, FlushFacts
    <3> QED
      BY <2>2, <3>1
  <2>6. \A l \in 1..Len(u) : u[l] \in (origin + 1)..pubs
    BY <1>1, <2>2, UncoveredFacts
  <2>7. \A m \in 1..Len(f.items) : ItemOK(f.items[m], pubs, nextRef)
    BY <1>1, <2>5, <2>6, FlushFits
  <2>8. k \in Seq(Items) /\ \A m \in 1..Len(k) : ItemOK(k[m], pubs, nextRef)
    <3>1. CASE k = <<>>
      BY <3>1
    <3>2. CASE k = <<Ack(a.ref)>>
      <4>1. Ack(a.ref) \in Items /\ ItemOK(Ack(a.ref), pubs, nextRef)
        BY <1>1, ControlIsItem, ControlFits
      <4> QED
        BY <3>2, <4>1
    <3> QED
      BY <2>3, <3>1, <3>2
  <2>9. PICK v, w : v = f.items /\ w = v \o k
    OBVIOUS
  <2>10. v \in Seq(Items) /\ s2c' = s2c \o w
    <3>1. v \in Seq(Items)
      BY <2>5, <2>9 DEF FlushItems
    <3>2. (s2c \o v) \o k = s2c \o (v \o k)
      <4>1. s2c \in Seq(Items) /\ k \in Seq(Items)
        BY <1>1, <2>8
      <4> QED
        BY <3>1, <4>1, ConcatAssociative
    <3> QED
      BY <2>4, <2>9, <3>1, <3>2
  <2>11. /\ w \in Seq(Items) /\ Len(w) = Len(v) + Len(k) /\ Len(v) \in Nat /\ Len(k) \in Nat
         /\ \A i \in 1..Len(v) : w[i] = v[i]
         /\ \A i \in 1..Len(k) : w[Len(v) + i] = k[i]
    <3>1. v \in Seq(Items) /\ k \in Seq(Items) /\ w = v \o k
      BY <2>8, <2>9, <2>10
    <3> QED
      BY <3>1, ConcatProperties
  <2>12. ASSUME NEW m \in 1..Len(w) PROVE ItemOK(w[m], pubs, nextRef)
    <3>1. CASE m <= Len(v)
      <4>1. m \in 1..Len(v)
        BY <2>11, <3>1
      <4> QED
        BY <2>7, <2>9, <2>11, <4>1
    <3>2. CASE m > Len(v)
      <4>1. m - Len(v) \in 1..Len(k) /\ Len(v) + (m - Len(v)) = m
        BY <2>11, <3>2
      <4> QED
        BY <2>8, <2>11, <4>1
    <3> QED
      BY <2>11, <3>1, <3>2
  <2>13. Sends(w)
    BY <1>1, <2>10, <2>11, SendsThem
  <2>14. newest' \in 0..pubs
    <3>1. CASE f.newest = newest
      BY <1>1, <2>4, <3>1
    <3>2. CASE \E l \in 1..Len(u) : f.newest = u[l]
      BY <1>1, <2>4, <2>6, <3>2, Bounds DEF Numbers
    <3> QED
      BY <2>5, <3>1, <3>2
  <2>15. srv' \in BOOLEAN /\ live' \in BOOLEAN /\ (live' => srv')
    BY <2>4, <2>5
  <2> QED
    BY <2>12, <2>13, <2>14, <2>15
<1> QED
  BY <1>3, <1>4, <1>5 DEF Land

LEMMA LandTypes ==
  ASSUME TypeInv, NEW a \in attempts, NEW covered, NEW truncated \in BOOLEAN,
         Land(a, covered, truncated), Leaving(a)
  PROVE  TypeInv'
<1> USE DEF TypeInv
<1>1. /\ attempts' = IF srv' THEN attempts \ {a} ELSE {}
      /\ c2s' = IF srv' THEN c2s ELSE <<>>
      /\ UNCHANGED <<store, client, nextRef, known, base, seenIn, asked>>
  BY DEF Leaving
<1>2. /\ srv' \in BOOLEAN /\ live' \in BOOLEAN /\ (live' => srv') /\ newest' \in 0..pubs
  BY LandFits
<1>3. Scalars'
  <2>1. Flags'
    BY <1>1, <1>2 DEF Scalars, Flags, client
  <2>2. Numbers' /\ Offsets' /\ Ghosts'
    BY <1>1, <1>2 DEF Scalars, Numbers, Offsets, Ghosts, store, client
  <2> QED
    BY <2>1, <2>2 DEF Scalars
<1>4. UNCHANGED <<origin, pubs, nextRef>> /\ pubs \in Int /\ nextRef \in Int
  BY <1>1 DEF store, Scalars, Numbers, Offsets
<1>5. s2c' \in Seq(Items) /\ \A p \in 1..Len(s2c') : ItemOK(s2c'[p], pubs', nextRef')
  <2>1. PICK w : Sends(w) /\ \A m \in 1..Len(w) : ItemOK(w[m], pubs, nextRef)
    BY LandFits
  <2> QED
    BY <1>4, <2>1, WiresSent
<1>6. Asked(c2s', nextRef)
  <2>1. Asked(c2s, nextRef)
    BY DEF Wires, Asked
  <2> QED
    BY <1>1, <2>1, AskedNothing
<1>7. Wires'
  BY <1>4, <1>5, <1>6 DEF Wires, Asked
<1>8. Parked'
  BY <1>1, <1>4 DEF Parked
<1>9. Closed'
  <2>1. srv /\ link /\ link' = link
    BY <1>1 DEF Closed, client
  <2> QED
    BY <1>1, <1>2, <2>1 DEF Closed
<1> QED
  BY <1>3, <1>7, <1>8, <1>9

LEMMA SettlesTypes ==
  ASSUME TypeInv, HookReturns \/ HookThrows
  PROVE  TypeInv'
<1>1. PICK a \in attempts : /\ \E covered : Land(a, covered, FALSE) \/ Land(a, covered, TRUE)
                            /\ Leaving(a)
  BY DEF HookReturns, HookThrows
<1> QED
  BY <1>1, LandTypes

LEMMA RequestFits ==
  ASSUME NEW ref \in Nat, NEW o \in 0..MaxPubs, NEW e \in Epochs \cup {NoEpoch},
         NEW n \in Epochs \cup {NoEpoch}, NEW r, ref \in 1..(r - 1)
  PROVE  RequestOK(Request(ref, o, e, n), r)
BY DEF RequestOK, Request, Requests

LEMMA PlainFits ==
  ASSUME NEW ref \in Nat, NEW r, ref \in 1..(r - 1)
  PROVE  RequestOK(Plain(ref), r)
<1>1. 0 \in 0..MaxPubs
  BY Bounds
<1> QED
  BY <1>1, RequestFits DEF Plain

LEMMA ReleaseFits ==
  ASSUME NEW r
  PROVE  RequestOK(Release, r)
<1>1. 0 \in 0..MaxPubs
  BY Bounds
<1> QED
  BY <1>1 DEF RequestOK, Release, Requests

LEMMA AskingFits ==
  ASSUME Scalars, NEW ref \in Nat, NEW r, ref \in 1..(r - 1)
  PROVE  RequestOK(Asking(ref), r)
BY PlainFits, RequestFits DEF Asking, Scalars, Offsets, Ghosts

LEMMA ReconnectTypes ==
  ASSUME TypeInv, Reconnect
  PROVE  TypeInv'
<1> USE DEF TypeInv
<1>1. /\ ~link /\ link' = TRUE /\ srv' = TRUE
      /\ nextRef' = 2 /\ newest' = 0
      /\ UNCHANGED <<store, live, attempts, s2c, wanted, lastSeen, lastEpoch, retries, timer,
                     known, base, seenIn>>
      /\ asked' = {1} \/ asked' = {}
  BY DEF Reconnect
<1>2. PICK m : m = Asking(1)
  OBVIOUS
<1>3. /\ c2s' = <<m>> \/ c2s' = <<>>
      /\ pending' = [ref |-> 1, highest |-> 0] \/ pending' = NoPending
  BY <1>2 DEF Reconnect
<1>4. s2c' = <<>> /\ attempts' = {} /\ ~live'
  BY <1>1 DEF Closed
<1>5. Flags'
  BY <1>1 DEF Scalars, Flags
<1>6. Offsets'
  <2>1. 0 \in 0..MaxPubs /\ 0 \in 0..1 /\ 1 \in 0..1
    BY Bounds
  <2>2. pending' \in [ref : 0..1, highest : 0..MaxPubs]
    BY <1>3, <2>1 DEF NoPending
  <2> QED
    BY <1>1, <2>2 DEF Scalars, Offsets
<1>7. Numbers' /\ Ghosts'
  <2>1. newest' \in 0..pubs /\ asked' \subseteq 1..(nextRef' - 1)
    BY <1>1 DEF Scalars, Numbers
  <2> QED
    BY <1>1, <2>1 DEF Scalars, Numbers, Ghosts, store
<1>8. Asked(c2s', 2)
  <2>1. RequestOK(m, 2)
    BY <1>2, AskingFits
  <2>2. Asked(<<m>>, 2)
    BY <2>1, AskedNothing, AskedMore
  <2> QED
    BY <1>3, <2>2, AskedNothing
<1>9. Wires' /\ Parked' /\ Closed'
  BY <1>1, <1>4, <1>8 DEF Wires, Asked, Parked, Closed
<1> QED
  BY <1>5, <1>6, <1>7, <1>9 DEF Scalars

LEMMA LostTypes ==
  ASSUME TypeInv, ConnectionLost
  PROVE  TypeInv'
<1> USE DEF TypeInv
<1>1. /\ link' = FALSE /\ srv' = FALSE /\ live' = FALSE
      /\ attempts' = {} /\ c2s' = <<>> /\ s2c' = <<>> /\ retries' = 0 /\ timer' = FALSE
      /\ UNCHANGED <<store, wanted, lastSeen, lastEpoch, pending, bounds, ghosts>>
  BY DEF ConnectionLost
<1>2. Flags'
  BY <1>1 DEF Scalars, Flags
<1>3. Numbers' /\ Ghosts'
  BY <1>1 DEF Scalars, Numbers, Ghosts, store, bounds, ghosts
<1>4. Offsets'
  BY <1>1, Bounds DEF Scalars, Offsets, bounds
<1>5. Wires' /\ Parked' /\ Closed'
  BY <1>1 DEF Wires, Parked, Closed
<1> QED
  BY <1>2, <1>3, <1>4, <1>5 DEF Scalars

\* What the client takes, and what it stores of it.
LEMMA ReceiveTypes ==
  ASSUME TypeInv, Receive
  PROVE  TypeInv'
<1> USE DEF TypeInv
<1>1. /\ link /\ s2c # <<>> /\ s2c' = Tail(s2c)
      /\ UNCHANGED <<store, srv, live, attempts, c2s, link, wanted, bounds, base, newest>>
  BY DEF Receive
<1>2. Takes /\ Head(s2c) = s2c[1]
  BY <1>1, TakesOne DEF Wires
<1>3. PICK m : m = s2c[1]
  OBVIOUS
<1>4. ReceiveFrame(m) \/ ReceiveMarker(m) \/ ReceiveAck(m) \/ ReceiveDenied(m)
  BY <1>2, <1>3 DEF Receive
<1>5. m \in Items /\ ItemOK(m, pubs, nextRef)
  <2>1. 1 \in 1..Len(s2c)
    BY <1>2 DEF Takes
  <2> QED
    BY <1>3, <2>1 DEF Wires
<1>6. /\ m.pub \in 0..pubs /\ m.seq \in 0..MaxPubs /\ m.ep \in Epochs /\ (m.k \in Data => m.pub \in 1..pubs)
      /\ pubs \in 0..MaxPubs /\ MaxPubs \in Nat /\ MaxRetries \in Nat
      /\ lastSeen \in 0..MaxPubs /\ retries \in 0..MaxRetries
      /\ pending \in [ref : 0..(nextRef - 1), highest : 0..MaxPubs]
      /\ lastEpoch \in Epochs \cup {NoEpoch} /\ timer \in BOOLEAN /\ known \subseteq 1..pubs
      /\ seenIn \in Epochs \cup {NoEpoch} /\ asked \subseteq 1..(nextRef - 1)
  <2>1. m.pub \in Nat /\ m.seq \in Nat /\ m.ep \in Epochs
    BY <1>5 DEF Items
  <2>2. pubs \in 0..MaxPubs
    BY DEF Scalars, Numbers
  <2>3. m.pub \in 0..pubs /\ m.seq \in 0..MaxPubs /\ (m.k \in Data => m.pub \in 1..pubs)
    BY <1>5, <2>1, <2>2, Bounds DEF ItemOK
  <2> QED
    BY <2>1, <2>2, <2>3, Bounds DEF Scalars, Flags, Offsets, Ghosts
<1>7. /\ lastSeen' \in 0..MaxPubs /\ lastEpoch' \in Epochs \cup {NoEpoch}
      /\ pending' \in [ref : 0..(nextRef - 1), highest : 0..MaxPubs]
      /\ retries' \in 0..MaxRetries /\ timer' \in BOOLEAN /\ known' \subseteq 1..pubs
      /\ seenIn' \in Epochs \cup {NoEpoch} /\ asked' \subseteq 1..(nextRef - 1)
  <2>0. 0 \in 0..MaxPubs /\ 0 \in 0..(nextRef - 1) /\ NoPending \in [ref : 0..(nextRef - 1), highest : 0..MaxPubs]
    <3>1. 0 \in 0..MaxPubs /\ 0 \in 0..(nextRef - 1)
      BY <1>6 DEF Scalars, Offsets
    <3> QED
      BY <3>1 DEF NoPending
  <2>1. CASE ReceiveFrame(m)
    <3>1. /\ m.k \in Data /\ known' = known \cup {m.pub}
          /\ UNCHANGED <<lastEpoch, retries, timer, asked>>
          /\ seenIn' = seenIn \/ seenIn' = m.ep
      BY <2>1 DEF ReceiveFrame, Data
    <3>2. /\ pending' = pending \/ pending' = [pending EXCEPT !.highest = Higher(@, m.seq)]
          /\ lastSeen' = lastSeen \/ lastSeen' = Higher(lastSeen, m.seq)
      BY <2>1 DEF ReceiveFrame
    <3>3. lastSeen' \in 0..MaxPubs
      BY <1>6, <3>2 DEF Higher
    <3>4. Higher(pending.highest, m.seq) \in 0..MaxPubs
      BY <1>6 DEF Higher
    <3>5. pending' \in [ref : 0..(nextRef - 1), highest : 0..MaxPubs]
      BY <1>6, <3>2, <3>4
    <3>6. known' \subseteq 1..pubs
      BY <1>6, <3>1
    <3> QED
      BY <1>6, <3>1, <3>3, <3>5, <3>6
  <2>2. CASE ReceiveMarker(m)
    <3>1. /\ lastSeen' = 0 /\ pending' = [pending EXCEPT !.highest = 0] /\ known' = 1..pubs
          /\ lastEpoch' = lastEpoch \/ lastEpoch' = m.ep
          /\ UNCHANGED <<retries, timer, seenIn, asked>>
      BY <2>2 DEF ReceiveMarker
    <3>2. pending' \in [ref : 0..(nextRef - 1), highest : 0..MaxPubs]
      BY <1>6, <2>0, <3>1
    <3> QED
      BY <1>6, <2>0, <3>1, <3>2
  <2>3. CASE ReceiveAck(m)
    <3>1. /\ pending' = pending \/ pending' = NoPending
          /\ lastSeen' = lastSeen \/ lastSeen' = Higher(lastSeen, pending.highest)
          /\ lastEpoch' = m.ep /\ retries' = 0 /\ UNCHANGED <<timer, known>>
          /\ asked' = asked \ {m.ref} /\ (seenIn' = seenIn \/ seenIn' = m.ep)
      BY <2>3 DEF ReceiveAck
    <3>2. lastSeen' \in 0..MaxPubs
      BY <1>6, <3>1 DEF Higher
    <3>3. 0 \in 0..MaxRetries
      BY <1>6
    <3> QED
      BY <1>6, <2>0, <3>1, <3>2, <3>3
  <2>4. CASE ReceiveDenied(m)
    <3>1. PICK again \in BOOLEAN :
            /\ again => retries < MaxRetries
            /\ (retries' = retries + 1 /\ again) \/ retries' = 0 \/ retries' = retries
            /\ timer' = (timer \/ again)
      BY <2>4 DEF ReceiveDenied
    <3>2. /\ pending' = pending \/ pending' = NoPending
          /\ UNCHANGED <<lastSeen, lastEpoch, known, seenIn>> /\ asked' = asked \ {m.ref}
      BY <2>4 DEF ReceiveDenied
    <3>3. retries' \in 0..MaxRetries
      BY <1>6, <3>1
    <3>4. timer' \in BOOLEAN
      BY <3>1
    <3> QED
      BY <1>6, <2>0, <3>2, <3>3, <3>4
  <2> QED
    BY <1>4, <2>1, <2>2, <2>3, <2>4
<1>8. Flags'
  BY <1>1, <1>7 DEF Scalars, Flags
<1>9. Numbers' /\ Offsets' /\ Ghosts'
  BY <1>1, <1>7 DEF Scalars, Numbers, Offsets, Ghosts, store, bounds
<1>10. s2c' \in Seq(Items) /\ \A p \in 1..Len(s2c') : ItemOK(s2c'[p], pubs, nextRef)
  BY <1>2, WiresTaken
<1>11. Wires' /\ Parked' /\ Closed'
  BY <1>1, <1>10 DEF Wires, Parked, Closed, store, bounds
<1> QED
  BY <1>8, <1>9, <1>11 DEF Scalars

LEMMA RetryTypes ==
  ASSUME TypeInv, RetryFires
  PROVE  TypeInv'
<1> USE DEF TypeInv
<1>1. /\ timer /\ timer' = FALSE
      /\ UNCHANGED <<store, srv, live, attempts, s2c, link, wanted, lastSeen, lastEpoch, retries,
                     known, base, seenIn, newest>>
  BY DEF RetryFires, Resubscribe
<1>2. nextRef \in Nat /\ nextRef > 0 /\ pending \in [ref : 0..(nextRef - 1), highest : 0..MaxPubs]
  BY DEF Scalars, Offsets
<1>3. PICK m : m = Asking(nextRef)
  OBVIOUS
<1>4. /\ nextRef' \in {nextRef, nextRef + 1}
      /\ pending' \in [ref : 0..(nextRef' - 1), highest : 0..MaxPubs]
      /\ Asked(c2s', nextRef') /\ asked' \subseteq 1..(nextRef' - 1)
  <2>0. asked \subseteq 1..(nextRef - 1)
    BY DEF Scalars, Ghosts
  <2>1. Asked(c2s, nextRef)
    BY DEF Wires, Asked
  <2>2. CASE UNCHANGED <<c2s, nextRef, pending, asked>>
    BY <1>2, <2>0, <2>1, <2>2
  <2>3. CASE /\ Resubscribe(c2s) /\ pending' = Recovering
             /\ asked' = IF lastSeen = 0 THEN asked ELSE asked \cup {nextRef}
    <3>1. nextRef' = nextRef + 1 /\ c2s' = Outbox(c2s, m)
      BY <1>3, <2>3 DEF Resubscribe
    <3>2. nextRef \in 1..(nextRef' - 1)
      BY <1>2, <3>1
    <3>3. Asked(Append(c2s, m), nextRef')
      <4>1. PICK s : s = nextRef'
        OBVIOUS
      <4>2. nextRef \in Int /\ s \in Int /\ s >= nextRef /\ RequestOK(m, s)
        BY <1>2, <1>3, <3>1, <3>2, <4>1, AskingFits
      <4>3. Asked(Append(c2s, m), s)
        BY <2>1, <4>2, AskedMore
      <4> QED
        BY <4>1, <4>3
    <3>4. Asked(c2s, nextRef')
      BY <1>2, <2>1, <3>1 DEF Asked
    <3>5. Asked(c2s', nextRef')
      BY <3>1, <3>3, <3>4 DEF Outbox
    <3>6. pending' = pending \/ pending' = [ref |-> nextRef, highest |-> 0]
      BY <2>3 DEF Recovering
    <3>7. nextRef \in 0..(nextRef' - 1) /\ 0 \in 0..MaxPubs /\ 0..(nextRef - 1) \subseteq 0..(nextRef' - 1)
      BY <1>2, <3>1, Bounds
    <3>8. pending' \in [ref : 0..(nextRef' - 1), highest : 0..MaxPubs]
      BY <1>2, <3>6, <3>7
    <3>9. asked' \subseteq 1..(nextRef' - 1)
      BY <1>2, <2>0, <2>3, <3>1
    <3> QED
      BY <3>1, <3>5, <3>8, <3>9
  <2> QED
    BY <2>2, <2>3 DEF RetryFires
<1>5. Flags'
  BY <1>1 DEF Scalars, Flags
<1>6. Numbers' /\ Ghosts'
  BY <1>1, <1>4 DEF Scalars, Numbers, Ghosts, store
<1>7. Offsets'
  BY <1>1, <1>2, <1>4 DEF Scalars, Offsets
<1>8. s2c' \in Seq(Items) /\ \A p \in 1..Len(s2c') : ItemOK(s2c'[p], pubs', nextRef')
  BY <1>1, <1>2, <1>4, WiresLater DEF Scalars, Numbers, store
<1>9. Wires'
  BY <1>4, <1>8 DEF Wires, Asked
<1>10. Parked'
  BY <1>1, <1>2, <1>4 DEF Parked, AttemptOK, store
<1>11. Closed'
  <2>1. link
    BY <1>1 DEF Closed
  <2>2. ~srv => c2s' = <<>>
    BY <1>1 DEF Closed, RetryFires, Resubscribe, Outbox
  <2> QED
    BY <1>1, <2>1, <2>2 DEF Closed
<1> QED
  BY <1>5, <1>6, <1>7, <1>9, <1>10, <1>11 DEF Scalars

LEMMA LeaveTypes ==
  ASSUME TypeInv, Leave
  PROVE  TypeInv'
<1> USE DEF TypeInv
<1>1. /\ wanted' = FALSE /\ pending' = NoPending /\ retries' = 0 /\ srv' = srv
      /\ c2s' = IF link THEN Outbox(c2s, Release) ELSE c2s
      /\ UNCHANGED <<store, live, attempts, s2c, link, lastSeen, lastEpoch, timer, nextRef, ghosts>>
  BY DEF Leave
<1>2. Flags'
  BY <1>1 DEF Scalars, Flags
<1>3. Numbers' /\ Ghosts'
  BY <1>1 DEF Scalars, Numbers, Ghosts, store, ghosts
<1>4. Offsets'
  <2>1. 0 \in 0..(nextRef - 1) /\ 0 \in 0..MaxPubs /\ 0 \in 0..MaxRetries
    BY Bounds DEF Scalars, Offsets
  <2>2. NoPending \in [ref : 0..(nextRef - 1), highest : 0..MaxPubs]
    BY <2>1 DEF NoPending
  <2>3. /\ lastSeen' \in 0..MaxPubs /\ lastEpoch' \in Epochs \cup {NoEpoch}
        /\ nextRef' \in Nat \ {0} /\ nextRef' = nextRef
    BY <1>1 DEF Scalars, Offsets
  <2>4. retries' \in 0..MaxRetries
    BY <1>1, <2>1
  <2> QED
    BY <1>1, <2>2, <2>3, <2>4 DEF Offsets
<1>5. Asked(c2s', nextRef)
  <2>1. Asked(c2s, nextRef) /\ nextRef \in Int
    BY DEF Wires, Asked, Scalars, Offsets
  <2>2. Asked(Append(c2s, Release), nextRef)
    <3>1. PICK m : m = Release
      OBVIOUS
    <3>2. RequestOK(m, nextRef) /\ nextRef >= nextRef
      BY <2>1, <3>1, ReleaseFits
    <3>3. Asked(Append(c2s, m), nextRef)
      BY <2>1, <3>2, AskedMore
    <3> QED
      BY <3>1, <3>3
  <2> QED
    BY <1>1, <2>1, <2>2 DEF Outbox
<1>6. Wires' /\ Parked'
  BY <1>1, <1>5 DEF Wires, Asked, Parked, store
<1>7. Closed'
  BY <1>1 DEF Closed, Outbox
<1> QED
  BY <1>2, <1>3, <1>4, <1>6, <1>7 DEF Scalars

LEMMA ReturnTypes ==
  ASSUME TypeInv, Return
  PROVE  TypeInv'
<1> USE DEF TypeInv
<1>1. /\ wanted' = TRUE /\ base' = pubs /\ srv' = srv
      /\ \/ c2s' = Outbox(c2s, Plain(nextRef)) /\ nextRef' = nextRef + 1
         \/ UNCHANGED <<c2s, nextRef>>
      /\ UNCHANGED <<store, live, attempts, s2c, link, lastSeen, lastEpoch, pending, retries,
                     timer, known, seenIn, asked, newest>>
  BY DEF Return
<1>2. nextRef \in Nat /\ nextRef > 0 /\ pubs \in 0..MaxPubs /\ origin \in 0..pubs
  BY DEF Scalars, Offsets, Numbers
<1>3. nextRef' \in {nextRef, nextRef + 1} /\ Asked(c2s', nextRef')
  <2>1. Asked(c2s, nextRef)
    BY DEF Wires, Asked
  <2>2. CASE UNCHANGED <<c2s, nextRef>>
    BY <2>1, <2>2
  <2>3. CASE c2s' = Outbox(c2s, Plain(nextRef)) /\ nextRef' = nextRef + 1
    <3>1. nextRef \in 1..(nextRef' - 1)
      BY <1>2, <2>3
    <3>2. RequestOK(Plain(nextRef), nextRef')
      BY <1>2, <3>1, PlainFits
    <3>3. Asked(Append(c2s, Plain(nextRef)), nextRef')
      <4>1. PICK m, s : m = Plain(nextRef) /\ s = nextRef'
        OBVIOUS
      <4>2. nextRef \in Int /\ s \in Int /\ s >= nextRef /\ RequestOK(m, s)
        BY <1>2, <2>3, <3>2, <4>1
      <4>3. Asked(Append(c2s, m), s)
        BY <2>1, <4>2, AskedMore
      <4> QED
        BY <4>1, <4>3
    <3>4. Asked(c2s, nextRef')
      BY <1>2, <2>1, <2>3 DEF Asked
    <3> QED
      BY <2>3, <3>3, <3>4 DEF Outbox
  <2> QED
    BY <1>1, <2>2, <2>3
<1>4. Flags'
  BY <1>1 DEF Scalars, Flags
<1>5. Numbers' /\ Ghosts'
  <2>0. nextRef' = nextRef \/ nextRef' = nextRef + 1
    BY <1>3
  <2>1. asked' \subseteq 1..(nextRef' - 1)
    BY <1>1, <1>2, <2>0 DEF Scalars, Ghosts
  <2> QED
    BY <1>1, <1>2, <2>1 DEF Scalars, Numbers, Ghosts, store
<1>6. Offsets'
  <2>1. 0..(nextRef - 1) \subseteq 0..(nextRef' - 1)
    <3>1. nextRef' = nextRef \/ nextRef' = nextRef + 1
      BY <1>3
    <3> QED
      BY <1>2, <3>1
  <2>2. pending \in [ref : 0..(nextRef' - 1), highest : 0..MaxPubs]
    BY <2>1 DEF Scalars, Offsets
  <2>3. nextRef' \in Nat \ {0}
    BY <1>2, <1>3
  <2>4. /\ lastSeen' \in 0..MaxPubs /\ lastEpoch' \in Epochs \cup {NoEpoch}
        /\ retries' \in 0..MaxRetries
    BY <1>1 DEF Scalars, Offsets
  <2> QED
    BY <1>1, <2>2, <2>3, <2>4 DEF Offsets
<1>7. s2c' \in Seq(Items) /\ \A p \in 1..Len(s2c') : ItemOK(s2c'[p], pubs', nextRef')
  BY <1>1, <1>2, <1>3, WiresLater DEF store
<1>8. Wires'
  BY <1>3, <1>7 DEF Wires, Asked
<1>9. Parked'
  BY <1>1, <1>2, <1>3 DEF Parked, AttemptOK, store
<1>10. Closed'
  BY <1>1 DEF Closed, Outbox
<1> QED
  BY <1>4, <1>5, <1>6, <1>8, <1>9, <1>10 DEF Scalars

LEMMA NextTypes ==
  ASSUME TypeInv, [Next]_vars
  PROVE  TypeInv'
<1>1. CASE UNCHANGED vars
  BY <1>1 DEF TypeInv, Scalars, Numbers, Flags, Offsets, Ghosts, Wires, Parked, Closed,
              vars, store, conn, client, bounds, ghosts
<1>2. CASE Next
  BY <1>2, PublishTypes, EvictTypes, RestartTypes, SubscribeTypes, UnsubscribeTypes,
     OvertakeTypes, ServesTypes, SettlesTypes, ReconnectTypes, LostTypes, ReceiveTypes,
     RetryTypes, LeaveTypes, ReturnTypes DEF Next
<1> QED
  BY <1>1, <1>2

LEMMA TypesHold == Spec => []TypeInv
<1>1. Init => TypeInv
  BY InitTypes
<1>2. TypeInv /\ [Next]_vars => TypeInv'
  BY NextTypes
<1> QED
  BY <1>1, <1>2, PTL DEF Spec

\* The state of the server, of the client and of what is under way between them has the
\* shape that every step relies on, whatever the bounds and however often the topic is left.
THEOREM TypeCorrect == Spec => []TypeOK
<1>1. TypeInv => TypeOK
  BY TypeInvImplies
<1> QED
  BY <1>1, TypesHold, PTL

-----------------------------------------------------------------------------
(* What an open buffer holds, and the order of live frames.                *)

\* The publications of a buffer follow one another, from the first after it was opened to
\* the last there is, unless it is full; the history read in between reaches the first.
HeldFits(a, o, n) ==
  /\ \A j \in 1..Len(a.held) : a.held[j] = a.held[1] + (j - 1)
  /\ a.held # <<>> => a.held[1] > o + a.before
  /\ ~a.overflow /\ a.held # <<>> => a.held[Len(a.held)] = n
  /\ a.overflow => Len(a.held) >= MaxHeld
  /\ o + a.before <= n
  /\ a.stage = "served" =>
       /\ o + a.upto <= n /\ a.before <= a.upto
       /\ a.held = <<>> => o + a.upto = n
       /\ a.held # <<>> => a.held[1] <= o + a.upto + 1

\* None of them was sent yet, as long as the attempt may still install the topic.
Fresh(a, member, sent) ==
  ~a.revoked /\ ~member => \A j \in 1..Len(a.held) : a.held[j] > sent

Holding == conns \in Nat /\ \A a \in attempts : HeldFits(a, origin, pubs) /\ Fresh(a, live, newest)

LEMMA CaptureHolds ==
  ASSUME NEW a, NEW o \in Nat, NEW n \in Nat, NEW r, o <= n, AttemptOK(a, o, n, r),
         HeldFits(a, o, n)
  PROVE  HeldFits(Capture(a, n + 1), o, n + 1)
<1>1. /\ a \in Attempts /\ a.held \in Seq(Nat) /\ Len(a.held) \in Nat
      /\ a.before \in Nat /\ a.upto \in Nat /\ a.overflow \in BOOLEAN
      /\ \A j \in 1..Len(a.held) : a.held[j] \in Nat /\ a.held[j] <= n
      /\ a.held = <<>> <=> Len(a.held) = 0
  <2>1. a \in Attempts /\ \A j \in 1..Len(a.held) : a.held[j] \in (o + 1)..n
    BY DEF AttemptOK
  <2>2. /\ a.held \in Seq(Nat) /\ Len(a.held) \in Nat /\ (a.held = <<>> <=> Len(a.held) = 0)
        /\ a.overflow \in BOOLEAN
    BY <2>1 DEF Attempts
  <2>3. a.before \in Nat /\ a.upto \in Nat
    BY <2>1, Bounds DEF Attempts
  <2>4. \A j \in 1..Len(a.held) : a.held[j] \in Nat /\ a.held[j] <= n
    BY <2>1
  <2> QED
    BY <2>1, <2>2, <2>3, <2>4
<1>2. CASE Len(a.held) >= MaxHeld
  <2>1. Capture(a, n + 1) = [a EXCEPT !.overflow = TRUE]
    BY <1>2 DEF Capture
  <2>2. PICK b : b = [a EXCEPT !.overflow = TRUE]
    OBVIOUS
  <2>3. /\ b.held = a.held /\ b.before = a.before /\ b.upto = a.upto /\ b.stage = a.stage
        /\ b.overflow = TRUE
    BY <1>1, <2>2 DEF Attempts
  <2>4. a.held # <<>>
    BY <1>1, <1>2, Bounds
  <2>5. /\ \A j \in 1..Len(b.held) : b.held[j] = b.held[1] + (j - 1)
        /\ b.held # <<>> => b.held[1] > o + b.before
        /\ ~b.overflow /\ b.held # <<>> => b.held[Len(b.held)] = n + 1
        /\ b.overflow => Len(b.held) >= MaxHeld
    BY <1>2, <2>3 DEF HeldFits
  <2>6. /\ o + b.before <= n + 1
        /\ b.stage = "served" => /\ o + b.upto <= n + 1 /\ b.before <= b.upto
                                 /\ b.held # <<>> => b.held[1] <= o + b.upto + 1
    BY <1>1, <2>3 DEF HeldFits
  <2> QED
    BY <2>1, <2>2, <2>3, <2>4, <2>5, <2>6 DEF HeldFits
<1>3. CASE Len(a.held) < MaxHeld
  <2>1. PICK h : h = Append(a.held, n + 1)
    OBVIOUS
  <2>2. Capture(a, n + 1) = [a EXCEPT !.held = h]
    BY <1>1, <1>3, <2>1, Bounds DEF Capture
  <2>3. /\ h \in Seq(Nat) /\ Len(h) = Len(a.held) + 1
        /\ h[Len(a.held) + 1] = n + 1 /\ \A j \in 1..Len(a.held) : h[j] = a.held[j]
    BY <1>1, <2>1, AppendProperties
  <2>4. PICK b : b = [a EXCEPT !.held = h]
    OBVIOUS
  <2>5. /\ b.held = h /\ b.before = a.before /\ b.upto = a.upto /\ b.stage = a.stage
        /\ b.overflow = a.overflow
    BY <1>1, <2>4 DEF Attempts
  <2>6. a.overflow = FALSE
    BY <1>1, <1>3, Bounds DEF HeldFits
  <2>7. a.held # <<>> => a.held[Len(a.held)] = n
    BY <2>6 DEF HeldFits
  <2>8. h # <<>> /\ h[Len(h)] = n + 1 /\ (a.held = <<>> => h[1] = n + 1)
        /\ (a.held # <<>> => h[1] = a.held[1])
    BY <1>1, <2>3
  <2>9. ASSUME NEW j \in 1..Len(h) PROVE h[j] = h[1] + (j - 1)
    <3>1. Len(h) = Len(a.held) + 1 /\ Len(a.held) \in Nat
      BY <1>1, <2>3
    <3>2. CASE j \in 1..Len(a.held)
      <4>1. a.held[j] = a.held[1] + (j - 1) /\ a.held # <<>>
        BY <1>1, <3>2 DEF HeldFits
      <4> QED
        BY <2>3, <2>8, <3>2, <4>1
    <3>3. CASE j = Len(a.held) + 1
      <4>1. CASE Len(a.held) = 0
        <5>1. j = 1 /\ h[1] = n + 1
          BY <1>1, <2>8, <3>3, <4>1
        <5> QED
          BY <5>1
      <4>2. CASE Len(a.held) # 0
        <5>1. Len(a.held) \in 1..Len(a.held) /\ a.held # <<>>
          BY <1>1, <4>2
        <5>2. n = a.held[1] + (Len(a.held) - 1) /\ h[1] = a.held[1]
          BY <2>7, <2>8, <5>1 DEF HeldFits
        <5>3. a.held[1] \in Nat
          BY <1>1, <4>2
        <5> QED
          <6>1. h[j] = n + 1
            BY <2>3, <3>3
          <6>2. n + 1 = a.held[1] + (j - 1)
            BY <1>1, <3>1, <3>3, <5>2, <5>3
          <6> QED
            BY <5>2, <6>1, <6>2
      <4> QED
        BY <4>1, <4>2
    <3> QED
      BY <3>1, <3>2, <3>3
  <2>10. h[1] > o + a.before
    BY <1>1, <2>8 DEF HeldFits
  <2>11. a.stage = "served" => /\ o + a.upto <= n + 1 /\ a.before <= a.upto
                               /\ h[1] <= o + a.upto + 1
    BY <1>1, <2>8 DEF HeldFits
  <2>12. o + a.before <= n + 1
    BY <1>1 DEF HeldFits
  <2>13. /\ b.held # <<>> => b.held[1] > o + b.before
         /\ ~b.overflow /\ b.held # <<>> => b.held[Len(b.held)] = n + 1
         /\ b.overflow => Len(b.held) >= MaxHeld
         /\ o + b.before <= n + 1
    BY <2>5, <2>6, <2>8, <2>10, <2>12
  <2>14. b.stage = "served" =>
           /\ o + b.upto <= n + 1 /\ b.before <= b.upto
           /\ b.held = <<>> => o + b.upto = n + 1
           /\ b.held # <<>> => b.held[1] <= o + b.upto + 1
    BY <2>5, <2>8, <2>11
  <2>15. \A j \in 1..Len(b.held) : b.held[j] = b.held[1] + (j - 1)
    BY <2>5, <2>9
  <2> QED
    BY <2>2, <2>4, <2>13, <2>14, <2>15 DEF HeldFits
<1> QED
  BY <1>1, <1>2, <1>3, Bounds

LEMMA CaptureFresh ==
  ASSUME NEW a \in Attempts, NEW n \in Nat, NEW member, NEW sent \in Nat, sent <= n,
         Fresh(a, member, sent)
  PROVE  Fresh(Capture(a, n + 1), member, IF member THEN n + 1 ELSE sent)
<1>1. a.held \in Seq(Nat) /\ Len(a.held) \in Nat
  BY DEF Attempts
<1>2. CASE Len(a.held) >= MaxHeld
  <2>1. PICK b : b = [a EXCEPT !.overflow = TRUE] /\ b = Capture(a, n + 1)
    BY <1>2 DEF Capture
  <2>2. b.held = a.held /\ b.revoked = a.revoked
    BY <2>1 DEF Attempts
  <2> QED
    BY <2>1, <2>2 DEF Fresh
<1>3. CASE Len(a.held) < MaxHeld
  <2>1. PICK h : h = Append(a.held, n + 1)
    OBVIOUS
  <2>2. PICK b : b = [a EXCEPT !.held = h] /\ b = Capture(a, n + 1)
    <3>1. Capture(a, n + 1) = [a EXCEPT !.held = h]
      BY <1>1, <1>3, <2>1, Bounds DEF Capture
    <3> QED
      BY <3>1
  <2>3. /\ Len(h) = Len(a.held) + 1
        /\ h[Len(a.held) + 1] = n + 1 /\ \A j \in 1..Len(a.held) : h[j] = a.held[j]
    BY <1>1, <2>1, AppendProperties
  <2>4. b.held = h /\ b.revoked = a.revoked
    BY <2>2 DEF Attempts
  <2>5. \A j \in 1..Len(h) : j \in 1..Len(a.held) \/ j = Len(a.held) + 1
    BY <1>1, <2>3
  <2>6. CASE member
    BY <2>2, <2>6 DEF Fresh
  <2>7. CASE ~member
    <3>1. ASSUME ~a.revoked, NEW j \in 1..Len(h) PROVE h[j] > sent
      <4>1. CASE j \in 1..Len(a.held)
        BY <2>3, <2>7, <3>1, <4>1 DEF Fresh
      <4>2. CASE j = Len(a.held) + 1
        BY <2>3, <4>2
      <4> QED
        BY <2>5, <4>1, <4>2
    <3> QED
      BY <2>2, <2>4, <2>7, <3>1 DEF Fresh
  <2> QED
    BY <2>6, <2>7
<1> QED
  BY <1>1, <1>2, <1>3, Bounds

LEMMA HoldsOn ==
  ASSUME Holding, conns' \in Nat, \A a \in attempts' : a \in attempts, UNCHANGED <<origin, pubs>>,
         UNCHANGED <<live, newest>> \/ live' = TRUE
  PROVE  Holding'
BY DEF Holding, Fresh

LEMMA HoldsNothing ==
  ASSUME conns' \in Nat, attempts' = {}
  PROVE  Holding'
BY DEF Holding

LEMMA PublishHolds ==
  ASSUME TypeInv, Holding, Publish
  PROVE  Holding'
<1>1. PICK i : i = pubs + 1
  OBVIOUS
<1>2. /\ pubs' = i /\ attempts' = {Capture(a, i) : a \in attempts}
      /\ newest' = IF live THEN i ELSE newest
      /\ UNCHANGED <<origin, live, conns>>
  BY <1>1 DEF Publish, bounds
<1>3. /\ pubs \in Nat /\ origin \in Nat /\ origin <= pubs /\ newest \in Nat /\ newest <= pubs
      /\ conns \in Nat
  BY Bounds DEF TypeInv, Scalars, Numbers, Ghosts, Holding
<1>4. ASSUME NEW a \in attempts
      PROVE  HeldFits(Capture(a, i), origin', pubs') /\ Fresh(Capture(a, i), live', newest')
  <2>1. AttemptOK(a, origin, pubs, nextRef) /\ HeldFits(a, origin, pubs) /\ Fresh(a, live, newest)
    BY DEF TypeInv, Parked, Holding
  <2>2. HeldFits(Capture(a, i), origin, i)
    BY <1>1, <1>3, <2>1, CaptureHolds
  <2>3. Fresh(Capture(a, i), live, IF live THEN i ELSE newest)
    BY <1>1, <1>3, <2>1, CaptureFresh DEF AttemptOK
  <2> QED
    BY <1>2, <2>2, <2>3
<1> QED
  BY <1>2, <1>3, <1>4 DEF Holding

LEMMA SubscribeHolds ==
  ASSUME TypeInv, Holding, ServerSubscribe
  PROVE  Holding'
<1>1. UNCHANGED <<origin, pubs, newest, conns>> /\ conns' \in Nat
  BY DEF ServerSubscribe, store, bounds, Holding
<1>2. PICK m : m = Head(c2s)
  OBVIOUS
<1>3. \/ UNCHANGED <<live, attempts>>
      \/ live' = TRUE /\ attempts' = attempts
      \/ Begin(m) /\ live' = live
  BY <1>2 DEF ServerSubscribe, LandPlain
<1>4. CASE Begin(m) /\ live' = live
  <2>1. PICK a : a =
          [ref |-> m.ref, offset |-> m.offset, epoch |-> m.epoch, seen |-> m.seen,
           stage |-> "serving", before |-> mark, upto |-> 0, held |-> <<>>, overflow |-> FALSE,
           revoked |-> FALSE]
    OBVIOUS
  <2>2. attempts' = attempts \cup {a}
    BY <1>4, <2>1 DEF Begin
  <2>3. HeldFits(a, origin, pubs) /\ Fresh(a, live, newest)
    <3>1. /\ a.held = <<>> /\ a.stage = "serving" /\ a.overflow = FALSE /\ a.before = mark
          /\ Len(a.held) = 0
      BY <2>1
    <3>2. origin + a.before <= pubs
      BY <3>1, Bounds DEF TypeInv, Scalars, Numbers
    <3> QED
      BY <3>1, <3>2 DEF HeldFits, Fresh
  <2> QED
    BY <1>1, <1>4, <2>2, <2>3 DEF Holding
<1> QED
  BY <1>1, <1>3, <1>4, HoldsOn

LEMMA UnsubscribeHolds ==
  ASSUME TypeInv, Holding, ServerUnsubscribe
  PROVE  Holding'
<1>1. /\ attempts' = {[a EXCEPT !.revoked = TRUE] : a \in attempts}
      /\ UNCHANGED <<origin, pubs, conns>> /\ conns \in Nat
  BY DEF ServerUnsubscribe, store, bounds, Holding
<1>2. ASSUME NEW a \in attempts
      PROVE  LET b == [a EXCEPT !.revoked = TRUE]
             IN  HeldFits(b, origin, pubs) /\ Fresh(b, live', newest')
  <2>1. PICK b : b = [a EXCEPT !.revoked = TRUE]
    OBVIOUS
  <2>2. a \in Attempts /\ HeldFits(a, origin, pubs)
    BY DEF TypeInv, Parked, AttemptOK, Holding
  <2>3. /\ b.held = a.held /\ b.before = a.before /\ b.upto = a.upto /\ b.stage = a.stage
        /\ b.overflow = a.overflow /\ b.revoked = TRUE
    BY <2>1, <2>2 DEF Attempts
  <2>4. HeldFits(b, origin, pubs)
    BY <2>2, <2>3 DEF HeldFits
  <2>5. Fresh(b, live', newest')
    BY <2>3 DEF Fresh
  <2> QED
    BY <2>1, <2>4, <2>5
<1> QED
  BY <1>1, <1>2 DEF Holding

LEMMA ServesHolds ==
  ASSUME TypeInv, Holding, HookServes
  PROVE  Holding'
<1>1. PICK a \in attempts :
        /\ attempts' = (attempts \ {a}) \cup {[a EXCEPT !.stage = "served", !.upto = Current]}
        /\ UNCHANGED <<origin, pubs, live, newest, conns>>
  BY DEF HookServes, store, bounds
<1>2. PICK b : b = [a EXCEPT !.stage = "served", !.upto = Current]
  OBVIOUS
<1>3. AttemptOK(a, origin, pubs, nextRef) /\ HeldFits(a, origin, pubs) /\ Fresh(a, live, newest)
  BY DEF TypeInv, Parked, Holding
<1>4. /\ b.held = a.held /\ b.before = a.before /\ b.upto = pubs - origin /\ b.stage = "served"
      /\ b.overflow = a.overflow /\ b.revoked = a.revoked
  BY <1>2, <1>3 DEF AttemptOK, Attempts, Current, Stamp
<1>5. /\ pubs \in Nat /\ origin \in Nat /\ origin <= pubs /\ a.before \in Nat
      /\ a.held \in Seq(Nat) /\ Len(a.held) \in Nat
  BY <1>3, Bounds DEF TypeInv, Scalars, Numbers, AttemptOK, Attempts
<1>6. /\ origin + b.upto <= pubs /\ b.before <= b.upto /\ origin + b.upto = pubs
      /\ b.held # <<>> => b.held[1] <= origin + b.upto + 1
  <2>1. a.held # <<>> => a.held[1] \in (origin + 1)..pubs
    <3>1. ASSUME a.held # <<>> PROVE 1 \in 1..Len(a.held)
      BY <1>5, <3>1
    <3> QED
      BY <1>3, <3>1 DEF AttemptOK
  <2>2. origin + a.before <= pubs
    BY <1>3 DEF HeldFits
  <2> QED
    BY <1>4, <1>5, <2>1, <2>2
<1>7. HeldFits(b, origin, pubs)
  BY <1>3, <1>4, <1>6 DEF HeldFits
<1>8. Fresh(b, live, newest)
  BY <1>3, <1>4 DEF Fresh
<1>9. \A x \in attempts' : x = b \/ x \in attempts
  BY <1>1, <1>2
<1> QED
  BY <1>1, <1>7, <1>8, <1>9 DEF Holding

\* A landing sends only frames that are newer than the last one sent.
LEMMA LandNewest ==
  ASSUME TypeInv, Holding, NEW a \in attempts, NEW covered, NEW truncated \in BOOLEAN,
         Land(a, covered, truncated), newest' # newest
  PROVE  newest' > newest
<1>1. LandInstalled(a, covered, truncated)
  BY DEF Land, LandHeld, LandRefused
<1>2. PICK taken \in 0..Len(Uncovered(a, covered)), m1 \in Answers, m2 \in Answers :
        newest' = Flush(a, covered, truncated, taken, m1, m2).newest
  BY <1>1 DEF LandInstalled
<1>3. Numbers /\ AttemptOK(a, origin, pubs, nextRef)
  BY DEF TypeInv, Scalars, Parked
<1>4. PICK l \in 1..Len(Uncovered(a, covered)) : newest' = Uncovered(a, covered)[l]
  BY <1>2, <1>3, FlushFacts
<1>5. PICK j \in 1..Len(a.held) : newest' = a.held[j]
  BY <1>3, <1>4, UncoveredFacts
<1> QED
  BY <1>1, <1>5 DEF LandInstalled, Holding, Fresh

LEMMA LandHolds ==
  ASSUME TypeInv, Holding, NEW a \in attempts, NEW covered, NEW truncated \in BOOLEAN,
         Land(a, covered, truncated), Leaving(a)
  PROVE  Holding'
<1>1. /\ attempts' = IF srv' THEN attempts \ {a} ELSE {}
      /\ UNCHANGED <<origin, pubs, conns>>
  BY DEF Leaving, store, bounds
<1>2. conns' \in Nat /\ (srv' => \A x \in attempts' : x \in attempts)
  BY <1>1 DEF Holding
<1>3. CASE ~srv'
  BY <1>1, <1>2, <1>3, HoldsNothing
<1>4. CASE srv' /\ UNCHANGED <<live, newest>>
  BY <1>1, <1>2, <1>4, HoldsOn
<1>5. CASE srv' /\ LandInstalled(a, covered, truncated)
  <2>1. live' = TRUE
    <3>1. PICK taken, m1, m2 :
            LET f == Flush(a, covered, truncated, taken, m1, m2) IN srv' = ~f.ended /\ live' = ~f.ended
      BY <1>5 DEF LandInstalled
    <3> QED
      BY <1>5, <3>1
  <2> QED
    BY <1>1, <1>2, <1>5, <2>1, HoldsOn
<1> QED
  BY <1>3, <1>4, <1>5 DEF Land, LandHeld, LandRefused

LEMMA InitHolds == Init => Holding
BY DEF Init, Holding

LEMMA NextHolds ==
  ASSUME TypeInv, Holding, [Next]_vars
  PROVE  Holding'
<1>1. conns \in Nat
  BY DEF Holding
<1>2. CASE EvictMark \/ UNCHANGED vars
  BY <1>1, <1>2, HoldsOn DEF EvictMark, vars, store, conn, bounds, ghosts
<1>3. CASE Overtake
  BY <1>1, <1>3, HoldsOn DEF Overtake, store
<1>4. CASE Restart \/ ConnectionLost
  BY <1>1, <1>4, HoldsNothing DEF Restart, ConnectionLost, bounds
<1>5. CASE Reconnect
  <2>1. attempts' = {} /\ conns' \in Nat
    BY <1>1, <1>5 DEF Reconnect, TypeInv, Closed
  <2> QED
    BY <2>1, HoldsNothing
<1>6. CASE Receive
  BY <1>1, <1>6, HoldsOn DEF Receive, store, bounds
<1>7. CASE RetryFires \/ Leave \/ Return
  BY <1>1, <1>7, HoldsOn DEF RetryFires, Leave, Return, store, bounds, ghosts
<1>8. CASE HookReturns \/ HookThrows
  <2>1. PICK a \in attempts : /\ \E covered : Land(a, covered, FALSE) \/ Land(a, covered, TRUE)
                              /\ Leaving(a)
    BY <1>8 DEF HookReturns, HookThrows
  <2> QED
    BY <2>1, LandHolds
<1> QED
  BY <1>2, <1>3, <1>4, <1>5, <1>6, <1>7, <1>8, PublishHolds, SubscribeHolds, UnsubscribeHolds,
     ServesHolds DEF Next

LEMMA HoldingHolds == Spec => []Holding
<1>1. Init => Holding
  BY InitHolds
<1>2. TypeInv /\ Holding /\ [Next]_vars => Holding'
  BY NextHolds
<1> QED
  BY <1>1, <1>2, TypesHold, PTL DEF Spec

\* Only a publication, a landing and a new connection touch the newest frame sent.
LEMMA NewestMoves ==
  ASSUME TypeInv, Holding, [Next]_vars
  PROVE  conns' = conns /\ newest' # newest => newest' > newest
<1> SUFFICES ASSUME conns' = conns, newest' # newest PROVE newest' > newest
  OBVIOUS
<1>1. conns \in Nat /\ newest \in Nat /\ newest <= pubs /\ pubs \in Nat
  BY Bounds DEF Holding, TypeInv, Scalars, Ghosts, Numbers
<1>2. ~Reconnect
  BY <1>1 DEF Reconnect
<1>3. /\ ~UNCHANGED vars /\ ~EvictMark /\ ~Restart /\ ~ServerSubscribe /\ ~ServerUnsubscribe
      /\ ~Overtake /\ ~HookServes /\ ~ConnectionLost /\ ~Receive /\ ~RetryFires /\ ~Leave
      /\ ~Return
  BY DEF vars, ghosts, EvictMark, Restart, ServerSubscribe, ServerUnsubscribe, Overtake,
         HookServes, ConnectionLost, Receive, RetryFires, Leave, Return
<1>4. CASE Publish
  BY <1>1, <1>4 DEF Publish
<1>5. CASE HookReturns \/ HookThrows
  <2>1. PICK a \in attempts : \E covered : Land(a, covered, FALSE) \/ Land(a, covered, TRUE)
    BY <1>5 DEF HookReturns, HookThrows
  <2> QED
    BY <2>1, LandNewest
<1> QED
  BY <1>2, <1>3, <1>4, <1>5 DEF Next

\* On one connection a live frame is always newer than the one before it: the frames that a
\* landing lets go are in the order of their publication and precede those that follow.
THEOREM LiveIsInOrder == Spec => LiveInOrder
<1>1. TypeInv /\ Holding /\ [Next]_vars => [conns' = conns /\ newest' # newest => newest' > newest]_vars
  BY NewestMoves
<1> QED
  BY <1>1, TypesHold, HoldingHolds, PTL DEF Spec, LiveInOrder
==============================================================================
