-------------------------- MODULE ResumeCoverProofs --------------------------
(***************************************************************************)
(* Proofs about ResumeCutover: a resumed topic has no silent gap.          *)
(*                                                                         *)
(* What the client holds and what is under way to it cover the             *)
(* publications up to every number that the client may come to store, or a *)
(* marker on the way tells it to read anew; and a recovery that the client *)
(* has no answer to is answered once, by the attempt that holds its ref.   *)
(***************************************************************************)
EXTENDS ResumeCutoverProofs

Unanswered(r) == \A p \in 1..Len(s2c) : s2c[p].k \in Answered => s2c[p].ref # r

\* A recovery waits for its answer at one place: in its request, then in its attempt.
WaitingOnce ==
  /\ \A a \in attempts : a.ref \in asked /\ Unanswered(a.ref)
  /\ \A a, b \in attempts : a.ref = b.ref => a = b

AskedOnce ==
  /\ \A i \in 1..Len(c2s) : c2s[i].op = "subscribe" =>
       /\ c2s[i].offset # 0 => c2s[i].ref \in asked
       /\ Unanswered(c2s[i].ref)
       /\ \A a \in attempts : a.ref # c2s[i].ref
  /\ \A i, j \in 1..Len(c2s) :
       c2s[i].op = "subscribe" /\ c2s[j].op = "subscribe" /\ c2s[i].ref = c2s[j].ref => i = j

Unique == WaitingOnce /\ AskedOnce

\* An item under way: of one epoch with the others, the current one while the connection
\* lasts, and numbered as that epoch numbers its publication.
StampedAs(m) ==
  /\ m.ep <= epoch
  /\ srv => m.ep = epoch
  /\ m.k \notin Data => m.pub = 0
  /\ m.ep = epoch => /\ m.k \in Data /\ m.seq # 0 => origin + m.seq = m.pub
                     /\ origin + pending.highest <= pubs

Stamps ==
  /\ seenIn <= epoch
  /\ \A p \in 1..Len(s2c) : StampedAs(s2c[p])
  /\ \A p, q \in 1..Len(s2c) : s2c[p].ep = s2c[q].ep
  /\ lastSeen # 0 /\ seenIn = epoch => origin + lastSeen <= pubs
  /\ srv => origin + pending.highest <= pubs
  /\ pending.ref = 0 => pending.highest = 0

\* An offset of the current epoch that is under way is one of its numbers.
RequestSeen(m) == m.seen = epoch => origin + m.offset <= pubs
AttemptSeen(a) ==
  a.seen = epoch => origin + a.offset <= pubs /\ (a.stage = "served" => a.offset <= a.upto)

Watermarks ==
  /\ Stamps
  /\ \A i \in 1..Len(c2s) : RequestSeen(c2s[i])
  /\ \A a \in attempts : AttemptSeen(a)

-----------------------------------------------------------------------------
Told(p) == \E m \in 1..p : s2c[m].k \in Markers
Has(p, i) == i \in known \/ \E m \in 1..p : s2c[m].pub = i

\* What the client has, with the first p items under way, reaches x.
Covered(p, x) == Told(p) \/ \A i \in (base + 1)..x : Has(p, i)

OffsetCovered == wanted /\ lastSeen # 0 /\ seenIn = epoch => KnownUpTo(origin + lastSeen)

MemberCovered == live => Covered(Len(s2c), pubs)

RequestCovered(m) == m.seen = epoch => Covered(Len(s2c), origin + m.offset)

AttemptCovered(a) ==
  /\ a.stage = "serving" /\ a.seen = epoch => Covered(Len(s2c), origin + a.offset)
  /\ a.stage = "served" => Covered(Len(s2c), origin + a.upto)

\* The client has an answer to all its recoveries when the item p arrives.
Settled(p) == \A r \in asked : \E q \in 1..(p - 1) : s2c[q].k \in Answered /\ s2c[q].ref = r

FrameCovered(p) ==
  s2c[p].k \in Data /\ s2c[p].seq # 0 /\ s2c[p].ep = epoch /\ Settled(p) => Covered(p, s2c[p].pub)

AckCovered(p) ==
  s2c[p].k = "subscribed" /\ s2c[p].ep = epoch =>
    /\ Covered(p, origin + pending.highest)
    /\ \A q \in 1..(p - 1) : Covered(p, s2c[q].pub)

Cover ==
  /\ OffsetCovered /\ MemberCovered
  /\ \A i \in 1..Len(c2s) : RequestCovered(c2s[i])
  /\ \A a \in attempts : AttemptCovered(a)
  /\ \A p \in 1..Len(s2c) : FrameCovered(p) /\ AckCovered(p)

CoverInv == ~overtaken /\ ~strayed => Cover

-----------------------------------------------------------------------------
(* Items that join or leave.                                               *)

LEMMA SentEntry ==
  ASSUME Wires, NEW w, Sends(w), NEW p \in 1..Len(s2c')
  PROVE  \/ p \in 1..Len(s2c) /\ s2c'[p] = s2c[p]
         \/ \E m \in 1..Len(w) : p = Len(s2c) + m /\ s2c'[p] = w[m]
<1>1. Len(s2c) \in Nat /\ Len(w) \in Nat /\ Len(s2c') = Len(s2c) + Len(w)
  BY DEF Wires, Sends
<1>2. CASE p <= Len(s2c)
  <2>1. p \in 1..Len(s2c)
    BY <1>1, <1>2
  <2> QED
    BY <2>1 DEF Sends
<1>3. CASE p > Len(s2c)
  <2>1. PICK m : m = p - Len(s2c)
    OBVIOUS
  <2>2. m \in 1..Len(w) /\ p = Len(s2c) + m
    BY <1>1, <1>3, <2>1
  <2> QED
    BY <2>2 DEF Sends
<1> QED
  BY <1>1, <1>2, <1>3

LEMMA TakenEntry ==
  ASSUME Wires, Takes, NEW p \in 1..Len(s2c')
  PROVE  p + 1 \in 1..Len(s2c) /\ s2c'[p] = s2c[p + 1] /\ 1 \in 1..Len(s2c)
<1>1. Len(s2c) \in Nat /\ Len(s2c') \in Nat
  BY DEF Wires, Takes
<1> QED
  BY <1>1 DEF Takes

LEMMA KindsApart ==
  Data \cap Markers = {} /\ Data \cap Answered = {} /\ Markers \cap Answered = {}
BY DEF Data, Markers, Answered

LEMMA UnansweredSent ==
  ASSUME Wires, NEW w, Sends(w), NEW r, Unanswered(r),
         \A m \in 1..Len(w) : w[m].k \in Answered => w[m].ref # r
  PROVE  Unanswered(r)'
<1> SUFFICES ASSUME NEW p \in 1..Len(s2c'), s2c'[p].k \in Answered PROVE s2c'[p].ref # r
  BY DEF Unanswered
<1>1. CASE p \in 1..Len(s2c) /\ s2c'[p] = s2c[p]
  BY <1>1 DEF Unanswered
<1>2. CASE \E m \in 1..Len(w) : p = Len(s2c) + m /\ s2c'[p] = w[m]
  BY <1>2
<1> QED
  BY <1>1, <1>2, SentEntry

LEMMA UnansweredTaken ==
  ASSUME Wires, Takes, NEW r, Unanswered(r)
  PROVE  Unanswered(r)'
BY TakenEntry DEF Unanswered

\* A ref that is not given out yet has no answer.
LEMMA UnansweredNew ==
  ASSUME Wires, nextRef \in Nat
  PROVE  Unanswered(nextRef)
<1> SUFFICES ASSUME NEW p \in 1..Len(s2c) PROVE s2c[p].ref # nextRef
  BY DEF Unanswered
<1>1. s2c[p] \in Items /\ s2c[p].ref < nextRef
  BY DEF Wires, ItemOK
<1>2. s2c[p].ref \in Nat
  BY <1>1 DEF Items
<1> QED
  BY <1>1, <1>2

LEMMA CaptureKeeps ==
  ASSUME NEW a \in Attempts, NEW i
  PROVE  /\ Capture(a, i).ref = a.ref /\ Capture(a, i).offset = a.offset
         /\ Capture(a, i).seen = a.seen /\ Capture(a, i).stage = a.stage
         /\ Capture(a, i).upto = a.upto /\ Capture(a, i).revoked = a.revoked
<1>1. PICK h, b, c : h = Append(a.held, i) /\ b = [a EXCEPT !.held = h]
                     /\ c = [a EXCEPT !.overflow = TRUE]
  OBVIOUS
<1>2. Capture(a, i) = b \/ Capture(a, i) = c
  BY <1>1 DEF Capture
<1>3. /\ b.ref = a.ref /\ b.offset = a.offset /\ b.seen = a.seen /\ b.stage = a.stage
      /\ b.upto = a.upto /\ b.revoked = a.revoked
  BY <1>1 DEF Attempts
<1>4. /\ c.ref = a.ref /\ c.offset = a.offset /\ c.seen = a.seen /\ c.stage = a.stage
      /\ c.upto = a.upto /\ c.revoked = a.revoked
  BY <1>1 DEF Attempts
<1> QED
  BY <1>2, <1>3, <1>4

-----------------------------------------------------------------------------
(* What a serving hook and a landing send.                                 *)

ServesAs(a, b, w) ==
  /\ a \in attempts /\ a.stage = "serving" /\ a \in Attempts
  /\ attempts' = (attempts \ {a}) \cup {b}
  /\ b.ref = a.ref /\ b.offset = a.offset /\ b.seen = a.seen /\ b.revoked = a.revoked
  /\ b.stage = "served" /\ b.upto = pubs - origin
  /\ Sends(w) /\ ServedOK(w, a)
  /\ \/ strayed' \/ a.seen = epoch
     \/ \E m \in 1..Len(w) : w[m].k \in Markers
  /\ ~strayed' => ~strayed

LEMMA ServesSends ==
  ASSUME TypeInv, HookServes
  PROVE  \E a, b, w : ServesAs(a, b, w)
<1>1. PICK a \in attempts, hook \in Hooks :
        /\ a.stage = "serving" /\ \E stamped \in BOOLEAN : s2c' = s2c \o Served(a, hook, stamped)
        /\ attempts' = (attempts \ {a}) \cup {[a EXCEPT !.stage = "served", !.upto = Current]}
        /\ strayed' = (strayed \/ Misread(a, hook))
  BY DEF HookServes
<1>2. PICK stamped \in BOOLEAN : s2c' = s2c \o Served(a, hook, stamped)
  BY <1>1
<1>3. PICK b, w : b = [a EXCEPT !.stage = "served", !.upto = Current] /\ w = Served(a, hook, stamped)
  OBVIOUS
<1>4. a \in Attempts
  BY DEF TypeInv, Parked, AttemptOK
<1>5. ServedOK(w, a) /\ (Stale(a) /\ hook = "compares" => \E m \in 1..Len(w) : w[m].k \in Markers)
  BY <1>3, <1>4, ServedFacts DEF TypeInv, Scalars
<1>6. Sends(w)
  BY <1>2, <1>3, <1>5, SendsThem DEF TypeInv, Wires, ServedOK
<1>7. /\ b.ref = a.ref /\ b.offset = a.offset /\ b.seen = a.seen /\ b.revoked = a.revoked
      /\ b.stage = "served" /\ b.upto = pubs - origin
  BY <1>3, <1>4 DEF Attempts, Current, Stamp
<1>8. /\ strayed' \/ a.seen = epoch \/ \E m \in 1..Len(w) : w[m].k \in Markers
      /\ ~strayed' => ~strayed
  BY <1>1, <1>5 DEF Misread
<1> QED
  BY <1>1, <1>3, <1>4, <1>5, <1>6, <1>7, <1>8 DEF ServesAs

\* A landing sends markers and frames of the current epoch, and an answer last.
LandItem(w, m, a) ==
  /\ w[m] \in Items /\ w[m].ep = epoch
  /\ \/ w[m].k \in Markers /\ w[m].pub = 0
     \/ w[m].k = "frame" /\ w[m].pub \in (origin + 1)..pubs /\ w[m].seq = w[m].pub - origin
     \/ w[m].k \in Answered /\ m = Len(w) /\ w[m].ref = a.ref /\ w[m].pub = 0

LandItems(w, a) == w \in Seq(Items) /\ \A m \in 1..Len(w) : LandItem(w, m, a)

\* What it sends joins the history that the hook covered with the live frames.
Joins(w, a, covered, truncated) ==
  \/ \E m \in 1..Len(w) : w[m].k \in Markers
  \/ /\ ~a.overflow /\ ~truncated
     /\ \A j \in 1..Len(a.held) : Stamp(a.held[j]) > Floor(a, covered) =>
          \E m \in 1..Len(w) : w[m].pub = a.held[j]

LandsAs(w, a, covered, truncated) ==
  /\ Sends(w) /\ LandItems(w, a)
  /\ \/ live /\ live'
     \/ ~live' /\ \A m \in 1..Len(w) : w[m].k # "subscribed"
     \/ live' /\ Joins(w, a, covered, truncated)

LEMMA LandsWithAnswer ==
  ASSUME TypeInv, NEW a, NEW x \in Items, x.k \in Answered, x.ref = a.ref, x.pub = 0, x.ep = epoch,
         s2c' = Append(s2c, x), UNCHANGED live, ~live => x.k # "subscribed",
         NEW covered, NEW truncated
  PROVE  LandsAs(<<x>>, a, covered, truncated)
<1>1. Sends(<<x>>)
  BY SendsOne DEF TypeInv, Wires
<1>2. <<x>> \in Seq(Items) /\ Len(<<x>>) = 1 /\ \A m \in 1..1 : <<x>>[m] = x /\ m = 1
  OBVIOUS
<1>3. LandItems(<<x>>, a)
  BY <1>2 DEF LandItems, LandItem
<1> QED
  BY <1>1, <1>2, <1>3 DEF LandsAs

\* The items of a flush, and an ack after them.
LEMMA FlushLands ==
  ASSUME TypeInv, NEW a, NEW v, NEW k, NEW u, FlushItems(v, u),
         \A l \in 1..Len(u) : u[l] \in (origin + 1)..pubs,
         k = <<>> \/ k = <<Ack(a.ref)>>, a.ref \in Nat
  PROVE  /\ LandItems(v \o k, a) /\ Len(v \o k) \in Nat
         /\ \A m \in 1..Len(v) : m \in 1..Len(v \o k) /\ (v \o k)[m] = v[m]
         /\ k = <<>> => \A m \in 1..Len(v \o k) : (v \o k)[m].k # "subscribed"
<1>1. PICK w : w = v \o k
  OBVIOUS
<1>2. PICK x : x = Ack(a.ref)
  OBVIOUS
<1>3. x \in Items /\ x.k = "subscribed" /\ x.ref = a.ref /\ x.pub = 0 /\ x.ep = epoch
  BY <1>2, ControlIsItem DEF TypeInv, Scalars
<1>4. k \in Seq(Items) /\ Len(k) \in {0, 1} /\ \A i \in 1..Len(k) : k[i] = x /\ i = 1
  <2>1. CASE k = <<>>
    BY <2>1
  <2>2. CASE k = <<x>>
    BY <1>3, <2>2
  <2> QED
    BY <1>2, <2>1, <2>2
<1>5. v \in Seq(Items) /\ Len(v) \in Nat
  BY DEF FlushItems
<1>6. /\ w \in Seq(Items) /\ Len(w) = Len(v) + Len(k)
      /\ \A i \in 1..Len(v) : w[i] = v[i]
      /\ \A i \in 1..Len(k) : w[Len(v) + i] = k[i]
  BY <1>1, <1>4, <1>5, ConcatProperties
<1>7. \A m \in 1..Len(v) : m \in 1..Len(w)
  BY <1>4, <1>5, <1>6
<1>8. \A m \in 1..Len(w) : \/ m \in 1..Len(v)
                           \/ Len(k) = 1 /\ m = Len(w) /\ w[m] = x
  <2>1. ASSUME NEW m \in 1..Len(w), m > Len(v) PROVE Len(k) = 1 /\ m = Len(w) /\ w[m] = x
    <3>1. Len(k) = 1 /\ m = Len(v) + 1 /\ 1 \in 1..Len(k)
      BY <1>4, <1>5, <1>6, <2>1
    <3> QED
      BY <1>4, <1>6, <3>1
  <2> QED
    BY <1>4, <1>5, <1>6, <2>1
<1>9. ASSUME NEW m \in 1..Len(v) PROVE LandItem(w, m, a) /\ w[m].k \notin Answered
  <2>1. EntryOK(v, m, u) /\ v[m] \in Items /\ w[m] = v[m]
    BY <1>5, <1>6 DEF FlushItems
  <2>2. CASE v[m].k = "truncated" /\ v[m].pub = 0
    BY <2>1, <2>2, KindsApart DEF LandItem, EntryOK, Markers, Answered
  <2>3. CASE v[m].k = "frame" /\ v[m].seq = v[m].pub - origin /\ \E l \in 1..Len(u) : v[m].pub = u[l]
    <3>1. v[m].pub \in (origin + 1)..pubs
      BY <2>3
    <3> QED
      BY <2>1, <2>3, <3>1 DEF LandItem, EntryOK, Answered
  <2> QED
    BY <2>1, <2>2, <2>3 DEF EntryOK
<1>10. LandItems(w, a)
  BY <1>3, <1>6, <1>8, <1>9 DEF LandItems, LandItem, Answered
<1>11. k = <<>> => \A m \in 1..Len(w) : w[m].k # "subscribed"
  BY <1>8, <1>9 DEF Answered
<1>12. Len(w) \in Nat
  BY <1>6
<1> QED
  BY <1>1, <1>6, <1>7, <1>10, <1>11, <1>12

LEMMA LandSends ==
  ASSUME TypeInv, NEW a \in attempts, NEW covered, NEW truncated \in BOOLEAN,
         Land(a, covered, truncated)
  PROVE  \E w : LandsAs(w, a, covered, truncated)
<1>1. /\ AttemptOK(a, origin, pubs, nextRef) /\ a.ref \in Nat /\ Numbers /\ s2c \in Seq(Items)
      /\ live \in BOOLEAN
  <2>1. AttemptOK(a, origin, pubs, nextRef) /\ Numbers /\ s2c \in Seq(Items) /\ nextRef \in Nat
    BY DEF TypeInv, Parked, Scalars, Wires, Offsets
  <2>2. live \in BOOLEAN
    BY DEF TypeInv, Scalars, Flags
  <2> QED
    BY <2>1, <2>2 DEF AttemptOK
<1>2. CASE LandHeld(a)
  <2>1. PICK x : x = Ack(a.ref)
    OBVIOUS
  <2>2. x \in Items /\ x.k = "subscribed" /\ x.ref = a.ref /\ x.pub = 0 /\ x.ep = epoch
    BY <1>1, <2>1, ControlIsItem
  <2>3. s2c' = Append(s2c, x) /\ live /\ UNCHANGED live /\ x.k \in Answered
    BY <1>2, <2>1, <2>2 DEF LandHeld, Answered
  <2>4. LandsAs(<<x>>, a, covered, truncated)
    BY <2>2, <2>3, LandsWithAnswer
  <2> QED
    BY <2>4
<1>3. CASE LandRefused(a)
  <2>1. PICK reason \in {"RATE_LIMITED", "FORBIDDEN"} :
          s2c' = Append(s2c, Denied(a.ref, reason)) /\ UNCHANGED live
    BY <1>3 DEF LandRefused
  <2>2. PICK x : x = Denied(a.ref, reason)
    OBVIOUS
  <2>3. x \in Items /\ x.k = reason /\ x.ref = a.ref /\ x.pub = 0 /\ x.ep = epoch
    BY <1>1, <2>2, ControlIsItem
  <2>4. x.k \in Answered /\ x.k # "subscribed"
    BY <2>3 DEF Answered
  <2>5. LandsAs(<<x>>, a, covered, truncated)
    BY <2>1, <2>2, <2>3, <2>4, LandsWithAnswer
  <2> QED
    BY <2>5
<1>4. CASE LandInstalled(a, covered, truncated)
  <2>1. PICK taken \in 0..Len(Uncovered(a, covered)), m1 \in Answers, m2 \in Answers,
             acked \in BOOLEAN :
          LET f == Flush(a, covered, truncated, taken, m1, m2) IN
            /\ s2c' = s2c \o f.items \o (IF acked /\ ~f.ended THEN <<Ack(a.ref)>> ELSE <<>>)
            /\ live' = ~f.ended
    BY <1>4 DEF LandInstalled
  <2>2. PICK f, u, v, k : /\ f = Flush(a, covered, truncated, taken, m1, m2)
                          /\ u = Uncovered(a, covered) /\ v = f.items
                          /\ k = IF acked /\ ~f.ended THEN <<Ack(a.ref)>> ELSE <<>>
    OBVIOUS
  <2>3. s2c' = s2c \o v \o k /\ live' = ~f.ended
    BY <2>1, <2>2
  <2>4. /\ FlushItems(Flush(a, covered, truncated, taken, m1, m2).items, Uncovered(a, covered))
        /\ Flush(a, covered, truncated, taken, m1, m2).ended \in BOOLEAN
        /\ ~Flush(a, covered, truncated, taken, m1, m2).ended =>
             \/ \E m \in 1..Len(Flush(a, covered, truncated, taken, m1, m2).items) :
                  Flush(a, covered, truncated, taken, m1, m2).items[m].k = "truncated"
             \/ /\ ~a.overflow /\ ~truncated
                /\ \A l \in 1..Len(Uncovered(a, covered)) :
                     \E m \in 1..Len(Flush(a, covered, truncated, taken, m1, m2).items) :
                       Flush(a, covered, truncated, taken, m1, m2).items[m].pub = Uncovered(a, covered)[l]
    BY <1>1, FlushFacts
  <2>5. /\ FlushItems(v, u) /\ f.ended \in BOOLEAN
        /\ ~f.ended => \/ \E m \in 1..Len(v) : v[m].k = "truncated"
                       \/ /\ ~a.overflow /\ ~truncated
                          /\ \A l \in 1..Len(u) : \E m \in 1..Len(v) : v[m].pub = u[l]
    BY <2>2, <2>4
  <2>6. /\ \A l \in 1..Len(u) : u[l] \in (origin + 1)..pubs
        /\ \A j \in 1..Len(a.held) : Stamp(a.held[j]) > Floor(a, covered) =>
             \E l \in 1..Len(u) : u[l] = a.held[j]
    <3>1. /\ \A l \in 1..Len(Uncovered(a, covered)) : Uncovered(a, covered)[l] \in (origin + 1)..pubs
          /\ \A j \in 1..Len(a.held) : Stamp(a.held[j]) > Floor(a, covered) =>
               \E l \in 1..Len(Uncovered(a, covered)) : Uncovered(a, covered)[l] = a.held[j]
      BY <1>1, UncoveredFacts
    <3> QED
      BY <2>2, <3>1
  <2>7. PICK w : w = v \o k
    OBVIOUS
  <2>8. /\ LandItems(w, a) /\ Len(w) \in Nat
        /\ \A m \in 1..Len(v) : m \in 1..Len(w) /\ w[m] = v[m]
        /\ k = <<>> => \A m \in 1..Len(w) : w[m].k # "subscribed"
    <3>1. k = <<>> \/ k = <<Ack(a.ref)>>
      BY <2>2
    <3>2. FlushItems(v, u) /\ a.ref \in Nat /\ \A l \in 1..Len(u) : u[l] \in (origin + 1)..pubs
      BY <1>1, <2>5, <2>6
    <3>3. /\ LandItems(v \o k, a) /\ Len(v \o k) \in Nat
          /\ \A m \in 1..Len(v) : m \in 1..Len(v \o k) /\ (v \o k)[m] = v[m]
          /\ k = <<>> => \A m \in 1..Len(v \o k) : (v \o k)[m].k # "subscribed"
      BY <3>1, <3>2, FlushLands
    <3> QED
      BY <2>7, <3>3
  <2>9. Sends(w)
    <3>1. v \in Seq(Items) /\ k \in Seq(Items) /\ w \in Seq(Items)
      <4>1. Ack(a.ref) \in Items
        BY <1>1, ControlIsItem
      <4>2. k \in Seq(Items)
        BY <2>2, <4>1
      <4> QED
        BY <2>5, <2>8, <4>2 DEF FlushItems, LandItems
    <3>2. (s2c \o v) \o k = s2c \o (v \o k)
      <4>1. s2c \in Seq(Items) /\ v \in Seq(Items) /\ k \in Seq(Items)
        BY <1>1, <3>1
      <4> QED
        BY <4>1, ConcatAssociative
    <3>3. s2c' = s2c \o w
      BY <2>3, <2>7, <3>2
    <3> QED
      BY <1>1, <3>1, <3>3, SendsThem
  <2>10. CASE f.ended
    <3>1. k = <<>> /\ ~live'
      BY <2>2, <2>3, <2>10
    <3> QED
      BY <2>8, <2>9, <3>1 DEF LandsAs
  <2>11. CASE ~f.ended
    <3>1. CASE \E m \in 1..Len(v) : v[m].k = "truncated"
      <4>1. \E m \in 1..Len(w) : w[m].k \in Markers
        BY <2>8, <3>1 DEF Markers
      <4> QED
        BY <2>3, <2>8, <2>9, <2>11, <4>1 DEF LandsAs, Joins
    <3>2. CASE /\ ~a.overflow /\ ~truncated
               /\ \A l \in 1..Len(u) : \E m \in 1..Len(v) : v[m].pub = u[l]
      <4>1. ASSUME NEW j \in 1..Len(a.held), Stamp(a.held[j]) > Floor(a, covered)
            PROVE  \E m \in 1..Len(w) : w[m].pub = a.held[j]
        <5>1. PICK l \in 1..Len(u) : u[l] = a.held[j]
          BY <2>6, <4>1
        <5>2. PICK m \in 1..Len(v) : v[m].pub = u[l]
          BY <3>2
        <5> QED
          BY <2>8, <5>1, <5>2
      <4> QED
        BY <2>3, <2>8, <2>9, <2>11, <3>2, <4>1 DEF LandsAs, Joins
    <3> QED
      BY <2>5, <2>11, <3>1, <3>2
  <2> QED
    BY <2>5, <2>9, <2>10, <2>11
<1> QED
  BY <1>2, <1>3, <1>4 DEF Land


\* The attempt that settles, and what its hook reported.
SettlesAs(a, covered, truncated) ==
  /\ a \in attempts /\ truncated \in BOOLEAN
  /\ Land(a, covered, truncated) /\ Leaving(a)
  /\ ~truncated => a.stage = "served" /\ covered \in Reports(a)
  /\ ~strayed' => ~strayed /\ (truncated \/ ~Vouches(a, covered))

LEMMA Settling ==
  ASSUME HookReturns \/ HookThrows
  PROVE  \E a, covered, truncated : SettlesAs(a, covered, truncated)
<1>1. CASE HookReturns
  <2>1. PICK a \in attempts : /\ a.stage = "served" /\ Leaving(a)
                              /\ \E covered \in Reports(a) :
                                   Land(a, covered, FALSE) /\ strayed' = (strayed \/ Vouches(a, covered))
    BY <1>1 DEF HookReturns
  <2>2. PICK covered \in Reports(a) :
          Land(a, covered, FALSE) /\ strayed' = (strayed \/ Vouches(a, covered))
    BY <2>1
  <2>3. SettlesAs(a, covered, FALSE)
    BY <2>1, <2>2 DEF SettlesAs
  <2> QED
    BY <2>3
<1>2. CASE HookThrows
  <2>1. PICK a \in attempts : Leaving(a) /\ Land(a, None, TRUE) /\ UNCHANGED strayed
    BY <1>2 DEF HookThrows
  <2>2. SettlesAs(a, None, TRUE)
    BY <2>1 DEF SettlesAs
  <2> QED
    BY <2>2
<1> QED
  BY <1>1, <1>2

-----------------------------------------------------------------------------
(* The steps of the server and the client, in the words of the proofs.      *)

\* What a publication sends.
PublishesAs(w) ==
  /\ Sends(w) /\ pubs' = pubs + 1
  /\ attempts' = {Capture(a, pubs + 1) : a \in attempts}
  /\ UNCHANGED <<origin, epoch, srv, live, c2s, client, known, base, seenIn, overtaken,
                 asked, strayed>>
  /\ \A m \in 1..Len(w) : /\ live /\ w[m].k = "frame" /\ w[m].pub = pubs + 1
                          /\ w[m].seq = (pubs + 1) - origin /\ w[m].ep = epoch
  /\ live => 1 \in 1..Len(w)

LEMMA Publishing ==
  ASSUME TypeInv, Publish
  PROVE  \E w : PublishesAs(w)
<1>1. PICK i, x : i = pubs + 1 /\ x = Frame(i)
  OBVIOUS
<1>2. /\ pubs' = pubs + 1 /\ attempts' = {Capture(a, pubs + 1) : a \in attempts}
      /\ s2c' = IF live THEN Append(s2c, x) ELSE s2c
      /\ UNCHANGED <<origin, epoch, srv, live, c2s, client, known, base, seenIn, overtaken,
                 asked, strayed>>
  BY <1>1 DEF Publish
<1>3. CASE live
  <2>1. i \in Nat /\ i - origin \in Nat /\ epoch \in Epochs
    BY <1>1, Bounds DEF TypeInv, Scalars, Numbers
  <2>2. x \in Items /\ x.k = "frame" /\ x.pub = i /\ x.seq = i - origin /\ x.ep = epoch
    BY <1>1, <2>1 DEF Frame, Item, Items, Data, Stamp
  <2>3. Sends(<<x>>)
    BY <1>2, <1>3, <2>2, SendsOne DEF TypeInv, Wires
  <2>4. PICK w : w = <<x>>
    OBVIOUS
  <2>5. Len(w) = 1 /\ w[1] = x
    BY <2>4
  <2>6. \A m \in 1..Len(w) : /\ live /\ w[m].k = "frame" /\ w[m].pub = pubs + 1
                             /\ w[m].seq = (pubs + 1) - origin /\ w[m].ep = epoch
    <3>1. x.pub = pubs + 1 /\ x.seq = (pubs + 1) - origin
      BY <1>1, <2>2
    <3>2. \A m \in 1..Len(w) : w[m] = x
      BY <2>5
    <3> QED
      BY <1>3, <2>2, <3>1, <3>2, Zenon
  <2>7. Sends(w) /\ 1 \in 1..Len(w)
    BY <2>3, <2>4, <2>5
  <2>8. PublishesAs(w)
    BY <1>2, <2>6, <2>7, Zenon DEF PublishesAs
  <2> QED
    BY <2>8
<1>4. CASE ~live
  <2>1. Sends(<<>>)
    BY <1>2, <1>4, SendsNothing DEF TypeInv, Wires
  <2>2. PublishesAs(<<>>)
    BY <1>2, <1>4, <2>1 DEF PublishesAs
  <2> QED
    BY <2>2
<1> QED
  BY <1>3, <1>4

\* What a subscribe frame leads to.
SubscribesAs(m, w) ==
  /\ srv /\ c2s # <<>> /\ m = Head(c2s) /\ c2s' = Tail(c2s) /\ m.op = "subscribe"
  /\ UNCHANGED <<store, srv, client, nextRef, known, seenIn, asked>>
  /\ Sends(w) /\ Len(w) <= 1
  /\ \A l \in 1..Len(w) : /\ w[l].k \in Answered /\ w[l].pub = 0 /\ w[l].ep = epoch
                          /\ w[l].ref = m.ref
  /\ \/ /\ UNCHANGED <<live, attempts, base, overtaken, strayed>>
        /\ \A l \in 1..Len(w) : w[l].k # "subscribed"
     \/ /\ m.offset = 0 /\ live' = TRUE /\ UNCHANGED attempts
        /\ base' = (IF live THEN base ELSE pubs) /\ overtaken' = (overtaken /\ live)
        /\ strayed' = (strayed /\ live)
     \/ m.offset # 0 /\ Begin(m) /\ Len(w) = 0 /\ UNCHANGED <<live, base, overtaken, strayed>>

LEMMA Subscribing ==
  ASSUME TypeInv, ServerSubscribe
  PROVE  \E m, w : SubscribesAs(m, w)
<1>1. PICK m : m = Head(c2s)
  OBVIOUS
<1>2. /\ srv /\ c2s # <<>> /\ c2s' = Tail(c2s) /\ m.op = "subscribe"
      /\ UNCHANGED <<store, srv, client, nextRef, known, seenIn, asked>>
  BY <1>1 DEF ServerSubscribe
<1>3. m.ref \in Nat /\ Numbers /\ s2c \in Seq(Items)
  <2>1. RequestOK(m, nextRef)
    <3>1. Asked(c2s, nextRef)
      BY WiresParts DEF TypeInv
    <3> QED
      BY <1>1, <1>2, <3>1, AskedFirst
  <2>2. m.ref \in Nat
    BY <2>1 DEF RequestOK, Requests
  <2> QED
    BY <2>2 DEF TypeInv, Scalars, Wires
<1>4. ASSUME NEW x \in Items, x.k \in Answered, x.pub = 0, x.ep = epoch, x.ref = m.ref,
             s2c' = Append(s2c, x),
             \/ UNCHANGED <<live, attempts, base, overtaken, strayed>> /\ x.k # "subscribed"
             \/ /\ m.offset = 0 /\ live' = TRUE /\ UNCHANGED attempts
                /\ base' = (IF live THEN base ELSE pubs) /\ overtaken' = (overtaken /\ live)
                /\ strayed' = (strayed /\ live)
      PROVE  SubscribesAs(m, <<x>>)
  <2>1. Sends(<<x>>)
    BY <1>3, <1>4, SendsOne
  <2>2. Len(<<x>>) = 1 /\ \A l \in 1..1 : <<x>>[l] = x
    OBVIOUS
  <2> QED
    BY <1>1, <1>2, <1>4, <2>1, <2>2 DEF SubscribesAs
<1>5. CASE \E reason \in {"RATE_LIMITED", "FORBIDDEN"} :
             /\ s2c' = Append(s2c, Denied(m.ref, reason))
             /\ UNCHANGED <<live, attempts, base, overtaken, strayed>>
  <2>1. PICK reason \in {"RATE_LIMITED", "FORBIDDEN"} :
             /\ s2c' = Append(s2c, Denied(m.ref, reason))
             /\ UNCHANGED <<live, attempts, base, overtaken, strayed>>
    BY <1>5
  <2>2. PICK x : x = Denied(m.ref, reason)
    OBVIOUS
  <2>3. x \in Items /\ x.k = reason /\ x.pub = 0 /\ x.ep = epoch /\ x.ref = m.ref
    BY <1>3, <2>2, ControlIsItem
  <2>4. x.k \in Answered /\ x.k # "subscribed"
    BY <2>3 DEF Answered
  <2> QED
    BY <1>4, <2>1, <2>2, <2>3, <2>4
<1>6. CASE m.offset = 0 /\ LandPlain(m)
  <2>1. PICK x : x = Ack(m.ref)
    OBVIOUS
  <2>2. x \in Items /\ x.k = "subscribed" /\ x.pub = 0 /\ x.ep = epoch /\ x.ref = m.ref
    BY <1>3, <2>1, ControlIsItem
  <2>3. x.k \in Answered
    BY <2>2 DEF Answered
  <2> QED
    BY <1>4, <1>6, <2>1, <2>2, <2>3 DEF LandPlain
<1>7. CASE m.offset # 0 /\ Begin(m) /\ UNCHANGED <<live, s2c, base, overtaken, strayed>>
  <2>1. Sends(<<>>) /\ Len(<<>>) = 0
    BY <1>3, <1>7, SendsNothing
  <2>2. SubscribesAs(m, <<>>)
    BY <1>1, <1>2, <1>7, <2>1 DEF SubscribesAs
  <2> QED
    BY <2>2
<1> QED
  BY <1>1, <1>5, <1>6, <1>7 DEF ServerSubscribe

\* What the client takes, in the words of the module.
LEMMA Taking ==
  ASSUME TypeInv, Receive
  PROVE  /\ Takes /\ Wires /\ link
         /\ \/ ReceiveFrame(s2c[1]) \/ ReceiveMarker(s2c[1])
            \/ ReceiveAck(s2c[1]) \/ ReceiveDenied(s2c[1])
         /\ s2c[1].k \notin Markers /\ ~strayed' => ~strayed /\ ~Forgetful
         /\ UNCHANGED <<store, srv, live, attempts, c2s, link, wanted, bounds, base, newest>>
<1>1. Takes /\ Head(s2c) = s2c[1] /\ Wires
  BY TakesOne DEF Receive, TypeInv, Wires
<1> QED
  BY <1>1 DEF Receive, Markers

\* Only frames, markers and answers arrive.
LEMMA KindsTaken ==
  ASSUME NEW m
  PROVE  /\ ReceiveFrame(m) => m.k \in Data
         /\ ReceiveMarker(m) => m.k \in Markers
         /\ ReceiveAck(m) => m.k = "subscribed" /\ m.k \in Answered
         /\ ReceiveDenied(m) => m.k \in Answered /\ m.k # "subscribed"
BY DEF ReceiveFrame, ReceiveMarker, ReceiveAck, ReceiveDenied, Data, Markers, Answered

\* A request joins the others.
LEMMA AskEntry ==
  ASSUME c2s \in Seq(Requests), NEW m, c2s' = c2s \/ c2s' = Append(c2s, m)
  PROVE  \A i \in 1..Len(c2s') : \/ i \in 1..Len(c2s) /\ c2s'[i] = c2s[i]
                                 \/ i = Len(c2s) + 1 /\ c2s'[i] = m
<1>1. Len(c2s) \in Nat
  OBVIOUS
<1>2. CASE c2s' = c2s
  BY <1>2
<1>3. CASE c2s' = Append(c2s, m)
  <2>1. PICK w : w = Append(c2s, m)
    OBVIOUS
  <2>2. Len(w) = Len(c2s) + 1
    BY <2>1
  <2>3. \A i \in 1..Len(c2s) : w[i] = c2s[i]
    BY <2>1
  <2>4. w[Len(c2s) + 1] = m
    BY <2>1
  <2>5. \A i \in 1..Len(w) : i \in 1..Len(c2s) \/ i = Len(c2s) + 1
    BY <1>1, <2>2
  <2>6. ASSUME NEW i \in 1..Len(w)
        PROVE  \/ i \in 1..Len(c2s) /\ w[i] = c2s[i]
               \/ i = Len(c2s) + 1 /\ w[i] = m
    BY <2>3, <2>4, <2>5
  <2>7. c2s' = w
    BY <1>3, <2>1
  <2> QED
    BY <2>6, <2>7
<1> QED
  BY <1>2, <1>3

-----------------------------------------------------------------------------
(* A recovery waits at one place.                                          *)

\* The requests that are left once the first d were taken.
Left(d) == \A i \in 1..Len(c2s') : i + d \in 1..Len(c2s) /\ c2s'[i] = c2s[i + d]

LEMMA LeftAll ==
  ASSUME Wires, c2s' = c2s \/ c2s' = <<>>
  PROVE  Left(0)
<1>1. Len(c2s) \in Nat
  BY DEF Wires
<1>2. \A i \in 1..Len(c2s) : i + 0 = i
  BY <1>1
<1>3. Len(<<>>) = 0
  OBVIOUS
<1> QED
  BY <1>2, <1>3 DEF Left

LEMMA LeftTail ==
  ASSUME Wires, c2s # <<>>, c2s' = Tail(c2s)
  PROVE  Left(1) /\ Head(c2s) = c2s[1] /\ 1 \in 1..Len(c2s)
<1>1. PICK t : t = Tail(c2s)
  OBVIOUS
<1>2. c2s \in Seq(Requests)
  BY DEF Wires
<1>3. /\ Head(c2s) = c2s[1] /\ Len(c2s) \in Nat /\ Len(c2s) >= 1 /\ Len(t) = Len(c2s) - 1
      /\ \A i \in 1..Len(t) : t[i] = c2s[i + 1]
  BY <1>1, <1>2, HeadTailProperties
<1>4. 1 \in 1..Len(c2s) /\ \A i \in 1..Len(t) : i + 1 \in 1..Len(c2s)
  BY <1>3
<1> QED
  BY <1>1, <1>3, <1>4 DEF Left

\* The server answers what it takes, if it answers.
LEMMA UniqueSent ==
  ASSUME Wires, Unique, NEW w, Sends(w), asked' = asked, NEW d \in Nat, Left(d),
         \A b \in attempts' : \E a \in attempts : b.ref = a.ref,
         \A b, e \in attempts' : b.ref = e.ref => b = e,
         \A m \in 1..Len(w) : w[m].k \in Answered =>
           /\ \A b \in attempts' : b.ref # w[m].ref
           /\ \A i \in 1..Len(c2s') : c2s'[i].op = "subscribe" => c2s'[i].ref # w[m].ref
  PROVE  Unique'
<1>1. ASSUME NEW b \in attempts' PROVE b.ref \in asked' /\ Unanswered(b.ref)'
  <2>1. PICK a \in attempts : b.ref = a.ref
    OBVIOUS
  <2>2. PICK r : r = a.ref
    OBVIOUS
  <2>3. r \in asked /\ Unanswered(r)
    BY <2>2 DEF Unique, WaitingOnce
  <2>4. Unanswered(r)'
    BY <1>1, <2>1, <2>2, <2>3, UnansweredSent
  <2> QED
    BY <2>1, <2>2, <2>3, <2>4
<1>2. WaitingOnce'
  BY <1>1 DEF WaitingOnce
<1>3. ASSUME NEW i \in 1..Len(c2s'), c2s'[i].op = "subscribe"
      PROVE  /\ c2s'[i].offset # 0 => c2s'[i].ref \in asked'
             /\ Unanswered(c2s[i].ref)'
             /\ \A b \in attempts' : b.ref # c2s'[i].ref
  <2>1. PICK r : r = c2s'[i].ref
    OBVIOUS
  <2>2. i + d \in 1..Len(c2s) /\ c2s'[i] = c2s[i + d]
    BY DEF Left
  <2>3. /\ c2s'[i].offset # 0 => r \in asked
        /\ Unanswered(r) /\ \A a \in attempts : a.ref # r
    BY <1>3, <2>1, <2>2 DEF Unique, AskedOnce
  <2>4. Unanswered(r)'
    BY <1>3, <2>1, <2>3, UnansweredSent
  <2> QED
    BY <2>1, <2>3, <2>4 DEF Unanswered
<1>4. ASSUME NEW i \in 1..Len(c2s'), NEW j \in 1..Len(c2s'),
             c2s'[i].op = "subscribe", c2s'[j].op = "subscribe", c2s'[i].ref = c2s'[j].ref
      PROVE  i = j
  <2>1. /\ i + d \in 1..Len(c2s) /\ c2s'[i] = c2s[i + d]
        /\ j + d \in 1..Len(c2s) /\ c2s'[j] = c2s[j + d]
    BY DEF Left
  <2>2. i + d = j + d
    BY <1>4, <2>1 DEF Unique, AskedOnce
  <2>3. i \in Int /\ j \in Int
    OBVIOUS
  <2> QED
    BY <2>2, <2>3
<1>5. AskedOnce'
  BY <1>3, <1>4 DEF AskedOnce
<1> QED
  BY <1>2, <1>5 DEF Unique

\* The client takes an item; an answer ends the recovery of its ref.
LEMMA UniqueTaken ==
  ASSUME Wires, Unique, Takes, UNCHANGED <<attempts, c2s>>,
         asked' = asked \/ (s2c[1].k \in Answered /\ asked' = asked \ {s2c[1].ref})
  PROVE  Unique'
<1>1. ASSUME NEW r, Unanswered(r) PROVE Unanswered(r)' /\ (r \in asked => r \in asked')
  <2>1. 1 \in 1..Len(s2c)
    BY DEF Takes, Wires
  <2>2. s2c[1].k \in Answered => s2c[1].ref # r
    BY <1>1, <2>1 DEF Unanswered
  <2> QED
    BY <1>1, <2>2, UnansweredTaken
<1>2. WaitingOnce'
  BY <1>1 DEF Unique, WaitingOnce
<1>3. ASSUME NEW i \in 1..Len(c2s'), c2s'[i].op = "subscribe"
      PROVE  /\ c2s'[i].offset # 0 => c2s'[i].ref \in asked'
             /\ Unanswered(c2s[i].ref)'
             /\ \A b \in attempts' : b.ref # c2s'[i].ref
  <2>1. PICK r : r = c2s[i].ref
    OBVIOUS
  <2>2. /\ c2s[i].offset # 0 => r \in asked
        /\ Unanswered(r) /\ \A a \in attempts : a.ref # r
    BY <1>3, <2>1 DEF Unique, AskedOnce
  <2> QED
    BY <1>1, <2>1, <2>2 DEF Unanswered
<1>4. AskedOnce'
  BY <1>3 DEF Unique, AskedOnce
<1> QED
  BY <1>2, <1>4 DEF Unique

\* The client sends a request, with a ref of its own if it subscribes.
LEMMA UniqueAsks ==
  ASSUME TypeInv, Unique, UNCHANGED <<attempts, s2c>>, NEW m, c2s' = c2s \/ c2s' = Append(c2s, m),
         m.op = "subscribe" => m.ref = nextRef /\ (m.offset # 0 => nextRef \in asked'),
         asked \subseteq asked'
  PROVE  Unique'
<1>1. /\ Wires /\ nextRef \in Nat /\ c2s \in Seq(Requests) /\ Unanswered(nextRef)
      /\ \A i \in 1..Len(c2s) : c2s[i].op = "subscribe" => c2s[i].ref # nextRef
      /\ \A a \in attempts : a.ref # nextRef
  <2>1. Wires /\ nextRef \in Nat /\ c2s \in Seq(Requests)
    BY DEF TypeInv, Wires, Scalars, Offsets
  <2>2. \A i \in 1..Len(c2s) : c2s[i].op = "subscribe" => c2s[i].ref # nextRef
    BY <2>1 DEF Wires
  <2>3. \A a \in attempts : a.ref # nextRef
    BY <2>1 DEF TypeInv, Parked, AttemptOK
  <2> QED
    BY <2>1, <2>2, <2>3, UnansweredNew
<1>2. \A r : Unanswered(r) => Unanswered(r)'
  BY DEF Unanswered
<1>3. WaitingOnce'
  BY <1>2 DEF Unique, WaitingOnce
<1>4. \A i \in 1..Len(c2s') : \/ i \in 1..Len(c2s) /\ c2s'[i] = c2s[i]
                              \/ i = Len(c2s) + 1 /\ c2s'[i] = m
  BY <1>1, AskEntry
<1>5. ASSUME NEW i \in 1..Len(c2s'), c2s'[i].op = "subscribe"
      PROVE  /\ c2s'[i].offset # 0 => c2s'[i].ref \in asked'
             /\ Unanswered(c2s[i].ref)'
             /\ \A b \in attempts' : b.ref # c2s'[i].ref
  <2>1. PICK r : r = c2s'[i].ref
    OBVIOUS
  <2>2. Unanswered(r) /\ (c2s'[i].offset # 0 => r \in asked') /\ \A b \in attempts : b.ref # r
    <3>1. CASE i \in 1..Len(c2s) /\ c2s'[i] = c2s[i]
      BY <1>5, <2>1, <3>1 DEF Unique, AskedOnce
    <3>2. CASE c2s'[i] = m
      BY <1>1, <1>5, <2>1, <3>2
    <3> QED
      BY <1>4, <3>1, <3>2
  <2> QED
    BY <1>2, <2>1, <2>2 DEF Unanswered
<1>6. \A i, j \in 1..Len(c2s') :
        c2s'[i].op = "subscribe" /\ c2s'[j].op = "subscribe" /\ c2s'[i].ref = c2s'[j].ref => i = j
  BY <1>1, <1>4 DEF Unique, AskedOnce
<1>7. AskedOnce'
  BY <1>5, <1>6 DEF AskedOnce
<1> QED
  BY <1>3, <1>7 DEF Unique

LEMMA UniqueNothing ==
  ASSUME attempts' = {}, c2s' = <<>>
  PROVE  Unique'
<1>1. Len(<<>>) = 0 /\ 1..0 = {}
  OBVIOUS
<1> QED
  BY <1>1 DEF Unique, WaitingOnce, AskedOnce

LEMMA PublishUnique ==
  ASSUME TypeInv, Unique, Publish
  PROVE  Unique'
<1>1. PICK w : PublishesAs(w)
  BY Publishing
<1>2. Sends(w) /\ asked' = asked /\ c2s' = c2s /\ Wires
  BY <1>1 DEF PublishesAs, TypeInv
<1>3. \A m \in 1..Len(w) : w[m].k \notin Answered
  BY <1>1 DEF PublishesAs, Answered
<1>4. ASSUME NEW b \in attempts' PROVE \E a \in attempts : b = Capture(a, pubs + 1) /\ b.ref = a.ref
  <2>1. PICK a \in attempts : b = Capture(a, pubs + 1)
    BY <1>1 DEF PublishesAs
  <2>2. PICK i : i = pubs + 1
    OBVIOUS
  <2>3. Capture(a, i).ref = a.ref
    BY CaptureKeeps DEF TypeInv, Parked, AttemptOK
  <2> QED
    BY <2>1, <2>2, <2>3
<1>5. ASSUME NEW b \in attempts', NEW e \in attempts', b.ref = e.ref PROVE b = e
  <2>1. PICK a \in attempts : b = Capture(a, pubs + 1) /\ b.ref = a.ref
    BY <1>4
  <2>2. PICK c \in attempts : e = Capture(c, pubs + 1) /\ e.ref = c.ref
    BY <1>4
  <2>3. a = c
    BY <1>5, <2>1, <2>2 DEF Unique, WaitingOnce
  <2> QED
    BY <2>1, <2>2, <2>3
<1>6. Left(0) /\ 0 \in Nat
  BY <1>2, LeftAll
<1> QED
  BY <1>2, <1>3, <1>4, <1>5, <1>6, UniqueSent

LEMMA SubscribeUnique ==
  ASSUME TypeInv, Unique, ServerSubscribe
  PROVE  Unique'
<1>1. PICK m, w : SubscribesAs(m, w)
  BY Subscribing
<1>2. /\ c2s # <<>> /\ m = Head(c2s) /\ c2s' = Tail(c2s) /\ m.op = "subscribe" /\ asked' = asked
      /\ Sends(w) /\ Wires
  BY <1>1 DEF SubscribesAs, TypeInv
<1>3. Left(1) /\ m = c2s[1] /\ 1 \in 1..Len(c2s) /\ 1 \in Nat
  BY <1>2, LeftTail
<1>4. ASSUME NEW i \in 1..Len(c2s'), c2s'[i].op = "subscribe" PROVE c2s'[i].ref # m.ref
  <2>1. i + 1 \in 1..Len(c2s) /\ c2s'[i] = c2s[i + 1]
    BY <1>3 DEF Left
  <2>2. i + 1 # 1
    OBVIOUS
  <2> QED
    BY <1>2, <1>3, <1>4, <2>1, <2>2 DEF Unique, AskedOnce
<1>5. PICK r : r = m.ref
  OBVIOUS
<1>6. Unanswered(r) /\ (m.offset # 0 => r \in asked) /\ \A a \in attempts : a.ref # r
  BY <1>2, <1>3, <1>5 DEF Unique, AskedOnce
<1>7. CASE UNCHANGED attempts
  <2>1. \A l \in 1..Len(w) : w[l].ref = m.ref
    BY <1>1 DEF SubscribesAs
  <2>2. \A b, e \in attempts' : b.ref = e.ref => b = e
    BY <1>7 DEF Unique, WaitingOnce
  <2> QED
    BY <1>2, <1>3, <1>4, <1>5, <1>6, <1>7, <2>1, <2>2, UniqueSent
<1>8. CASE m.offset # 0 /\ Begin(m) /\ Len(w) = 0
  <2>1. PICK a : a = [ref |-> m.ref, offset |-> m.offset, epoch |-> m.epoch, seen |-> m.seen,
                      stage |-> "serving", before |-> mark, upto |-> 0, held |-> <<>>,
                      overflow |-> FALSE, revoked |-> FALSE]
    OBVIOUS
  <2>2. attempts' = attempts \cup {a} /\ a.ref = r
    BY <1>5, <1>8, <2>1 DEF Begin
  <2>3. ASSUME NEW s, Unanswered(s) PROVE Unanswered(s)'
    BY <1>2, <1>8, <2>3, UnansweredSent
  <2>4. WaitingOnce'
    <3>1. \A b \in attempts' : b.ref \in asked' /\ Unanswered(b.ref)'
      BY <1>2, <1>6, <1>8, <2>2, <2>3 DEF Unique, WaitingOnce
    <3>2. \A b, e \in attempts' : b.ref = e.ref => b = e
      BY <1>6, <2>2 DEF Unique, WaitingOnce
    <3> QED
      BY <3>1, <3>2 DEF WaitingOnce
  <2>5. ASSUME NEW i \in 1..Len(c2s'), c2s'[i].op = "subscribe"
        PROVE  /\ c2s'[i].offset # 0 => c2s'[i].ref \in asked'
               /\ Unanswered(c2s[i].ref)'
               /\ \A b \in attempts' : b.ref # c2s'[i].ref
    <3>1. PICK s : s = c2s'[i].ref
      OBVIOUS
    <3>2. i + 1 \in 1..Len(c2s) /\ c2s'[i] = c2s[i + 1]
      BY <1>3 DEF Left
    <3>3. Unanswered(s) /\ (c2s'[i].offset # 0 => s \in asked) /\ \A b \in attempts : b.ref # s
      BY <2>5, <3>1, <3>2 DEF Unique, AskedOnce
    <3>4. s # r
      BY <1>4, <1>5, <2>5, <3>1
    <3>5. Unanswered(s)'
      BY <2>3, <3>3
    <3> QED
      BY <1>2, <2>2, <3>1, <3>3, <3>4, <3>5 DEF Unanswered
  <2>6. ASSUME NEW i \in 1..Len(c2s'), NEW j \in 1..Len(c2s'),
               c2s'[i].op = "subscribe", c2s'[j].op = "subscribe", c2s'[i].ref = c2s'[j].ref
        PROVE  i = j
    <3>1. /\ i + 1 \in 1..Len(c2s) /\ c2s'[i] = c2s[i + 1]
          /\ j + 1 \in 1..Len(c2s) /\ c2s'[j] = c2s[j + 1]
      BY <1>3 DEF Left
    <3>2. i + 1 = j + 1
      BY <2>6, <3>1 DEF Unique, AskedOnce
    <3> QED
      BY <3>2
  <2>7. AskedOnce'
    BY <2>5, <2>6 DEF AskedOnce
  <2> QED
    BY <2>4, <2>7 DEF Unique
<1> QED
  BY <1>1, <1>7, <1>8 DEF SubscribesAs

LEMMA UnsubscribeUnique ==
  ASSUME TypeInv, Unique, ServerUnsubscribe
  PROVE  Unique'
<1>1. /\ c2s # <<>> /\ c2s' = Tail(c2s) /\ s2c' = s2c /\ asked' = asked /\ Wires
      /\ attempts' = {[a EXCEPT !.revoked = TRUE] : a \in attempts}
  BY DEF ServerUnsubscribe, ghosts, TypeInv
<1>2. Left(1) /\ 1 \in Nat
  BY <1>1, LeftTail
<1>3. Sends(<<>>) /\ Len(<<>>) = 0
  BY <1>1, SendsNothing DEF Wires
<1>4. \A a \in attempts : [a EXCEPT !.revoked = TRUE].ref = a.ref
  BY DEF TypeInv, Parked, AttemptOK, Attempts
<1>5. \A b \in attempts' : \E a \in attempts : b = [a EXCEPT !.revoked = TRUE] /\ b.ref = a.ref
  BY <1>1, <1>4
<1>6. \A b, e \in attempts' : b.ref = e.ref => b = e
  BY <1>5 DEF Unique, WaitingOnce
<1> QED
  BY <1>1, <1>2, <1>3, <1>5, <1>6, UniqueSent

LEMMA ServesUnique ==
  ASSUME TypeInv, Unique, HookServes
  PROVE  Unique'
<1>1. PICK a, b, w : ServesAs(a, b, w)
  BY ServesSends
<1>2. c2s' = c2s /\ asked' = asked /\ Wires
  BY DEF HookServes, TypeInv
<1>3. /\ a \in attempts /\ attempts' = (attempts \ {a}) \cup {b} /\ b.ref = a.ref
      /\ Sends(w) /\ ServedOK(w, a)
  BY <1>1 DEF ServesAs
<1>4. \A m \in 1..Len(w) : w[m].k \notin Answered
  BY <1>3 DEF ServedOK, HistoryOK, Markers, Answered
<1>5. \A e \in attempts' : \E c \in attempts : e.ref = c.ref
  BY <1>3
<1>6. \A c, e \in attempts' : c.ref = e.ref => c = e
  BY <1>3 DEF Unique, WaitingOnce
<1>7. Left(0) /\ 0 \in Nat
  BY <1>2, LeftAll
<1> QED
  BY <1>2, <1>3, <1>4, <1>5, <1>6, <1>7, UniqueSent

LEMMA SettlesUnique ==
  ASSUME TypeInv, Unique, HookReturns \/ HookThrows
  PROVE  Unique'
<1>1. PICK a, covered, truncated : SettlesAs(a, covered, truncated)
  BY Settling
<1>2. PICK w : LandsAs(w, a, covered, truncated)
  BY <1>1, LandSends DEF SettlesAs
<1>3. /\ a \in attempts /\ attempts' \subseteq attempts \ {a} /\ asked' = asked /\ Wires
      /\ c2s' = c2s \/ c2s' = <<>>
  BY <1>1 DEF SettlesAs, Leaving, TypeInv
<1>4. Sends(w) /\ LandItems(w, a)
  BY <1>2 DEF LandsAs
<1>5. ASSUME NEW m \in 1..Len(w), w[m].k \in Answered PROVE w[m].ref = a.ref
  <2>1. LandItem(w, m, a)
    BY <1>4 DEF LandItems
  <2> QED
    BY <1>5, <2>1, KindsApart DEF LandItem, Data
<1>6. \A b \in attempts' : b.ref # a.ref
  BY <1>3 DEF Unique, WaitingOnce
<1>7. \A i \in 1..Len(c2s') : c2s'[i].op = "subscribe" => c2s'[i].ref # a.ref
  BY <1>3 DEF Unique, AskedOnce
<1>8. \A c, e \in attempts' : c.ref = e.ref => c = e
  BY <1>3 DEF Unique, WaitingOnce
<1>9. Left(0) /\ 0 \in Nat
  BY <1>3, LeftAll
<1> QED
  BY <1>3, <1>4, <1>5, <1>6, <1>7, <1>8, <1>9, UniqueSent

\* What a client asks for.
LEMMA AskingFacts ==
  ASSUME NEW r
  PROVE  /\ Asking(r).op = "subscribe" /\ Asking(r).ref = r /\ Asking(r).offset = lastSeen
         /\ Asking(r).seen = (IF lastSeen = 0 THEN NoEpoch ELSE seenIn)
         /\ Plain(r).op = "subscribe" /\ Plain(r).ref = r /\ Plain(r).offset = 0
         /\ Plain(r).seen = NoEpoch
         /\ Release.op = "unsubscribe" /\ Release.offset = 0 /\ Release.seen = NoEpoch
BY DEF Asking, Plain, Request, Release

LEMMA ReconnectUnique ==
  ASSUME TypeInv, Unique, Reconnect
  PROVE  Unique'
<1>1. PICK m : m = Asking(1)
  OBVIOUS
<1>2. attempts' = {} /\ s2c' = <<>>
  BY DEF Reconnect, TypeInv, Closed
<1>3. \/ c2s' = <<>>
      \/ c2s' = <<m>> /\ (lastSeen # 0 => asked' = {1})
  BY <1>1 DEF Reconnect
<1>4. CASE c2s' = <<>>
  BY <1>2, <1>4, UniqueNothing
<1>5. CASE c2s' = <<m>> /\ (lastSeen # 0 => asked' = {1})
  <2>1. m.ref = 1 /\ m.offset = lastSeen
    BY <1>1, AskingFacts
  <2>2. Len(c2s') = 1 /\ \A i \in 1..Len(c2s') : c2s'[i] = m /\ i = 1
    BY <1>5
  <2>3. \A r : Unanswered(r)'
    BY <1>2 DEF Unanswered
  <2>4. m.offset # 0 => m.ref \in asked'
    BY <1>5, <2>1
  <2>5. \A i \in 1..Len(c2s') : Unanswered(c2s[i].ref)'
    BY <1>2 DEF Unanswered
  <2> QED
    BY <1>2, <2>2, <2>4, <2>5 DEF Unique, WaitingOnce, AskedOnce
<1> QED
  BY <1>3, <1>4, <1>5

LEMMA ClientUnique ==
  ASSUME TypeInv, Unique, RetryFires \/ Leave \/ Return
  PROVE  Unique'
<1>1. PICK m, n, o : m = Asking(nextRef) /\ n = Plain(nextRef) /\ o = Release
  OBVIOUS
<1>2. /\ m.ref = nextRef /\ m.offset = lastSeen /\ n.ref = nextRef /\ n.offset = 0
      /\ o.op # "subscribe"
  BY <1>1, AskingFacts
<1>3. UNCHANGED <<attempts, s2c>>
  BY DEF RetryFires, Leave, Return
<1>4. CASE RetryFires
  <2>1. \/ c2s' = c2s /\ asked' = asked
        \/ /\ c2s' = c2s \/ c2s' = Append(c2s, m)
           /\ asked' = IF lastSeen = 0 THEN asked ELSE asked \cup {nextRef}
    BY <1>1, <1>4 DEF RetryFires, Resubscribe, Outbox
  <2>2. CASE c2s' = c2s /\ asked' = asked
    BY <1>2, <1>3, <2>2, UniqueAsks
  <2>3. CASE /\ c2s' = c2s \/ c2s' = Append(c2s, m)
             /\ asked' = IF lastSeen = 0 THEN asked ELSE asked \cup {nextRef}
    BY <1>2, <1>3, <2>3, UniqueAsks
  <2> QED
    BY <2>1, <2>2, <2>3
<1>5. CASE Leave
  <2>1. asked' = asked /\ (c2s' = c2s \/ c2s' = Append(c2s, o))
    BY <1>1, <1>5 DEF Leave, Outbox, ghosts
  <2> QED
    BY <1>2, <1>3, <2>1, UniqueAsks
<1>6. CASE Return
  <2>1. asked' = asked /\ (c2s' = c2s \/ c2s' = Append(c2s, n))
    BY <1>1, <1>6 DEF Return, Outbox
  <2> QED
    BY <1>2, <1>3, <2>1, UniqueAsks
<1> QED
  BY <1>4, <1>5, <1>6

LEMMA ReceiveUnique ==
  ASSUME TypeInv, Unique, Receive
  PROVE  Unique'
<1>1. PICK m : m = s2c[1]
  OBVIOUS
<1>2. /\ Takes /\ Wires /\ UNCHANGED <<attempts, c2s>>
      /\ ReceiveFrame(m) \/ ReceiveMarker(m) \/ ReceiveAck(m) \/ ReceiveDenied(m)
  BY <1>1, Taking
<1>3. asked' = asked \/ (m.k \in Answered /\ asked' = asked \ {m.ref})
  BY <1>2 DEF ReceiveFrame, ReceiveMarker, ReceiveAck, ReceiveDenied, Answered
<1> QED
  BY <1>1, <1>2, <1>3, UniqueTaken

LEMMA InitUnique == Init => Unique
<1>1. Len(<<>>) = 0 /\ 1..0 = {}
  OBVIOUS
<1> QED
  BY <1>1 DEF Init, Unique, WaitingOnce, AskedOnce

LEMMA NextUnique ==
  ASSUME TypeInv, Unique, [Next]_vars
  PROVE  Unique'
<1>1. CASE Restart \/ ConnectionLost
  BY <1>1, UniqueNothing DEF Restart, ConnectionLost
<1>2. CASE EvictMark \/ Overtake \/ UNCHANGED vars
  <2>1. UNCHANGED <<attempts, c2s, s2c, asked>>
    BY <1>2 DEF EvictMark, Overtake, vars, conn, ghosts
  <2> QED
    BY <2>1 DEF Unique, WaitingOnce, AskedOnce, Unanswered
<1> QED
  BY <1>1, <1>2, PublishUnique, SubscribeUnique, UnsubscribeUnique, ServesUnique, SettlesUnique,
     ReconnectUnique, ClientUnique, ReceiveUnique DEF Next

-----------------------------------------------------------------------------
(* The numbers of what is under way, and of what the client keeps.         *)

Numbered(x) ==
  /\ x.ep = epoch
  /\ x.k \notin Data => x.pub = 0
  /\ x.k \in Data /\ x.seq # 0 => origin + x.seq = x.pub

\* The numbers that the arithmetic below is about.
LEMMA Naturals ==
  ASSUME TypeInv
  PROVE  /\ pubs \in Nat /\ origin \in Nat /\ origin <= pubs /\ epoch \in Nat /\ base \in Nat
         /\ base <= pubs /\ mark \in Nat /\ origin + mark <= pubs
         /\ lastSeen \in Nat /\ seenIn \in Int /\ pending.ref \in Nat /\ pending.highest \in Nat
         /\ known \subseteq 1..pubs /\ NoEpoch \in Int /\ NoEpoch < 0
<1>1. /\ pubs \in Nat /\ origin \in Nat /\ origin <= pubs /\ epoch \in Nat
      /\ mark \in Nat /\ origin + mark <= pubs
  BY Bounds DEF TypeInv, Scalars, Numbers, Epochs
<1>2. /\ base \in Nat /\ base <= pubs /\ known \subseteq 1..pubs
  BY <1>1 DEF TypeInv, Scalars, Ghosts
<1>3. /\ lastSeen \in Nat /\ seenIn \in Int
  BY Bounds DEF TypeInv, Scalars, Offsets, Ghosts, Epochs, NoEpoch
<1>4. pending.ref \in Nat /\ pending.highest \in Nat
  BY Bounds DEF TypeInv, Scalars, Offsets
<1> QED
  BY <1>1, <1>2, <1>3, <1>4 DEF NoEpoch

\* An item under way.
LEMMA ItemFacts ==
  ASSUME TypeInv, NEW p \in 1..Len(s2c)
  PROVE  /\ s2c[p] \in Items /\ s2c[p].pub \in Nat /\ s2c[p].pub <= pubs /\ s2c[p].seq \in Nat
         /\ s2c[p].ref \in Nat /\ s2c[p].ep \in Nat /\ s2c[p].ep \in Epochs
         /\ s2c[p].k \in Data => s2c[p].pub >= 1
<1>1. s2c[p] \in Items /\ ItemOK(s2c[p], pubs, nextRef)
  BY DEF TypeInv, Wires
<1> QED
  BY <1>1, Bounds DEF Items, ItemOK, Epochs

\* The server's steps, and those of a client that asks.
LEMMA MarksSent ==
  ASSUME TypeInv, TypeInv', Stamps, UNCHANGED <<origin, epoch, lastSeen, seenIn>>,
         pubs' >= pubs, pending'.highest = pending.highest \/ pending'.highest = 0,
         pending'.ref = 0 => pending'.highest = 0, srv' => srv,
         NEW w, Sends(w), \A m \in 1..Len(w) : srv /\ Numbered(w[m])
  PROVE  Stamps'
<1>1. /\ pubs \in Nat /\ origin \in Nat /\ origin <= pubs /\ pending.highest \in Nat
      /\ pubs' \in Nat /\ pending'.highest \in Nat /\ lastSeen \in Nat
      /\ epoch \in Nat
  <2>1. pubs' \in Nat
    BY Bounds DEF TypeInv, Scalars, Numbers
  <2>2. pending'.highest \in Nat
    BY Bounds DEF TypeInv, Scalars, Offsets
  <2> QED
    BY <2>1, <2>2, Naturals
<1>2. Wires
  BY DEF TypeInv
<1>3. ASSUME NEW h, h = origin + pending.highest, h <= pubs PROVE origin' + pending'.highest <= pubs'
  <2>1. CASE pending'.highest = pending.highest
    BY <1>1, <1>3, <2>1
  <2>2. CASE pending'.highest = 0
    BY <1>1, <2>2
  <2> QED
    BY <2>1, <2>2
<1>4. ASSUME NEW p \in 1..Len(s2c') PROVE StampedAs(s2c[p])' /\ (srv => s2c'[p].ep = epoch)
  <2>1. CASE p \in 1..Len(s2c) /\ s2c'[p] = s2c[p]
    <3>1. StampedAs(s2c[p])
      BY <2>1 DEF Stamps
    <3> QED
      BY <1>3, <2>1, <3>1 DEF StampedAs
  <2>2. CASE \E m \in 1..Len(w) : p = Len(s2c) + m /\ s2c'[p] = w[m]
    <3>1. PICK m \in 1..Len(w) : s2c'[p] = w[m]
      BY <2>2
    <3>2. srv /\ Numbered(w[m])
      OBVIOUS
    <3>3. /\ epoch <= epoch
          /\ origin + pending.highest <= pubs
      BY <1>1, <3>2 DEF Stamps
    <3> QED
      BY <1>3, <3>1, <3>2, <3>3 DEF StampedAs, Numbered
  <2> QED
    BY <1>2, <2>1, <2>2, SentEntry
<1>5. \A p, q \in 1..Len(s2c') : s2c'[p].ep = s2c'[q].ep
  <2>1. CASE srv
    BY <1>4, <2>1
  <2>2. CASE ~srv
    <3>1. \A p \in 1..Len(s2c') : p \in 1..Len(s2c) /\ s2c'[p] = s2c[p]
      BY <1>2, <2>2, SentEntry
    <3> QED
      BY <3>1 DEF Stamps
  <2> QED
    BY <2>1, <2>2
<1>6. lastSeen' # 0 /\ seenIn' = epoch' => origin' + lastSeen' <= pubs'
  BY <1>1 DEF Stamps
<1>7. srv' => origin' + pending'.highest <= pubs'
  BY <1>1, <1>3 DEF Stamps
<1>8. \A p \in 1..Len(s2c') : StampedAs(s2c[p])'
  BY <1>4
<1> QED
  BY <1>5, <1>6, <1>7, <1>8 DEF Stamps

LEMMA ServerMarks ==
  ASSUME TypeInv, TypeInv', Stamps,
         Publish \/ EvictMark \/ ServerSubscribe \/ ServerUnsubscribe \/ Overtake \/ HookServes
                 \/ HookReturns \/ HookThrows \/ UNCHANGED vars
  PROVE  Stamps'
<1>1. /\ pubs \in Nat /\ origin \in Nat /\ Wires /\ (live => srv)
      /\ attempts # {} => srv
  BY Naturals DEF TypeInv, Closed
<1>2. ASSUME UNCHANGED <<origin, epoch, lastSeen, seenIn, pending>>, pubs' >= pubs, srv' => srv,
             NEW w, Sends(w), \A m \in 1..Len(w) : srv /\ Numbered(w[m])
      PROVE  Stamps'
  <2>1. pending'.ref = 0 => pending'.highest = 0
    BY <1>2 DEF Stamps
  <2> QED
    BY <1>2, <2>1, MarksSent
<1>3. CASE Publish
  <2>1. PICK w : PublishesAs(w)
    BY <1>3, Publishing
  <2>2. /\ UNCHANGED <<origin, epoch, srv, lastSeen, seenIn, pending>> /\ Sends(w)
        /\ pubs' >= pubs
    BY <1>1, <2>1 DEF PublishesAs, client
  <2>3. \A m \in 1..Len(w) : srv /\ Numbered(w[m])
    <3>1. SUFFICES ASSUME NEW m \in 1..Len(w) PROVE srv /\ Numbered(w[m])
      OBVIOUS
    <3>2. /\ live /\ w[m].k = "frame" /\ w[m].pub = pubs + 1
          /\ w[m].seq = (pubs + 1) - origin /\ w[m].ep = epoch
      BY <2>1 DEF PublishesAs
    <3>3. origin + w[m].seq = w[m].pub
      BY <1>1, <3>2
    <3> QED
      BY <1>1, <3>2, <3>3 DEF Numbered, Data
  <2> QED
    BY <1>2, <2>2, <2>3
<1>4. CASE EvictMark \/ ServerUnsubscribe \/ Overtake \/ UNCHANGED vars
  <2>1. UNCHANGED <<pubs, origin, epoch, srv, s2c, lastSeen, seenIn, pending>>
    BY <1>4 DEF EvictMark, ServerUnsubscribe, Overtake, vars, store, conn, client, ghosts
  <2>2. Sends(<<>>) /\ Len(<<>>) = 0
    BY <1>1, <2>1, SendsNothing DEF Wires
  <2> QED
    BY <1>1, <1>2, <2>1, <2>2
<1>5. CASE ServerSubscribe
  <2>1. PICK m, w : SubscribesAs(m, w)
    BY <1>5, Subscribing
  <2>2. /\ UNCHANGED <<pubs, origin, epoch, srv, lastSeen, seenIn, pending>> /\ Sends(w)
        /\ srv
    BY <2>1 DEF SubscribesAs, client, store
  <2>3. \A l \in 1..Len(w) : srv /\ Numbered(w[l])
    BY <2>1, <2>2, KindsApart DEF SubscribesAs, Numbered
  <2> QED
    BY <1>1, <1>2, <2>2, <2>3
<1>6. CASE HookServes
  <2>1. PICK a, b, w : ServesAs(a, b, w)
    BY <1>6, ServesSends
  <2>2. /\ UNCHANGED <<pubs, origin, epoch, srv, lastSeen, seenIn, pending>>
    BY <1>6 DEF HookServes, client, store, ghosts
  <2>3. Sends(w) /\ srv /\ ServedOK(w, a)
    BY <1>1, <2>1 DEF ServesAs
  <2>4. \A m \in 1..Len(w) : srv /\ Numbered(w[m])
    <3>1. SUFFICES ASSUME NEW m \in 1..Len(w) PROVE Numbered(w[m])
      BY <2>3
    <3>2. w[m].ep = epoch /\ (\/ w[m].k \in Markers /\ w[m].pub = 0
                              \/ HistoryOK(w[m]))
      BY <2>3 DEF ServedOK
    <3>3. CASE w[m].k \in Markers /\ w[m].pub = 0
      BY <3>2, <3>3, KindsApart DEF Numbered
    <3>4. CASE HistoryOK(w[m])
      <4>1. w[m].k \in Data /\ w[m].pub \in (origin + 1)..pubs /\ w[m].seq \in {0, w[m].pub - origin}
        BY <3>4 DEF HistoryOK, Data
      <4>2. w[m].seq # 0 => origin + w[m].seq = w[m].pub
        BY <1>1, <4>1
      <4> QED
        BY <3>2, <4>1, <4>2 DEF Numbered
    <3> QED
      BY <3>2, <3>3, <3>4
  <2> QED
    BY <1>1, <1>2, <2>2, <2>3, <2>4
<1>7. CASE HookReturns \/ HookThrows
  <2>1. PICK a, covered, truncated : SettlesAs(a, covered, truncated)
    BY <1>7, Settling
  <2>2. PICK w : LandsAs(w, a, covered, truncated)
    BY <2>1, LandSends DEF SettlesAs
  <2>3. /\ UNCHANGED <<pubs, origin, epoch, lastSeen, seenIn, pending>>
        /\ srv /\ Sends(w) /\ LandItems(w, a)
    BY <1>1, <2>1, <2>2 DEF SettlesAs, LandsAs, Leaving, client, store
  <2>4. \A m \in 1..Len(w) : srv /\ Numbered(w[m])
    <3>1. SUFFICES ASSUME NEW m \in 1..Len(w) PROVE Numbered(w[m])
      BY <2>3
    <3>2. LandItem(w, m, a)
      BY <2>3 DEF LandItems
    <3>3. CASE w[m].k \in Markers \cup Answered /\ w[m].pub = 0
      BY <3>2, <3>3, KindsApart DEF Numbered, LandItem
    <3>4. CASE w[m].k = "frame" /\ w[m].pub \in (origin + 1)..pubs /\ w[m].seq = w[m].pub - origin
      <4>1. origin + w[m].seq = w[m].pub
        BY <1>1, <3>4
      <4> QED
        BY <3>2, <3>4, <4>1 DEF Numbered, LandItem, Data
    <3> QED
      BY <3>2, <3>3, <3>4 DEF LandItem
  <2> QED
    BY <1>1, <1>2, <2>3, <2>4
<1> QED
  BY <1>3, <1>4, <1>5, <1>6, <1>7

\* The steps of a client that asks, and those that end a connection or a process.
LEMMA ClientMarks ==
  ASSUME TypeInv, TypeInv', Stamps,
         Restart \/ ConnectionLost \/ Reconnect \/ RetryFires \/ Leave \/ Return
  PROVE  Stamps'
<1>1. /\ pubs \in Nat /\ origin \in Nat /\ origin <= pubs /\ epoch \in Nat /\ seenIn \in Int
      /\ pending.highest \in Nat /\ lastSeen \in Nat
  BY Naturals
<1>2. CASE Restart
  <2>1. /\ epoch' = epoch + 1 /\ srv' = FALSE /\ epoch' \in Epochs
        /\ UNCHANGED <<s2c, lastSeen, seenIn, pending>>
    <3>1. epoch' \in Epochs
      BY DEF TypeInv, Scalars, Numbers
    <3> QED
      BY <1>2, <3>1 DEF Restart, client, ghosts
  <2>2. ASSUME NEW p \in 1..Len(s2c') PROVE StampedAs(s2c[p])'
    <3>1. StampedAs(s2c[p]) /\ s2c[p].ep \in Nat
      BY <2>1, <2>2, ItemFacts DEF Stamps
    <3>2. s2c[p].ep <= epoch' /\ s2c[p].ep # epoch'
      BY <1>1, <2>1, <3>1 DEF StampedAs
    <3> QED
      BY <2>1, <3>1, <3>2 DEF StampedAs
  <2>3. seenIn' <= epoch' /\ seenIn' # epoch'
    BY <1>1, <2>1 DEF Stamps
  <2> QED
    BY <2>1, <2>2, <2>3 DEF Stamps
<1>3. CASE ConnectionLost
  <2>1. /\ srv' = FALSE /\ s2c' = <<>>
        /\ UNCHANGED <<pubs, origin, epoch, lastSeen, seenIn, pending>>
    BY <1>3 DEF ConnectionLost, store, ghosts
  <2> QED
    BY <2>1 DEF Stamps
<1>4. CASE Reconnect
  <2>1. ~link /\ UNCHANGED <<pubs, origin, epoch, s2c, lastSeen, seenIn>>
    BY <1>4 DEF Reconnect, store
  <2>2. s2c' = <<>>
    BY <2>1 DEF TypeInv, Closed
  <2>3. pending'.highest = 0
    BY <1>4 DEF Reconnect, NoPending
  <2>4. origin' + pending'.highest <= pubs'
    BY <1>1, <2>1, <2>3
  <2> QED
    BY <2>1, <2>2, <2>3, <2>4 DEF Stamps
<1>5. CASE RetryFires \/ Leave \/ Return
  <2>1. UNCHANGED <<pubs, origin, epoch, srv, s2c, lastSeen, seenIn>>
    BY <1>5 DEF RetryFires, Leave, Return, store, ghosts
  <2>2. \/ pending' = pending
        \/ pending' = NoPending
        \/ pending' = [ref |-> nextRef, highest |-> 0]
    BY <1>5 DEF RetryFires, Leave, Return, Recovering
  <2>3. /\ pending'.highest = pending.highest \/ pending'.highest = 0
        /\ pending'.ref = 0 => pending'.highest = 0
    BY <2>2 DEF NoPending, Stamps
  <2>4. Sends(<<>>) /\ Len(<<>>) = 0
    BY <2>1, SendsNothing DEF TypeInv, Wires
  <2> QED
    BY <1>1, <2>1, <2>3, <2>4, MarksSent
<1> QED
  BY <1>2, <1>3, <1>4, <1>5

\* A client that takes m: what is left was sent in the epoch of m.
LEMMA MarksTaken ==
  ASSUME TypeInv, TypeInv', Stamps, Takes, UNCHANGED <<pubs, origin, epoch, srv>>,
         NEW m, m = s2c[1], seenIn' <= epoch,
         lastSeen' # 0 /\ seenIn' = epoch => origin + lastSeen' <= pubs,
         m.ep = epoch => origin + pending'.highest <= pubs,
         pending'.ref = 0 => pending'.highest = 0
  PROVE  Stamps'
<1>1. /\ m.ep \in Int /\ epoch \in Int /\ Wires /\ 1 \in 1..Len(s2c) /\ StampedAs(m)
  <2>1. 1 \in 1..Len(s2c) /\ Wires
    BY TakenEntry DEF TypeInv, Takes, Wires
  <2>3. m.ep \in Int /\ StampedAs(m)
    BY <2>1, ItemFacts DEF Stamps
  <2> QED
    BY <2>1, <2>3, Naturals
<1>3. ASSUME NEW p \in 1..Len(s2c')
      PROVE  s2c'[p].ep = m.ep /\ StampedAs(s2c[p])'
  <2>1. p + 1 \in 1..Len(s2c) /\ s2c'[p] = s2c[p + 1]
    BY <1>1, TakenEntry
  <2>2. StampedAs(s2c[p + 1]) /\ s2c[p + 1].ep = m.ep
    BY <1>1, <2>1 DEF Stamps
  <2> QED
    BY <2>1, <2>2 DEF StampedAs
<1>4. srv' => origin' + pending'.highest <= pubs'
  BY <1>1 DEF StampedAs
<1>5. \A p \in 1..Len(s2c') : StampedAs(s2c[p])'
  BY <1>3
<1>6. \A p, q \in 1..Len(s2c') : s2c'[p].ep = s2c'[q].ep
  BY <1>3
<1> QED
  BY <1>4, <1>5, <1>6 DEF Stamps

LEMMA HigherOf ==
  ASSUME NEW a \in Nat, NEW b \in Nat
  PROVE  Higher(a, b) = (IF b > a THEN b ELSE a) /\ Higher(a, b) >= a /\ Higher(a, b) >= b
BY DEF Higher

LEMMA ReceiveMarks ==
  ASSUME TypeInv, TypeInv', Stamps, Receive
  PROVE  Stamps'
<1>1. /\ Takes /\ Wires /\ UNCHANGED <<pubs, origin, epoch, srv>>
  BY Taking DEF store
<1>2. PICK m : m = s2c[1]
  OBVIOUS
<1>3. ReceiveFrame(m) \/ ReceiveMarker(m) \/ ReceiveAck(m) \/ ReceiveDenied(m)
  BY <1>2, Taking
<1>4. 1 \in 1..Len(s2c)
  BY <1>1 DEF Takes, Wires
<1>5. /\ pubs \in Nat /\ origin \in Nat /\ origin <= pubs /\ epoch \in Nat /\ seenIn \in Int
      /\ pending.highest \in Nat /\ lastSeen \in Nat
      /\ m.pub \in Nat /\ m.pub <= pubs /\ m.seq \in Nat /\ m.ep \in Nat
  BY <1>2, <1>4, Naturals, ItemFacts
<1>6. /\ seenIn <= epoch /\ m.ep <= epoch
      /\ m.ep = epoch => origin + pending.highest <= pubs
      /\ m.ep = epoch /\ m.k \in Data /\ m.seq # 0 => origin + m.seq = m.pub
      /\ lastSeen # 0 /\ seenIn = epoch => origin + lastSeen <= pubs
      /\ pending.ref = 0 => pending.highest = 0
  <2>1. StampedAs(m)
    BY <1>2, <1>4 DEF Stamps
  <2> QED
    BY <1>5, <2>1, Naturals DEF Stamps, StampedAs
<1>7. pending \in [ref : 0..(nextRef - 1), highest : 0..MaxPubs]
  BY DEF TypeInv, Scalars, Offsets
<1>8. /\ NoPending.ref = 0 /\ NoPending.highest = 0
      /\ m.ep = epoch => origin + NoPending.highest <= pubs
  BY <1>5 DEF NoPending
<1>9. CASE ReceiveFrame(m)
  <2>1. m.k \in Data
    BY <1>9, KindsTaken
  <2>2. CASE UNCHANGED <<pending, lastSeen, seenIn>>
    BY <1>1, <1>2, <1>5, <1>6, <2>1, <2>2, MarksTaken
  <2>3. CASE /\ m.seq # 0 /\ pending.ref # 0
             /\ pending' = [pending EXCEPT !.highest = Higher(@, m.seq)] /\ UNCHANGED <<lastSeen, seenIn>>
    <3>1. pending'.ref = pending.ref /\ pending'.highest = Higher(pending.highest, m.seq)
      BY <1>7, <2>3
    <3>2. m.ep = epoch => origin + pending'.highest <= pubs
      BY <1>5, <1>6, <2>1, <2>3, <3>1, HigherOf
    <3> QED
      BY <1>1, <1>2, <1>5, <1>6, <2>1, <2>3, <3>1, <3>2, MarksTaken
  <2>4. CASE /\ m.seq # 0 /\ pending' = pending /\ lastSeen' = Higher(lastSeen, m.seq)
             /\ seenIn' = IF m.seq > lastSeen THEN m.ep ELSE seenIn
    <3>1. seenIn' <= epoch
      BY <1>5, <1>6, <2>4
    <3>2. lastSeen' # 0 /\ seenIn' = epoch => origin + lastSeen' <= pubs
      <4>1. CASE m.seq > lastSeen
        <5>1. lastSeen' = m.seq /\ seenIn' = m.ep
          BY <1>5, <2>4, <4>1, HigherOf
        <5> QED
          BY <1>5, <1>6, <2>1, <2>4, <5>1
      <4>2. CASE ~(m.seq > lastSeen)
        <5>1. lastSeen' = lastSeen /\ seenIn' = seenIn
          BY <1>5, <2>4, <4>2, HigherOf
        <5> QED
          BY <1>6, <5>1
      <4> QED
        BY <4>1, <4>2
    <3> QED
      BY <1>1, <1>2, <1>5, <1>6, <2>1, <2>4, <3>1, <3>2, MarksTaken
  <2> QED
    BY <1>9, <2>2, <2>3, <2>4 DEF ReceiveFrame
<1>10. CASE ReceiveMarker(m)
  <2>1. /\ lastSeen' = 0 /\ seenIn' = seenIn /\ pending' = [pending EXCEPT !.highest = 0]
    BY <1>10 DEF ReceiveMarker
  <2>2. pending'.highest = 0
    BY <1>7, <2>1
  <2>3. m.ep = epoch => origin + pending'.highest <= pubs
    BY <1>5, <2>2
  <2> QED
    BY <1>1, <1>2, <1>6, <2>1, <2>2, <2>3, MarksTaken
<1>11. CASE ReceiveAck(m)
  <2>2. CASE UNCHANGED <<pending, lastSeen, seenIn>>
    BY <1>1, <1>2, <1>6, <2>2, MarksTaken
  <2>3. CASE /\ pending' = NoPending /\ lastSeen' = Higher(lastSeen, pending.highest)
             /\ seenIn' = IF pending.highest > lastSeen THEN m.ep ELSE seenIn
    <3>1. seenIn' <= epoch
      BY <1>5, <1>6, <2>3
    <3>2. lastSeen' # 0 /\ seenIn' = epoch => origin + lastSeen' <= pubs
      <4>1. CASE pending.highest > lastSeen
        <5>1. lastSeen' = pending.highest /\ seenIn' = m.ep
          BY <1>5, <2>3, <4>1, HigherOf
        <5> QED
          BY <1>6, <5>1
      <4>2. CASE ~(pending.highest > lastSeen)
        <5>1. lastSeen' = lastSeen /\ seenIn' = seenIn
          BY <1>5, <2>3, <4>2, HigherOf
        <5> QED
          BY <1>6, <5>1
      <4> QED
        BY <4>1, <4>2
    <3> QED
      BY <1>1, <1>2, <1>6, <1>8, <2>3, <3>1, <3>2, MarksTaken
  <2> QED
    BY <1>11, <2>2, <2>3 DEF ReceiveAck
<1>12. CASE ReceiveDenied(m)
  <2>1. UNCHANGED <<lastSeen, seenIn>> /\ (pending' = NoPending \/ pending' = pending)
    BY <1>12 DEF ReceiveDenied
  <2> QED
    BY <1>1, <1>2, <1>6, <1>8, <2>1, MarksTaken
<1> QED
  BY <1>3, <1>9, <1>10, <1>11, <1>12

LEMMA InitStamps == Init => Stamps
<1> SUFFICES ASSUME Init PROVE Stamps
  OBVIOUS
<1>1. NoEpoch <= 0 /\ NoEpoch \in Int
  BY DEF NoEpoch
<1> QED
  BY <1>1 DEF Init, Stamps, NoPending

LEMMA NextStamps ==
  ASSUME TypeInv, TypeInv', Stamps, [Next]_vars
  PROVE  Stamps'
BY ServerMarks, ClientMarks, ReceiveMarks DEF Next

-----------------------------------------------------------------------------
(* The offsets under way.                                                  *)

\* A request that joins, an attempt and one that it becomes.
SameOffset(a, b) == b.offset = a.offset /\ b.seen = a.seen /\ b.stage = a.stage /\ b.upto = a.upto

LEMMA OffsetNumbers ==
  ASSUME TypeInv
  PROVE  /\ \A i \in 1..Len(c2s) : c2s[i] \in Requests /\ c2s[i].offset \in Nat
         /\ \A a \in attempts : a \in Attempts /\ a.offset \in Nat /\ a.upto \in Nat
<1>1. ASSUME NEW i \in 1..Len(c2s) PROVE c2s[i] \in Requests /\ c2s[i].offset \in Nat
  <2>1. c2s[i] \in Requests
    BY DEF TypeInv, Wires
  <2> QED
    BY <2>1, Bounds DEF Requests
<1>2. ASSUME NEW a \in attempts PROVE a \in Attempts /\ a.offset \in Nat /\ a.upto \in Nat
  <2>1. a \in Attempts
    BY DEF TypeInv, Parked, AttemptOK
  <2> QED
    BY <2>1, Bounds DEF Attempts
<1> QED
  BY <1>1, <1>2

LEMMA RequestsStay ==
  ASSUME TypeInv, Watermarks, UNCHANGED <<origin, epoch>>, pubs' \in Nat, pubs' >= pubs,
         NEW d \in Nat, Left(d)
  PROVE  \A i \in 1..Len(c2s') : RequestSeen(c2s[i])'
<1> SUFFICES ASSUME NEW i \in 1..Len(c2s') PROVE RequestSeen(c2s[i])'
  OBVIOUS
<1>1. PICK m : m = c2s[i + d]
  OBVIOUS
<1>2. i + d \in 1..Len(c2s) /\ c2s'[i] = m
  BY <1>1 DEF Left
<1>3. RequestSeen(m) /\ m.offset \in Nat
  BY <1>1, <1>2, OffsetNumbers DEF Watermarks
<1>4. pubs \in Nat /\ origin \in Nat
  BY Naturals
<1>5. m.seen = epoch => origin + m.offset <= pubs'
  BY <1>3, <1>4 DEF RequestSeen
<1> QED
  BY <1>2, <1>5 DEF RequestSeen

LEMMA AttemptsStay ==
  ASSUME TypeInv, Watermarks, UNCHANGED <<origin, epoch>>, pubs' \in Nat, pubs' >= pubs,
         NEW b, \E a \in attempts : SameOffset(a, b)
  PROVE  AttemptSeen(b)'
<1>1. PICK a \in attempts : SameOffset(a, b)
  OBVIOUS
<1>2. AttemptSeen(a) /\ a.offset \in Nat /\ pubs \in Nat /\ origin \in Nat
  BY Naturals, OffsetNumbers DEF Watermarks
<1>3. a.seen = epoch => origin + a.offset <= pubs' /\ (a.stage = "served" => a.offset <= a.upto)
  BY <1>2 DEF AttemptSeen
<1> QED
  BY <1>1, <1>3 DEF SameOffset, AttemptSeen

\* An offset that the client asks from.
LEMMA AskedSeen ==
  ASSUME TypeInv, Stamps, NEW r
  PROVE  RequestSeen(Asking(r)) /\ RequestSeen(Plain(r)) /\ RequestSeen(Release)
<1>1. NoEpoch # epoch
  BY Naturals
<1>2. Asking(r).seen = epoch => origin + Asking(r).offset <= pubs
  BY <1>1, AskingFacts DEF Stamps
<1> QED
  BY <1>1, <1>2, AskingFacts DEF RequestSeen

\* What a subscribe frame and an unsubscribe frame make of the attempts.
LEMMA RevokeKeeps ==
  ASSUME TypeInv, ServerUnsubscribe, NEW b \in attempts'
  PROVE  \E a \in attempts : SameOffset(a, b)
<1>1. PICK a \in attempts : b = [a EXCEPT !.revoked = TRUE]
  BY DEF ServerUnsubscribe
<1>2. a \in Attempts
  BY OffsetNumbers
<1>3. SameOffset(a, b)
  BY <1>1, <1>2 DEF SameOffset, Attempts
<1> QED
  BY <1>3

LEMMA CapturedKeeps ==
  ASSUME TypeInv, NEW w, PublishesAs(w), NEW b \in attempts'
  PROVE  \E a \in attempts : SameOffset(a, b)
<1>1. PICK i : i = pubs + 1
  OBVIOUS
<1>2. PICK a \in attempts : b = Capture(a, i)
  BY <1>1 DEF PublishesAs
<1>3. SameOffset(a, b)
  BY <1>2, CaptureKeeps, OffsetNumbers DEF SameOffset
<1> QED
  BY <1>3

\* The attempt that a request begins.
LEMMA Begun ==
  ASSUME NEW m, Begin(m), NEW b \in attempts'
  PROVE  \/ b \in attempts
         \/ b.ref = m.ref /\ b.offset = m.offset /\ b.seen = m.seen /\ b.stage = "serving"
BY DEF Begin

LEMMA SameItself == \A a : SameOffset(a, a)
BY DEF SameOffset

LEMMA NextMarks ==
  ASSUME TypeInv, TypeInv', Watermarks, [Next]_vars
  PROVE  Watermarks'
<1>1. Stamps' /\ Stamps /\ Wires /\ c2s \in Seq(Requests)
  BY NextStamps DEF Watermarks, TypeInv, Wires
<1>2. /\ pubs \in Nat /\ origin \in Nat /\ pubs >= pubs /\ 0 \in Nat /\ 1 \in Nat
      /\ pubs' \in Nat
  <2>1. pubs' \in Nat
    BY Bounds DEF TypeInv, Scalars, Numbers
  <2> QED
    BY <2>1, Naturals
<1>3. ASSUME UNCHANGED <<origin, epoch>>, pubs' >= pubs, Left(0) \/ Left(1),
             \A b \in attempts' : \E a \in attempts : SameOffset(a, b)
      PROVE  Watermarks'
  BY <1>1, <1>2, <1>3, RequestsStay, AttemptsStay DEF Watermarks
<1>4. CASE Publish
  <2>1. PICK w : PublishesAs(w)
    BY <1>4, Publishing
  <2>2. UNCHANGED <<origin, epoch, c2s>> /\ pubs' >= pubs
    BY <1>2, <2>1 DEF PublishesAs
  <2> QED
    BY <1>1, <1>3, <2>1, <2>2, LeftAll, CapturedKeeps
<1>5. CASE EvictMark \/ Overtake \/ UNCHANGED vars \/ Receive
  <2>1. UNCHANGED <<pubs, origin, epoch, c2s, attempts>>
    BY <1>5 DEF EvictMark, Overtake, Receive, vars, store, conn
  <2> QED
    BY <1>1, <1>2, <1>3, <2>1, LeftAll, SameItself
<1>6. CASE HookReturns \/ HookThrows
  <2>1. /\ UNCHANGED <<pubs, origin, epoch>> /\ attempts' \subseteq attempts
        /\ c2s' = c2s \/ c2s' = <<>>
    BY <1>6, Settling DEF SettlesAs, Leaving, store
  <2> QED
    BY <1>1, <1>2, <1>3, <2>1, LeftAll, SameItself
<1>7. CASE ServerUnsubscribe
  <2>1. UNCHANGED <<pubs, origin, epoch>> /\ c2s # <<>> /\ c2s' = Tail(c2s)
    BY <1>7 DEF ServerUnsubscribe, store
  <2> QED
    BY <1>1, <1>2, <1>3, <1>7, <2>1, LeftTail, RevokeKeeps
<1>8. CASE ServerSubscribe
  <2>1. PICK m, w : SubscribesAs(m, w)
    BY <1>8, Subscribing
  <2>2. UNCHANGED <<pubs, origin, epoch>> /\ c2s # <<>> /\ c2s' = Tail(c2s) /\ m = Head(c2s)
    BY <2>1 DEF SubscribesAs, store
  <2>3. Left(1) /\ m = c2s[1] /\ 1 \in 1..Len(c2s)
    BY <1>1, <2>2, LeftTail
  <2>4. CASE UNCHANGED attempts
    BY <1>2, <1>3, <2>2, <2>3, <2>4, SameItself
  <2>5. CASE Begin(m)
    <3>1. ASSUME NEW b \in attempts' PROVE AttemptSeen(b)'
      <4>1. CASE b \in attempts
        BY <1>2, <2>2, <4>1, AttemptsStay, SameItself
      <4>2. CASE b.offset = m.offset /\ b.seen = m.seen /\ b.stage = "serving"
        <5>1. RequestSeen(m)
          BY <2>3 DEF Watermarks
        <5> QED
          BY <2>2, <4>2, <5>1 DEF RequestSeen, AttemptSeen
      <4> QED
        BY <2>5, <4>1, <4>2, Begun
    <3> QED
      BY <1>1, <1>2, <2>2, <2>3, <3>1, RequestsStay DEF Watermarks
  <2> QED
    BY <2>1, <2>4, <2>5 DEF SubscribesAs
<1>9. CASE HookServes
  <2>1. PICK a, b, w : ServesAs(a, b, w)
    BY <1>9, ServesSends
  <2>2. UNCHANGED <<pubs, origin, epoch, c2s>>
    BY <1>9 DEF HookServes, store
  <2>3. AttemptSeen(b)'
    <3>1. /\ a \in attempts /\ b.offset = a.offset /\ b.seen = a.seen /\ b.upto = pubs - origin
      BY <2>1 DEF ServesAs
    <3>2. AttemptSeen(a) /\ a.offset \in Nat
      BY <3>1, OffsetNumbers DEF Watermarks
    <3>3. a.seen = epoch => origin + a.offset <= pubs /\ a.offset <= pubs - origin
      BY <1>2, <3>2 DEF AttemptSeen
    <3> QED
      BY <2>2, <3>1, <3>3 DEF AttemptSeen
  <2>4. \A c \in attempts' : c = b \/ c \in attempts
    BY <2>1 DEF ServesAs
  <2>5. \A c \in attempts' : AttemptSeen(c)'
    BY <1>2, <2>2, <2>3, <2>4, AttemptsStay, SameItself
  <2>6. \A i \in 1..Len(c2s') : RequestSeen(c2s[i])'
    BY <1>1, <1>2, <2>2, LeftAll, RequestsStay
  <2> QED
    BY <1>1, <2>5, <2>6 DEF Watermarks
<1>10. CASE Restart \/ ConnectionLost
  <2>1. attempts' = {} /\ c2s' = <<>>
    BY <1>10 DEF Restart, ConnectionLost
  <2> QED
    BY <1>1, <2>1 DEF Watermarks
<1>11. CASE Reconnect
  <2>1. PICK m : m = Asking(1)
    OBVIOUS
  <2>2. UNCHANGED <<pubs, origin, epoch>> /\ attempts' = {} /\ (c2s' = <<>> \/ c2s' = <<m>>)
    BY <1>11, <2>1 DEF Reconnect, store, TypeInv, Closed
  <2>3. RequestSeen(m)
    BY <1>1, <2>1, AskedSeen
  <2>4. \A i \in 1..Len(c2s') : c2s'[i] = m
    BY <2>2
  <2>5. \A i \in 1..Len(c2s') : RequestSeen(c2s[i])'
    BY <2>2, <2>3, <2>4 DEF RequestSeen
  <2> QED
    BY <1>1, <2>2, <2>5 DEF Watermarks
<1>12. CASE RetryFires \/ Leave \/ Return
  <2>1. UNCHANGED <<pubs, origin, epoch, attempts>>
    BY <1>12 DEF RetryFires, Leave, Return, store
  <2>2. PICK m : RequestSeen(m) /\ (c2s' = c2s \/ c2s' = Append(c2s, m))
    <3>1. PICK x, y, z : x = Asking(nextRef) /\ y = Plain(nextRef) /\ z = Release
      OBVIOUS
    <3>2. RequestSeen(x) /\ RequestSeen(y) /\ RequestSeen(z)
      BY <1>1, <3>1, AskedSeen
    <3>3. \/ c2s' = c2s \/ c2s' = Append(c2s, x)
          \/ c2s' = Append(c2s, y) \/ c2s' = Append(c2s, z)
      BY <1>12, <3>1 DEF RetryFires, Leave, Return, Resubscribe, Outbox
    <3> QED
      BY <3>2, <3>3
  <2>3. \A i \in 1..Len(c2s') : c2s'[i] = m \/ (i \in 1..Len(c2s) /\ c2s'[i] = c2s[i])
    BY <1>1, <2>2, AskEntry
  <2>4. \A i \in 1..Len(c2s') : RequestSeen(c2s[i])'
    BY <2>1, <2>2, <2>3 DEF Watermarks, RequestSeen
  <2>5. \A a \in attempts' : AttemptSeen(a)'
    BY <2>1 DEF Watermarks, AttemptSeen
  <2> QED
    BY <1>1, <2>4, <2>5 DEF Watermarks
<1> QED
  BY <1>4, <1>5, <1>6, <1>7, <1>8, <1>9, <1>10, <1>11, <1>12 DEF Next

LEMMA InitMarks == Init => Watermarks
<1>1. Len(<<>>) = 0 /\ 1..0 = {}
  OBVIOUS
<1> QED
  BY <1>1, InitStamps DEF Init, Watermarks

-----------------------------------------------------------------------------
(* An open buffer joins the history that its hook read.                    *)

LEMMA HeldReaches ==
  ASSUME TypeInv, Holding, NEW a \in attempts, a.stage = "served", ~a.overflow,
         NEW i \in (origin + a.upto + 1)..pubs
  PROVE  \E j \in 1..Len(a.held) : a.held[j] = i
<1>1. AttemptOK(a, origin, pubs, nextRef) /\ HeldFits(a, origin, pubs)
  BY DEF TypeInv, Parked, Holding
<1>2. /\ pubs \in Nat /\ origin \in Nat /\ a.upto \in Nat /\ a.held \in Seq(Nat) /\ Len(a.held) \in Nat
  BY <1>1, Naturals, Bounds DEF AttemptOK, Attempts
<1>3. a.held # <<>> /\ 1 \in 1..Len(a.held) /\ Len(a.held) \in 1..Len(a.held)
  <2>1. a.held # <<>>
    BY <1>1, <1>2 DEF HeldFits
  <2> QED
    BY <1>2, <2>1
<1>4. PICK f, l : f = a.held[1] /\ l = Len(a.held)
  OBVIOUS
<1>5. f \in Nat /\ l \in Nat /\ f <= origin + a.upto + 1 /\ pubs = f + (l - 1)
  <2>1. f \in Nat
    BY <1>2, <1>3, <1>4
  <2>2. f <= origin + a.upto + 1 /\ a.held[l] = pubs /\ a.held[l] = f + (l - 1)
    BY <1>1, <1>3, <1>4 DEF HeldFits
  <2> QED
    BY <1>2, <1>4, <2>1, <2>2
<1>6. i \in Int /\ f <= i /\ i <= pubs
  BY <1>2, <1>5
<1>7. PICK j : j = i - f + 1
  OBVIOUS
<1>8. j \in 1..l /\ f + (j - 1) = i
  BY <1>2, <1>5, <1>6, <1>7
<1>9. a.held[j] = i
  BY <1>1, <1>4, <1>8 DEF HeldFits
<1> QED
  BY <1>4, <1>8, <1>9

LEMMA FloorLow ==
  ASSUME TypeInv, Holding, NEW a \in attempts, a.stage = "served", NEW covered \in Reports(a),
         covered = a.offset => a.offset <= a.upto
  PROVE  Floor(a, covered) <= a.upto
<1>1. AttemptOK(a, origin, pubs, nextRef) /\ HeldFits(a, origin, pubs)
  BY DEF TypeInv, Parked, Holding
<1>2. /\ a.before \in Nat /\ a.upto \in Nat /\ a.offset \in Nat /\ a.before <= MaxPubs
      /\ mark \in Nat /\ mark <= MaxPubs /\ MaxPubs \in Nat
  <2>1. /\ a.before \in Nat /\ a.upto \in Nat /\ a.offset \in Nat /\ a.before <= MaxPubs
    BY <1>1, Bounds DEF AttemptOK, Attempts
  <2>2. mark \in Nat /\ mark <= MaxPubs
    BY Bounds DEF TypeInv, Scalars, Numbers
  <2> QED
    BY <2>1, <2>2, Bounds
<1>3. a.before <= a.upto
  BY <1>1 DEF HeldFits
<1>4. PICK c : c = IF mark > a.before THEN mark ELSE a.before
  OBVIOUS
<1>5. c \in Nat /\ c <= MaxPubs
  BY <1>2, <1>4
<1>6. Floor(a, covered) = a.before \/ (Floor(a, covered) = covered /\ covered # None /\ ~(covered > c))
  BY <1>4 DEF Floor
<1>7. CASE Floor(a, covered) = covered /\ covered # None /\ ~(covered > c)
  <2>1. covered # MaxPubs + 1
    BY <1>2, <1>5, <1>7
  <2>2. covered = a.upto \/ covered = a.offset
    BY <1>7, <2>1 DEF Reports
  <2> QED
    BY <1>2, <1>7, <2>2
<1> QED
  BY <1>2, <1>3, <1>6, <1>7

-----------------------------------------------------------------------------
(* What the client has, as items join and leave.                           *)

LEMMA ToldGrows ==
  ASSUME Wires, NEW w, Sends(w), NEW p \in 0..Len(s2c), NEW q \in p..Len(s2c'), Told(p)
  PROVE  Told(q)'
<1>1. PICK m \in 1..p : s2c[m].k \in Markers
  BY DEF Told
<1>2. Len(s2c) \in Nat /\ Len(s2c') \in Nat
  BY DEF Wires, Sends
<1>3. m \in 1..q /\ m \in 1..Len(s2c)
  BY <1>2
<1>4. s2c'[m] = s2c[m]
  BY <1>3 DEF Sends
<1> QED
  BY <1>1, <1>3, <1>4 DEF Told

LEMMA HasGrows ==
  ASSUME Wires, NEW w, Sends(w), UNCHANGED known, NEW p \in 0..Len(s2c), NEW q \in p..Len(s2c'),
         NEW i, Has(p, i)
  PROVE  Has(q, i)'
<1>1. CASE i \in known
  BY <1>1 DEF Has
<1>2. CASE \E m \in 1..p : s2c[m].pub = i
  <2>1. PICK m \in 1..p : s2c[m].pub = i
    BY <1>2
  <2>2. Len(s2c) \in Nat /\ Len(s2c') \in Nat
    BY DEF Wires, Sends
  <2>3. m \in 1..q /\ m \in 1..Len(s2c)
    BY <2>2
  <2>4. s2c'[m] = s2c[m]
    BY <2>3 DEF Sends
  <2> QED
    BY <2>1, <2>3, <2>4 DEF Has
<1> QED
  BY <1>1, <1>2 DEF Has

LEMMA CoverGrows ==
  ASSUME Wires, NEW w, Sends(w), UNCHANGED <<known, base>>, NEW p \in 0..Len(s2c),
         NEW q \in p..Len(s2c'), NEW x, Covered(p, x)
  PROVE  Covered(q, x)'
<1>1. CASE Told(p)
  BY <1>1, ToldGrows DEF Covered
<1>2. CASE \A i \in (base + 1)..x : Has(p, i)
  <2>1. \A i \in (base + 1)..x : Has(q, i)'
    BY <1>2, HasGrows
  <2> QED
    BY <2>1 DEF Covered
<1> QED
  BY <1>1, <1>2 DEF Covered

\* What reaches x reaches below x.
LEMMA CoverBelow ==
  ASSUME NEW p, NEW x \in Int, NEW y \in Int, y <= x, base \in Int, Covered(p, x)
  PROVE  Covered(p, y)
<1>1. \A i \in (base + 1)..y : i \in (base + 1)..x
  OBVIOUS
<1> QED
  BY <1>1 DEF Covered

\* The server sends w; the client forgets or asks, but takes nothing.
Extends(w) ==
  /\ Sends(w) /\ pubs <= pubs' /\ pubs' \in Nat
  /\ UNCHANGED <<origin, epoch, lastSeen, seenIn, known, base>>
  /\ pending'.highest = pending.highest \/ pending'.highest = 0
  /\ asked \subseteq asked' /\ (wanted' => wanted)

\* What is sent leaves what was under way where it was.
LEMMA SentBefore ==
  ASSUME Wires, NEW w, Sends(w), NEW p \in 1..Len(s2c)
  PROVE  /\ p \in 0..Len(s2c) /\ p \in p..Len(s2c')
         /\ s2c'[p] = s2c[p] /\ \A q \in 1..(p - 1) : s2c'[q] = s2c[q]
<1>1. Len(s2c) \in Nat /\ Len(w) \in Nat /\ Len(s2c') = Len(s2c) + Len(w)
  BY DEF Wires, Sends
<1>2. p \in 0..Len(s2c) /\ p \in p..Len(s2c') /\ \A q \in 1..(p - 1) : q \in 1..Len(s2c)
  BY <1>1
<1> QED
  BY <1>2 DEF Sends

LEMMA SentItem ==
  ASSUME Wires, NEW w, Sends(w), NEW m \in 1..Len(w)
  PROVE  Len(s2c) + m \in 1..Len(s2c') /\ s2c'[Len(s2c) + m] = w[m]
<1>1. Len(s2c) \in Nat /\ Len(w) \in Nat /\ Len(s2c') = Len(s2c) + Len(w)
  BY DEF Wires, Sends
<1>2. Len(s2c) + m \in 1..Len(s2c')
  BY <1>1
<1> QED
  BY <1>2 DEF Sends

LEMMA OldFrames ==
  ASSUME TypeInv, NEW w, Extends(w), NEW p \in 1..Len(s2c), FrameCovered(p)
  PROVE  FrameCovered(p)'
<1>1. Wires /\ Sends(w) /\ UNCHANGED <<known, base, epoch>> /\ asked \subseteq asked'
  BY DEF TypeInv, Extends
<1>2. PICK x : x = s2c[p].pub
  OBVIOUS
<1>3. /\ p \in 0..Len(s2c) /\ p \in p..Len(s2c')
      /\ s2c'[p] = s2c[p] /\ \A q \in 1..(p - 1) : s2c'[q] = s2c[q]
  BY <1>1, SentBefore
<1>4. Settled(p)' => Settled(p)
  <2>1. SUFFICES ASSUME Settled(p)', NEW r \in asked
                 PROVE  \E q \in 1..(p - 1) : s2c[q].k \in Answered /\ s2c[q].ref = r
    BY DEF Settled
  <2>2. PICK q \in 1..(p - 1) : s2c'[q].k \in Answered /\ s2c'[q].ref = r
    BY <1>1, <2>1 DEF Settled
  <2> QED
    BY <1>3, <2>2
<1>5. Covered(p, x) => Covered(p, x)'
  BY <1>1, <1>3, CoverGrows DEF Extends
<1>6. Covered(p, x)' => Covered(p, s2c[p].pub)'
  BY <1>2, <1>3 DEF Covered
<1> QED
  BY <1>1, <1>2, <1>3, <1>4, <1>5, <1>6 DEF FrameCovered

LEMMA OldAcks ==
  ASSUME TypeInv, NEW w, Extends(w), NEW p \in 1..Len(s2c), AckCovered(p)
  PROVE  AckCovered(p)'
<1>1. Wires /\ Sends(w) /\ UNCHANGED <<known, base, epoch, origin>>
  BY DEF TypeInv, Extends
<1>2. /\ p \in 0..Len(s2c) /\ p \in p..Len(s2c')
      /\ s2c'[p] = s2c[p] /\ \A q \in 1..(p - 1) : s2c'[q] = s2c[q]
  BY <1>1, SentBefore
<1>3. Covered(p, origin + pending.highest) => Covered(p, origin + pending.highest)'
  <2>1. PICK x, y : x = origin + pending.highest /\ y = origin + pending'.highest
    OBVIOUS
  <2>2. x \in Int /\ y \in Int /\ y <= x /\ base \in Int
    <3>1. origin \in Nat /\ pending.highest \in Nat /\ base \in Nat
      BY Naturals
    <3> QED
      BY <2>1, <3>1 DEF Extends
  <2>3. Covered(p, x) => Covered(p, y)
    BY <2>2, CoverBelow
  <2>4. Covered(p, y) => Covered(p, y)'
    BY <1>1, <1>2, CoverGrows
  <2>5. Covered(p, y)' => Covered(p, origin + pending.highest)'
    BY <1>1, <2>1 DEF Covered
  <2> QED
    BY <2>1, <2>3, <2>4, <2>5
<1>4. ASSUME NEW q \in 1..(p - 1), Covered(p, s2c[q].pub) PROVE Covered(p, s2c[q].pub)'
  <2>1. PICK x : x = s2c[q].pub
    OBVIOUS
  <2>2. Covered(p, x)'
    BY <1>1, <1>2, <1>4, <2>1, CoverGrows
  <2> QED
    BY <1>2, <2>1, <2>2 DEF Covered
<1> QED
  BY <1>1, <1>2, <1>3, <1>4 DEF AckCovered

\* All that is under way goes on reaching what it reached.
LEMMA CoverAll ==
  ASSUME TypeInv, NEW w, Extends(w), NEW x, Covered(Len(s2c), x)
  PROVE  Covered(Len(s2c), x)'
<1>1. PICK p, q : p = Len(s2c) /\ q = Len(s2c')
  OBVIOUS
<1>2. Wires /\ Sends(w) /\ UNCHANGED <<known, base>>
  BY DEF TypeInv, Extends
<1>3. p \in 0..Len(s2c) /\ q \in p..Len(s2c')
  BY <1>1, <1>2 DEF Wires, Sends
<1>4. Covered(q, x)'
  BY <1>1, <1>2, <1>3, CoverGrows
<1> QED
  BY <1>1, <1>4 DEF Covered

LEMMA OldRequests ==
  ASSUME TypeInv, NEW w, Extends(w), NEW m, RequestCovered(m)
  PROVE  RequestCovered(m)'
<1>1. PICK x : x = origin + m.offset
  OBVIOUS
<1>2. Covered(Len(s2c), x) => Covered(Len(s2c), x)'
  BY CoverAll
<1>3. Covered(Len(s2c), x)' => Covered(Len(s2c), origin + m.offset)'
  BY <1>1 DEF Covered, Extends
<1> QED
  BY <1>1, <1>2, <1>3 DEF RequestCovered, Extends

LEMMA OldAttempts ==
  ASSUME TypeInv, NEW w, Extends(w), NEW a, NEW b, SameOffset(a, b), AttemptCovered(a)
  PROVE  AttemptCovered(b)'
<1>1. PICK x, y : x = origin + a.offset /\ y = origin + a.upto
  OBVIOUS
<1>2. /\ Covered(Len(s2c), x) => Covered(Len(s2c), x)'
      /\ Covered(Len(s2c), y) => Covered(Len(s2c), y)'
  BY CoverAll
<1>3. /\ Covered(Len(s2c), x)' => Covered(Len(s2c), origin + b.offset)'
      /\ Covered(Len(s2c), y)' => Covered(Len(s2c), origin + b.upto)'
  BY <1>1 DEF Covered, Extends, SameOffset
<1> QED
  BY <1>1, <1>2, <1>3 DEF AttemptCovered, Extends, SameOffset

LEMMA OldMember ==
  ASSUME TypeInv, NEW w, Extends(w), MemberCovered, live, pubs' = pubs
  PROVE  MemberCovered'
<1>1. PICK x : x = pubs
  OBVIOUS
<1>2. Covered(Len(s2c), x)'
  BY <1>1, CoverAll DEF MemberCovered
<1>3. Covered(Len(s2c), pubs)'
  BY <1>1, <1>2 DEF Covered
<1> QED
  BY <1>3 DEF MemberCovered

LEMMA OldOffset ==
  ASSUME NEW w, Extends(w), OffsetCovered
  PROVE  OffsetCovered'
BY DEF Extends, OffsetCovered, KnownUpTo

\* Cover, from what was there and what w adds.
LEMMA CoverExtends ==
  ASSUME TypeInv, NEW w, Extends(w), Cover, MemberCovered',
         \A i \in 1..Len(c2s') : RequestCovered(c2s[i])' \/ \E j \in 1..Len(c2s) : c2s'[i] = c2s[j],
         \A b \in attempts' : AttemptCovered(b)' \/ \E a \in attempts : SameOffset(a, b),
         \A m \in 1..Len(w), p \in 1..Len(s2c') :
           p = Len(s2c) + m => FrameCovered(p)' /\ AckCovered(p)'
  PROVE  Cover'
<1>1. OffsetCovered'
  BY OldOffset DEF Cover
<1>2. ASSUME NEW i \in 1..Len(c2s'), NEW j \in 1..Len(c2s), c2s'[i] = c2s[j]
      PROVE  RequestCovered(c2s[i])'
  <2>1. PICK m : m = c2s[j]
    OBVIOUS
  <2>2. RequestCovered(m)
    BY <2>1 DEF Cover
  <2>3. RequestCovered(m)'
    BY <2>2, OldRequests
  <2> QED
    BY <1>2, <2>1, <2>3 DEF RequestCovered
<1>3. ASSUME NEW b \in attempts' PROVE AttemptCovered(b)'
  <2>1. CASE \E a \in attempts : SameOffset(a, b)
    <3>1. PICK a \in attempts : SameOffset(a, b)
      BY <2>1
    <3>2. AttemptCovered(a)
      BY DEF Cover
    <3> QED
      BY <3>1, <3>2, OldAttempts
  <2> QED
    BY <2>1
<1>4. ASSUME NEW p \in 1..Len(s2c') PROVE FrameCovered(p)' /\ AckCovered(p)'
  <2>1. CASE p \in 1..Len(s2c)
    <3>1. FrameCovered(p) /\ AckCovered(p)
      BY <2>1 DEF Cover
    <3> QED
      BY <2>1, <3>1, OldFrames, OldAcks
  <2>2. CASE p \notin 1..Len(s2c)
    <3>1. PICK m \in 1..Len(w) : p = Len(s2c) + m
      BY <2>2, SentEntry DEF TypeInv, Extends
    <3> QED
      BY <3>1
  <2> QED
    BY <2>1, <2>2
<1>5. \A i \in 1..Len(c2s') : RequestCovered(c2s[i])'
  BY <1>2
<1>6. \A b \in attempts' : AttemptCovered(b)'
  BY <1>3
<1>7. \A p \in 1..Len(s2c') : FrameCovered(p)' /\ AckCovered(p)'
  BY <1>4
<1> QED
  BY <1>1, <1>5, <1>6, <1>7 DEF Cover

-----------------------------------------------------------------------------
(* A client that has everything.                                           *)

Complete == (base + 1)..pubs \subseteq known

LEMMA CompleteCovers ==
  ASSUME TypeInv, Watermarks, Holding, Complete
  PROVE  Cover
<1>1. /\ pubs \in Nat /\ origin \in Nat /\ base \in Nat /\ lastSeen \in Nat
      /\ pending.highest \in Nat
  BY Naturals
<1>2. ASSUME NEW p, NEW x \in Int, x <= pubs PROVE Covered(p, x)
  <2>1. (base + 1)..x \subseteq (base + 1)..pubs
    BY <1>1, <1>2
  <2> QED
    BY <2>1 DEF Complete, Covered, Has
<1>3. OffsetCovered
  <2>1. ASSUME lastSeen # 0, seenIn = epoch PROVE KnownUpTo(origin + lastSeen)
    <3>1. origin + lastSeen <= pubs
      BY <2>1 DEF Watermarks, Stamps
    <3>2. (base + 1)..(origin + lastSeen) \subseteq (base + 1)..pubs
      BY <1>1, <3>1
    <3> QED
      BY <3>2 DEF Complete, KnownUpTo
  <2> QED
    BY <2>1 DEF OffsetCovered
<1>4. MemberCovered
  BY <1>1, <1>2 DEF MemberCovered
<1>5. ASSUME NEW i \in 1..Len(c2s) PROVE RequestCovered(c2s[i])
  <2>1. SUFFICES ASSUME c2s[i].seen = epoch PROVE Covered(Len(s2c), origin + c2s[i].offset)
    BY DEF RequestCovered
  <2>2. origin + c2s[i].offset <= pubs /\ c2s[i].offset \in Nat
    BY <2>1, OffsetNumbers DEF Watermarks, RequestSeen
  <2> QED
    BY <1>1, <1>2, <2>2
<1>6. ASSUME NEW a \in attempts PROVE AttemptCovered(a)
  <2>1. HeldFits(a, origin, pubs) /\ AttemptSeen(a) /\ a.offset \in Nat /\ a.upto \in Nat
    BY OffsetNumbers DEF Holding, Watermarks
  <2>2. a.stage = "served" => Covered(Len(s2c), origin + a.upto)
    <3>1. a.stage = "served" => origin + a.upto <= pubs
      BY <2>1 DEF HeldFits
    <3> QED
      BY <1>1, <1>2, <2>1, <3>1
  <2>3. a.seen = epoch => Covered(Len(s2c), origin + a.offset)
    <3>1. a.seen = epoch => origin + a.offset <= pubs
      BY <2>1 DEF AttemptSeen
    <3> QED
      BY <1>1, <1>2, <2>1, <3>1
  <2> QED
    BY <2>2, <2>3 DEF AttemptCovered
<1>7. ASSUME NEW p \in 1..Len(s2c) PROVE FrameCovered(p) /\ AckCovered(p)
  <2>1. \A q \in 1..Len(s2c) : Covered(p, s2c[q].pub)
    BY <1>2, ItemFacts
  <2>2. \A q \in 1..(p - 1) : q \in 1..Len(s2c)
    BY DEF TypeInv, Wires
  <2>3. s2c[p].ep = epoch => Covered(p, origin + pending.highest)
    <3>1. SUFFICES ASSUME s2c[p].ep = epoch PROVE Covered(p, origin + pending.highest)
      OBVIOUS
    <3>2. origin + pending.highest <= pubs
      BY <3>1 DEF Watermarks, Stamps, StampedAs
    <3> QED
      BY <1>1, <1>2, <3>2
  <2> QED
    BY <2>1, <2>2, <2>3 DEF FrameCovered, AckCovered
<1> QED
  BY <1>3, <1>4, <1>5, <1>6, <1>7 DEF Cover

LEMMA CompleteSo == TypeInv /\ Watermarks /\ Holding /\ Complete => Cover
BY CompleteCovers

\* The same of the state that a step leads to.
LEMMA CompleteNext ==
  ASSUME TypeInv', Watermarks', Holding', Complete'
  PROVE  Cover'
BY CompleteSo, PTL

-----------------------------------------------------------------------------
(* What the client has, one step per operation.                            *)

\* What the steps below start from.
Ready == TypeInv /\ Holding /\ Unique /\ Watermarks /\ CoverInv

LEMMA PublishCovers ==
  ASSUME Ready, Publish, ~overtaken, ~strayed
  PROVE  Cover'
<1>1. TypeInv /\ Cover /\ Wires
  BY DEF Ready, CoverInv, TypeInv
<1>2. PICK w : PublishesAs(w)
  BY <1>1, Publishing
<1>3. /\ Sends(w) /\ pubs' = pubs + 1 /\ pubs \in Nat /\ Len(s2c) \in Nat /\ base \in Nat /\ base <= pubs
      /\ Len(s2c') = Len(s2c) + Len(w) /\ Len(w) \in Nat
      /\ UNCHANGED <<origin, epoch, live, c2s, lastSeen, pending, wanted, known, base, seenIn, asked>>
  <2>1. /\ Sends(w) /\ pubs' = pubs + 1
        /\ UNCHANGED <<origin, epoch, live, c2s, lastSeen, pending, wanted, known, base, seenIn, asked>>
    BY <1>2 DEF PublishesAs, client
  <2>2. pubs \in Nat /\ base \in Nat /\ base <= pubs
    BY <1>1, Naturals
  <2>3. Len(s2c) \in Nat /\ Len(s2c') = Len(s2c) + Len(w) /\ Len(w) \in Nat
    BY <1>1, <2>1 DEF Wires, Sends
  <2> QED
    BY <2>1, <2>2, <2>3
<1>4. Extends(w)
  BY <1>3 DEF Extends
<1>5. ASSUME live PROVE Covered(Len(s2c), pubs)'
  <2>1. PICK x, p, q : x = pubs /\ p = Len(s2c) /\ q = Len(s2c')
    OBVIOUS
  <2>2. 1 \in 1..Len(w) /\ w[1].pub = pubs + 1
    BY <1>2, <1>5 DEF PublishesAs
  <2>3. p \in 0..Len(s2c) /\ q \in p..Len(s2c') /\ Covered(p, x)
    BY <1>1, <1>3, <1>5, <2>1 DEF Cover, MemberCovered
  <2>4. Covered(q, x)'
    BY <1>1, <1>3, <2>3, CoverGrows
  <2>5. Has(q, x + 1)'
    <3>1. p + 1 \in 1..q /\ s2c'[p + 1] = w[1]
      BY <1>3, <2>1, <2>2 DEF Sends
    <3> QED
      BY <2>1, <2>2, <3>1 DEF Has
  <2>6. Covered(q, x + 1)'
    <3>1. \A i \in (base + 1)..(x + 1) : i \in (base + 1)..x \/ i = x + 1
      BY <1>3, <2>1
    <3> QED
      BY <1>3, <2>4, <2>5, <3>1 DEF Covered
  <2> QED
    BY <1>3, <2>1, <2>6 DEF Covered
<1>6. MemberCovered'
  BY <1>3, <1>5 DEF MemberCovered
<1>7. ASSUME NEW m \in 1..Len(w), NEW p \in 1..Len(s2c'), p = Len(s2c) + m
      PROVE  FrameCovered(p)' /\ AckCovered(p)'
  <2>1. live /\ w[m].k = "frame" /\ w[m].pub = pubs + 1
    BY <1>2 DEF PublishesAs
  <2>2. s2c'[p] = w[m] /\ \A l \in 1..Len(w) : w[l].pub = pubs + 1
    BY <1>2, <1>3, <1>7 DEF PublishesAs, Sends
  <2>3. PICK x, q : x = pubs /\ q = Len(s2c)
    OBVIOUS
  <2>4. q \in 0..Len(s2c) /\ p \in q..Len(s2c') /\ Covered(q, x)
    BY <1>1, <1>3, <1>7, <2>1, <2>3 DEF Cover, MemberCovered
  <2>5. Covered(p, x)' /\ Has(p, x + 1)'
    <3>1. Covered(p, x)'
      BY <1>1, <1>3, <2>4, CoverGrows
    <3>2. p \in 1..p /\ s2c'[p].pub = x + 1
      BY <2>1, <2>2, <2>3
    <3> QED
      BY <3>1, <3>2 DEF Has
  <2>6. Covered(p, x + 1)'
    <3>1. \A i \in (base + 1)..(x + 1) : i \in (base + 1)..x \/ i = x + 1
      BY <1>3, <2>3
    <3> QED
      BY <1>3, <2>5, <3>1 DEF Covered
  <2>7. Covered(p, s2c[p].pub)'
    BY <2>1, <2>2, <2>3, <2>6 DEF Covered
  <2> QED
    BY <2>1, <2>2, <2>7 DEF FrameCovered, AckCovered
<1>8. \A b \in attempts' : \E a \in attempts : SameOffset(a, b)
  BY <1>1, <1>2, CapturedKeeps
<1> QED
  BY <1>1, <1>3, <1>4, <1>6, <1>7, <1>8, CoverExtends

\* A membership covers the ack that follows everything else.
LEMMA MemberAck ==
  ASSUME TypeInv, Watermarks, live, MemberCovered, NEW p, p = Len(s2c), p \in 1..Len(s2c)
  PROVE  AckCovered(p)
<1>1. srv /\ pubs \in Int /\ base \in Int /\ origin \in Int /\ pending.highest \in Int
  BY Naturals DEF TypeInv, Closed
<1>2. Covered(p, pubs)
  BY DEF MemberCovered
<1>3. Covered(p, origin + pending.highest)
  <2>1. origin + pending.highest <= pubs
    BY <1>1 DEF Watermarks, Stamps
  <2>2. origin + pending.highest \in Int
    BY <1>1
  <2> QED
    BY <1>1, <1>2, <2>1, <2>2, CoverBelow
<1>4. ASSUME NEW q \in 1..(p - 1) PROVE Covered(p, s2c[q].pub)
  <2>1. q \in 1..Len(s2c)
    BY DEF TypeInv, Wires
  <2>2. s2c[q].pub \in Int /\ s2c[q].pub <= pubs
    BY <1>1, <2>1, ItemFacts
  <2> QED
    BY <1>1, <1>2, <2>2, CoverBelow
<1> QED
  BY <1>3, <1>4 DEF AckCovered

LastAck == live => \A p \in 1..Len(s2c) : p = Len(s2c) => AckCovered(p)

LEMMA MemberAckSo == TypeInv /\ Watermarks /\ MemberCovered => LastAck
BY MemberAck DEF LastAck

LEMMA MemberAckNext ==
  ASSUME TypeInv', Watermarks', live', MemberCovered', NEW p \in 1..Len(s2c'), p = Len(s2c')
  PROVE  AckCovered(p)'
<1>1. LastAck'
  BY MemberAckSo, PTL
<1> QED
  BY <1>1 DEF LastAck

\* A membership that stands, or goes, is still covered.
LEMMA MemberStays ==
  ASSUME TypeInv, NEW w, Extends(w), Cover, live' => live, pubs' = pubs
  PROVE  MemberCovered'
<1>1. CASE live
  BY <1>1, OldMember DEF Cover
<1>2. CASE ~live
  BY <1>2 DEF MemberCovered
<1> QED
  BY <1>1, <1>2

LEMMA SubscribeCovers ==
  ASSUME Ready, ServerSubscribe, TypeInv', Watermarks', Holding', ~overtaken', ~strayed'
  PROVE  Cover'
<1>1. TypeInv /\ Watermarks /\ (~overtaken /\ ~strayed => Cover) /\ Wires
  BY DEF Ready, CoverInv, TypeInv
<1>2. PICK m, w : SubscribesAs(m, w)
  BY <1>1, Subscribing
<1>3. /\ c2s # <<>> /\ m = Head(c2s) /\ c2s' = Tail(c2s)
      /\ UNCHANGED <<pubs, origin, epoch, lastSeen, pending, wanted, known, seenIn, asked>>
      /\ Sends(w) /\ Len(w) <= 1
  BY <1>2 DEF SubscribesAs, store, client
<1>4. m = c2s[1] /\ 1 \in 1..Len(c2s) /\ \A i \in 1..Len(c2s') : \E j \in 1..Len(c2s) : c2s'[i] = c2s[j]
  BY <1>1, <1>3, LeftTail DEF Left
<1>5. /\ pubs \in Nat /\ Len(s2c) \in Nat /\ Len(w) \in Nat /\ Len(s2c') = Len(s2c) + Len(w)
  BY <1>1, <1>3, Naturals DEF Wires, Sends
<1>6. base' = base => Extends(w)
  BY <1>3, <1>5 DEF Extends
<1>7. ASSUME NEW l \in 1..Len(w), NEW p \in 1..Len(s2c'), p = Len(s2c) + l
      PROVE  /\ s2c'[p] = w[l] /\ w[l].k \in Answered /\ FrameCovered(p)'
             /\ p = Len(s2c') /\ (w[l].k # "subscribed" => AckCovered(p)')
  <2>1. s2c'[p] = w[l] /\ w[l].k \in Answered
    BY <1>2, <1>3, <1>7 DEF SubscribesAs, Sends
  <2>2. w[l].k \notin Data
    BY <2>1, KindsApart
  <2>3. p = Len(s2c')
    BY <1>3, <1>5, <1>7
  <2> QED
    BY <2>1, <2>2, <2>3 DEF FrameCovered, AckCovered
<1>8. CASE /\ UNCHANGED <<live, attempts, base, overtaken, strayed>>
           /\ \A l \in 1..Len(w) : w[l].k # "subscribed"
  <2>1. Cover /\ Extends(w)
    BY <1>1, <1>6, <1>8
  <2>2. MemberCovered'
    BY <1>1, <1>3, <1>8, <2>1, MemberStays
  <2>3. \A l \in 1..Len(w), p \in 1..Len(s2c') : p = Len(s2c) + l => FrameCovered(p)' /\ AckCovered(p)'
    BY <1>7, <1>8
  <2>4. \A b \in attempts' : \E a \in attempts : SameOffset(a, b)
    BY <1>8, SameItself
  <2> QED
    BY <1>1, <1>4, <2>1, <2>2, <2>3, <2>4, CoverExtends
<1>9. CASE /\ m.offset = 0 /\ live' = TRUE /\ UNCHANGED attempts
           /\ base' = (IF live THEN base ELSE pubs) /\ overtaken' = (overtaken /\ live)
           /\ strayed' = (strayed /\ live)
  <2>1. CASE live
    <3>1. Cover /\ Extends(w)
      BY <1>1, <1>6, <1>9, <2>1
    <3>2. MemberCovered'
      BY <1>1, <1>3, <2>1, <3>1, MemberStays
    <3>3. \A l \in 1..Len(w), p \in 1..Len(s2c') : p = Len(s2c) + l => FrameCovered(p)' /\ AckCovered(p)'
      BY <1>7, <1>9, <3>2, MemberAckNext
    <3>4. \A b \in attempts' : \E a \in attempts : SameOffset(a, b)
      BY <1>9, SameItself
    <3> QED
      BY <1>1, <1>4, <3>1, <3>2, <3>3, <3>4, CoverExtends
  <2>2. CASE ~live
    <3>1. base' = pubs'
      BY <1>3, <1>9, <2>2
    <3>2. Complete'
      BY <1>3, <1>5, <3>1 DEF Complete
    <3> QED
      BY <3>2, CompleteNext
  <2> QED
    BY <2>1, <2>2
<1>10. CASE m.offset # 0 /\ Begin(m) /\ Len(w) = 0 /\ UNCHANGED <<live, base, overtaken, strayed>>
  <2>1. Cover /\ Extends(w)
    BY <1>1, <1>6, <1>10
  <2>2. MemberCovered'
    BY <1>1, <1>3, <1>10, <2>1, MemberStays
  <2>3. RequestCovered(m)'
    <3>1. RequestCovered(m)
      BY <1>4, <2>1 DEF Cover
    <3> QED
      BY <1>1, <2>1, <3>1, OldRequests
  <2>4. ASSUME NEW b \in attempts' PROVE AttemptCovered(b)' \/ \E a \in attempts : SameOffset(a, b)
    <3>1. CASE b \in attempts
      BY <3>1, SameItself
    <3>2. CASE b.offset = m.offset /\ b.seen = m.seen /\ b.stage = "serving"
      BY <2>3, <3>2 DEF RequestCovered, AttemptCovered
    <3> QED
      BY <1>10, <3>1, <3>2, Begun
  <2> QED
    BY <1>1, <1>4, <1>10, <2>1, <2>2, <2>4, CoverExtends
<1> QED
  BY <1>2, <1>8, <1>9, <1>10 DEF SubscribesAs

LEMMA UnsubscribeCovers ==
  ASSUME Ready, ServerUnsubscribe, ~overtaken, ~strayed
  PROVE  Cover'
<1>1. TypeInv /\ Cover /\ Wires
  BY DEF Ready, CoverInv, TypeInv
<1>2. /\ c2s # <<>> /\ c2s' = Tail(c2s) /\ live' = FALSE
      /\ UNCHANGED <<pubs, origin, epoch, s2c, lastSeen, pending, wanted, known, base, seenIn, asked>>
  BY DEF ServerUnsubscribe, store, client, ghosts
<1>3. PICK w : w = <<>>
  OBVIOUS
<1>4. Sends(w) /\ Len(w) = 0 /\ pubs \in Nat
  BY <1>1, <1>2, <1>3, SendsNothing, Naturals DEF Wires
<1>5. Extends(w)
  BY <1>2, <1>4 DEF Extends
<1>6. MemberCovered'
  BY <1>2 DEF MemberCovered
<1>7. \A i \in 1..Len(c2s') : \E j \in 1..Len(c2s) : c2s'[i] = c2s[j]
  BY <1>1, <1>2, LeftTail DEF Left
<1>8. \A b \in attempts' : \E a \in attempts : SameOffset(a, b)
  BY <1>1, RevokeKeeps
<1> QED
  BY <1>1, <1>4, <1>5, <1>6, <1>7, <1>8, CoverExtends

\* History arrives before the answer to the recovery it is served for.
LEMMA ServesCovers ==
  ASSUME Ready, HookServes, ~overtaken, ~strayed'
  PROVE  Cover'
<1>1. TypeInv /\ Wires /\ WaitingOnce /\ Watermarks /\ (~strayed => Cover)
  BY DEF Ready, CoverInv, TypeInv, Unique
<1>2. PICK a, b, w : ServesAs(a, b, w)
  BY <1>1, ServesSends
<1>3. /\ a \in attempts /\ a.stage = "serving" /\ a \in Attempts
      /\ attempts' = (attempts \ {a}) \cup {b}
      /\ b.ref = a.ref /\ b.offset = a.offset /\ b.seen = a.seen
      /\ b.stage = "served" /\ b.upto = pubs - origin
      /\ Sends(w) /\ ServedOK(w, a)
      /\ a.seen = epoch \/ \E m \in 1..Len(w) : w[m].k \in Markers
      /\ ~strayed
  BY <1>2 DEF ServesAs
<1>4. /\ UNCHANGED <<pubs, origin, epoch, live, c2s, lastSeen, pending, wanted, known, base, seenIn, asked>>
      /\ Cover
  BY <1>1, <1>3 DEF HookServes, store, client
<1>5. a.ref \in asked /\ Unanswered(a.ref)
  BY <1>1, <1>3 DEF WaitingOnce
<1>6. /\ pubs \in Nat /\ origin \in Nat /\ origin <= pubs /\ base \in Nat
      /\ Len(s2c) \in Nat /\ Len(w) \in Nat /\ Len(s2c') = Len(s2c) + Len(w)
      /\ a.offset \in Nat
  <2>1. Len(s2c) \in Nat /\ Len(w) \in Nat /\ Len(s2c') = Len(s2c) + Len(w)
    BY <1>1, <1>3 DEF Wires, Sends
  <2>2. a.offset \in Nat
    BY <1>1, <1>3, OffsetNumbers
  <2> QED
    BY <1>1, <2>1, <2>2, Naturals
<1>7. Extends(w)
  BY <1>3, <1>4, <1>6 DEF Extends
<1>8. MemberCovered'
  BY <1>1, <1>4, <1>7, MemberStays
<1>9. \A m \in 1..Len(w) : w[m].k \notin Answered
  BY <1>3 DEF ServedOK, HistoryOK, Markers, Answered
<1>10. Unanswered(a.ref)'
  <2>1. PICK r : r = a.ref
    OBVIOUS
  <2>2. Unanswered(r)'
    BY <1>1, <1>3, <1>5, <1>9, <2>1, UnansweredSent
  <2> QED
    BY <2>1, <2>2 DEF Unanswered
<1>11. ASSUME NEW m \in 1..Len(w), NEW p \in 1..Len(s2c'), p = Len(s2c) + m
       PROVE  FrameCovered(p)' /\ AckCovered(p)'
  <2>1. \A q \in 1..(p - 1) : q \in 1..Len(s2c')
    BY <1>6
  <2>2. ~Settled(p)'
    BY <1>4, <1>5, <1>10, <2>1 DEF Settled, Unanswered
  <2>3. s2c'[p].k # "subscribed"
    BY <1>3, <1>9, <1>11 DEF Sends, Answered
  <2> QED
    BY <2>2, <2>3 DEF FrameCovered, AckCovered
<1>12. PICK z, p, q : z = origin + a.offset /\ p = Len(s2c) /\ q = Len(s2c')
  OBVIOUS
<1>13. p \in 0..Len(s2c) /\ q \in p..Len(s2c')
  BY <1>6, <1>12
<1>14. (\E m \in 1..Len(w) : w[m].k \in Markers) => Told(q)'
  <2>1. SUFFICES ASSUME NEW m \in 1..Len(w), w[m].k \in Markers PROVE Told(q)'
    OBVIOUS
  <2>2. Len(s2c) + m \in 1..q /\ s2c'[Len(s2c) + m] = w[m]
    BY <1>1, <1>3, <1>12, SentItem
  <2> QED
    BY <2>1, <2>2 DEF Told
<1>15. Covered(q, pubs)'
  <2>1. CASE Told(q)'
    BY <2>1 DEF Covered
  <2>2. CASE ~Told(q)'
    <3>1. a.seen = epoch /\ Covered(p, z)
      BY <1>3, <1>4, <1>12, <1>14, <2>2 DEF Cover, AttemptCovered
    <3>2. \A i \in (origin + a.offset + 1)..pubs : \E m \in 1..Len(w) : w[m].pub = i
      BY <1>3, <1>14, <2>2 DEF ServedOK
    <3>3. Covered(q, z)'
      BY <1>1, <1>3, <1>4, <1>13, <3>1, CoverGrows
    <3>4. ASSUME NEW i \in (base + 1)..pubs PROVE Has(q, i)'
      <4>1. CASE i <= z
        <5>1. i \in (base + 1)..z
          BY <1>6, <1>12, <4>1
        <5> QED
          BY <1>4, <2>2, <3>3, <5>1 DEF Covered
      <4>2. CASE ~(i <= z)
        <5>1. i \in (origin + a.offset + 1)..pubs
          BY <1>6, <1>12, <4>2
        <5>2. PICK m \in 1..Len(w) : w[m].pub = i
          BY <3>2, <5>1
        <5>3. Len(s2c) + m \in 1..q /\ s2c'[Len(s2c) + m] = w[m]
          BY <1>1, <1>3, <1>12, SentItem
        <5> QED
          BY <5>2, <5>3 DEF Has
      <4> QED
        BY <4>1, <4>2
    <3> QED
      BY <1>4, <3>4 DEF Covered
  <2> QED
    BY <2>1, <2>2
<1>16. AttemptCovered(b)'
  <2>1. origin + b.upto = pubs
    BY <1>3, <1>6
  <2>2. Covered(Len(s2c), origin + b.upto)'
    BY <1>4, <1>12, <1>15, <2>1 DEF Covered
  <2> QED
    BY <1>3, <2>2 DEF AttemptCovered
<1>17. \A e \in attempts' : AttemptCovered(e)' \/ \E c \in attempts : SameOffset(c, e)
  <2>1. \A e \in attempts' : e = b \/ e \in attempts
    BY <1>3
  <2> QED
    BY <1>16, <2>1, SameItself
<1> QED
  BY <1>1, <1>4, <1>7, <1>8, <1>11, <1>17, CoverExtends

\* The membership that a landing installs.
LEMMA JoinCovers ==
  ASSUME TypeInv, Holding, Cover, NEW a \in attempts, NEW covered, NEW truncated,
         ~truncated => /\ a.stage = "served" /\ covered \in Reports(a)
                       /\ covered = a.offset => a.offset <= a.upto,
         NEW w, Extends(w), pubs' = pubs, Joins(w, a, covered, truncated)
  PROVE  MemberCovered'
<1>1. /\ Wires /\ Sends(w) /\ UNCHANGED <<pubs, origin, epoch, known, base>>
      /\ AttemptCovered(a) /\ AttemptOK(a, origin, pubs, nextRef)
  BY DEF TypeInv, Parked, Extends, Cover
<1>2. Len(s2c) \in Nat /\ Len(w) \in Nat /\ Len(s2c') = Len(s2c) + Len(w)
  BY <1>1 DEF Wires, Sends
<1>3. /\ pubs \in Nat /\ origin \in Nat /\ base \in Nat /\ a.upto \in Nat
      /\ \A j \in 1..Len(a.held) : a.held[j] \in Nat
  <2>1. a.upto \in Nat
    BY <1>1, Bounds DEF AttemptOK, Attempts
  <2>2. pubs \in Nat /\ origin \in Nat /\ base \in Nat
    BY Naturals
  <2>3. \A j \in 1..Len(a.held) : a.held[j] \in Nat
    BY <1>1, <2>2 DEF AttemptOK
  <2> QED
    BY <2>1, <2>2, <2>3
<1>4. PICK z, p, q : z = origin + a.upto /\ p = Len(s2c) /\ q = Len(s2c')
  OBVIOUS
<1>5. p \in 0..Len(s2c) /\ q \in p..Len(s2c')
  BY <1>2, <1>4
<1>6. ASSUME NEW m \in 1..Len(w) PROVE Len(s2c) + m \in 1..q /\ s2c'[Len(s2c) + m] = w[m]
  BY <1>1, <1>4, SentItem
<1>7. CASE \E m \in 1..Len(w) : w[m].k \in Markers
  <2>1. Told(q)'
    BY <1>6, <1>7 DEF Told
  <2> QED
    BY <1>4, <2>1 DEF MemberCovered, Covered, Told
<1>8. CASE /\ ~a.overflow /\ ~truncated
           /\ \A j \in 1..Len(a.held) : Stamp(a.held[j]) > Floor(a, covered) =>
                \E m \in 1..Len(w) : w[m].pub = a.held[j]
  <2>1. a.stage = "served" /\ covered \in Reports(a)
    BY <1>8
  <2>2. Floor(a, covered) <= a.upto
    BY <1>8, FloorLow
  <2>3. Covered(p, z)
    BY <1>1, <1>4, <2>1 DEF AttemptCovered
  <2>4. Covered(q, z)'
    BY <1>1, <1>5, <2>3, CoverGrows
  <2>5. Covered(q, pubs)'
    <3>1. CASE Told(q)'
      BY <3>1 DEF Covered
    <3>2. CASE ~Told(q)'
      <4>1. ASSUME NEW i \in (base + 1)..pubs PROVE Has(q, i)'
        <5>1. CASE i <= z
          <6>1. i \in (base + 1)..z
            BY <1>3, <1>4, <5>1
          <6> QED
            BY <1>1, <2>4, <3>2, <6>1 DEF Covered
        <5>2. CASE ~(i <= z)
          <6>1. i \in (origin + a.upto + 1)..pubs /\ i \in Int
            BY <1>3, <1>4, <5>2
          <6>2. PICK j \in 1..Len(a.held) : a.held[j] = i
            BY <1>8, <2>1, <6>1, HeldReaches
          <6>3. Floor(a, covered) \in Int
            <7>1. AttemptOK(a, origin, pubs, nextRef) /\ MaxPubs + 1 \in Int /\ None \in Int
              BY <1>1, Bounds DEF None
            <7>2. a.before \in Int /\ a.offset \in Int
              BY <7>1, Bounds DEF AttemptOK, Attempts
            <7>3. covered \in Int
              BY <1>3, <2>1, <7>1, <7>2 DEF Reports
            <7> QED
              BY <7>2, <7>3 DEF Floor
          <6>4. i - origin > Floor(a, covered)
            BY <1>3, <1>4, <2>2, <5>2, <6>1, <6>3
          <6>5. PICK m \in 1..Len(w) : w[m].pub = i
            BY <1>8, <6>2, <6>4 DEF Stamp
          <6> QED
            BY <1>6, <6>5 DEF Has
        <5> QED
          BY <5>1, <5>2
      <4> QED
        BY <1>1, <4>1 DEF Covered
    <3> QED
      BY <3>1, <3>2
  <2> QED
    BY <1>1, <1>4, <2>5 DEF MemberCovered, Covered
<1> QED
  BY <1>7, <1>8 DEF Joins

LEMMA SettlesCovers ==
  ASSUME Ready, HookReturns \/ HookThrows, TypeInv', Watermarks', ~overtaken, ~strayed'
  PROVE  Cover'
<1>1. TypeInv /\ Holding /\ Wires /\ WaitingOnce /\ (~strayed => Cover)
  BY DEF Ready, CoverInv, TypeInv, Unique
<1>2. PICK a, covered, truncated : SettlesAs(a, covered, truncated)
  BY Settling
<1>3. PICK w : LandsAs(w, a, covered, truncated)
  BY <1>1, <1>2, LandSends DEF SettlesAs
<1>4. /\ a \in attempts /\ (~truncated => a.stage = "served" /\ covered \in Reports(a))
      /\ UNCHANGED <<pubs, origin, epoch, lastSeen, pending, wanted, known, base, seenIn, asked>>
      /\ Sends(w) /\ LandItems(w, a) /\ attempts' \subseteq attempts /\ (c2s' = c2s \/ c2s' = <<>>)
      /\ truncated \/ ~Vouches(a, covered)
  BY <1>2, <1>3 DEF SettlesAs, LandsAs, Leaving, store, client
<1>5. a.ref \in asked /\ Unanswered(a.ref) /\ Cover
  BY <1>1, <1>2, <1>4 DEF WaitingOnce, SettlesAs
<1>6. /\ pubs \in Nat /\ Len(s2c) \in Nat /\ Len(w) \in Nat /\ Len(s2c') = Len(s2c) + Len(w)
  BY <1>1, <1>4, Naturals DEF Wires, Sends
<1>7. Extends(w)
  BY <1>4, <1>6 DEF Extends
<1>8. MemberCovered'
  <2>1. CASE live \/ ~live'
    BY <1>1, <1>4, <1>5, <1>7, <2>1, MemberStays
  <2>2. CASE ~live /\ Joins(w, a, covered, truncated)
    <3>1. a.offset \in Nat /\ a.upto \in Nat
      BY <1>1, <1>4, OffsetNumbers
    <3>2. ~truncated => (covered = a.offset => a.offset <= a.upto)
      BY <1>4, <2>2, <3>1 DEF Vouches
    <3> QED
      BY <1>1, <1>4, <1>5, <1>7, <2>2, <3>2, JoinCovers
  <2> QED
    BY <1>3, <2>1, <2>2 DEF LandsAs
<1>9. ASSUME NEW m \in 1..Len(w), w[m].k \in Answered PROVE m = Len(w)
  <2>1. LandItem(w, m, a)
    BY <1>4 DEF LandItems
  <2> QED
    BY <1>9, <2>1, KindsApart DEF LandItem, Data
<1>10. ASSUME NEW p \in 1..Len(s2c'), s2c'[p].k \in Answered, s2c'[p].ref = a.ref
       PROVE  p = Len(s2c')
  <2>1. ~(p \in 1..Len(s2c) /\ s2c'[p] = s2c[p])
    BY <1>5, <1>10 DEF Unanswered
  <2>2. PICK m \in 1..Len(w) : p = Len(s2c) + m /\ s2c'[p] = w[m]
    BY <1>1, <1>4, <2>1, SentEntry
  <2>3. m = Len(w)
    BY <1>9, <1>10, <2>2
  <2> QED
    BY <1>6, <2>2, <2>3
<1>11. ASSUME NEW m \in 1..Len(w), NEW p \in 1..Len(s2c'), p = Len(s2c) + m
       PROVE  FrameCovered(p)' /\ AckCovered(p)'
  <2>1. \A q \in 1..(p - 1) : q \in 1..Len(s2c') /\ q # Len(s2c')
    BY <1>6
  <2>2. ~Settled(p)'
    BY <1>4, <1>5, <1>10, <2>1 DEF Settled
  <2>3. CASE s2c'[p].k # "subscribed"
    BY <2>2, <2>3 DEF FrameCovered, AckCovered
  <2>4. CASE s2c'[p].k = "subscribed"
    <3>1. w[m].k = "subscribed"
      BY <1>4, <1>11, <2>4 DEF Sends
    <3>2. p = Len(s2c')
      <4>1. m = Len(w)
        BY <1>9, <3>1 DEF Answered
      <4> QED
        BY <1>6, <1>11, <4>1
    <3>3. live'
      BY <1>3, <3>1 DEF LandsAs
    <3> QED
      BY <1>8, <2>2, <3>2, <3>3, MemberAckNext DEF FrameCovered
  <2> QED
    BY <2>3, <2>4
<1>12. \A i \in 1..Len(c2s') : \E j \in 1..Len(c2s) : c2s'[i] = c2s[j]
  <2>1. \A i \in 1..Len(c2s') : i \in 1..Len(c2s) /\ c2s'[i] = c2s[i]
    BY <1>4
  <2> QED
    BY <2>1
<1>13. \A b \in attempts' : \E c \in attempts : SameOffset(c, b)
  BY <1>4, SameItself
<1> QED
  BY <1>1, <1>5, <1>7, <1>8, <1>11, <1>12, <1>13, CoverExtends

\* A client without a connection, or that gets one, is owed nothing on it.
LEMMA EmptyCovers ==
  ASSUME OffsetCovered', attempts' = {}, s2c' = <<>>, ~live',
         \A i \in 1..Len(c2s') : RequestCovered(c2s[i])'
  PROVE  Cover'
BY DEF Cover, MemberCovered

\* The request of a client that resumes from its offset.
LEMMA AskCovered ==
  ASSUME TypeInv, OffsetCovered, wanted, UNCHANGED <<origin, epoch, known, base>>,
         NEW r, NEW m, m = Asking(r)
  PROVE  RequestCovered(m)'
<1> SUFFICES ASSUME m.seen = epoch PROVE Covered(Len(s2c), origin + m.offset)'
  BY DEF RequestCovered
<1>1. m.offset = lastSeen /\ lastSeen # 0 /\ seenIn = epoch
  BY AskingFacts, Naturals
<1>2. KnownUpTo(origin + lastSeen)
  BY <1>1 DEF OffsetCovered
<1> QED
  BY <1>1, <1>2 DEF Covered, Has, KnownUpTo

\* What asks for no history is owed nothing.
LEMMA PlainCovered ==
  ASSUME TypeInv, epoch' = epoch, NEW m, m.seen = NoEpoch
  PROVE  RequestCovered(m)'
<1>1. m.seen # epoch
  BY Naturals
<1> QED
  BY <1>1 DEF RequestCovered

LEMMA OffsetKept ==
  ASSUME UNCHANGED <<origin, epoch, lastSeen, seenIn, wanted, known, base>>, OffsetCovered
  PROVE  OffsetCovered'
BY DEF OffsetCovered, KnownUpTo

LEMMA LostCovers ==
  ASSUME Ready, ConnectionLost, ~overtaken, ~strayed
  PROVE  Cover'
<1>1. /\ attempts' = {} /\ s2c' = <<>> /\ live' = FALSE /\ Len(c2s') = 0
      /\ UNCHANGED <<origin, epoch, lastSeen, seenIn, wanted, known, base>>
  BY DEF ConnectionLost, store, ghosts
<1>2. OffsetCovered'
  BY <1>1, OffsetKept DEF Ready, CoverInv, Cover
<1> QED
  BY <1>1, <1>2, EmptyCovers

LEMMA ReconnectCovers ==
  ASSUME Ready, Reconnect, ~overtaken, ~strayed
  PROVE  Cover'
<1>1. PICK m : m = Asking(1)
  OBVIOUS
<1>2. /\ ~link /\ (c2s' = <<>> \/ (wanted /\ c2s' = <<m>>))
      /\ UNCHANGED <<attempts, s2c, live, pubs, origin, epoch, lastSeen, seenIn, wanted, known, base>>
  BY <1>1 DEF Reconnect, store
<1>3. attempts' = {} /\ s2c' = <<>> /\ ~live' /\ TypeInv
  BY <1>2 DEF Ready, TypeInv, Closed
<1>4. OffsetCovered
  BY DEF Ready, CoverInv, Cover
<1>5. OffsetCovered'
  BY <1>2, <1>4, OffsetKept
<1>6. \A i \in 1..Len(c2s') : RequestCovered(c2s[i])'
  <2>1. CASE c2s' = <<>>
    BY <2>1
  <2>2. CASE wanted /\ c2s' = <<m>>
    <3>1. RequestCovered(m)'
      BY <1>1, <1>2, <1>3, <1>4, <2>2, AskCovered
    <3>2. \A i \in 1..Len(c2s') : c2s'[i] = m
      BY <2>2
    <3> QED
      BY <3>1, <3>2 DEF RequestCovered
  <2> QED
    BY <1>2, <2>1, <2>2
<1> QED
  BY <1>3, <1>5, <1>6, EmptyCovers

\* What was seen before a restart is of another epoch.
LEMMA RestartCovers ==
  ASSUME Ready, Restart
  PROVE  Cover'
<1>1. /\ epoch' = epoch + 1 /\ live' = FALSE /\ attempts' = {} /\ Len(c2s') = 0
      /\ UNCHANGED <<s2c, seenIn>>
  BY DEF Restart, client, ghosts
<1>2. TypeInv /\ Watermarks
  BY DEF Ready
<1>3. epoch \in Nat /\ seenIn \in Int
  BY <1>2, Naturals
<1>4. seenIn' # epoch'
  BY <1>1, <1>2, <1>3 DEF Watermarks, Stamps
<1>5. ASSUME NEW p \in 1..Len(s2c') PROVE s2c'[p].ep # epoch'
  <2>1. s2c[p].ep \in Nat /\ s2c[p].ep <= epoch
    BY <1>1, <1>2, ItemFacts DEF Watermarks, Stamps, StampedAs
  <2> QED
    BY <1>1, <1>3, <2>1
<1> QED
  BY <1>1, <1>4, <1>5 DEF Cover, OffsetCovered, MemberCovered, FrameCovered, AckCovered

\* Nothing is sent to the client; it may ask for something, and forget.
LEMMA NothingSent ==
  ASSUME TypeInv, Cover,
         UNCHANGED <<pubs, origin, epoch, s2c, live, attempts, lastSeen, seenIn, known, base>>,
         pending'.highest = pending.highest \/ pending'.highest = 0,
         asked \subseteq asked', wanted' => wanted,
         NEW m, RequestCovered(m)', c2s' = c2s \/ c2s' = Append(c2s, m)
  PROVE  Cover'
<1>1. PICK w : w = <<>>
  OBVIOUS
<1>2. Sends(w) /\ Len(w) = 0 /\ pubs \in Nat /\ c2s \in Seq(Requests)
  BY <1>1, SendsNothing, Naturals DEF TypeInv, Wires
<1>3. Extends(w)
  BY <1>2 DEF Extends
<1>4. MemberCovered'
  BY <1>3, MemberStays
<1>5. ASSUME NEW i \in 1..Len(c2s')
      PROVE  RequestCovered(c2s[i])' \/ \E j \in 1..Len(c2s) : c2s'[i] = c2s[j]
  <2>1. (i \in 1..Len(c2s) /\ c2s'[i] = c2s[i]) \/ c2s'[i] = m
    BY <1>2, AskEntry
  <2> QED
    BY <2>1 DEF RequestCovered
<1>6. \A b \in attempts' : \E a \in attempts : SameOffset(a, b)
  BY SameItself
<1> QED
  BY <1>2, <1>3, <1>4, <1>5, <1>6, CoverExtends

LEMMA RetryCovers ==
  ASSUME Ready, RetryFires, ~overtaken, ~strayed
  PROVE  Cover'
<1>1. PICK m : m = Asking(nextRef)
  OBVIOUS
<1>2. /\ UNCHANGED <<pubs, origin, epoch, live, attempts, s2c, lastSeen, seenIn, wanted, known, base>>
      /\ asked \subseteq asked'
      /\ pending' = pending \/ pending' = [ref |-> nextRef, highest |-> 0]
      /\ c2s' = c2s \/ (wanted /\ c2s' = Append(c2s, m))
  BY <1>1 DEF RetryFires, Resubscribe, Outbox, Recovering, store
<1>3. TypeInv /\ Cover /\ OffsetCovered
  BY DEF Ready, CoverInv, Cover
<1>4. pending'.highest = pending.highest \/ pending'.highest = 0
  BY <1>2
<1>5. CASE c2s' = c2s
  <2>1. RequestCovered(Release)'
    BY <1>2, <1>3, AskingFacts, PlainCovered
  <2>2. PICK n : n = Release
    OBVIOUS
  <2>3. RequestCovered(n)'
    BY <2>1, <2>2 DEF RequestCovered
  <2> QED
    BY <1>2, <1>3, <1>4, <1>5, <2>3, NothingSent
<1>6. CASE wanted /\ c2s' = Append(c2s, m)
  <2>1. RequestCovered(m)'
    BY <1>1, <1>2, <1>3, <1>6, AskCovered
  <2> QED
    BY <1>2, <1>3, <1>4, <1>6, <2>1, NothingSent
<1> QED
  BY <1>2, <1>5, <1>6

\* Leave and EvictMark, and no step at all.
LEMMA LeaveCovers ==
  ASSUME Ready, Leave \/ EvictMark \/ UNCHANGED vars, ~overtaken, ~strayed
  PROVE  Cover'
<1>1. PICK m : m = Release
  OBVIOUS
<1>2. /\ UNCHANGED <<pubs, origin, epoch, live, attempts, s2c, lastSeen, seenIn, known, base, asked>>
      /\ pending' = pending \/ pending' = NoPending
      /\ c2s' = c2s \/ c2s' = Append(c2s, m)
      /\ wanted' => wanted
  BY <1>1 DEF Leave, EvictMark, vars, Outbox, store, conn, client, ghosts
<1>3. TypeInv /\ Cover
  BY DEF Ready, CoverInv
<1>4. pending'.highest = pending.highest \/ pending'.highest = 0
  BY <1>2 DEF NoPending
<1>5. m.seen = NoEpoch
  BY <1>1, AskingFacts
<1>6. RequestCovered(m)'
  BY <1>2, <1>3, <1>5, PlainCovered
<1> QED
  BY <1>2, <1>3, <1>4, <1>6, NothingSent

LEMMA ReturnCovers ==
  ASSUME Ready, Return, TypeInv', Watermarks', Holding'
  PROVE  Cover'
<1>1. base' = pubs /\ pubs' = pubs /\ known' = known /\ pubs \in Nat
  BY Naturals DEF Return, store, Ready
<1>2. Complete'
  BY <1>1 DEF Complete
<1> QED
  BY <1>2, CompleteNext

-----------------------------------------------------------------------------
(* The client takes one item.                                              *)

\* It takes an item that is not a marker, and keeps what it has.
Passes(m) ==
  /\ Takes /\ m = s2c[1] /\ m.k \notin Markers
  /\ base' = base /\ known \subseteq known' /\ (m.pub # 0 => m.pub \in known')

LEMMA ToldPasses ==
  ASSUME Wires, NEW m, Passes(m), NEW q \in 0..Len(s2c'), Told(q + 1)
  PROVE  Told(q)'
<1>1. PICK n \in 1..(q + 1) : s2c[n].k \in Markers
  BY DEF Told
<1>2. n # 1
  BY <1>1 DEF Passes
<1>3. PICK r : r = n - 1
  OBVIOUS
<1>4. r \in 1..q /\ n = r + 1 /\ r \in 1..Len(s2c')
  BY <1>2, <1>3 DEF Passes, Takes
<1>5. s2c'[r].k \in Markers
  BY <1>1, <1>4 DEF Passes, Takes
<1> QED
  BY <1>4, <1>5 DEF Told

LEMMA HasPasses ==
  ASSUME Wires, NEW m, Passes(m), NEW q \in 0..Len(s2c'), NEW i, i # 0, Has(q + 1, i)
  PROVE  Has(q, i)'
<1>1. CASE i \in known
  BY <1>1 DEF Has, Passes
<1>2. CASE \E n \in 1..(q + 1) : s2c[n].pub = i
  <2>1. PICK n \in 1..(q + 1) : s2c[n].pub = i
    BY <1>2
  <2>2. CASE n = 1
    BY <2>1, <2>2 DEF Has, Passes
  <2>3. CASE n # 1
    <3>1. PICK r : r = n - 1
      OBVIOUS
    <3>2. r \in 1..q /\ n = r + 1 /\ r \in 1..Len(s2c')
      BY <2>3, <3>1 DEF Passes, Takes
    <3>3. s2c'[r].pub = i
      BY <2>1, <3>2 DEF Passes, Takes
    <3> QED
      BY <3>2, <3>3 DEF Has
  <2> QED
    BY <2>2, <2>3
<1> QED
  BY <1>1, <1>2 DEF Has

LEMMA CoverPasses ==
  ASSUME TypeInv, NEW m, Passes(m), NEW q \in 0..Len(s2c'), NEW x, Covered(q + 1, x)
  PROVE  Covered(q, x)'
<1>1. Wires /\ base \in Nat /\ base' = base
  BY Naturals DEF TypeInv, Passes
<1>2. CASE Told(q + 1)
  BY <1>1, <1>2, ToldPasses DEF Covered
<1>3. CASE \A i \in (base + 1)..x : Has(q + 1, i)
  <2>1. ASSUME NEW i \in (base + 1)..x PROVE Has(q, i)'
    <3>1. i # 0
      BY <1>1
    <3> QED
      BY <1>1, <1>3, <3>1, HasPasses
  <2> QED
    BY <1>1, <2>1 DEF Covered
<1> QED
  BY <1>2, <1>3 DEF Covered

\* What reaches the client with the first item that it takes, it has.
LEMMA KnowsPassed ==
  ASSUME TypeInv, NEW m, Passes(m), NEW x, Covered(1, x)
  PROVE  \A i \in (base' + 1)..x : i \in known'
<1>1. 0 \in 0..Len(s2c')
  BY DEF Passes, Takes
<1>2. Covered(0 + 1, x)
  OBVIOUS
<1>3. Covered(0, x)'
  BY <1>1, <1>2, CoverPasses
<1> QED
  BY <1>3 DEF Covered, Told, Has

LEMMA FramePasses ==
  ASSUME TypeInv, NEW m, Passes(m), epoch' = epoch, NEW p \in 1..Len(s2c'), FrameCovered(p + 1),
         Settled(p)' => Settled(p + 1)
  PROVE  FrameCovered(p)'
<1>1. s2c'[p] = s2c[p + 1] /\ p \in 0..Len(s2c')
  BY TakenEntry DEF Passes, TypeInv
<1>2. PICK x : x = s2c[p + 1].pub
  OBVIOUS
<1>3. Covered(p + 1, x) => Covered(p, x)'
  BY <1>1, CoverPasses
<1>4. Covered(p, x)' => Covered(p, s2c[p].pub)'
  BY <1>1, <1>2 DEF Covered
<1> QED
  BY <1>1, <1>2, <1>3, <1>4 DEF FrameCovered

\* An ack that stays under way, with a recovery whose highest number the item may raise.
LEMMA AckPasses ==
  ASSUME TypeInv, NEW m, Passes(m), UNCHANGED <<origin, epoch>>, NEW p \in 1..Len(s2c'), AckCovered(p + 1),
         \/ pending'.highest = pending.highest \/ pending'.highest = 0
         \/ s2c'[p].ep = epoch => origin + pending'.highest = s2c[1].pub
  PROVE  AckCovered(p)'
<1>1. s2c'[p] = s2c[p + 1] /\ p \in 0..Len(s2c') /\ Wires /\ p + 1 \in 1..Len(s2c)
  BY TakenEntry DEF Passes, TypeInv
<1> SUFFICES ASSUME s2c'[p].k = "subscribed", s2c'[p].ep = epoch
             PROVE  /\ Covered(p, origin + pending.highest)'
                    /\ \A q \in 1..(p - 1) : Covered(p, s2c[q].pub)'
  BY DEF AckCovered
<1>2. /\ Covered(p + 1, origin + pending.highest)
      /\ \A q \in 1..p : Covered(p + 1, s2c[q].pub)
  <2>1. (p + 1) - 1 = p
    OBVIOUS
  <2> QED
    BY <1>1, <2>1 DEF AckCovered
<1>3. PICK x : x = origin + pending'.highest
  OBVIOUS
<1>4. Covered(p + 1, x)
  <2>1. CASE s2c'[p].ep = epoch => origin + pending'.highest = s2c[1].pub
    <3>1. 1 \in 1..p
      OBVIOUS
    <3> QED
      BY <1>2, <1>3, <2>1, <3>1
  <2>2. CASE pending'.highest = pending.highest
    BY <1>2, <1>3, <2>2
  <2>3. CASE pending'.highest = 0
    <3>1. PICK y : y = origin + pending.highest
      OBVIOUS
    <3>2. x \in Int /\ y \in Int /\ x <= y /\ base \in Int
      <4>1. origin \in Nat /\ pending.highest \in Nat /\ base \in Nat
        BY Naturals
      <4> QED
        BY <1>3, <2>3, <3>1, <4>1
    <3> QED
      BY <1>2, <3>1, <3>2, CoverBelow
  <2> QED
    BY <2>1, <2>2, <2>3
<1>5. Covered(p, x)'
  BY <1>1, <1>4, CoverPasses
<1>6. Covered(p, origin + pending.highest)'
  BY <1>3, <1>5 DEF Covered
<1>7. ASSUME NEW q \in 1..(p - 1) PROVE Covered(p, s2c[q].pub)'
  <2>1. q + 1 \in 1..p /\ q \in 1..Len(s2c')
    BY <1>1 DEF Wires, Passes, Takes
  <2>2. PICK y : y = s2c[q + 1].pub
    OBVIOUS
  <2>3. s2c'[q].pub = y
    BY <1>1, <2>1, <2>2, TakenEntry DEF Passes
  <2>4. Covered(p, y)'
    BY <1>1, <1>2, <2>1, <2>2, CoverPasses
  <2> QED
    BY <2>3, <2>4 DEF Covered
<1> QED
  BY <1>6, <1>7

\* A recovery without an answer is not answered by what it takes.
LEMMA SettledPasses ==
  ASSUME Wires, Takes, asked' = asked \/ (s2c[1].k \in Answered /\ asked' = asked \ {s2c[1].ref}),
         NEW p \in 1..Len(s2c'), Settled(p)'
  PROVE  Settled(p + 1)
<1> SUFFICES ASSUME NEW r \in asked
             PROVE  \E q \in 1..((p + 1) - 1) : s2c[q].k \in Answered /\ s2c[q].ref = r
  BY DEF Settled
<1>1. CASE r \in asked'
  <2>1. PICK q \in 1..(p - 1) : s2c'[q].k \in Answered /\ s2c'[q].ref = r
    BY <1>1 DEF Settled
  <2>2. q \in 1..Len(s2c')
    BY DEF Takes
  <2>3. q + 1 \in 1..((p + 1) - 1) /\ s2c[q + 1] = s2c'[q]
    BY <2>2 DEF Takes
  <2> QED
    BY <2>1, <2>3
<1>2. CASE r \notin asked'
  <2>1. s2c[1].k \in Answered /\ s2c[1].ref = r
    BY <1>2
  <2>2. 1 \in 1..((p + 1) - 1)
    OBVIOUS
  <2> QED
    BY <2>1, <2>2
<1> QED
  BY <1>1, <1>2

\* Cover, from what was there and what the client took.
LEMMA CoverTakes ==
  ASSUME TypeInv, NEW m, Passes(m), UNCHANGED <<pubs, origin, epoch, live, attempts, c2s>>,
         asked' = asked \/ (m.k \in Answered /\ asked' = asked \ {m.ref}),
         Cover, OffsetCovered',
         \/ pending'.highest = pending.highest \/ pending'.highest = 0
         \/ \A p \in 1..Len(s2c') : s2c'[p].ep = epoch => origin + pending'.highest = s2c[1].pub
  PROVE  Cover'
<1>1. PICK l : l = Len(s2c')
  OBVIOUS
<1>2. l \in Nat /\ l \in 0..Len(s2c') /\ Len(s2c) = l + 1 /\ Wires /\ Takes /\ m = s2c[1]
  BY <1>1 DEF Passes, Takes, TypeInv
<1>3. ASSUME NEW x, Covered(Len(s2c), x) PROVE Covered(Len(s2c), x)'
  <2>1. Covered(l, x)'
    BY <1>2, <1>3, CoverPasses
  <2> QED
    BY <1>1, <2>1 DEF Covered
<1>4. MemberCovered'
  <2>1. SUFFICES ASSUME live PROVE Covered(Len(s2c), pubs)'
    BY DEF MemberCovered
  <2>2. PICK x : x = pubs
    OBVIOUS
  <2>3. Covered(Len(s2c), x)'
    BY <1>3, <2>1, <2>2 DEF Cover, MemberCovered
  <2> QED
    BY <2>2, <2>3 DEF Covered
<1>5. ASSUME NEW i \in 1..Len(c2s') PROVE RequestCovered(c2s[i])'
  <2>1. PICK r, x : r = c2s[i] /\ x = origin + c2s[i].offset
    OBVIOUS
  <2>2. RequestCovered(r)
    BY <2>1 DEF Cover
  <2>3. Covered(Len(s2c), x) => Covered(Len(s2c), x)'
    BY <1>3
  <2>4. Covered(Len(s2c), x)' => Covered(Len(s2c), origin + r.offset)'
    BY <2>1 DEF Covered
  <2>5. RequestCovered(r)'
    BY <2>1, <2>2, <2>3, <2>4 DEF RequestCovered
  <2> QED
    BY <2>1, <2>5 DEF RequestCovered
<1>6. ASSUME NEW a \in attempts' PROVE AttemptCovered(a)'
  <2>1. AttemptCovered(a)
    BY DEF Cover
  <2>2. PICK x, y : x = origin + a.offset /\ y = origin + a.upto
    OBVIOUS
  <2>3. (Covered(Len(s2c), x) => Covered(Len(s2c), x)') /\ (Covered(Len(s2c), y) => Covered(Len(s2c), y)')
    BY <1>3
  <2>4. /\ Covered(Len(s2c), x)' => Covered(Len(s2c), origin + a.offset)'
        /\ Covered(Len(s2c), y)' => Covered(Len(s2c), origin + a.upto)'
    BY <2>2 DEF Covered
  <2> QED
    BY <2>1, <2>2, <2>3, <2>4 DEF AttemptCovered
<1>7. ASSUME NEW p \in 1..Len(s2c') PROVE FrameCovered(p)' /\ AckCovered(p)'
  <2>1. FrameCovered(p + 1) /\ AckCovered(p + 1)
    <3>1. p + 1 \in 1..Len(s2c)
      BY <1>2, TakenEntry
    <3> QED
      BY <3>1 DEF Cover
  <2>2. Settled(p)' => Settled(p + 1)
    BY <1>2, SettledPasses
  <2>3. FrameCovered(p)'
    BY <2>1, <2>2, FramePasses
  <2>4. AckCovered(p)'
    BY <2>1, AckPasses
  <2> QED
    BY <2>3, <2>4
<1>8. \A i \in 1..Len(c2s') : RequestCovered(c2s[i])'
  BY <1>5
<1>9. \A a \in attempts' : AttemptCovered(a)'
  BY <1>6
<1>10. \A p \in 1..Len(s2c') : FrameCovered(p)' /\ AckCovered(p)'
  BY <1>7
<1> QED
  BY <1>4, <1>8, <1>9, <1>10 DEF Cover

\* What a client takes, before it is done with it.
LEMMA Arrives ==
  ASSUME Ready, Receive, NEW m, m = s2c[1]
  PROVE  /\ TypeInv /\ Watermarks /\ Wires /\ Takes /\ 1 \in 1..Len(s2c)
         /\ UNCHANGED <<pubs, origin, epoch, live, attempts, c2s, wanted, base>>
         /\ m.seq \in Nat /\ m.pub \in Nat /\ m.ep \in Int /\ StampedAs(m)
         /\ \A p \in 1..Len(s2c') : s2c'[p].ep = m.ep
<1>1. TypeInv /\ Watermarks
  BY DEF Ready
<1>2. /\ Takes /\ Wires /\ UNCHANGED <<pubs, origin, epoch, live, attempts, c2s, wanted, base>>
  BY <1>1, Taking DEF store
<1>3. 1 \in 1..Len(s2c)
  BY <1>2 DEF Takes, Wires
<1>4. m.seq \in Nat /\ m.pub \in Nat /\ m.ep \in Int /\ StampedAs(m)
  BY <1>1, <1>3, ItemFacts DEF Watermarks, Stamps
<1>5. \A p \in 1..Len(s2c') : s2c'[p].ep = m.ep
  BY <1>1, <1>2, TakenEntry DEF Watermarks, Stamps
<1> QED
  BY <1>1, <1>2, <1>3, <1>4, <1>5

\* A frame: it is known from now on, and raises the offset once no recovery is under way.
LEMMA FrameArrives ==
  ASSUME Ready, Receive, NEW m, m = s2c[1], ReceiveFrame(m), ~overtaken, ~strayed, ~Forgetful
  PROVE  Cover'
<1>1. /\ TypeInv /\ Watermarks /\ Wires /\ Takes /\ 1 \in 1..Len(s2c)
      /\ UNCHANGED <<pubs, origin, epoch, live, attempts, c2s, wanted, base>>
      /\ m.seq \in Nat /\ m.pub \in Nat /\ m.ep \in Int /\ StampedAs(m)
      /\ \A p \in 1..Len(s2c') : s2c'[p].ep = m.ep
  BY Arrives
<1>2. m.k \in Data /\ known' = known \cup {m.pub} /\ asked' = asked
  BY KindsTaken DEF ReceiveFrame
<1>3. Passes(m)
  BY <1>1, <1>2, KindsApart DEF Passes
<1>4. /\ lastSeen \in Nat /\ pending \in [ref : 0..(nextRef - 1), highest : 0..MaxPubs]
      /\ pending.highest \in Nat
      /\ m.ep = epoch /\ m.seq # 0 => origin + m.seq = m.pub
  <2>1. m.ep = epoch /\ m.seq # 0 => origin + m.seq = m.pub
    BY <1>1, <1>2 DEF StampedAs
  <2> QED
    BY <1>1, <2>1, Naturals DEF TypeInv, Scalars, Offsets
<1>5. /\ m.seq = 0 \/ pending.ref # 0 => UNCHANGED <<lastSeen, seenIn>>
      /\ m.seq # 0 /\ pending.ref = 0 =>
           lastSeen' = Higher(lastSeen, m.seq) /\ seenIn' = IF m.seq > lastSeen THEN m.ep ELSE seenIn
  BY DEF ReceiveFrame
<1>6. \/ UNCHANGED <<lastSeen, seenIn>>
      \/ /\ m.seq # 0 /\ pending.ref = 0 /\ m.seq > lastSeen /\ lastSeen' = m.seq /\ seenIn' = m.ep
  BY <1>1, <1>4, <1>5, HigherOf
<1>7. /\ Cover /\ OffsetCovered
      /\ \A p \in 1..Len(s2c) : FrameCovered(p) /\ AckCovered(p)
  BY DEF Ready, CoverInv, Cover
<1>8. pending'.highest = pending.highest \/ (m.seq # 0 /\ pending'.highest = m.seq)
  <2>1. \/ pending' = pending
        \/ m.seq # 0 /\ pending' = [pending EXCEPT !.highest = Higher(@, m.seq)]
    BY DEF ReceiveFrame
  <2>2. CASE pending' = pending
    BY <2>2
  <2>3. CASE m.seq # 0 /\ pending' = [pending EXCEPT !.highest = Higher(@, m.seq)]
    <3>1. pending'.highest = Higher(pending.highest, m.seq)
      BY <1>4, <2>3
    <3>2. pending'.highest = pending.highest \/ pending'.highest = m.seq
      BY <1>1, <1>4, <3>1, HigherOf
    <3> QED
      BY <2>3, <3>2
  <2> QED
    BY <2>1, <2>2, <2>3
<1>9. OffsetCovered'
  <2>1. CASE UNCHANGED <<lastSeen, seenIn>>
    BY <1>1, <1>2, <1>7, <2>1 DEF OffsetCovered, KnownUpTo
  <2>2. CASE /\ m.seq # 0 /\ pending.ref = 0 /\ m.seq > lastSeen /\ lastSeen' = m.seq /\ seenIn' = m.ep
    <3>1. SUFFICES ASSUME wanted', seenIn' = epoch' PROVE KnownUpTo(origin + lastSeen)'
      BY DEF OffsetCovered
    <3>2. m.ep = epoch /\ origin' + lastSeen' = m.pub
      BY <1>1, <1>4, <2>2, <3>1
    <3>3. asked = {}
      BY <1>1, <2>2, <3>1 DEF Forgetful
    <3>4. FrameCovered(1) /\ Settled(1)
      BY <1>1, <1>7, <3>3 DEF Settled
    <3>5. Covered(1, m.pub)
      BY <1>2, <2>2, <3>2, <3>4 DEF FrameCovered
    <3>6. \A i \in (base' + 1)..m.pub : i \in known'
      BY <1>1, <1>3, <3>5, KnowsPassed
    <3> QED
      BY <3>2, <3>6 DEF KnownUpTo
  <2> QED
    BY <1>6, <2>1, <2>2
<1>10. \/ pending'.highest = pending.highest
       \/ \A p \in 1..Len(s2c') : s2c'[p].ep = epoch => origin + pending'.highest = s2c[1].pub
  BY <1>1, <1>4, <1>8
<1> QED
  BY <1>1, <1>2, <1>3, <1>7, <1>9, <1>10, CoverTakes

\* A marker: the client reads anew, and has everything.
LEMMA MarkerArrives ==
  ASSUME Ready, Receive, NEW m, m = s2c[1], ReceiveMarker(m), TypeInv', Watermarks', Holding'
  PROVE  Cover'
<1>1. TypeInv /\ UNCHANGED <<pubs, base>>
  BY Arrives
<1>2. known' = 1..pubs
  BY DEF ReceiveMarker
<1>3. base \in Nat /\ pubs \in Nat
  BY <1>1, Naturals
<1>4. (base' + 1)..pubs' \subseteq known'
  BY <1>1, <1>2, <1>3
<1>5. Complete'
  BY <1>4 DEF Complete
<1> QED
  BY <1>5, CompleteNext

\* What is left under way behind an answer.
LEMMA AnswerPasses ==
  ASSUME Ready, Receive, NEW m, m = s2c[1], m.k \in Answered, known' = known, asked' = asked \ {m.ref},
         Cover, OffsetCovered', pending' = pending \/ pending' = NoPending
  PROVE  Cover'
<1>1. /\ TypeInv /\ Takes /\ StampedAs(m)
      /\ UNCHANGED <<pubs, origin, epoch, live, attempts, c2s, wanted, base>>
  BY Arrives
<1>2. Passes(m)
  <2>1. m.k \notin Data /\ m.k \notin Markers
    BY KindsApart
  <2>2. m.pub = 0
    BY <1>1, <2>1 DEF StampedAs
  <2> QED
    BY <1>1, <2>1, <2>2 DEF Passes
<1>3. pending'.highest = pending.highest \/ pending'.highest = 0
  BY DEF NoPending
<1> QED
  BY <1>1, <1>2, <1>3, CoverTakes

\* An ack: the recovery that it ends stores the highest number it saw.
LEMMA AckArrives ==
  ASSUME Ready, Receive, NEW m, m = s2c[1], ReceiveAck(m), ~overtaken, ~strayed
  PROVE  Cover'
<1>1. /\ TypeInv /\ Watermarks /\ Wires /\ Takes /\ 1 \in 1..Len(s2c)
      /\ UNCHANGED <<pubs, origin, epoch, live, attempts, c2s, wanted, base>>
      /\ StampedAs(m)
  BY Arrives
<1>2. m.k = "subscribed" /\ m.k \in Answered /\ known' = known /\ asked' = asked \ {m.ref}
  BY KindsTaken DEF ReceiveAck
<1>3. lastSeen \in Nat /\ pending.highest \in Nat
  BY <1>1, Naturals
<1>4. /\ pending.ref = m.ref =>
           /\ pending' = NoPending /\ lastSeen' = Higher(lastSeen, pending.highest)
           /\ seenIn' = IF pending.highest > lastSeen THEN m.ep ELSE seenIn
      /\ pending.ref # m.ref => UNCHANGED <<pending, lastSeen, seenIn>>
  BY DEF ReceiveAck
<1>5. \/ UNCHANGED <<lastSeen, seenIn>>
      \/ lastSeen' = pending.highest /\ seenIn' = m.ep
  BY <1>3, <1>4, HigherOf
<1>6. Cover /\ OffsetCovered /\ AckCovered(1)
  BY <1>1 DEF Ready, CoverInv, Cover
<1>7. ~Told(1)
  <2>1. \A n \in 1..1 : s2c[n].k \notin Markers
    BY <1>2, KindsApart
  <2> QED
    BY <2>1 DEF Told
<1>8. OffsetCovered'
  <2>1. CASE UNCHANGED <<lastSeen, seenIn>>
    BY <1>1, <1>2, <1>6, <2>1, OffsetKept
  <2>2. CASE lastSeen' = pending.highest /\ seenIn' = m.ep
    <3>1. ASSUME m.ep = epoch PROVE KnownUpTo(origin + lastSeen)'
      <4>1. Covered(1, origin + pending.highest)
        BY <1>2, <1>6, <3>1 DEF AckCovered
      <4>2. \A i \in (base + 1)..(origin + pending.highest) : i \in known
        <5>1. \A i \in (base + 1)..(origin + pending.highest) : Has(1, i)
          BY <1>7, <4>1 DEF Covered
        <5>2. m.pub = 0
          BY <1>1, <1>2, KindsApart DEF StampedAs
        <5>3. base \in Nat
          BY <1>1, Naturals
        <5>4. \A n \in 1..1 : n = 1
          OBVIOUS
        <5>5. \A i \in (base + 1)..(origin + pending.highest) : i # 0
          BY <5>3
        <5> QED
          BY <5>1, <5>2, <5>4, <5>5 DEF Has
      <4> QED
        BY <1>1, <1>2, <2>2, <4>2 DEF KnownUpTo
    <3> QED
      BY <1>1, <2>2, <3>1 DEF OffsetCovered
  <2> QED
    BY <1>5, <2>1, <2>2
<1>9. pending' = pending \/ pending' = NoPending
  BY <1>4
<1> QED
  BY <1>2, <1>6, <1>8, <1>9, AnswerPasses

LEMMA DeniedArrives ==
  ASSUME Ready, Receive, NEW m, m = s2c[1], ReceiveDenied(m), ~overtaken, ~strayed
  PROVE  Cover'
<1>1. UNCHANGED <<origin, epoch, wanted, base>>
  BY Arrives
<1>2. m.k \in Answered /\ UNCHANGED <<known, lastSeen, seenIn>> /\ asked' = asked \ {m.ref}
  BY KindsTaken DEF ReceiveDenied
<1>3. pending' = pending \/ pending' = NoPending
  BY DEF ReceiveDenied
<1>4. Cover /\ OffsetCovered
  BY DEF Ready, CoverInv, Cover
<1>5. OffsetCovered'
  BY <1>1, <1>2, <1>4, OffsetKept
<1> QED
  BY <1>2, <1>3, <1>4, <1>5, AnswerPasses

LEMMA ReceiveCovers ==
  ASSUME Ready, Receive, TypeInv', Watermarks', Holding', ~overtaken', ~strayed'
  PROVE  Cover'
<1>1. PICK m : m = s2c[1]
  OBVIOUS
<1>2. /\ ReceiveFrame(m) \/ ReceiveMarker(m) \/ ReceiveAck(m) \/ ReceiveDenied(m)
      /\ m.k \notin Markers => ~strayed /\ ~Forgetful
  BY <1>1, Taking DEF Ready
<1>3. CASE ReceiveMarker(m)
  BY <1>1, <1>3, MarkerArrives
<1>4. CASE ReceiveFrame(m) \/ ReceiveAck(m) \/ ReceiveDenied(m)
  <2>1. ~overtaken
    BY <1>4 DEF ReceiveFrame, ReceiveAck, ReceiveDenied
  <2>2. ~strayed /\ ~Forgetful
    BY <1>2, <1>4, KindsTaken, KindsApart
  <2> QED
    BY <1>1, <1>4, <2>1, <2>2, FrameArrives, AckArrives, DeniedArrives
<1> QED
  BY <1>2, <1>3, <1>4

-----------------------------------------------------------------------------
(* Every step.                                                             *)

LEMMA NextCovers ==
  ASSUME Ready, TypeInv', Watermarks', Holding', [Next]_vars
  PROVE  CoverInv'
<1> SUFFICES ASSUME ~overtaken', ~strayed' PROVE Cover'
  BY DEF CoverInv
<1>1. CASE Return
  BY <1>1, ReturnCovers
<1>2. CASE Restart
  BY <1>2, RestartCovers
<1>3. CASE ServerSubscribe
  BY <1>3, SubscribeCovers
<1>4. CASE Receive
  BY <1>4, ReceiveCovers
<1>5. CASE Overtake
  BY <1>5 DEF Overtake
<1>6. CASE HookServes
  <2>1. ~overtaken
    BY <1>6 DEF HookServes
  <2> QED
    BY <1>6, <2>1, ServesCovers
<1>7. CASE HookReturns \/ HookThrows
  <2>1. ~overtaken
    BY <1>7 DEF HookReturns, HookThrows, Leaving
  <2> QED
    BY <1>7, <2>1, SettlesCovers
<1>8. CASE Publish \/ ServerUnsubscribe \/ Reconnect \/ ConnectionLost \/ RetryFires
  <2>1. ~overtaken /\ ~strayed
    BY <1>8 DEF Publish, ServerUnsubscribe, Reconnect, ConnectionLost, RetryFires, ghosts
  <2> QED
    BY <1>8, <2>1, PublishCovers, UnsubscribeCovers, ReconnectCovers, LostCovers, RetryCovers
<1>9. CASE Leave \/ EvictMark \/ UNCHANGED vars
  <2>1. ~overtaken /\ ~strayed
    BY <1>9 DEF Leave, EvictMark, vars, ghosts
  <2> QED
    BY <1>9, <2>1, LeaveCovers
<1> QED
  BY <1>1, <1>2, <1>3, <1>4, <1>5, <1>6, <1>7, <1>8, <1>9 DEF Next

LEMMA InitCovers == Init => CoverInv
BY DEF Init, CoverInv, Cover, OffsetCovered, MemberCovered

-----------------------------------------------------------------------------
(* What follows.                                                           *)

\* The strengthening of the two invariants below, but for the types and the buffers.
Covering == Unique /\ Watermarks /\ CoverInv

LEMMA CoveringNext ==
  ASSUME TypeInv, TypeInv', Holding, Holding', Covering, [Next]_vars
  PROVE  Covering'
<1>1. Ready
  BY DEF Covering, Ready
<1>2. Unique' /\ Watermarks'
  BY NextUnique, NextMarks DEF Covering
<1>3. CoverInv'
  BY <1>1, <1>2, NextCovers
<1> QED
  BY <1>2, <1>3 DEF Covering

LEMMA CoveringHolds == Spec => []Covering
<1>1. Init => Covering
  BY InitUnique, InitMarks, InitCovers DEF Covering
<1>2. TypeInv /\ TypeInv' /\ Holding /\ Holding' /\ Covering /\ [Next]_vars => Covering'
  BY CoveringNext
<1> QED
  BY <1>1, <1>2, TypesHold, HoldingHolds, PTL DEF Spec

LEMMA CoveringOffset ==
  ASSUME Covering
  PROVE  NoSilentGap
BY DEF Covering, CoverInv, Cover, OffsetCovered, NoSilentGap

LEMMA CoveringMember ==
  ASSUME Covering
  PROVE  QuietIsComplete
<1> SUFFICES ASSUME live, ~overtaken, ~strayed, s2c = <<>> PROVE KnownUpTo(pubs)
  BY DEF QuietIsComplete
<1>1. Covered(Len(s2c), pubs)
  BY DEF Covering, CoverInv, Cover, MemberCovered
<1>2. Len(s2c) = 0
  OBVIOUS
<1>3. \A p \in 1..Len(s2c) : FALSE
  BY <1>2
<1> QED
  BY <1>1, <1>3 DEF Covered, Told, Has, KnownUpTo

\* The offset a client would resume from never passes a publication that it neither
\* received nor was told it missed (captureResumeFrame, flushResumeTopic, and the
\* recoveries of client.js), whatever overflows, throws, is refused, lost, evicted or
\* restarted, and whenever the topic is left and taken again; for a hook of either kind.
\* The exceptions are those of the property: a landing that was overtaken, and an offset
\* that the hook read in another epoch or vouched for beyond what it read, or that the
\* client raised over a recovery it forgot.
THEOREM NoGapIsSilent == Spec => []NoSilentGap
<1>1. Covering => NoSilentGap
  BY CoveringOffset
<1> QED
  BY <1>1, CoveringHolds, PTL

\* Once nothing is under way, a member has every publication since it subscribed, or was
\* told to read anew: the flush of flushResumeTopic drops nothing between the history of
\* the hook and the live frames.  The exceptions are the same.
THEOREM QuietMeansComplete == Spec => []QuietIsComplete
<1>1. Covering => QuietIsComplete
  BY CoveringMember
<1> QED
  BY <1>1, CoveringHolds, PTL
=============================================================================
