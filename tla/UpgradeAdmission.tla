--------------------------- MODULE UpgradeAdmission ---------------------------
(***************************************************************************)
(* A WebSocket handshake from its arrival to the end of its socket: the    *)
(* slots it takes from the admission controller, the application's upgrade *)
(* hook it waits in, the ring in which it waits for its turn, the socket   *)
(* that takes over its connection permit, and the close that returns it.   *)
(*                                                                         *)
(* The two slots a handshake took are flags of its own (heldSlots); the    *)
(* socket's claim on the permit is a marker on its userData.  The hang-up, *)
(* the end of the handshake and the close of the socket all release, and   *)
(* nothing but the flags and the marker keeps a slot from being released   *)
(* twice: "slots" holds the controller's counters beside them.             *)
(***************************************************************************)
EXTENDS Naturals, FiniteSets

CONSTANTS
  Handshakes,      \* identities of handshakes and their sockets, reused when over
  Nobody,          \* an empty place of the ring
  MaxConcurrent,   \* maxConcurrent: handshakes in flight
  CursorMax,       \* cursorMaxConcurrent: those of them in the cursor lane
  MaxConnections,  \* maxConnections: handshakes in flight and live sockets
  PerTick,         \* perTickBudget
  MaxDeferred      \* maxDeferred: the places of the ring

ASSUME AdmissionAssumption ==
  /\ IsFiniteSet(Handshakes) /\ Nobody \notin Handshakes
  /\ {MaxConcurrent, CursorMax, MaxConnections, PerTick, MaxDeferred} \subseteq Nat \ {0}

VARIABLES
  phase,          \* where each handshake is, and later its socket
  slots,          \* the counters, and who holds what they count
  pacing,         \* the per-tick budget and the ring of deferred upgrades
  wsConnections,  \* the registry of live sockets
  draining        \* set once a shutdown began, never cleared

admission == <<phase, slots, pacing, wsConnections, draining>>

Phases ==
  {"idle", "hook", "parked", "granted",  \* a handshake and the three things it awaits
   "open", "ending",                     \* a socket; its end is held by the delivery policy
   "closed"}                             \* its close hook has not settled

In(p) == {h \in Handshakes : phase[h] = p}
Handshaking == In("hook") \cup In("parked") \cup In("granted")
Sockets == In("open") \cup In("ending")
pendingCloseHooks == In("closed")

Places == 0..(MaxDeferred - 1)

AdmissionTypeOK ==
  /\ phase \in [Handshakes -> Phases]
  /\ slots \in [inFlight : 0..MaxConcurrent, cursorInFlight : 0..CursorMax,
                connectionPermits : 0..MaxConnections, overReleaseTotal : {0},
                lane : SUBSET Handshakes, cursor : SUBSET Handshakes,
                permit : SUBSET Handshakes, marked : SUBSET Handshakes]
  /\ pacing \in [count : 0..PerTick, deferred : [Places -> Handshakes \cup {Nobody}],
                 head : Places, tail : Places, depth : 0..MaxDeferred, scheduled : BOOLEAN]
  /\ wsConnections \subseteq Handshakes
  /\ draining \in BOOLEAN

AdmissionInit ==
  /\ phase = [h \in Handshakes |-> "idle"]
  /\ slots = [inFlight |-> 0, cursorInFlight |-> 0, connectionPermits |-> 0,
              overReleaseTotal |-> 0, lane |-> {}, cursor |-> {}, permit |-> {}, marked |-> {}]
  /\ pacing = [count |-> 0, deferred |-> [i \in Places |-> Nobody], head |-> 0, tail |-> 0,
               depth |-> 0, scheduled |-> FALSE]
  /\ wsConnections = {}
  /\ draining = FALSE

-----------------------------------------------------------------------------
(* The slots: s is a value of slots, h a handshake.                        *)

\* tryAcquire, tryAcquireCursor and tryAcquireConnection, all three or nothing.
HasRoom(s, cursor) ==
  /\ s.inFlight < MaxConcurrent
  /\ cursor => s.cursorInFlight < CursorMax
  /\ s.connectionPermits < MaxConnections
Acquire(s, h, cursor) ==
  [s EXCEPT !.inFlight = @ + 1,
            !.cursorInFlight = IF cursor THEN @ + 1 ELSE @,
            !.connectionPermits = @ + 1,
            !.lane = @ \cup {h},
            !.cursor = IF cursor THEN @ \cup {h} ELSE @,
            !.permit = @ \cup {h}]

ReleaseLane(s, h) ==
  [s EXCEPT !.inFlight = @ - 1,
            !.cursorInFlight = IF h \in s.cursor THEN @ - 1 ELSE @,
            !.lane = @ \ {h}, !.cursor = @ \ {h}]

\* n calls of releaseConnection.  One release too many is counted and thrown.
ReleaseConnections(s, n) ==
  IF n <= s.connectionPermits
  THEN [s EXCEPT !.connectionPermits = @ - n]
  ELSE [s EXCEPT !.overReleaseTotal = @ + 1]

\* What is still the handshake's to give; the first to come gives it.
GiveBack(s, h) ==
  LET unlaned == IF h \in s.lane THEN ReleaseLane(s, h) ELSE s IN
  IF h \in s.permit
  THEN [ReleaseConnections(unlaned, 1) EXCEPT !.permit = @ \ {h}]
  ELSE unlaned

\* The marker is set and the permit is no longer the handshake's.
HandOver(s, h) == [s EXCEPT !.marked = @ \cup {h}, !.permit = @ \ {h}]

\* reclaimPermit: the marker is still set if no socket took the permit.
Reclaim(s, h) ==
  IF h \in s.marked
  THEN [s EXCEPT !.marked = @ \ {h}, !.permit = @ \cup {h}]
  ELSE s

ReleaseUnconditionally(s, hs) ==
  [ReleaseConnections(s, Cardinality(hs)) EXCEPT !.marked = @ \ hs]
\* The release by the sockets hs, in the close callback and in a setup that failed: of the
\* permits whose marker is still set.
ReleaseMarked(s, hs) ==
  [ReleaseConnections(s, Cardinality(hs \cap s.marked)) EXCEPT !.marked = @ \ hs]

-----------------------------------------------------------------------------
(* The pacing: p is a value of pacing.                                     *)

\* The place i places after the head.
PlaceAt(p, i) ==
  IF p.head + i < MaxDeferred THEN p.head + i ELSE p.head + i - MaxDeferred
\* The places of the first n in the ring.
First(p, n) == {PlaceAt(p, i) : i \in 0..(n - 1)}

NextPlace(i) == IF i + 1 = MaxDeferred THEN 0 ELSE i + 1

Enqueue(p, h) ==
  [p EXCEPT !.deferred[p.tail] = h,
            !.tail = NextPlace(@),
            !.depth = @ + 1,
            !.scheduled = TRUE]

DequeueResetsHead(p, n) ==
  [p EXCEPT !.deferred = [i \in Places |-> IF i \in First(p, n) THEN Nobody ELSE @[i]],
            !.head = IF n = p.depth THEN 0 ELSE PlaceAt(p, n),
            !.depth = @ - n]
\* n calls of dequeue.  A ring that empties starts again at its first place.
Dequeue(p, n) ==
  [p EXCEPT !.deferred = [i \in Places |-> IF i \in First(p, n) THEN Nobody ELSE @[i]],
            !.head = IF n = p.depth THEN 0 ELSE PlaceAt(p, n),
            !.tail = IF n = p.depth THEN 0 ELSE @,
            !.depth = @ - n]

\* How many of the parked a fresh tick has budget for.
Turns(p) == IF p.depth < PerTick THEN p.depth ELSE PerTick

DrainedOnce(p) == [Dequeue(p, Turns(p)) EXCEPT !.count = Turns(p), !.scheduled = FALSE]
\* drain: another turn follows while there is anything left to run or to reset.
Drained(p) ==
  LET rest == Dequeue(p, Turns(p)) IN
  [rest EXCEPT !.count = Turns(p), !.scheduled = rest.depth > 0 \/ Turns(p) > 0]

-----------------------------------------------------------------------------
(* The handshake.                                                          *)

Moves(h, p) == phase' = [phase EXCEPT ![h] = p]

\* The handshake is over and answered; settle gives back what is still held.
Answer(h) ==
  /\ Moves(h, "idle")
  /\ slots' = GiveBack(slots, h)
  /\ UNCHANGED wsConnections

\* tryUpgrade, up to the call of the application's hook.  A request refused on the way
\* returns in the same turn whatever it took.
TryUpgrade(h, cursor) ==
  /\ phase[h] = "idle" /\ ~draining
  /\ HasRoom(slots, cursor)
  /\ slots' = Acquire(slots, h, cursor)
  /\ Moves(h, "hook")
  /\ UNCHANGED <<pacing, wsConnections, draining>>

\* The client goes away while the handshake waits for anything: the abort event.
HangUp(h) ==
  /\ h \in Handshaking /\ h \in slots.permit
  /\ slots' = GiveBack(slots, h)
  /\ UNCHANGED <<phase, pacing, wsConnections, draining>>

\* The hook refuses, throws, or does not answer in time.
HookRefuses(h) ==
  /\ phase[h] = "hook"
  /\ Answer(h)
  /\ UNCHANGED <<pacing, draining>>

\* The hook accepts.  Then admit: at once while the tick has budget, in the ring while it
\* has a place, and else not at all.
HookAccepts(h) ==
  /\ phase[h] = "hook"
  /\ \/ /\ draining \/ h \notin slots.permit
        /\ Answer(h) /\ UNCHANGED pacing
     \/ /\ ~draining /\ h \in slots.permit
        /\ \/ /\ pacing.count < PerTick
              /\ pacing' = [pacing EXCEPT !.count = @ + 1, !.scheduled = TRUE]
              /\ Moves(h, "granted") /\ UNCHANGED <<slots, wsConnections>>
           \/ /\ pacing.count >= PerTick /\ pacing.depth < MaxDeferred
              /\ pacing' = Enqueue(pacing, h)
              /\ Moves(h, "parked") /\ UNCHANGED <<slots, wsConnections>>
           \/ /\ pacing.count >= PerTick /\ pacing.depth >= MaxDeferred
              /\ Answer(h) /\ UNCHANGED pacing
  /\ UNCHANGED draining

\* The next turn of the event loop after one that spent some of its budget.
DrainDeferred ==
  /\ pacing.scheduled
  /\ pacing' = Drained(pacing)
  /\ phase' = LET called == {pacing.deferred[i] : i \in First(pacing, Turns(pacing))}
              IN  [h \in Handshakes |-> IF h \in called THEN "granted" ELSE phase[h]]
  /\ UNCHANGED <<slots, wsConnections, draining>>

\* The checks repeated after the wait.
MayTakeSocketUnlatched(h) == h \in slots.permit
MayTakeSocket(h) == ~draining /\ h \in slots.permit

Declined(h) ==
  /\ phase[h] = "granted" /\ ~MayTakeSocket(h)
  /\ Answer(h)
  /\ UNCHANGED <<pacing, draining>>

\* srv.upgrade throws or answers false.
RuntimeRefuses(h) ==
  /\ phase[h] = "granted" /\ MayTakeSocket(h)
  /\ Moves(h, "idle")
  /\ slots' = GiveBack(Reclaim(HandOver(slots, h), h), h)
  /\ UNCHANGED <<pacing, wsConnections, draining>>

\* srv.upgrade succeeds, and with it the open callback, which registers the socket.
Opens(h) ==
  /\ phase[h] = "granted" /\ MayTakeSocket(h)
  /\ Moves(h, "open")
  /\ slots' = GiveBack(HandOver(slots, h), h)
  /\ wsConnections' = wsConnections \cup {h}
  /\ UNCHANGED <<pacing, draining>>

\* The socket is closed inside the open callback: the attribution failed, the welcome
\* frame was refused, the application's open hook closed it, or the setup threw and
\* released the permit itself.  The close callback runs, deregisters and may leave a
\* close hook running; only then does srv.upgrade return.
OpensAndCloses(h) ==
  /\ phase[h] = "granted" /\ MayTakeSocket(h)
  /\ \E p \in {"closed", "idle"} : Moves(h, p)
  /\ \E s \in {HandOver(slots, h), ReleaseMarked(HandOver(slots, h), {h})} :
       slots' = GiveBack(ReleaseMarked(s, {h}), h)
  /\ wsConnections' = (wsConnections \cup {h}) \ {h}
  /\ UNCHANGED <<pacing, draining>>

-----------------------------------------------------------------------------
(* The socket.                                                             *)

\* The close callback of every socket of hs; those of hooked leave a close hook running.
CloseCallback(hs, hooked) ==
  /\ phase' = [h \in Handshakes |-> IF h \in hooked THEN "closed"
                                    ELSE IF h \in hs THEN "idle" ELSE phase[h]]
  /\ wsConnections' = wsConnections \ hs
  /\ slots' = ReleaseMarked(slots, hs)

\* The peer closes, the application closes, or the end the policy held is carried out.
SocketCloses(h) ==
  /\ h \in Sockets
  /\ \E hooked \in SUBSET {h} : CloseCallback({h}, hooked)
  /\ UNCHANGED <<pacing, draining>>

\* The application ends a socket and the delivery policy holds the end.
EndHeld(h) ==
  /\ phase[h] = "open"
  /\ Moves(h, "ending")
  /\ UNCHANGED <<slots, pacing, wsConnections, draining>>

CloseHookSettles(h) ==
  /\ phase[h] = "closed"
  /\ Moves(h, "idle")
  /\ UNCHANGED <<slots, pacing, wsConnections, draining>>

HandshakeStep ==
  \/ \E h \in Handshakes :
       \/ \E cursor \in BOOLEAN : TryUpgrade(h, cursor)
       \/ HangUp(h) \/ HookRefuses(h) \/ HookAccepts(h)
       \/ Declined(h) \/ RuntimeRefuses(h) \/ Opens(h) \/ OpensAndCloses(h)
       \/ SocketCloses(h) \/ EndHeld(h) \/ CloseHookSettles(h)
  \/ DrainDeferred

-----------------------------------------------------------------------------
(* Safety.                                                                 *)

\* Every slot is counted once while somebody holds it and not at all afterwards, however
\* hang-ups, failed upgrades and closes fall together; the permit is the handshake's or
\* the socket's, never both; and the registry holds exactly the live sockets.
SlotsExact ==
  /\ slots.inFlight = Cardinality(slots.lane)
  /\ slots.cursorInFlight = Cardinality(slots.cursor)
  /\ slots.connectionPermits = Cardinality(slots.permit \cup slots.marked)
  /\ slots.permit \cap slots.marked = {}
  /\ slots.lane = slots.permit /\ slots.cursor \subseteq slots.lane
  /\ slots.permit \subseteq Handshaking /\ slots.marked = Sockets
  /\ wsConnections = Sockets

\* The ring holds the parked handshakes, each in one of the depth places from head on, and
\* nothing in the others, through every wrap and reset; and while anybody is parked, or
\* the budget of a tick is spent, a drain is coming.
PacingExact ==
  LET occupied == First(pacing, pacing.depth) IN
  /\ {pacing.deferred[i] : i \in occupied} = In("parked")
  /\ \A i, j \in occupied : pacing.deferred[i] = pacing.deferred[j] => i = j
  /\ \A i \in Places \ occupied : pacing.deferred[i] = Nobody
  /\ pacing.tail = PlaceAt(pacing, pacing.depth)
  /\ pacing.depth > 0 \/ pacing.count > 0 => pacing.scheduled

\* A handshake that began before the shutdown does not open a socket behind it: the drain
\* closes what it can see, once.
NoSocketBehindDrain ==
  [][draining => Sockets' \subseteq Sockets]_admission
==============================================================================
