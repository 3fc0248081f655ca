------------------------ MODULE SubscriptionAuthority ------------------------
(***************************************************************************)
(* Who holds which topic, on one WebSocket connection.                     *)
(*                                                                         *)
(* A subscribe awaits the application's authorization hook; an unsubscribe  *)
(* is synchronous, so it can begin and finish while a subscribe is parked.  *)
(* The runtime keeps, per topic, a record of the attempts in flight: how   *)
(* many there are, a revocation epoch each attempt is stamped with, and    *)
(* whether live authority backs the membership.  Every lane that parks in  *)
(* the hook (a wire subscribe, a batch entry, platform.subscribe, a        *)
(* plugin's derived observer tap) enrols in that record and settles        *)
(* against it when it lands.                                               *)
(*                                                                         *)
(* One action is one synchronous turn of the JavaScript thread: everything *)
(* between two awaits.  The entries of one batch frame are stamped and     *)
(* landed one action each; the code stamps them in one turn and lands them *)
(* in order, so the model has every interleaving of the code and more.     *)
(***************************************************************************)
EXTENDS Naturals, FiniteSets

CONSTANTS
  Topics,       \* topic names a client or the server subscribes to
  Attempts,     \* identities of subscribe attempts, reused once answered
  PluginOwned,  \* topics inside a registered plugin-owned namespace
  Lanes,        \* the lanes in use, a subset of AllLanes
  HookKinds,    \* what the application may export: "none", "observes", "decides"
  MaxSubs,      \* MAX_SUBSCRIPTIONS_PER_CONNECTION
  MaxPending,   \* MAX_PENDING_SUBSCRIBES_PER_CONNECTION
  MaxEpoch      \* bound: revocations of one topic while attempts are in flight

AllLanes == {"wire", "server", "batch", "batchRecover", "derived"}

ASSUME ConstantsAssumption ==
  /\ IsFiniteSet(Attempts)
  /\ IsFiniteSet(Topics)
  /\ Topics # {}
  /\ PluginOwned \subseteq Topics
  /\ Lanes \subseteq AllLanes
  /\ HookKinds \subseteq {"none", "observes", "decides"}
  /\ MaxSubs \in Nat /\ MaxPending \in Nat /\ MaxEpoch \in Nat

VARIABLES
  closed,     \* the close callback has run: the pending slots are dropped
  hook,       \* the exported subscribe hook; an "observes" hook is marked side-effect-only
  armed,      \* subscribeAuth.enabled
  strict,     \* subscribeAuth.strict
  subs,       \* ud[WS_SUBSCRIPTIONS], application topics
  taps,       \* ud[WS_SUBSCRIPTIONS], the derived topic (prefix + t) of each t here
  epoch,      \* ud[WS_PENDING_SUBSCRIBES].get(t).epoch
  inflight,   \* ud[WS_PENDING_SUBSCRIBES].get(t).inflight, 0 when there is no entry
  granted,    \* ud[WS_PENDING_SUBSCRIBES].get(t).granted
  total,      \* ud[WS_PENDING_SUBSCRIBES_TOTAL]
  att,        \* the local variables of each attempt
  authority   \* history: the standing membership was authorized after the last revocation

record  == <<epoch, inflight, granted, total>>
members == <<subs, taps, authority>>
posture == <<hook, armed, strict>>
vars == <<closed, posture, members, record, att>>

-----------------------------------------------------------------------------
(* Attempts.  "revoked" is history: a revocation of the topic landed while  *)
(* the attempt was running.  "refused" is history: the hook said no.        *)

AttemptState ==
  [st : {"idle", "gate", "prepared", "resume", "tapping", "acked"},
   lane : AllLanes, topic : Topics, token : Nat, verdict : {"open", "allow", "deny"},
   recover : BOOLEAN, revoked : BOOLEAN, refused : BOOLEAN]

\* An attempt that is not running: never started, or answered.
Rest(st, t, refused) ==
  [st |-> st, lane |-> "server", topic |-> t, token |-> 0, verdict |-> "open",
   recover |-> FALSE, revoked |-> FALSE, refused |-> refused]

Parked(a)  == att[a].st \in {"gate", "prepared", "resume"}
Running(a) == Parked(a) \/ att[a].st = "tapping"

TypeOK ==
  /\ closed \in BOOLEAN /\ armed \in BOOLEAN /\ strict \in BOOLEAN
  /\ hook \in HookKinds
  /\ subs \subseteq Topics /\ taps \subseteq Topics
  /\ epoch \in [Topics -> Nat]
  /\ inflight \in [Topics -> Nat]
  /\ granted \in [Topics -> BOOLEAN]
  /\ authority \in [Topics -> BOOLEAN]
  /\ total \in Nat
  /\ att \in [Attempts -> AttemptState]

Init ==
  /\ closed = FALSE
  /\ hook \in HookKinds
  /\ armed = FALSE /\ strict = FALSE
  /\ subs = {} /\ taps = {}
  /\ epoch = [t \in Topics |-> 0]
  /\ inflight = [t \in Topics |-> 0]
  /\ granted = [t \in Topics |-> FALSE]
  /\ total = 0
  /\ att = [a \in Attempts |-> Rest("idle", CHOOSE t \in Topics : TRUE, FALSE)]
  /\ authority = [t \in Topics |-> FALSE]

-----------------------------------------------------------------------------
(* Reads of the record and of the posture in force.                        *)

Entry(t) == inflight[t] > 0

\* membershipUnconfirmed
Unconfirmed(t) == Entry(t) /\ ~granted[t]

\* A grant as every grant read counts it: held, and not waiting to be judged.
Grant(t) == t \in subs /\ ~Unconfirmed(t)

\* wireGrantGateDecides: under strict a deciding hook no longer stands the gate aside.
GrantGateDecides == armed /\ ~(hook = "decides" /\ ~strict)

PreHookDenies(t) == GrantGateDecides /\ ~Grant(t) /\ t \notin PluginOwned

LandingDeniesNothing(t) == FALSE
\* deniesWireSubscribeLanding, asked of a topic that is not held.
LandingDenies(t) == t \in PluginOwned \/ GrantGateDecides

ObserveDenies(t) == GrantGateDecides /\ ~Grant(t)

AtCap == Cardinality(subs) + Cardinality(taps) >= MaxSubs
NeverAtCap == FALSE
\* exceedsSubscriptionCap at the landing, where the topic is not held.
LandingAtCap == AtCap

LiveIfEnrolled(a) == Entry(att[a].topic)
\* The entry's epoch is still the one the attempt was stamped with.
Live(a) == Entry(att[a].topic) /\ epoch[att[a].topic] = att[a].token

\* isPendingSubscribeCancelled
Cancelled(a) == ~Live(a)

\* heldLandingWouldAck
HeldWouldAck(a) == ~Entry(att[a].topic) \/ Live(a) \/ granted[att[a].topic]

RecoverRevokedByHeld(a) ==
  /\ att[a].topic \notin subs
  /\ Cancelled(a)
\* recoverIsRevoked with the arguments the recover lane gives it.
RecoverRevoked(a) ==
  /\ ~(att[a].topic \in subs /\ HeldWouldAck(a))
  /\ \/ att[a].topic \in PluginOwned
     \/ att[a].lane # "server" /\ GrantGateDecides
     \/ Cancelled(a)

\* What the gate may answer an attempt that reaches its landing now.  A hook of
\* either kind may throw, which denies; only a batch entry and an observer are
\* judged by the grant gate a second time after the hook.
Verdicts(a) ==
  IF \/ att[a].verdict = "deny"
     \/ att[a].lane \in {"batch", "batchRecover"} /\ PreHookDenies(att[a].topic)
     \/ att[a].lane = "derived" /\ hook # "none" /\ ObserveDenies(att[a].topic)
  THEN {"deny"}
  ELSE IF att[a].verdict = "allow" \/ hook = "none" THEN {"allow"}
  ELSE {"allow", "deny"}

-----------------------------------------------------------------------------
(* Writes of the record.                                                   *)

\* beginPendingSubscribe: the first enrolment seeds the authority flag.
Enrol(a, t, lane, verdict, recover) ==
  /\ inflight' = [inflight EXCEPT ![t] = @ + 1]
  /\ granted' = [granted EXCEPT ![t] = IF Entry(t) THEN @ ELSE t \in subs]
  /\ total' = total + 1
  /\ att' = [att EXCEPT ![a] =
       [st |-> "gate", lane |-> lane, topic |-> t, token |-> epoch[t],
        verdict |-> verdict, recover |-> recover, revoked |-> FALSE,
        refused |-> FALSE]]
  /\ UNCHANGED <<closed, posture, members, epoch>>

\* The last attempt to leave drops the entry; "mark" is the flag it leaves behind.
Leave(t, mark) ==
  /\ inflight' = [inflight EXCEPT ![t] = @ - 1]
  /\ total' = total - 1
  /\ epoch' = [epoch EXCEPT ![t] = IF inflight[t] <= 1 THEN 0 ELSE @]
  /\ granted' = [granted EXCEPT ![t] = IF inflight[t] <= 1 THEN FALSE ELSE mark]

Finish(a) == att' = [att EXCEPT ![a] = Rest("idle", att[a].topic, FALSE)]
Ack(a) == att' = [att EXCEPT ![a] = Rest("acked", att[a].topic, att[a].refused)]

\* unwindRevokedMembership: the membership and the taps derived from it.
Unwind(t) ==
  /\ subs' = subs \ {t}
  /\ taps' = taps \ {t}
  /\ authority' = [authority EXCEPT ![t] = FALSE]

KeepsRefusedMembership(a) ==
  /\ Leave(att[a].topic, granted[att[a].topic])
  /\ UNCHANGED members
  /\ Finish(a)

\* settleDeniedSubscribe and what refuseLanding does with its answer: the last
\* attempt out judges a membership nothing authorized.
SettleDenied(a) ==
  LET t == att[a].topic IN
  /\ Leave(t, granted[t])
  /\ IF t \in subs /\ ~granted[t] /\ inflight[t] <= 1
     THEN Unwind(t) ELSE UNCHANGED members
  /\ Finish(a)

\* settleHeldSubscribe and the landing branch that reads it.  A derived attempt
\* answered here hands its verdict to the plugin, which installs the tap later.
SettleHeld(a) ==
  LET t == att[a].topic
      ack == Live(a) \/ granted[t]
  IN
  /\ Leave(t, granted[t] \/ Live(a))
  /\ IF ack
     THEN /\ authority' = [authority EXCEPT ![t] = @ \/ ~att[a].revoked]
          /\ UNCHANGED <<subs, taps>>
          /\ IF att[a].lane = "derived"
             THEN att' = [att EXCEPT ![a].st = "tapping"]
             ELSE Ack(a)
     ELSE /\ IF inflight[t] <= 1 THEN Unwind(t) ELSE UNCHANGED members
          /\ Finish(a)

LeaksItsSlot(a) ==
  /\ UNCHANGED <<record, members>>
  /\ Finish(a)

\* settlePendingSubscribe answering false: a revocation overtook the attempt.
SettleStale(a) ==
  /\ Leave(att[a].topic, granted[att[a].topic])
  /\ UNCHANGED members
  /\ Finish(a)

\* settlePendingSubscribe(.., true) followed by the native and logical subscribe.
SettleInstall(a) ==
  LET t == att[a].topic IN
  /\ Leave(t, TRUE)
  /\ subs' = subs \cup {t}
  /\ authority' = [authority EXCEPT ![t] = ~att[a].revoked]
  /\ UNCHANGED taps
  /\ Ack(a)

-----------------------------------------------------------------------------
(* Entering the gate.                                                      *)

AcksOnSight(t) == t \in subs
\* The server-lane short circuit: a settled membership is acked without a hook.
AcksHeld(t) == t \in subs /\ ~Unconfirmed(t)

SubscribeHeld(a, t) ==
  /\ "server" \in Lanes
  /\ ~closed /\ att[a].st = "idle"
  /\ AcksHeld(t)
  /\ att' = [att EXCEPT ![a] = Rest("acked", t, FALSE)]
  /\ UNCHANGED <<closed, posture, members, record>>

\* subscribeWithVerdict up to its first await.
Subscribe(a, t, lane, recover) ==
  /\ lane \in {"wire", "server"} \cap Lanes
  /\ recover => lane = "wire"
  /\ ~closed /\ att[a].st = "idle"
  /\ ~(lane = "server" /\ AcksHeld(t))
  /\ t \in subs \/ ~AtCap
  /\ ~(lane = "wire" /\ PreHookDenies(t))
  /\ total < MaxPending
  /\ Enrol(a, t, lane, "open", recover)

\* One entry of a subscribe-batch frame, stamped before the batch hook runs.
BatchStamp(a, t, lane) ==
  /\ lane \in {"batch", "batchRecover"} \cap Lanes
  /\ ~closed /\ att[a].st = "idle"
  /\ total < MaxPending
  /\ Enrol(a, t, lane, IF PreHookDenies(t) THEN "deny" ELSE "open", FALSE)

\* authorizeDerivedSubscribe with platform.checkSubscribe(.., requireGrant).
Observe(a, t) ==
  /\ "derived" \in Lanes
  /\ ~closed /\ att[a].st = "idle"
  /\ total < MaxPending
  /\ Enrol(a, t, "derived", IF ObserveDenies(t) THEN "deny" ELSE "open", FALSE)

\* The gate allowed, and the topic's history is served before the landing: for a
\* subscribe that asked for it, or an entry of a batch once every entry is judged.
Resume(a) ==
  /\ ~closed
  /\ \/ att[a].st = "gate" /\ att[a].recover /\ "allow" \in Verdicts(a)
     \/ att[a].st = "prepared" /\ att[a].verdict = "allow"
  /\ ~RecoverRevoked(a)
  /\ att' = [att EXCEPT ![a].st = "resume"]
  /\ UNCHANGED <<closed, posture, members, record>>

\* prepareBatchRecovery: a cancelled entry's answer becomes an allow.
PrepareBatchRecovery(a) ==
  /\ ~closed
  /\ att[a].st = "gate" /\ att[a].lane = "batchRecover"
  /\ \E v \in Verdicts(a) :
       att' = [att EXCEPT ![a] =
         [@ EXCEPT !.st = "prepared", !.refused = (v = "deny"),
                   !.verdict = IF Cancelled(a) THEN "allow" ELSE v]]
  /\ UNCHANGED <<closed, posture, members, record>>

-----------------------------------------------------------------------------
(* Landing.                                                                *)

MayLand(a) ==
  /\ ~closed
  /\ \/ att[a].st = "gate" /\ att[a].lane # "batchRecover"
     \/ att[a].st \in {"prepared", "resume"}

\* The gate answered a denial: it outranks whatever the connection holds.
LandRefused(a) ==
  /\ MayLand(a) /\ ~(att[a].st = "resume" /\ att[a].recover)
  /\ "deny" \in Verdicts(a)
  /\ SettleDenied(a)
  /\ UNCHANGED <<closed, posture>>

Allowed(a) ==
  /\ MayLand(a)
  /\ \/ att[a].st = "resume" /\ att[a].recover
     \/ "allow" \in Verdicts(a) /\ (att[a].recover => RecoverRevoked(a))

LandHeld(a) ==
  /\ Allowed(a) /\ att[a].topic \in subs
  /\ SettleHeld(a)
  /\ UNCHANGED <<closed, posture>>

\* A subscribe allowed while the topic is not held: judged again by the grant
\* gate and by the cap as they stand now, and by the record last.
LandFresh(a) ==
  LET t == att[a].topic IN
  /\ Allowed(a) /\ att[a].lane # "derived" /\ t \notin subs
  /\ IF (att[a].lane # "server" /\ LandingDenies(t)) \/ LandingAtCap
     THEN SettleDenied(a)
     ELSE IF Live(a) THEN SettleInstall(a) ELSE SettleStale(a)
  /\ UNCHANGED <<closed, posture>>

LandObserver(a) ==
  LET t == att[a].topic IN
  /\ Allowed(a) /\ att[a].lane = "derived" /\ t \notin subs
  /\ IF Live(a)
     THEN /\ Leave(t, granted[t])
          /\ att' = [att EXCEPT ![a].st = "tapping"]
          /\ UNCHANGED members
     ELSE SettleStale(a)
  /\ UNCHANGED <<closed, posture>>

\* The plugin's continuation after authorizeDerivedSubscribe answered true.
InstallTap(a) ==
  LET t == att[a].topic IN
  /\ att[a].st = "tapping"
  /\ taps' = IF ~closed /\ (t \in taps \/ ~AtCap) THEN taps \cup {t} ELSE taps
  /\ Finish(a)
  /\ UNCHANGED <<closed, posture, record, subs, authority>>

LandClosedCharges(a) ==
  /\ closed /\ Parked(a)
  /\ total' = total - 1
  /\ Finish(a)
  /\ UNCHANGED <<closed, posture, members, epoch, inflight, granted>>
\* A landing after close finds no record and no membership, and settles nothing.
LandClosed(a) ==
  /\ closed /\ Parked(a)
  /\ Finish(a)
  /\ UNCHANGED <<closed, posture, members, record>>

\* settleSubscribeResult has sent the ack.
Acked(a) ==
  /\ att[a].st = "acked"
  /\ Finish(a)
  /\ UNCHANGED <<closed, posture, members, record>>

-----------------------------------------------------------------------------
(* The synchronous side: installs and revocations between two awaits.      *)

\* trackedSubscribe: a plugin joins the socket, from a subscribe hook or from
\* server code.  With no attempt in flight that is the server's own authority.
PluginJoin(t) ==
  /\ ~closed /\ t \notin subs /\ ~AtCap
  /\ subs' = subs \cup {t}
  /\ authority' = [authority EXCEPT ![t] = ~Entry(t)]
  /\ UNCHANGED <<closed, posture, taps, record, att>>

TombstoneKeepsGrant(t) ==
  /\ epoch' = [epoch EXCEPT ![t] = IF Entry(t) THEN @ + 1 ELSE @]
  /\ UNCHANGED <<inflight, granted, total>>
\* tombstonePendingSubscribe
Tombstone(t) ==
  /\ epoch' = [epoch EXCEPT ![t] = IF Entry(t) THEN @ + 1 ELSE @]
  /\ granted' = [granted EXCEPT ![t] = FALSE]
  /\ UNCHANGED <<inflight, total>>

Revoked(t) ==
  att' = [a \in Attempts |->
    IF Running(a) /\ att[a].topic = t THEN [att[a] EXCEPT !.revoked = TRUE] ELSE att[a]]

\* platform.unsubscribe and the wire unsubscribe.
Unsubscribe(t) ==
  /\ ~closed
  /\ Entry(t) => epoch[t] < MaxEpoch
  /\ Tombstone(t) /\ Revoked(t) /\ Unwind(t)
  /\ UNCHANGED <<closed, posture>>

\* trackedUnsubscribe: a plugin's leave or evict.  Derived taps stay.
PluginEvict(t) ==
  /\ ~closed
  /\ Entry(t) => epoch[t] < MaxEpoch
  /\ Tombstone(t) /\ Revoked(t)
  /\ subs' = subs \ {t}
  /\ authority' = [authority EXCEPT ![t] = FALSE]
  /\ UNCHANGED <<closed, posture, taps>>

\* releaseSubscription: withdraws completed authority, cancels no attempt.
ReleaseSubscription(t) ==
  /\ ~closed
  /\ granted' = [granted EXCEPT ![t] = FALSE]
  /\ Unwind(t)
  /\ UNCHANGED <<closed, posture, epoch, inflight, total, att>>

\* platform.authorizeWireSubscribe: the posture only ever rises.
AuthorizeWireSubscribe(mode) ==
  /\ armed' = TRUE
  /\ strict' = (strict \/ mode = "strict")
  /\ UNCHANGED <<closed, hook, members, record, att>>

\* The close callback drops the registry and the record; attempts stay parked.
Close ==
  /\ ~closed
  /\ closed' = TRUE
  /\ subs' = {} /\ taps' = {}
  /\ authority' = [t \in Topics |-> FALSE]
  /\ epoch' = [t \in Topics |-> 0]
  /\ inflight' = [t \in Topics |-> 0]
  /\ granted' = [t \in Topics |-> FALSE]
  /\ total' = 0
  /\ UNCHANGED <<posture, att>>

Next ==
  \/ \E a \in Attempts, t \in Topics :
       \/ SubscribeHeld(a, t)
       \/ \E lane \in Lanes, recover \in BOOLEAN : Subscribe(a, t, lane, recover)
       \/ \E lane \in Lanes : BatchStamp(a, t, lane)
       \/ Observe(a, t)
  \/ \E a \in Attempts :
       \/ Resume(a) \/ PrepareBatchRecovery(a)
       \/ LandRefused(a) \/ LandHeld(a) \/ LandFresh(a) \/ LandObserver(a)
       \/ InstallTap(a) \/ LandClosed(a) \/ Acked(a)
  \/ \E t \in Topics :
       PluginJoin(t) \/ Unsubscribe(t) \/ PluginEvict(t) \/ ReleaseSubscription(t)
  \/ \E mode \in {"legacy", "strict"} : AuthorizeWireSubscribe(mode)
  \/ Close

Spec == Init /\ [][Next]_vars

-----------------------------------------------------------------------------
(* Safety.                                                                 *)

\* A membership that any grant read counts (the wire gate, the observer lane, the
\* resume filter, the server short circuit) was authorized after the last
\* revocation of its topic: no hook install of a cancelled attempt mints authority.
GrantsAreAuthorized == \A t \in Topics : Grant(t) => authority[t]

\* Once no attempt is in flight for a topic, a membership left standing is one
\* somebody authorized: an unsubscribe is never overtaken by a parked subscribe.
NoResurrection ==
  \A t \in subs : (\A a \in Attempts : ~(Parked(a) /\ att[a].topic = t)) => authority[t]

\* The record counts exactly the attempts that are parked, per topic and in all:
\* no settle leaks a slot of the budget and none frees a slot it did not hold.
PendingExact ==
  ~closed =>
    /\ \A t \in Topics : inflight[t] = Cardinality({a \in Attempts : Parked(a) /\ att[a].topic = t})
    /\ total = Cardinality({a \in Attempts : Parked(a)})

\* However many attempts are admitted before any lands, the connection never
\* holds more topics than its cap, nor parks more attempts than its budget.
WithinCaps ==
  /\ Cardinality(subs) + Cardinality(taps) <= MaxSubs
  /\ total <= MaxPending

\* A subscribe is acked only into a membership that stands and is authorized.
AckBacked(a) ==
  (att[a].st # "acked" /\ att'[a].st = "acked")
    => att'[a].topic \in subs' /\ authority'[att'[a].topic]
AcksAreBacked == [][\A a \in Attempts : AckBacked(a)]_vars

\* An attempt that a revocation overtook never puts the topic back.
RevokedNeverInstalls ==
  [][\A a \in Attempts :
       (Parked(a) /\ ~Parked(a)' /\ att[a].revoked)
         => (att[a].topic \in subs' => att[a].topic \in subs)]_vars

\* History is served only to an attempt no revocation overtook, or for a
\* membership that was authorized again since.
HistoryIsAuthorized ==
  [][\A a \in Attempts :
       (att[a].st # "resume" /\ att'[a].st = "resume" /\ att[a].revoked)
         => att[a].topic \in subs /\ authority[att[a].topic]]_vars

\* Arming the grant gate judges the attempts already parked: a client's landing
\* adds no topic while the server's grant alone decides.
ArmedGateJudgesInFlight ==
  [][\A a \in Attempts :
       (Parked(a) /\ ~Parked(a)' /\ att[a].lane # "server" /\ GrantGateDecides)
         => (att[a].topic \in subs' => att[a].topic \in subs)]_vars

\* A subscribe the application refused is never acked, whatever is held by then.
RefusalOutranksMembership == \A a \in Attempts : att[a].st = "acked" => ~att[a].refused

\* A derived tap is never installed by an observer whose topic was revoked while
\* it waited for its authorization.
TapHonoursRevocation ==
  [][\A a \in Attempts :
       (att[a].st = "tapping" /\ att'[a].st = "idle" /\ att[a].revoked)
         => (att[a].topic \in taps' => att[a].topic \in taps)]_vars
==============================================================================
