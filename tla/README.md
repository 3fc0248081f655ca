# A TLA+ model of svelte-adapter-bunserve

The adapter runs a SvelteKit application on Bun and gives it a WebSocket layer
with topics: clients subscribe through an authorization hook of the application,
the server publishes, and a set of plugins (presence, groups, cursor, lock,
queue, replay, ...) is built on top.  Everything runs on one JavaScript thread
per worker, so there are no data races; what makes the code hard is what happens
*between* two `await`s.  A subscribe parks in the application's hook while an
unsubscribe, a close or a change of posture runs to completion; a delivery
decision is pending while frames pile up behind it; a lock holder settles after
the lock was cleared; a server restarts while its clients hold offsets of the old
sequence space; a shutdown begins while handshakes wait for their turn.

In all modules **one action is one synchronous turn of the thread**, or one step
of a turn whose steps can be told apart from outside.  Paths below are relative
to the repository.

## Inventory

| component | state | operations | hard because |
|---|---|---|---|
| Subscription authority (`runtime/utils/ws-symbols.js`, `subscribe-policy.js`, `runtime/handler/platform.js`, `ws.js`) | per connection: memberships, pending records (epoch, inflight, granted), total; per worker: grant-gate posture | wire subscribe, batch, recovery, `platform.subscribe`, observer taps, unsubscribe, plugin join and evict, release, arm, close | every subscribe parks in a hook while synchronous revocations run |
| Delivery policy (`runtime/utils/delivery-authorization.js`) | per socket: backlog, pending decision, pending end; per worker: operation depth, deferred operations, ends in progress | send, control, publish, end, drain, closed, reset, configure | re-entrancy, deferred decisions, timeouts, transport backpressure |
| Resume cutover (`handler/resume-buffer.js`, `ws-state.js`) | capture buffers per topic, marks, topic epochs | begin, capture, flush, truncate, discard | live frames race the history hook |
| Lock (`plugins/lock`) | registry of state objects, queues, timers | withLock, timeout, advance, clear | in-place cancellation, objects outliving the registry |
| Queue (`plugins/queue`) | tasks per key, service line, counters | push, start, completion, clear, drain | fairness and exact release of places |
| Upgrade admission (`utils/upgrade-admission.js`, `utils/connection-permit.js`, `handler/upgrade.js`) | in-flight, cursor and permit counters, the permit marker of a socket, ring of deferred upgrades | acquire, release, admit, drain, hand over, reclaim | one release on every path |
| Request lifetime, shutdown (`handler/request-lifetime.js`, `lifecycle.js`, `shutdown.js`, `ws-drain.js`, `runtime/index.js`) | in-flight count, signals, registry of sockets, close hooks, the budget | open, finish, abort, drain, signal | several endings at once; work that is under way when the latch is set |
| Hook queue (`utils/hook-queue.js`) | running, queue | enqueue, completion, clear | exported and tested, but used by nothing in the runtime |
| Message admission (`utils/message-admission.js`) | buckets, active and queued per connection | enter, release, close | used by the development server and the test harness only |
| Fan-out, shared wire ids, coalesced values, publish sequences | per-topic counters and reference counts | publish, acquire, release | ordering, reference counts |
| Egress budgets, rate limits, leases, pressure | counters and windows | charge, credit, refill | boundaries |
| Presence, groups, cursor, replay, smooth, CRDT, webhooks and small plugins | maps on top of tracked subscriptions | join, leave, publish, resume | stale maps after close |
| Browser client (`client.js`) | socket state, wanted topics, offsets and their epochs, pending recoveries | connect, subscribe, resume, retry | reconnects, restarts of the server, acks of earlier attempts |
| SSR, static assets, metrics, build integration, simulator | little or none | | plumbing, not modelled |

The components meet in a few places: `ws.js` parses frames and calls `platform.js`;
both use the record in `ws-symbols.js`; plugins change memberships through
`trackedSubscribe` and `trackedUnsubscribe`; every frame the adapter builds goes
through the delivery policy; the close callback of `ws.js` tears all of it down and
releases the connection permit its handshake took; the shutdown reads the registry of
sockets, the close hooks and the request count, and ends each socket through the
delivery policy.

## Modules

### SubscriptionAuthority

One connection.  `subs` is the set of application topics in
`ud[WS_SUBSCRIPTIONS]`, `taps` the derived topics (`__presence:t`, `__cursor:t`)
in the same set, `epoch`, `inflight`, `granted` the fields of the topic's entry in
`ud[WS_PENDING_SUBSCRIBES]` (all zero when there is no entry), `total` the
connection's pending total, `att` the local variables of every attempt that is
parked in an `await`.  `hook`, `armed` and `strict` are the posture that decides
whether the server's grant gate judges a client.  `authority` is a history
variable: the standing membership was authorized after the last revocation of its
topic.  `revoked` and `refused` in an attempt are history too: a revocation landed
while it ran; the application said no.

An attempt goes through these states:

    idle --Subscribe / BatchStamp / Observe--> gate --Resume--> resume
    gate --PrepareBatchRecovery--> prepared --Resume--> resume
    gate, prepared, resume --LandRefused / LandHeld / LandFresh / LandObserver-->
        acked (an ack was sent), tapping (a plugin was told yes), idle (denied)

`Subscribe` is `subscribeWithVerdict` to its first await, `Land*` the rest of it;
the four `Settle*` operators are the four ways the record is left
(`settleDeniedSubscribe`, `settleHeldSubscribe`, and `settlePendingSubscribe`
answering false or true) with what the caller does next.  `Unsubscribe`,
`PluginEvict` and `ReleaseSubscription` are the three withdrawals, which differ:
the first two cancel parked attempts (`Tombstone`), the third only withdraws
completed authority; the first and third release derived taps.  The entries of one
batch are stamped and landed one action each although the code does each loop in one
turn: the model has every interleaving of the code and more.

### DeliveryGate

The sockets of one worker.  `gate`, `queue`, `ready`, `ending` are a socket's
backlog, `busy`, `work` and `jobs` the operation under way, the recipients it has
still to admit and the operations deferred to its end; `native` and `buf` are the
transport.  Frames are numbered in the order they are offered, and the history
variable `sent` keeps the newest number handed to each transport, so order is
`sent' >= sent`.  A verdict is "true", "later" (a promise) or "refuse" (a refusal, a
throw or an answer that is not a verdict), and with it the policy may issue one
operation of its own (`Nested`) or close the socket it is deciding
(`*ClosedByPolicy`).  `waiting` is a pending decision, `failed` a backlog that was
refused and awaits its close event.  `orphans` are sockets whose decision was
pending when the backlog was released; their promise still settles and still runs
an operation.

### KeyedLock and KeyedMutex

`KeyedLock` is the plugin: the registry, the state objects with their queues, the
in-place cancellation of a waiter by its timer, `advance` and `clear`.  State
objects have identities of their own because a holder keeps the object it ran under
after `clear` has dropped it.  `KeyedMutex` is what the plugin promises: one caller
inside per key, the others in order of arrival, unless they give up; after it is
torn down nothing is promised.  `KeyedLock` implements it under the mapping `Mutex`
(`holder` is the caller inside, `line` the queue without its cancelled waiters,
`inUse` is "not cleared yet").

`Subsequences` has the operators on sequences that several modules filter with: `Picked(q, L)`
is the entries of `q` at the places `L` in their order, counted rather than recursed over.

### KeyedQueue

The queue plugin.  A key's record is `items` (waiting), `active` (running) and
`drains`; `line` is the service line, in which a key's place is its `q.lineNode`;
`pending` and `running` are the counters the bounds are checked against.  `push` and the
completion of a task run `schedule` and `pump` before the event loop does anything else:
`turn` is that call, `Schedule`, `PumpRound`, `PumpEnds` and `Cleanup` its steps.  `Clear`
visits one key of the map or all of them; `clearing` are those it has still to visit, in any
order.  Every other action waits for the call to end, so no property looks into the middle
of one except `NoQueueJumping`, which is about each start.  `Drain` takes one key of the map
or all of them.  A task that is rejected, by `clear` or by a bound, is out of the model once it
is out of `items`; its identity may be pushed again.

### ResumeCutover

One topic, one browser client and its successive connections to one worker.  The topic is
published with explicit sequence numbers of a single authority, which start again at 1 in
a new epoch when the server restarts: `pubs` counts publications over the whole behaviour
and `origin` those before the current epoch, so publication `i` carries `i - origin`.
`mark` is `maxAuthoritativeSeq`.  `attempts` are the subscribes that wait for the resume
hook, each with its capture buffer (`held`, `overflow`, the mark it began `before`), from
`beginResumeBuffer` to the landing, whose three ways are the flush, the truncation marker
and the discard of an overtaken landing.  `c2s` and `s2c` are the frames under way.  On
the client's side `lastSeen`, `lastEpoch`, `pending` (the entry of `pendingRecoveries`
with its `highest` held offset), `retries` and `timer` are the fields of the same names in
`client.js`; `Reconnect`, `Receive`, `RetryFires`, `Leave` and `Return` its operations.
`Leave` and `Return` may happen at any moment, in any epoch and with a recovery still under
way.

The resume hook is the application's.  What stands for it is `Served`: `Replayed`, the replay
plugin's `readSince` over a ring of `RingSize` messages with its truncation marker, which
knows no epochs, and around it what the application does with the epoch it is handed.
`Hooks` says which applications there are: one that *compares* the epoch of the request with
`platform.topicEpoch` and has the client rehydrate if they differ, and one that *ignores* it
and replays from the offset.  `Reports` are the numbers a hook may return as covered: what it
read, nothing, a number the server never stamped, or the client's own offset of whatever
epoch, which `resume-buffer.js:198` calls "the natural hook shape".

The history variables say what the client was given (`known`), what it is owed from (`base`),
the epoch its offset was seen in (`seenIn`) and the recoveries it has no answer to (`asked`).
`overtaken` and `strayed` mark the two ways in which the properties may fail, below.

Taken for granted, and named here because the properties rest on it:

* One topic, sequence numbers of one authority; the counter lane, publish exclusion and
  the flow window are left out, and the batch and single lanes of a subscribe are one.
* The hook serves what it read, stamped or not, before it returns or throws.  The comparison
  of epochs is the hook's: the server passes `lastSeenEpochs` on and compares nothing
  (`platform.js:3162`, README.md 1331 to 1334 of the repository: the hook "owns validation of
  its session and history values").  Both kinds of hook are in the run.
* Frames of the history and live frames are accepted by the socket; the frames of the
  flush, the markers and the acks of a recovery may be refused (the socket is then closed).
* A marker that clears the offset makes the application read everything anew, and so does
  taking a topic up: a plain subscribe begins a new debt (`base`).
* When the server itself installs the topic while the hook runs, the landing discards the
  captured frames, as the comment at `resume-buffer.js:78` accepts; `overtaken` exempts it.
* `strayed` exempts an offset that was put to a use it does not bear, until a marker or a new
  subscription ends it.  There are three such uses and the code prevents none of them:
  the history is read from an offset of another epoch (`Misread`: a hook that ignores the
  epoch, or a request that names the wrong one, which `offset_epoch_pairing` reports); the
  hook vouches for the client's offset above everything it read (`Vouches`: the floor trusts
  any number up to the mark, `resume-buffer.js:230` to `233`, so a hook that echoes an offset
  of a lost epoch drops held frames; README.md 1411 of the repository asks for "the highest
  seq you actually delivered"); the client raises the offset over a recovery that it forgot
  by leaving the topic (`Forgetful`, which `abandoned_recovery` reports).

The exemptions are as narrow as these sentences.  A hook that says it compares and does not is
caught: that is the mutant of `NoSilentGap` (`EpochIgnored`).

### UpgradeAdmission, RequestLifetime and ServerLifetime

`UpgradeAdmission` is a handshake from `tryUpgrade` to the close of its socket.  `phase` is
what it waits for (`hook`, `parked` in the ring, `granted` once its turn was called) and
later what its socket is (`open`, `ending` while the delivery policy holds its end,
`closed` while its close hook runs).  `slots` has the controller's counters side by side
with their holders: `lane` and `cursor` are the handshake's in-flight flags, `permit` its
permit flag, `marked` the marker on the socket's `userData`.  The code has only counters
and flags; that they agree is `CountersExact`.  `pacing` is the budget of a tick and the
ring, in which a drain of several places is written in closed form (`First`, `Dequeue`).
`OpensAndCloses` is the close that happens inside the `open` callback, before
`srv.upgrade` has returned to the handshake that still holds its flags.

`RequestLifetime` is the count of requests a shutdown waits for, every call of `finish`
and every order in which they may come; `work` is the render or the read that may still be
outstanding when the request is already finished.

`ServerLifetime` extends both with the shutdown of `runtime/index.js`: boot, the first and
the second signal, the shutdown hook, `drainWebSockets`, the drain of requests and the
cleanup listeners, each wait under the one budget.  `stage` is the statement it waits at,
`clean` what the exit reports, `late` that the sockets' settle window passed.  Taken for
granted: after `bunServer.stop()` Bun accepts no new request or handshake (external); Bun runs
the close handler inside `ws.close()`, so that no socket the drain has ended is still
registered, and the branch that gives up on registered sockets (`ws-drain.js:104` to `115`) is
not modelled; the boot does not fail; `SHUTDOWN_TIMEOUT` is bounded; the application exports
an `upgrade` hook.  A refusal before the hook takes and returns its slots in one turn and is
left out.

## Runs

| run | instance | asks |
|---|---|---|
| subscription_authority | 3 attempts, 2 topics (one plugin-owned), all lanes, a deciding hook, caps 2 and 2, 1 revocation per topic while an attempt is parked | type, `GrantsAreAuthorized`, `NoResurrection`, `PendingExact`, `WithinCaps`, `AcksAreBacked`, `RevokedNeverInstalls`, `HistoryIsAuthorized`, `ArmedGateJudgesInFlight` |
| delivery_gate | 2 sockets, backlog bound 1, 3 frames, 1 deferred operation | type, `HeldIsBounded`, `EndingsExact`, `NoOvertaking`, `NothingAfterRefusal`, `DecidedLate` |
| delivery_settles | 1 socket, 3 frames, 2 deferred operations, fair | `HeldFramesSettle`, `ShutdownSettles` |
| keyed_lock | 2 keys, 3 callers, queue of 2, 1 clear, fair | type, `QueueHasHolder`, `ImplementsKeyedMutex`, `WaitersSettle` |
| keyed_queue | 3 keys of which 2 fit, 5 tasks, concurrency 2, queue of 2, 2 pending, 2 running, fair | type, `LineExact`, `WorkConserving`, `CountersExact`, `NoQueueJumping`, `TasksSettle`, `DrainsSettle` |
| resume_cutover | 3 publications, 3 connections, 1 restart, 1 upset (a departure, a refusal or an overtaking subscribe), 1 retry, a buffer and a history of 1, both kinds of hook, fair | type, `NoSilentGap`, `QuietIsComplete`, `LiveInOrder`, `Converges` |
| server_lifetime | 3 handshakes, 1 request, 2 in flight, 1 in the cursor lane, 2 permits, 1 upgrade a tick, a ring of 2, fair | type, `CountersExact`, `PacingExact`, `CleanExit`, `NoSocketBehindDrain`, `HandshakesSettle`, `ShutdownEnds` |
| batch_recovery_refusal | 2 attempts, 1 topic, server and recovering batch lanes | `RefusalOutranksMembership`, violated |
| derived_tap_race | 1 topic, derived lane | `TapHonoursRevocation`, violated |
| keyed_lock_clear | 1 key, 3 callers, 1 clear | `ClearedHolderReleasesNothing`, violated |
| offset_epoch_pairing | 1 publication, 3 connections, 1 restart, 1 departure, a hook that compares | `OffsetKeepsItsEpoch`, violated |
| abandoned_recovery | 3 publications, 3 connections, no restart, 1 departure, a hook that compares, fair | `OffsetAwaitsItsAck`, violated |

**Why the bounds are enough to be interesting.**  Three attempts are one attempt that a
revocation overtakes, a sibling that re-grants and a third that lands last, which is
the shape of every race the comments of `ws-symbols.js` describe; the caps of 2 are
reached with a budget that admits both attempts before one lands.  `MaxEpoch` bounds
revocations *while attempts are in flight*; the epoch returns to 0 when the last of
them leaves.  The hook of this instance
decides; once the posture is strict, the grant gate judges its attempts as it judges those of
an application that only observes or has no hook.  What is left is the derived lane of an
application without a hook, which is never refused.  The proofs then cover every kind of hook
and every size.  In `DeliveryGate` one full buffer and one
held frame cross the bound, two sockets make a fan-out whose first recipient can affect
the second, and three frames are one held, one behind it and one issued by the policy.
`MaxFrames` and `MaxJobs` bound counters that grow for ever.  In the lock, three
callers are a holder, a waiter that times out and one behind it.  In the queue, a
running budget smaller than keys times concurrency makes keys compete for it, three keys
under a bound of two make the map fill and empty, and five tasks are enough to refill one
key for ever while another waits; the bounds the plugin checks are all reached.  In the
resume, three publications are one the client saw, one it missed and one that arrives
while the hook runs; a buffer and a ring of one overflow and forget at once; three
connections are one that stores an offset, one that loses its recovery and one that
repairs it, with the restart between any two; `MaxUpsets` bounds departures of the
application, refusals and overtaking subscribes together, and one of them may come at any
moment.  `MaxPubs`, `MaxConns`, `MaxRestarts` and `MaxUpsets` bound the behaviour, the other
three numbers are limits of the code.  The same properties were also checked with two upsets
and two connections (765,620 states) and, without `Converges`, with three upsets, two
connections, two publications and two retries (782,633 states).  In the server, three
handshakes under ceilings of two make every ceiling refuse, one upgrade a tick parks the
others, a ring of two wraps and fills; one request is enough because requests meet only in
their count, which the proofs cover for any number.

**Deadlock** is not checked: every component may rest (a connection that was closed, a
worker whose frames are all numbered, a lock nobody asks for).

**Fairness.**  The subscription component has only safety properties: whether a parked
attempt ever lands is the application's hook to decide.  `DeliveryGate`: an operation
runs to its end (weak fairness of `Running`, the thread does not stop in the middle of a
function), and timers, flushes, drain events and the close of a socket the worker ended
are served however many operations come between (strong fairness: another operation
disables them only for the length of a turn, and the event loop serves what is due).
Decisions have no fairness: that a policy never answers is what its timeout is for.  Even
so `HeldFramesSettle` is conditional: an application that writes to the raw socket for ever
can keep the buffer full at every drain.  `KeyedLock`: the function the application runs
under the lock settles (weak fairness of `Advance`), an assumption on the application,
without which no lock lets anyone in.  `KeyedQueue`: a turn runs to its end (weak fairness of
its steps), and each task the application runs settles (strong fairness of its `Complete`:
the turns of other keys disable it only for their length), the same assumption on the
application.  Nothing is assumed of `push`, `clear` and `drain`.  `ResumeCutover`: frames
under way arrive, timers fire, the resume hook settles (an assumption on the application),
and a client whose connection was closed notices and makes another (weak fairness of each:
nothing but the step itself or the loss of the connection disables it).  Nobody has to
publish, to leave or to lose anything, and `Converges` speaks of what holds from some point
on.  `ServerLifetime`: the timeout of the upgrade hook and the upgrade whose turn was
called, the scheduled drain of the ring, the shutdown delay, the budget, and the step of
the shutdown once the budget is spent (weak fairness, all of them timers or microtasks).
Nothing is assumed of the application's hooks: `ShutdownEnds` holds although the shutdown
hook, the close hooks, the renders and the cleanup listeners may never settle.

## What is proved

`SubscriptionAuthorityProofs` proves all nine safety properties of the subscription
component for every finite set of topics and attempts, every set of lanes and hooks and
every value of the caps.  The assumptions are those of `ConstantsAssumption`: the sets are
finite, `PluginOwned` is a set of topics and the bounds are natural numbers.

The argument rests on one inductive invariant,

    IInv == TypeOK /\ Counted /\ Stamped /\ FlagBacked /\ Judged /\ Emptied

`Counted` is `PendingExact`, a fact about cardinalities that needs finite-set lemmas for an
attempt entering, leaving or changing state.  `Stamped` relates an attempt to its topic's
epoch: it was revoked exactly if its stamp is older, and no stamp is newer.  That is what
makes `Live` mean "no revocation overtook me".  It is inductive only with `Counted`,
because the epoch returns to 0 exactly when no parked attempt holds an old stamp.
`FlagBacked` says that the record's `granted` flag is raised only over an authorized
membership.  `Judged` says that a membership without authority stands only while an attempt
is in flight that will judge it.  `Emptied` says that a closed connection holds nothing.
`GrantsAreAuthorized` and `NoResurrection` then follow from `FlagBacked` and `Judged`;
the action properties follow from the same invariant, step by step; and `WithinCaps`
is inductive on top of it, each landing that adds a topic having read the cap in the same
turn.

`ServerLifetimeProofs` proves the five safety properties of the server for every finite
set of handshakes and requests and every positive value of the ceilings, the budget of a
tick and the size of the ring (`AdmissionAssumption`, `RequestsAssumption`).  The invariant
is

    IInv == TypeOK /\ SlotsExact /\ RequestsExact /\ PacingExact /\ Latched

The exact counts are what keeps the types: a counter stays in its range only because it is
the number of its holders.  They are proved over `Held`, the part of `SlotsExact` that also
holds in the middle of a step: one lemma says what each operation on the slots does to the
counters and to the sets (`AcquireHeld`, `HandOverHeld`, `ReclaimHeld`,
`ReleaseMarkedHeld`, `GiveBackHeld`), and an action is a composition of them.
`RingPlaces` says that counting around the ring meets every place once; `EnqueueKeepsRing`
and `DrainKeepsRing` rest on it.  `Latched` is what each statement of the shutdown leaves
behind: from the drain of the sockets on none is open and, because the latch is set
(`LatchKeepsOut`), none will be; after a drain that ended in time none is left; after the
drain of the requests none is unfinished.  `CleanExit` is its last statement, and
`NoSocketBehindDrain` follows step by step from `LatchKeepsOut`.

`DeliveryGateProofs` proves the type invariant and the five other safety properties for every
finite set of sockets, every bound on what a socket may hold, every number of frames and
deferred operations, and either answer to an overflow (`ConstantsAssumption`).  The
invariant is

    IInv == TypeOK /\ HeldIsBounded /\ EndingsExact /\ Phases /\ Ordered /\ Barred

`Phases` is what each phase of a backlog says of its queue, of the verdict of its head and
of the operation under way.  `Ordered` says that what a socket holds is numbered in the
order it was offered, above what was sent and up to the newest frame, and that the
operation under way still offers the newest one; a frame that is sent at once therefore
finds an empty backlog and passes nothing.  `Barred` says that an open socket that was
refused a frame has a failed backlog, with its close among the work of the operation under
way: the refusal is only as good as the close it defers.  `ReleaseCounts`
says what each release of a backlog does to the count of ends, `SentChanges` that a frame is
sent in three ways only, and the action properties follow from it.

`KeyedLockProofs` proves the type invariant, `QueueHasHolder` and the refinement
`ImplementsKeyedMutex` of the lock for every nonempty set of keys, of callers and of state
objects and every bound.  `QueueHasHolder` is not inductive: that a waiter keeps its place when
another is promoted, timed out or cleared rests on every live place belonging to one waiter of
that very object (`Placed`), and that a release leaves no other key without its holder on an
entry of the registry being under the key its object was made for (`Keyed`).  `Alone` says that
no object has two holders, `Queued` that a waiter has a place and a holder before it.

The refinement needs one more fact, `Attached`: until something is cleared, whoever waits or is
inside does so on the object that the registry holds for its key.  It is the fact that a
`clear` breaks.  `HolderFacts` says what the mutex sees of a state, and one lemma per step what
it does to that view: a grant (`AcquireEnters`), an arrival at the end of the line
(`EnqueueJoins`), a wait given up (`TimeoutGivesUp`), a release (`ReleaseLeaves`) and a
promotion, which is a hand-over to the first of the line (`PromoteLeaves`).  What they need of a
filtered queue (that an append adds its last waiter, that a cancellation removes one and
nothing else, that a shift removes the first) is `SubsequencesProofs`, which proves it of
`Picked` for any sequence.

`KeyedQueueProofs` proves the five safety properties of the queue for every finite set of keys
and tasks and every positive value of its bounds.  The properties are about what holds
between two calls; the invariant

    IInv == TypeOK /\ Distinct /\ Counted /\ Mapped /\ Lined /\ Conserving

says how much of them holds in the middle of one.  The counters are exact at every step
(`Counted`): they are the cardinalities of the waiting places and of the running tasks, and
that a start moves one task from the one to the other rests on no key holding a task twice
(`Distinct`).  Only the key whose task has just settled may be idle and still in the map
(`Mapped`), and only the key of a turn that has not reached `markReady` yet may be startable
without a place in line (`Lined`); each call discharges its exception before it ends.
`Conserving` is how `pump` ends.

`ResumeCutoverProofs` and `ResumeCoverProofs` prove the four safety properties of the resume
for every value of its bounds.  `ResumeCutoverProofs` has the type invariant and `LiveInOrder`.
Its invariant is `TypeInv /\ Holding`: an open buffer holds publications that follow one
another up to the newest, from one that the history of the hook reaches, and none that the
connection was already sent.  The landing sends a part of them, the live frames come after;
that is why neither lane repeats or passes what the other sent.

`ResumeCoverProofs` has `NoSilentGap` and `QuietIsComplete`, with no condition on when a topic
is left or taken, when the server restarts or what the hook does with epochs: the only
exceptions are those the properties name.  They speak of what the client holds, and are not
inductive at all: whether the offset may rise depends on what is still under way.  The
strengthening is `TypeInv /\ Holding /\ Covering`, where

    Covering == Unique /\ Watermarks /\ CoverInv

`CoverInv` is the heart of it.  `Covered(p, x)` says that what the client knows, with the first
`p` items under way to it, reaches publication `x`, or that one of them is a marker that tells
it to read anew.  Unless an exception applies, `Cover` requires it for every number that the
client may come to store: of the offset it stores now (`OffsetCovered`), of a request and of an
attempt that begin from an offset seen in this epoch (`RequestCovered`, `AttemptCovered`), of a
member (`MemberCovered`, up to the last publication), of every frame that arrives when the
client has an answer to all its recoveries (`FrameCovered`) and of the highest number a
recovery will store when its ack arrives (`AckCovered`).  The other parts are what makes a step
keep it:

* `Unique`: a recovery that the client has no answer to waits at one place, in its request or
  in its attempt, and is answered at most once, by the attempt that holds its ref.  An answer
  therefore ends the recovery it is for, and a frame behind the last answer was sent by nothing
  that the client asked for earlier.  No count of recoveries is needed: an abandoned one
  and the plain subscribe of a topic taken again may be under way together.
* `Watermarks`: what is under way is of one epoch, the current one while the connection lasts,
  and is numbered as that epoch numbers its publications; an offset that was seen in this epoch
  is one of its numbers, and what a serving hook read is not below it.  A stored offset of an
  older epoch is never taken for one of this epoch.

The proof has one lemma per operation of the model that says what it does to the cover
(`PublishCovers` to `ReceiveCovers`); most of them come down to what happens when items join
the frames under way (`CoverExtends`) or the client takes the first one (`CoverTakes`), and
`CompleteCovers` says that a client that has everything, as after a marker or a new
subscription, is covered.  The flush is `SettlesCovers`: a buffer that overflowed sends a
marker or ends the connection, and one that did not holds everything above what the history
read (`HeldReaches`), of which the deduplication floor drops only what the history covered
(`FloorLow`).

The exceptions are not a convenience.  Without `strayed`, the runs `offset_epoch_pairing` and
`abandoned_recovery` show the two ways in which the client breaks the properties by itself, and
TLC finds them violated on the instance of `resume_cutover`.

## What is only model-checked

All liveness (`HeldFramesSettle`, `ShutdownSettles`, `WaitersSettle`, `TasksSettle`,
`DrainsSettle`, `Converges`, `HandshakesSettle`, `ShutdownEnds`): under fairness it is outside
what the proof system handles here.  Every other property of a passing run is a theorem.

## Where the code and its comments disagree

Five runs end in a violation, each of a sentence in the source.

* `batch_recovery_refusal`.  A recovering batch entry that a revocation overtook skips its
  gate (`prepareBatchRecovery`), and with it a refusal the batch hook gave.  If the server
  grants the topic before the entry lands, the refused entry is acked.
* `derived_tap_race`.  `authorizeDerivedSubscribe` leaves the record before the plugin that
  awaits it continues; an unsubscribe in that microtask is undone by the tap.
* `keyed_lock_clear`.  After `clear` a new caller acquires the key; the old holder's
  `advance` then deletes the new caller's registry entry, and a third caller runs beside it.
  For that reason `ImplementsKeyedMutex` promises nothing after `clear`.
* `offset_epoch_pairing`.  Leaving a topic keeps its stored offset; when the server restarts
  before the topic is taken again, the ack stores the new epoch beside the old offset, and
  the next reconnect asks for what follows an offset of a sequence space that is gone.
* `abandoned_recovery`.  Leaving a topic forgets a recovery that is under way, but the server
  still serves it.  When the topic is taken again at once, the frames of that recovery raise
  the stored offset before the marker that reports its gap arrives; a connection lost in
  between resumes above the publications that are missing.

## What is not modelled

In the modelled components: parsing and validation of frames, wording of errors, logging,
metrics, the `cork` wrapper, how a batch frame is split into messages, `sendReplaceable`'s
idle shortcut and the release hooks of an application; of the resume, several topics in one
request, topics without an authoritative sequence and a history frame the socket refuses
(`replay` ignores the result of its sends); of the replay plugin, the eviction of a topic
and `clear`, after which its numbers start again; of the client, the life of its socket
(generations, late events, the authentication preflight), its stores and its send queue; of
the handshake, the origin check, the rate limit and the wording of its answers; of a
request, reading the upload and its pause timer, and the renders that identical requests
share.  Components marked `not_modelled` in `PROJECT.json` carry their reason there.

## Plan

1. `SubscriptionAuthority`, its proofs: done.
2. `DeliveryGate`, its proofs: done.
3. `KeyedMutex`, `KeyedLock`, the proofs of its safety invariants and of the refinement: done.
4. `KeyedQueue`, its proofs: done.
5. `UpgradeAdmission`, `RequestLifetime`, `ServerLifetime`, their proofs: done.
6. `ResumeCutover`, the proofs of its safety properties: done for one topic; next, several
   topics in one request and the eviction of a topic from the history.
7. The life of the client's socket: generations, late events of a replaced socket, the
   preflight that finishes after the reconnect it was for.
8. Groups and presence rosters, rate-limit windows as pure operators against a reference
   definition.

Abstract specifications worth stating: the keyed mutex (done), an ordered per-socket stream
that fails closed for `DeliveryGate`, exactly-once-or-truncated for the resume cutover (its
two halves, `NoSilentGap` and `LiveInOrder`, are proved), a counting semaphore for the
admission components.
