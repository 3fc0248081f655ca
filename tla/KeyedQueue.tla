------------------------------ MODULE KeyedQueue ------------------------------
(***************************************************************************)
(* The queue plugin: tasks run per key, in order, at most Concurrency at a *)
(* time, under a running budget all keys share.                            *)
(*                                                                         *)
(* A key with startable work holds one place in the service line, and the  *)
(* scheduler gives the head of the line one start per visit.  A place must *)
(* be given back whenever its key stops being startable by another route.  *)
(*                                                                         *)
(* A push and the completion of a task run the scheduler before anything   *)
(* else happens.  "turn" is the call under way: it goes through schedule,  *)
(* the rounds of pump and the cleanup.  A clear visits its keys one after  *)
(* the other.  Every other action waits for the call to end.               *)
(***************************************************************************)
EXTENDS Naturals, Sequences, FiniteSets

CONSTANTS
  Keys,
  Tasks,        \* task identities, reused once settled
  None,         \* no key
  Concurrency,  \* concurrency, per key
  MaxSize,      \* maxSize: tasks waiting on one key
  MaxKeys,      \* maxKeys
  MaxPending,   \* maxPendingTotal
  MaxRunning    \* maxRunningTotal

ASSUME ConstantsAssumption ==
  /\ IsFiniteSet(Keys) /\ IsFiniteSet(Tasks) /\ None \notin Keys
  /\ {Concurrency, MaxSize, MaxKeys, MaxPending, MaxRunning} \subseteq Nat \ {0}

VARIABLES
  live,     \* the keys of queues
  items,    \* q.items
  active,   \* the tasks q.running counts
  line,     \* serviceLine; a key's q.lineNode is its place in it
  pending,  \* pendingCurrent
  running,  \* runningCurrent
  drains,   \* the keys whose q.drains is not empty
  turn,     \* the call under way: its key, its step, and whether a task settled
  clearing  \* the keys a clear under way has still to visit

work == <<items, active, pending, running>>
vars == <<live, work, line, drains, turn, clearing>>

Rest == [key |-> None, step |-> "none", settled |-> FALSE]

TypeOK ==
  /\ live \subseteq Keys /\ Cardinality(live) <= MaxKeys
  /\ items \in [Keys -> Seq(Tasks)]
  /\ \A k \in Keys : Len(items[k]) <= MaxSize
  /\ active \in [Keys -> SUBSET Tasks]
  /\ \A k \in Keys : Cardinality(active[k]) <= Concurrency
  /\ line \in Seq(Keys)
  /\ pending \in 0..MaxPending /\ running \in 0..MaxRunning
  /\ drains \subseteq Keys
  /\ turn \in [key : Keys, step : {"schedule", "pump", "cleanup"}, settled : BOOLEAN]
              \cup {Rest}
  /\ clearing \subseteq live /\ (turn # Rest => clearing = {})

Init ==
  /\ live = {} /\ line = <<>> /\ pending = 0 /\ running = 0 /\ drains = {}
  /\ items = [k \in Keys |-> <<>>]
  /\ active = [k \in Keys |-> {}]
  /\ turn = Rest /\ clearing = {}

-----------------------------------------------------------------------------
AtRest == turn = Rest /\ clearing = {}

HasStartable(waiting, busy) == waiting # <<>> /\ Cardinality(busy) < Concurrency
Startable(k) == HasStartable(items[k], active[k])
InLine(k) == \E i \in DOMAIN line : line[i] = k
Idle(k) == active[k] = {} /\ items[k] = <<>>
Budget == running < MaxRunning

Waiting(t) == \E k \in Keys : \E i \in DOMAIN items[k] : items[k][i] = t
Running(t) == \E k \in Keys : t \in active[k]

\* unmarkReady: the place q.lineNode is taken out of the line.
Unlinked(seq, k) ==
  IF \E i \in DOMAIN seq : seq[i] = k
  THEN LET i == CHOOSE i \in DOMAIN seq : seq[i] = k
       IN  SubSeq(seq, 1, i - 1) \o SubSeq(seq, i + 1, Len(seq))
  ELSE seq

MarkedAtFront(seq, k) ==
  IF HasStartable(items'[k], active'[k]) /\ \A i \in DOMAIN seq : seq[i] # k
  THEN <<k>> \o seq ELSE seq
\* markReady, once the key's tasks are what they have become.
Marked(seq, k) ==
  IF HasStartable(items'[k], active'[k]) /\ \A i \in DOMAIN seq : seq[i] # k
  THEN Append(seq, k) ELSE seq

\* start
Start(k) ==
  /\ items' = [items EXCEPT ![k] = Tail(@)]
  /\ active' = [active EXCEPT ![k] = @ \cup {Head(items[k])}]
  /\ pending' = pending - 1 /\ running' = running + 1

-----------------------------------------------------------------------------
(* push and the completion of a task begin a turn.                         *)

ShedsPastKeys(k) ==
  \/ k \in live /\ Len(items[k]) >= MaxSize
  \/ k \notin live /\ Cardinality(live) > MaxKeys
  \/ pending >= MaxPending
\* The bounds push checks before it allocates anything.
Sheds(k) ==
  \/ k \in live /\ Len(items[k]) >= MaxSize
  \/ k \notin live /\ Cardinality(live) >= MaxKeys
  \/ pending >= MaxPending

Push(t, k) ==
  /\ AtRest /\ ~Waiting(t) /\ ~Running(t)
  /\ ~Sheds(k)
  /\ live' = live \cup {k}
  /\ items' = [items EXCEPT ![k] = Append(@, t)]
  /\ pending' = pending + 1
  /\ turn' = [key |-> k, step |-> "schedule", settled |-> FALSE]
  /\ UNCHANGED <<active, running, line, drains, clearing>>

\* The task settled, either way.
Complete(t, k) ==
  /\ AtRest /\ t \in active[k]
  /\ active' = [active EXCEPT ![k] = @ \ {t}]
  /\ running' = running - 1
  /\ turn' = [key |-> k, step |-> "schedule", settled |-> TRUE]
  /\ UNCHANGED <<live, items, pending, line, drains, clearing>>

-----------------------------------------------------------------------------
(* The turn.                                                               *)

JumpsTheLine(k) == Startable(k) /\ Budget
\* schedule's shortcut: nobody is owed a turn.
Shortcut(k) == line = <<>> /\ Startable(k) /\ Budget

\* schedule, up to its call of pump.
Schedule ==
  /\ turn.step = "schedule"
  /\ IF Shortcut(turn.key) THEN Start(turn.key) ELSE UNCHANGED work
  /\ line' = Marked(line, turn.key)
  /\ turn' = [turn EXCEPT !.step = "pump"]
  /\ UNCHANGED <<live, drains, clearing>>

\* One round of pump: the head of the line gives up its place, is given a start, and
\* takes a place at the back if it is startable still.
PumpRound ==
  /\ turn.step = "pump" /\ Budget /\ line # <<>>
  /\ LET k == Head(line) IN
       IF k \in live /\ Startable(k)
       THEN Start(k) /\ line' = Marked(Tail(line), k)
       ELSE line' = Tail(line) /\ UNCHANGED work
  /\ UNCHANGED <<live, drains, turn, clearing>>

PumpVisitsOnce ==
  /\ turn.step = "pump"
  /\ turn' = IF turn.settled THEN [turn EXCEPT !.step = "cleanup"] ELSE Rest
  /\ UNCHANGED <<live, work, line, drains, clearing>>
\* pump is over when the budget is spent or nobody is in line.
PumpEnds ==
  /\ turn.step = "pump" /\ ~(Budget /\ line # <<>>)
  /\ turn' = IF turn.settled THEN [turn EXCEPT !.step = "cleanup"] ELSE Rest
  /\ UNCHANGED <<live, work, line, drains, clearing>>

ForgetsDrains(gone) == drains' = drains
\* The drains of a key that leaves the map are resolved.
ResolveDrains(gone) == drains' = drains \ gone

\* cleanup, once the key's tasks are what they have become: an idle key leaves the map.
LeaveMap(k) ==
  LET gone == {j \in live \cap {k} : items'[j] = <<>> /\ active'[j] = {}} IN
  /\ live' = live \ gone
  /\ ResolveDrains(gone)

Cleanup ==
  /\ turn.step = "cleanup"
  /\ UNCHANGED <<work, clearing>>
  /\ LeaveMap(turn.key)
  /\ line' = IF Idle(turn.key) THEN Unlinked(line, turn.key) ELSE line
  /\ turn' = Rest

-----------------------------------------------------------------------------
(* clear and drain, of one key or of all.                                  *)

PlaceKept(k) == line
PlaceLeft(k) == Unlinked(line, k)

RejectedUncounted(k) == 0
\* The tasks rejectWaiting takes out of a key.
Rejected(k) == Len(items[k])

\* rejectWaiting and the cleanup of one key.
ClearKey(k) ==
  /\ items' = [items EXCEPT ![k] = <<>>]
  /\ pending' = pending - Rejected(k)
  /\ line' = PlaceLeft(k)
  /\ UNCHANGED <<active, running, turn>>
  /\ LeaveMap(k)

Clear(ks) ==
  /\ AtRest
  /\ \E k \in ks : ClearKey(k) /\ clearing' = ks \ {k}

ClearGoesOn ==
  \E k \in clearing : ClearKey(k) /\ clearing' = clearing \ {k}

Drain(ks) ==
  /\ AtRest
  /\ drains' = drains \cup {k \in ks : ~Idle(k)}
  /\ UNCHANGED <<live, work, line, turn, clearing>>

Next ==
  \/ \E k \in Keys, t \in Tasks : Push(t, k) \/ Complete(t, k)
  \/ Schedule \/ PumpRound \/ PumpEnds \/ Cleanup \/ ClearGoesOn
  \/ \E ks \in {{k} : k \in live} \cup {live} : Clear(ks) \/ Drain(ks)

Spec == Init /\ [][Next]_vars

\* A turn runs to its end, and the application's task settles (external).
Fairness ==
  /\ WF_vars(Schedule \/ PumpRound \/ PumpEnds \/ Cleanup \/ ClearGoesOn)
  /\ \A t \in Tasks : SF_vars(\E k \in Keys : Complete(t, k))
FairSpec == Spec /\ Fairness

-----------------------------------------------------------------------------
(* Safety, between two turns.                                              *)

\* The service line names exactly the keys with startable work, each of them once:
\* no place leaks when clear or a completion overtakes the scheduler.
LineExact ==
  AtRest =>
    /\ {k \in Keys : InLine(k)} = {k \in live : Startable(k)}
    /\ \A i, j \in DOMAIN line : line[i] = line[j] => i = j

\* No task that could start is left waiting while the running budget has room.
WorkConserving == AtRest /\ (\E k \in Keys : Startable(k)) => ~Budget

WaitingPlaces == {p \in Keys \X (1..MaxSize) : p[2] <= Len(items[p[1]])}
RunningTasks == {p \in Keys \X Tasks : p[2] \in active[p[1]]}

\* The counters that the bounds are checked against are exact, the map holds exactly
\* the keys with work, and a drain waits only for a key that will resolve it.
CountersExact ==
  AtRest =>
    /\ pending = Cardinality(WaitingPlaces)
    /\ running = Cardinality(RunningTasks)
    /\ live = {k \in Keys : ~Idle(k)}
    /\ drains \subseteq live

\* A key starts a task only when no other key is ahead of it in line, the key whose own
\* push or completion began the turn included.
NoQueueJumping ==
  [][\A k \in Keys :
       active'[k] \ active[k] # {} => line = <<>> \/ Head(line) = k]_vars

-----------------------------------------------------------------------------
(* Liveness.                                                               *)

\* No task starves: while other keys are refilled for ever, one that waits is started
\* or cleared.
TasksSettle == \A t \in Tasks : Waiting(t) ~> ~Waiting(t)

\* A drain resolves once its key is no longer refilled.
DrainsSettle ==
  \A k \in Keys :
    <>[][\A t \in Tasks : ~Push(t, k)]_vars => (k \in drains ~> k \notin drains)
==============================================================================
