------------------------------ MODULE KeyedLock ------------------------------
(***************************************************************************)
(* The lock plugin: withLock runs one function per key at a time.          *)
(*                                                                         *)
(* A registry maps an active key to a state object holding the queue of    *)
(* waiters.  The promise of a holder keeps the state object it ran under,  *)
(* so an object outlives its place in the registry: clear drops the        *)
(* registry while holders are still inside.  State objects are therefore   *)
(* identities of their own here.  A waiter that timed out or was cleared   *)
(* stays in the queue, cancelled, until advance skips it.                  *)
(***************************************************************************)
EXTENDS Subsequences

CONSTANTS
  Keys,
  Callers,     \* callers of withLock, reused once answered
  States,      \* identities of state objects
  None,        \* no state object; also a cancelled waiter in a queue
  MaxKeys,     \* maxKeys
  MaxWaiters,  \* maxWaitersPerKey
  MaxClears    \* bound: calls of clear

ASSUME ConstantsAssumption ==
  /\ None \notin Callers /\ None \notin States
  /\ Keys # {}
  /\ MaxKeys \in Nat /\ MaxWaiters \in Nat /\ MaxClears \in Nat

VARIABLES
  states,   \* the registry
  key,      \* the key a state object was created for
  running,  \* state.running
  queue,    \* state.queue: callers, None for a cancelled waiter
  at,       \* where a caller is: "out", "waiting", "inside"
  of,       \* the state object a caller waits on or holds
  timed,    \* the caller's wait has a timer
  clears    \* calls of clear so far

vars == <<states, key, running, queue, at, of, timed, clears>>

TypeOK ==
  /\ states \in [Keys -> States \cup {None}]
  /\ key \in [States -> Keys]
  /\ running \in [States -> BOOLEAN]
  /\ queue \in [States -> Seq(Callers \cup {None})]
  /\ at \in [Callers -> {"out", "waiting", "inside"}]
  /\ of \in [Callers -> States \cup {None}]
  /\ timed \in [Callers -> BOOLEAN]
  /\ clears \in 0..MaxClears
  /\ \A c \in Callers : /\ at[c] = "out" <=> of[c] = None
                        /\ timed[c] => at[c] = "waiting"
  /\ \A s \in States : Len(queue[s]) <= MaxWaiters

Init ==
  /\ states = [k \in Keys |-> None]
  /\ key = [s \in States |-> CHOOSE k \in Keys : TRUE]
  /\ running = [s \in States |-> FALSE]
  /\ queue = [s \in States |-> <<>>]
  /\ at = [c \in Callers |-> "out"]
  /\ of = [c \in Callers |-> None]
  /\ timed = [c \in Callers |-> FALSE]
  /\ clears = 0

-----------------------------------------------------------------------------
Active == {k \in Keys : states[k] # None}
Inside(s) == {c \in Callers : at[c] = "inside" /\ of[c] = s}

\* An object nothing refers to: a new state object may take its identity.
Unreferenced(s) ==
  (\A k \in Keys : states[k] # s) /\ (\A c \in Callers : of[c] # s)

Full(s) == Len(queue[s]) >= MaxWaiters

Live(c) == c # None

\* withLock on a key nobody holds.
Acquire(c, k) ==
  /\ at[c] = "out" /\ states[k] = None
  /\ Cardinality(Active) < MaxKeys
  /\ \E s \in States : Unreferenced(s)
  /\ LET s == CHOOSE s \in States : Unreferenced(s) IN
       /\ states' = [states EXCEPT ![k] = s]
       /\ key' = [key EXCEPT ![s] = k]
       /\ running' = [running EXCEPT ![s] = TRUE]
       /\ queue' = [queue EXCEPT ![s] = <<>>]
       /\ at' = [at EXCEPT ![c] = "inside"]
       /\ of' = [of EXCEPT ![c] = s]
  /\ UNCHANGED <<timed, clears>>

QueuesPastHolder(c, k) ==
  /\ at[c] = "out" /\ states[k] # None
  /\ at' = [at EXCEPT ![c] = "inside"]
  /\ of' = [of EXCEPT ![c] = states[k]]
  /\ UNCHANGED <<states, key, running, queue, timed, clears>>
\* withLock on a key somebody holds, with room in its queue; with or without a timer.
Enqueue(c, k) ==
  LET s == states[k] IN
  /\ at[c] = "out" /\ s # None /\ running[s] /\ ~Full(s)
  /\ queue' = [queue EXCEPT ![s] = Append(@, c)]
  /\ at' = [at EXCEPT ![c] = "waiting"]
  /\ of' = [of EXCEPT ![c] = s]
  /\ \E timer \in BOOLEAN : timed' = [timed EXCEPT ![c] = timer]
  /\ UNCHANGED <<states, key, running, clears>>

\* The queue of s with the waiters in "gone" marked cancelled, in place.
Cancelled(s, gone) ==
  [i \in DOMAIN queue[s] |-> IF queue[s][i] \in gone THEN None ELSE queue[s][i]]

\* The timer of a waiter: it is cancelled in place and its caller rejected.
Timeout(c) ==
  /\ at[c] = "waiting" /\ timed[c]
  /\ queue' = [queue EXCEPT ![of[c]] = Cancelled(of[c], {c})]
  /\ at' = [at EXCEPT ![c] = "out"]
  /\ of' = [of EXCEPT ![c] = None]
  /\ timed' = [timed EXCEPT ![c] = FALSE]
  /\ UNCHANGED <<states, key, running, clears>>

LiveAtHead(s) ==
  IF queue[s] # <<>> /\ ~Live(Head(queue[s])) THEN {} ELSE {i \in DOMAIN queue[s] : Live(queue[s][i])}
\* The places of a queue that hold a live waiter.
LiveAt(s) == {i \in DOMAIN queue[s] : Live(queue[s][i])}

\* What the queue is once the waiter in place i and all before it have been shifted off.
LeavesCancelled(s, i) == Tail(queue[s])
Shifted(s, i) == SubSeq(queue[s], i + 1, Len(queue[s]))

KeepsTimer(d) == UNCHANGED timed
ClearTimer(d) == timed' = [timed EXCEPT ![d] = FALSE]

\* The function of the holder settled: advance promotes the next live waiter, or
\* releases the key, whatever object the registry holds for it by then.
Advance(c) ==
  LET s == of[c] IN
  /\ at[c] = "inside"
  /\ IF LiveAt(s) = {}
     THEN /\ running' = [running EXCEPT ![s] = FALSE]
          /\ states' = [states EXCEPT ![key[s]] = None]
          /\ queue' = [queue EXCEPT ![s] = <<>>]
          /\ at' = [at EXCEPT ![c] = "out"]
          /\ of' = [of EXCEPT ![c] = None]
          /\ UNCHANGED timed
     ELSE \E i \in LiveAt(s) :
          /\ \A j \in LiveAt(s) : i <= j
          /\ queue' = [queue EXCEPT ![s] = Shifted(s, i)]
          /\ at' = [at EXCEPT ![c] = "out", ![queue[s][i]] = "inside"]
          /\ of' = [of EXCEPT ![c] = None]
          /\ ClearTimer(queue[s][i])
          /\ UNCHANGED <<running, states>>
  /\ UNCHANGED <<key, clears>>

\* clear: reject every waiter and drop the registry; holders run on.
Clear ==
  LET waiting == {c \in Callers : at[c] = "waiting" /\ states[key[of[c]]] = of[c]} IN
  /\ clears < MaxClears
  /\ clears' = clears + 1
  /\ states' = [k \in Keys |-> None]
  /\ queue' = [s \in States |-> Cancelled(s, waiting)]
  /\ at' = [c \in Callers |-> IF c \in waiting THEN "out" ELSE at[c]]
  /\ of' = [c \in Callers |-> IF c \in waiting THEN None ELSE of[c]]
  /\ timed' = [c \in Callers |-> timed[c] /\ c \notin waiting]
  /\ UNCHANGED <<key, running>>

Next ==
  \/ \E c \in Callers :
       Timeout(c) \/ Advance(c) \/ \E k \in Keys : Acquire(c, k) \/ Enqueue(c, k)
  \/ Clear

Spec == Init /\ [][Next]_vars

\* The application's function settles (external): withLock itself never waits on
\* anything else.
FairSpec == Spec /\ \A c \in Callers : WF_vars(Advance(c))

-----------------------------------------------------------------------------
(* Properties.                                                             *)

\* No two callers are inside under one state object; every caller that waits is in the
\* queue of an object whose holder will advance it; and no key is taken by nobody: also
\* across timeouts and clear.
QueueHasHolder ==
  /\ \A s \in States : Cardinality(Inside(s)) <= 1
  /\ \A c \in Callers : at[c] = "waiting" =>
       /\ Inside(of[c]) # {}
       /\ \E i \in DOMAIN queue[of[c]] : queue[of[c]][i] = c
  /\ \A k \in Keys : states[k] # None => Inside(states[k]) # {}

\* A caller that waits is let in, times out or is rejected by clear.
WaitersSettle == \A c \in Callers : at[c] = "waiting" ~> at[c] # "waiting"

\* The waiters of a state object by order of arrival.
Waiting(s) == Picked(queue[s], LiveAt(s))

HolderOf(k) ==
  IF \E c \in Callers : at[c] = "inside" /\ key[of[c]] = k
  THEN CHOOSE c \in Callers : at[c] = "inside" /\ key[of[c]] = k
  ELSE None

Mutex == INSTANCE KeyedMutex WITH
  Nobody <- None,
  inUse <- clears = 0,
  holder <- [k \in Keys |-> HolderOf(k)],
  line <- [k \in Keys |-> IF states[k] = None THEN <<>> ELSE Waiting(states[k])]

\* Until it is cleared the plugin is a keyed mutex: one caller inside per key, the
\* others by order of arrival, a timeout disturbing nobody behind it.
ImplementsKeyedMutex == Mutex!Spec

\* A holder whose registry entry clear dropped releases nothing when it settles:
\* it never removes the entry of a caller that acquired the key since.
ClearedHolderReleasesNothing ==
  [][\A c \in Callers :
       (at[c] = "inside" /\ at'[c] = "out" /\ states[key[of[c]]] # of[c])
         => states' = states]_vars
==============================================================================
