---------------------------- MODULE ServerLifetime ----------------------------
(***************************************************************************)
(* The server from its boot to its exit: handshakes, sockets and requests  *)
(* (UpgradeAdmission, RequestLifetime) and the shutdown that stops         *)
(* admitting the first, ends the second and waits for the third, each wait *)
(* under one budget.                                                       *)
(*                                                                         *)
(* "stage" is the statement the shutdown waits at.                         *)
(***************************************************************************)
EXTENDS UpgradeAdmission, RequestLifetime

VARIABLES
  stage,
  clean,    \* whether every wait so far ended before the budget did
  expired,  \* the signal of the budget is aborted
  late      \* history: the sockets were given up before their close hooks settled

shutdown == <<stage, clean, expired, late>>
vars == <<admission, requests, shutdown>>

Waits == {"hook",      \* the application's shutdown hook
          "settling",  \* drainWebSockets
          "requests",  \* drain
          "cleanup"}   \* the cleanup listeners
Stages == {"booting", "serving", "delay", "exited", "killed"} \cup Waits

Over == stage \in {"exited", "killed"}
ShuttingDown == stage \in {"delay"} \cup Waits

TypeOK ==
  /\ AdmissionTypeOK /\ RequestTypeOK
  /\ stage \in Stages
  /\ {clean, expired, late} \subseteq BOOLEAN

Init ==
  /\ AdmissionInit /\ RequestInit
  /\ stage = "booting" /\ clean = TRUE /\ expired = FALSE /\ late = FALSE

-----------------------------------------------------------------------------
(* The server at work.  It listens from the start of the boot to the stop  *)
(* that follows the drain of the sockets.                                  *)

Listening == stage \in {"booting", "serving", "delay", "hook", "settling"}

Handshake ==
  /\ ~Over
  /\ HandshakeStep
  /\ UNCHANGED <<requests, shutdown>>

Request ==
  /\ ~Over
  /\ RequestStep
  /\ Listening \/ lifetimes'.unfinished \subseteq lifetimes.unfinished
  /\ UNCHANGED <<admission, shutdown>>

-----------------------------------------------------------------------------
(* The signals.                                                            *)

\* The latch is set before anything else.  A signal during the boot waits for its end.
Signal ==
  /\ stage \in {"booting", "serving"} /\ ~draining
  /\ draining' = TRUE
  /\ stage' = IF stage = "serving" THEN "delay" ELSE stage
  /\ UNCHANGED <<phase, slots, pacing, wsConnections, requests, clean, expired, late>>

BootDone ==
  /\ stage = "booting"
  /\ stage' = IF draining THEN "delay" ELSE "serving"
  /\ UNCHANGED <<admission, requests, clean, expired, late>>

\* force_shutdown: a second signal.
SecondSignal ==
  /\ draining /\ ~Over
  /\ stage' = "killed"
  /\ lifetimes' = Aborted(lifetimes)
  /\ UNCHANGED <<admission, work, clean, expired, late>>

-----------------------------------------------------------------------------
(* graceful_shutdown.                                                      *)

DelayOver ==
  /\ stage = "delay"
  /\ stage' = "hook"
  /\ UNCHANGED <<admission, requests, clean, expired, late>>

BudgetExpires ==
  /\ stage \in Waits /\ ~expired
  /\ expired' = TRUE
  /\ UNCHANGED <<admission, requests, stage, clean, late>>

WaitsForever(done, at, next) ==
  /\ stage = at /\ done
  /\ stage' = next
  /\ clean' = (clean /\ ~expired)
  /\ UNCHANGED expired
\* budget.wait: the work is done, or the budget is spent and its outcome ignored.
Wait(done, at, next) ==
  /\ stage = at /\ (done \/ expired)
  /\ stage' = next
  /\ clean' = (clean /\ ~expired)
  /\ UNCHANGED expired

\* The shutdown hook has settled, whatever it did.  drainWebSockets then ends every
\* socket of the registry: at once, leaving a close hook or not, or when the policy lets it.
HookOver ==
  /\ Wait(TRUE, "hook", "settling")
  /\ \E ended \in SUBSET (wsConnections \cap In("open")) :
       \E hooked \in SUBSET ended :
         /\ phase' = [h \in Handshakes |->
                        CASE h \in hooked -> "closed"
                          [] h \in ended \ hooked -> "idle"
                          [] h \in (wsConnections \cap In("open")) \ ended -> "ending"
                          [] OTHER -> phase[h]]
         /\ wsConnections' = wsConnections \ ended
         /\ slots' = ReleaseMarked(slots, ended)
  /\ UNCHANGED <<pacing, draining, requests, late>>

SettledByRegistry == wsConnections = {}
\* What the drain of the sockets waits for.
Settled == wsConnections = {} /\ pendingCloseHooks = {}

\* The drain of the sockets is over, or, once no end is held any more, has taken
\* CLOSE_SETTLE_TIMEOUT_MS; then the server stops listening.
SocketsDrained ==
  /\ Wait(In("ending") = {}, "settling", "requests")
  /\ late' = ~Settled
  /\ UNCHANGED <<admission, requests>>

\* drain, and the abort of what it did not wait for.
RequestsDrained ==
  /\ Wait(lifetimes.inFlightCount = 0, "requests", "cleanup")
  /\ lifetimes' = Aborted(lifetimes)
  /\ UNCHANGED <<admission, work, late>>

\* The cleanup listeners have settled; the process exits.
CleanedUp ==
  /\ Wait(TRUE, "cleanup", "exited")
  /\ lifetimes' = Aborted(lifetimes)
  /\ UNCHANGED <<admission, work, late>>

\* One of them failed.
CleanupFails ==
  /\ stage = "cleanup"
  /\ stage' = "exited" /\ clean' = FALSE
  /\ lifetimes' = Aborted(lifetimes)
  /\ UNCHANGED <<admission, work, expired, late>>

GracefulStep == HookOver \/ SocketsDrained \/ RequestsDrained \/ CleanedUp

Next ==
  \/ Handshake \/ Request
  \/ BootDone \/ Signal \/ SecondSignal \/ DelayOver \/ BudgetExpires
  \/ GracefulStep \/ CleanupFails

Spec == Init /\ [][Next]_vars

\* Timers fire and the event loop turns: the timeout of the upgrade hook, the upgrade that
\* got its turn, the drain of the ring, the delay, the budget and what waited for it.
InServer(A) == ~Over /\ A /\ UNCHANGED <<requests, shutdown>>
GetsOn(h) ==
  InServer(HookRefuses(h) \/ Declined(h) \/ RuntimeRefuses(h) \/ Opens(h) \/ OpensAndCloses(h))
Fairness ==
  /\ \A h \in Handshakes : WF_vars(GetsOn(h))
  /\ WF_vars(InServer(DrainDeferred))
  /\ WF_vars(DelayOver \/ BudgetExpires \/ (expired /\ GracefulStep))
FairSpec == Spec /\ Fairness

-----------------------------------------------------------------------------
(* Safety.                                                                 *)

\* Slots and requests are counted exactly, through every order of hang-ups, failed
\* upgrades, closes and shutdown.
CountersExact == SlotsExact /\ RequestsExact

\* What a shutdown that reports itself complete has waited for: no socket is open behind
\* it, no close hook is cut off unless the settle window said so, no request is unfinished;
\* and a process never exits with a request it neither finished nor aborted.
CleanExit ==
  /\ stage = "exited" /\ clean =>
       /\ wsConnections = {} /\ lifetimes.unfinished = {}
       /\ pendingCloseHooks # {} => late
  /\ Over => lifetimes.requestSignals = {}

-----------------------------------------------------------------------------
(* Liveness.                                                               *)

\* Once the latch is set every handshake under way is answered: none is left in a hook that
\* never settles, nor in the ring with no drain coming.
HandshakesSettle == draining ~> Handshaking = {} \/ Over

\* A shutdown under a budget ends, whatever the hooks, the sockets and the requests do.
ShutdownEnds == ShuttingDown ~> Over
==============================================================================
