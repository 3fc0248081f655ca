----------------------------- MODULE DeliveryGate -----------------------------
(***************************************************************************)
(* The recipient delivery policy: every frame the adapter builds passes it *)
(* on its way to one socket.                                               *)
(*                                                                         *)
(* A frame admitted at once goes straight to the transport.  A frame whose *)
(* decision is pending, or that meets bytes the transport has not flushed, *)
(* waits in the socket's backlog, and every later frame queues behind it.  *)
(*                                                                         *)
(* The worker is one thread.  An operation (a send, a fan-out, a drain, a  *)
(* decision that lands) runs to its end before anything else happens, and  *)
(* what the policy issues while it decides is queued and run as the        *)
(* operation ends.  "busy" marks an operation under way, "work" is what it *)
(* has still to admit, "jobs" is what the policy and the gate deferred.    *)
(* The frames one pump hands on are one step each.                         *)
(***************************************************************************)
EXTENDS Naturals, Sequences, FiniteSets

CONSTANTS
  Sockets,          \* the connections of one worker
  MaxPending,       \* maxPendingBytes, counted in frames
  CloseOnOverflow,  \* closeOnBackpressureLimit
  MaxFrames,        \* bound: frames numbered in one behaviour
  MaxJobs           \* bound: operations deferred at once

ASSUME ConstantsAssumption ==
  /\ IsFiniteSet(Sockets)
  /\ MaxPending \in Nat /\ MaxFrames \in Nat /\ MaxJobs \in Nat
  /\ CloseOnOverflow \in BOOLEAN

VARIABLES
  armed,    \* authorize !== null
  busy,     \* depth > 0
  work,     \* what the operation under way has still to admit, in order
  jobs,     \* queued
  native,   \* the socket: "open", "ending" after ws.end, "closed" once its close event came
  buf,      \* the transport's buffer: "empty", "full", "flushed" with the drain event due
  gate,     \* the socket's backlog: "none" when it has none, "failed" while it awaits its close
  queue,    \* backlog.queue from backlog.head on
  ready,    \* the head's entry.verdict
  ending,   \* backlog.ending !== null
  endings,  \* endings
  waiters,  \* endWaiters.length > 0
  orphans,  \* sockets whose decision was still pending when their backlog was released
  next,     \* frames numbered so far, in the order they are offered
  sent,     \* history: the number of the newest frame handed to the transport
  fresh,    \* history: the head was approved and the buffer has not filled since
  refused   \* history: a frame of this socket was refused

backlog == <<gate, queue, ready, ending>>
worker  == <<armed, busy, work, jobs, next>>
endVars == <<endings, waiters>>
history == <<sent, fresh, refused>>
vars == <<worker, native, buf, backlog, endVars, orphans, history>>

Ops == {"app", "control", "end", "overflowClose", "refusedEnd"}
Item == [op : Ops, s : Sockets, n : Nat]
Do(op, s) == [op |-> op, s |-> s, n |-> 0]

TypeOK ==
  /\ armed \in BOOLEAN /\ busy \in BOOLEAN
  /\ work \in Seq(Item) /\ jobs \in Seq(Item)
  /\ native \in [Sockets -> {"open", "ending", "closed"}]
  /\ buf \in [Sockets -> {"empty", "full", "flushed"}]
  /\ gate \in [Sockets -> {"none", "open", "pumping", "waiting", "failed"}]
  /\ queue \in [Sockets -> Seq(Item)]
  /\ ready \in [Sockets -> BOOLEAN] /\ ending \in [Sockets -> BOOLEAN]
  /\ endings \in Nat /\ waiters \in BOOLEAN
  /\ orphans \subseteq Sockets
  /\ next \in Nat
  /\ sent \in [Sockets -> Nat]
  /\ fresh \in [Sockets -> BOOLEAN] /\ refused \in [Sockets -> BOOLEAN]

Init ==
  /\ armed = TRUE /\ busy = FALSE /\ work = <<>> /\ jobs = <<>>
  /\ native = [s \in Sockets |-> "open"] /\ buf = [s \in Sockets |-> "empty"]
  /\ gate = [s \in Sockets |-> "none"] /\ queue = [s \in Sockets |-> <<>>]
  /\ ready = [s \in Sockets |-> FALSE] /\ ending = [s \in Sockets |-> FALSE]
  /\ endings = 0 /\ waiters = FALSE /\ orphans = {} /\ next = 0
  /\ sent = [s \in Sockets |-> 0]
  /\ fresh = [s \in Sockets |-> FALSE] /\ refused = [s \in Sockets |-> FALSE]

-----------------------------------------------------------------------------
(* Reads.                                                                  *)

Full(s) == buf[s] = "full"
Held(s) == gate[s] \in {"open", "pumping", "waiting"}
Pumping == \E s \in Sockets : gate[s] = "pumping"

\* What the policy may issue while it decides a frame: nothing, or one operation.
Nested == {<<>>} \cup {<<Do(op, s)>> : op \in {"app", "control", "end"}, s \in Sockets}
HasRoom(nested) ==
  /\ Len(jobs) + Len(nested) <= MaxJobs
  /\ next + Len(jobs) + Len(nested) <= MaxFrames

OverflowsByTransport(s) == (IF Full(s) THEN 1 ELSE 0) > MaxPending
\* ws.getBufferedAmount() + backlog.bytes > maxPendingBytes
Overflows(s) == Len(queue[s]) + (IF Full(s) THEN 1 ELSE 0) > MaxPending

-----------------------------------------------------------------------------
(* Writes.                                                                 *)

\* ws.send: an open socket takes the frame and may be left with unflushed bytes;
\* an ending one, or a buffer at its own limit, drops it.
Transmit(s, n) ==
  \/ /\ native[s] = "open"
     /\ sent' = [sent EXCEPT ![s] = n]
     /\ fresh' = [fresh EXCEPT ![s] = FALSE]
     /\ \E b \in {buf[s], "full"} : buf' = [buf EXCEPT ![s] = b]
  \/ /\ native[s] # "open" \/ Full(s)
     /\ UNCHANGED <<sent, fresh, buf>>

EndNative(s) == native' = [native EXCEPT ![s] = IF @ = "open" THEN "ending" ELSE @]

SettlesAnyRelease(s) ==
  /\ endings' = endings - 1
  /\ UNCHANGED waiters
ForgetsWaiters(s) ==
  /\ endings' = IF ending[s] THEN endings - 1 ELSE endings
  /\ UNCHANGED waiters
\* settleEnding, as release calls it: the last end to settle wakes the waiters.
SettleEnding(s) ==
  /\ endings' = IF ending[s] THEN endings - 1 ELSE endings
  /\ waiters' = (waiters /\ ~(ending[s] /\ endings = 1))

\* release, and the phase its caller leaves the socket in.
Release(s, phase) ==
  /\ gate' = [gate EXCEPT ![s] = phase]
  /\ queue' = [queue EXCEPT ![s] = <<>>]
  /\ ready' = [ready EXCEPT ![s] = FALSE]
  /\ ending' = [ending EXCEPT ![s] = FALSE]
  /\ SettleEnding(s)

ForgetsRefused(s) ==
  /\ Release(s, "none")
  /\ refused' = [refused EXCEPT ![s] = TRUE]
\* fail: a released backlog stays in the map and refuses what follows.
Fail(s) ==
  /\ Release(s, "failed")
  /\ refused' = [refused EXCEPT ![s] = TRUE]

\* The close event: discard what the socket held.  A decision in flight is left
\* to settle on its own.
Gone(s) ==
  /\ native' = [native EXCEPT ![s] = "closed"]
  /\ buf' = [buf EXCEPT ![s] = "empty"]
  /\ fresh' = [fresh EXCEPT ![s] = FALSE]
  /\ Release(s, "none")

\* Append to the backlog, opening it in the given phase if there was none.
Hold(item, phase) ==
  /\ queue' = [queue EXCEPT ![item.s] = Append(@, item)]
  /\ gate' = [gate EXCEPT ![item.s] = IF @ = "none" THEN phase ELSE @]
  /\ UNCHANGED <<ready, ending>>

-----------------------------------------------------------------------------
(* An operation begins: send, control, end, publish.                       *)

Start(items) ==
  /\ ~busy
  /\ busy' = TRUE /\ work' = items
  /\ UNCHANGED <<armed, jobs, native, buf, backlog, endVars, orphans, history>>

\* send and control of an armed worker, for a socket whose close has not come.
Send(op, s) ==
  /\ armed /\ native[s] # "closed" /\ op \in {"app", "control"}
  /\ next + Len(jobs) < MaxFrames
  /\ next' = next + 1
  /\ Start(<<[op |-> op, s |-> s, n |-> next + 1]>>)

\* publish: one frame to each subscriber in turn, the order being the walk's own.
Publish(first, second) ==
  /\ armed /\ next + Len(jobs) < MaxFrames
  /\ first # second
  /\ next' = next + 1
  /\ Start(<<[op |-> "app", s |-> first, n |-> next + 1],
             [op |-> "app", s |-> second, n |-> next + 1]>>)

End(s) ==
  /\ armed /\ native[s] # "closed"
  /\ Start(<<Do("end", s)>>)
  /\ UNCHANGED next

\* Without a policy every entry point is the native call.
SendUnarmed(s) ==
  /\ ~busy /\ ~armed /\ next + Len(jobs) < MaxFrames
  /\ next' = next + 1
  /\ Transmit(s, next + 1)
  /\ UNCHANGED <<armed, busy, work, jobs, native, backlog, endVars, orphans, refused>>

-----------------------------------------------------------------------------
(* admit, for the next frame of the operation under way.                   *)

Admitting(item) ==
  /\ busy /\ ~Pumping /\ work # <<>>
  /\ work' = Tail(work)
  /\ UNCHANGED <<armed, busy, next>>

IsFrame(item) == item.op \in {"app", "control"}
ControlPasses(item) == ~armed \/ native[item.s] = "closed" \/ item.op = "control"
Unguarded(item) ==
  \/ ~armed \/ native[item.s] = "closed"
  \/ item.op = "control" /\ gate[item.s] = "none"

AdmitUnchecked(item) ==
  /\ Admitting(item) /\ IsFrame(item) /\ Unguarded(item)
  /\ Transmit(item.s, item.n)
  /\ UNCHANGED <<jobs, native, backlog, endVars, orphans, refused>>

MayDecide(item) ==
  Admitting(item) /\ item.op = "app" /\ ~Unguarded(item) /\ gate[item.s] = "none"

\* No backlog and an empty transport: the policy decides now.
AdmitDecided(item, verdict, nested) ==
  LET s == item.s IN
  /\ MayDecide(item) /\ ~Full(s) /\ HasRoom(nested)
  /\ \/ /\ verdict = "true"
        /\ Transmit(s, item.n)
        /\ jobs' = jobs \o nested
        /\ UNCHANGED <<backlog, endVars, refused>>
     \/ /\ verdict = "later"
        /\ Hold(item, "waiting")
        /\ jobs' = jobs \o nested
        /\ UNCHANGED <<buf, endVars, history>>
     \/ /\ verdict = "refuse"
        /\ Fail(s)
        /\ jobs' = jobs \o nested \o <<Do("refusedEnd", s)>>
        /\ UNCHANGED <<buf, sent, fresh>>
  /\ UNCHANGED <<native, orphans>>

\* The same, with the policy closing the connection itself as it decides.
AdmitClosedByPolicy(item, verdict, nested) ==
  /\ MayDecide(item) /\ ~Full(item.s) /\ HasRoom(nested)
  /\ Gone(item.s)
  /\ orphans' = IF verdict = "later" THEN orphans \cup {item.s} ELSE orphans
  /\ jobs' = jobs \o nested
  /\ UNCHANGED <<sent, refused>>

Behind(item) ==
  /\ Admitting(item) /\ IsFrame(item) /\ ~Unguarded(item)
  /\ gate[item.s] # "none" \/ Full(item.s)

Refuses(s) == gate[s] = "failed" \/ ending[s]

AdmitHeld(item) ==
  LET s == item.s IN
  /\ Behind(item)
  /\ IF Refuses(s) \/ Overflows(s)
     THEN /\ jobs' = IF ~Refuses(s) /\ CloseOnOverflow
                     THEN Append(jobs, Do("overflowClose", s)) ELSE jobs
          /\ UNCHANGED backlog
     ELSE /\ Hold(item, "open")
          /\ UNCHANGED jobs
  /\ UNCHANGED <<native, buf, endVars, orphans, history>>

\* endNow: after the held frames when there are any.
AdmitEnd(item) ==
  LET s == item.s IN
  /\ Admitting(item) /\ item.op = "end"
  /\ IF gate[s] = "none"
     THEN EndNative(s) /\ UNCHANGED <<ending, endings>>
     ELSE /\ UNCHANGED native
          /\ IF Refuses(s) THEN UNCHANGED <<ending, endings>>
             ELSE ending' = [ending EXCEPT ![s] = TRUE] /\ endings' = endings + 1
  /\ UNCHANGED <<jobs, buf, gate, queue, ready, waiters, orphans, history>>

\* endRefused and the overflow close, once the operation that caused them is over.
AdmitClose(item) ==
  /\ Admitting(item) /\ item.op \in {"refusedEnd", "overflowClose"}
  /\ EndNative(item.s)
  /\ UNCHANGED <<jobs, buf, backlog, endVars, orphans, history>>

\* leave: the operation ends once nothing deferred is left to run.
Leave ==
  /\ busy /\ ~Pumping /\ work = <<>>
  /\ IF jobs = <<>>
     THEN busy' = FALSE /\ UNCHANGED <<work, jobs, next>>
     ELSE /\ jobs' = Tail(jobs)
          /\ next' = IF IsFrame(Head(jobs)) THEN next + 1 ELSE next
          /\ work' = <<IF IsFrame(Head(jobs)) THEN [Head(jobs) EXCEPT !.n = next + 1]
                       ELSE Head(jobs)>>
          /\ UNCHANGED busy
  /\ UNCHANGED <<armed, native, buf, backlog, endVars, orphans, history>>

-----------------------------------------------------------------------------
(* drainQueue and retire, one held frame a step.                           *)

Pump(s) == busy /\ gate[s] = "pumping" /\ UNCHANGED <<armed, busy, work, next>>

\* Every held frame reached the transport; an end that waited for them follows.
Retire(s) ==
  /\ Pump(s) /\ queue[s] = <<>>
  /\ Release(s, "none")
  /\ IF ending[s] THEN EndNative(s) ELSE UNCHANGED native
  /\ UNCHANGED <<jobs, buf, orphans, history>>

KeepsVerdict(s) ==
  /\ gate' = [gate EXCEPT ![s] = "open"]
  /\ UNCHANGED ready
\* The transport filled: the frame is decided again once its buffer drains.
ForgetVerdict(s) ==
  /\ gate' = [gate EXCEPT ![s] = "open"]
  /\ ready' = [ready EXCEPT ![s] = FALSE]

PumpBlocked(s) ==
  /\ Pump(s) /\ queue[s] # <<>> /\ Full(s)
  /\ ForgetVerdict(s)
  /\ UNCHANGED <<jobs, native, buf, queue, ending, endVars, orphans, history>>

HandsOverOne(s) ==
  /\ Transmit(s, Head(queue[s]).n)
  /\ queue' = [queue EXCEPT ![s] = Tail(@)]
  /\ ready' = [ready EXCEPT ![s] = FALSE]
  /\ gate' = [gate EXCEPT ![s] = IF Len(queue[s]) > 1 THEN "open" ELSE "pumping"]
  /\ UNCHANGED <<native, ending, endVars, orphans, refused>>
\* Hand the head over.  A drop by an ending socket stops the pump unless nothing is left.
HandOver(s) ==
  /\ Transmit(s, Head(queue[s]).n)
  /\ queue' = [queue EXCEPT ![s] = Tail(@)]
  /\ ready' = [ready EXCEPT ![s] = FALSE]
  /\ gate' = [gate EXCEPT ![s] =
       IF native[s] # "open" /\ Len(queue[s]) > 1 THEN "open" ELSE "pumping"]
  /\ UNCHANGED <<native, ending, endVars, orphans, refused>>

PumpApproved(s) ==
  /\ Pump(s) /\ queue[s] # <<>> /\ ~Full(s)
  /\ Head(queue[s]).op = "control" \/ ready[s]
  /\ HandOver(s)
  /\ UNCHANGED jobs

Undecided(s) ==
  queue[s] # <<>> /\ ~Full(s) /\ Head(queue[s]).op = "app" /\ ~ready[s]

PumpDecided(s, verdict, nested) ==
  /\ Pump(s) /\ Undecided(s) /\ HasRoom(nested)
  /\ \/ verdict = "true" /\ HandOver(s) /\ jobs' = jobs \o nested
     \/ /\ verdict = "later"
        /\ gate' = [gate EXCEPT ![s] = "waiting"]
        /\ jobs' = jobs \o nested
        /\ UNCHANGED <<native, buf, queue, ready, ending, endVars, orphans, history>>
     \/ /\ verdict = "refuse"
        /\ Fail(s)
        /\ jobs' = jobs \o nested \o <<Do("refusedEnd", s)>>
        /\ UNCHANGED <<native, buf, orphans, sent, fresh>>

PumpClosedByPolicy(s, verdict, nested) ==
  /\ Pump(s) /\ Undecided(s) /\ HasRoom(nested)
  /\ Gone(s)
  /\ orphans' = IF verdict = "later" THEN orphans \cup {s} ELSE orphans
  /\ jobs' = jobs \o nested
  /\ UNCHANGED <<sent, refused>>

-----------------------------------------------------------------------------
(* Between operations.                                                     *)

Quiet == ~busy /\ UNCHANGED <<armed, work, next>>

\* The transport flushed (external); its drain event is delivered later.
Flush(s) ==
  /\ Quiet /\ Full(s)
  /\ buf' = [buf EXCEPT ![s] = "flushed"]
  /\ UNCHANGED <<busy, jobs, native, backlog, endVars, orphans, history>>

\* drain
Drain(s) ==
  /\ Quiet /\ buf[s] = "flushed" /\ native[s] = "open"
  /\ buf' = [buf EXCEPT ![s] = "empty"]
  /\ busy' = (armed /\ gate[s] # "none")
  /\ gate' = [gate EXCEPT ![s] = IF @ = "open" /\ armed THEN "pumping" ELSE @]
  /\ UNCHANGED <<jobs, native, queue, ready, ending, endVars, orphans, history>>

\* A raw send of the application, outside the policy (external).
RawSend(s) ==
  /\ Quiet /\ native[s] = "open"
  /\ buf' = [buf EXCEPT ![s] = "full"]
  /\ fresh' = [fresh EXCEPT ![s] = FALSE]
  /\ UNCHANGED <<busy, jobs, native, backlog, endVars, orphans, sent, refused>>

\* wait: the pending decision lands.
Decision(s, verdict) ==
  /\ Quiet /\ gate[s] = "waiting"
  /\ busy' = TRUE
  /\ \/ /\ verdict = "true"
        /\ gate' = [gate EXCEPT ![s] = "pumping"]
        /\ ready' = [ready EXCEPT ![s] = TRUE]
        /\ fresh' = [fresh EXCEPT ![s] = ~Full(s)]
        /\ UNCHANGED <<jobs, queue, ending, endVars, refused>>
     \/ /\ verdict = "refuse"
        /\ Fail(s)
        /\ jobs' = Append(jobs, Do("refusedEnd", s))
        /\ UNCHANGED fresh
  /\ UNCHANGED <<native, buf, orphans, sent>>

\* settle asks about the next message of a batch, outside any operation.
DecisionContinues(s, nested) ==
  /\ Quiet /\ gate[s] = "waiting" /\ HasRoom(nested)
  /\ jobs' = jobs \o nested
  /\ UNCHANGED <<busy, native, buf, backlog, endVars, orphans, history>>

\* The decision took longer than timeoutMs.
Timeout(s) ==
  /\ Quiet /\ gate[s] = "waiting"
  /\ Fail(s) /\ EndNative(s)
  /\ orphans' = orphans \cup {s}
  /\ UNCHANGED <<busy, jobs, buf, sent, fresh>>

\* A decision lands after its backlog was released.
OrphanDecision(s) ==
  /\ Quiet /\ s \in orphans
  /\ busy' = TRUE
  /\ orphans' = orphans \ {s}
  /\ UNCHANGED <<jobs, native, buf, backlog, endVars, history>>

\* endNow's timer: the end waits for the held frames no longer.
EndTimer(s) ==
  /\ Quiet /\ ending[s]
  /\ orphans' = IF gate[s] = "waiting" THEN orphans \cup {s} ELSE orphans
  /\ Release(s, "none") /\ EndNative(s)
  /\ UNCHANGED <<busy, jobs, buf, history>>

\* closed: the client left, or the end the worker asked for completed.
CloseEvent(s) ==
  /\ Quiet /\ native[s] # "closed"
  /\ orphans' = IF gate[s] = "waiting" THEN orphans \cup {s} ELSE orphans
  /\ Gone(s)
  /\ UNCHANGED <<busy, jobs, sent, refused>>

\* ended: the shutdown drain waits for every end that waits for held frames.
Ended ==
  /\ Quiet /\ endings > 0
  /\ waiters' = TRUE
  /\ UNCHANGED <<busy, jobs, native, buf, backlog, endings, orphans, history>>

\* reset: a failed initialization removes the policy and what it held.
Reset ==
  /\ ~busy /\ armed
  /\ armed' = FALSE
  /\ gate' = [s \in Sockets |-> IF Held(s) THEN "failed" ELSE gate[s]]
  /\ native' = [s \in Sockets |->
       IF Held(s) /\ native[s] = "open" THEN "ending" ELSE native[s]]
  /\ refused' = [s \in Sockets |-> refused[s] \/ Held(s)]
  /\ queue' = [s \in Sockets |-> <<>>]
  /\ ready' = [s \in Sockets |-> FALSE] /\ ending' = [s \in Sockets |-> FALSE]
  /\ endings' = 0 /\ waiters' = FALSE
  /\ orphans' = orphans \cup {s \in Sockets : gate[s] = "waiting"}
  /\ UNCHANGED <<busy, work, jobs, next, buf, sent, fresh>>

Configure ==
  /\ ~busy /\ ~armed
  /\ armed' = TRUE
  /\ UNCHANGED <<busy, work, jobs, next, native, buf, backlog, endVars, orphans, history>>

-----------------------------------------------------------------------------
Verdicts == {"true", "later", "refuse"}

Admit ==
  LET item == Head(work) IN
    \/ AdmitUnchecked(item) \/ AdmitHeld(item) \/ AdmitEnd(item) \/ AdmitClose(item)
    \/ \E verdict \in Verdicts, nested \in Nested :
         AdmitDecided(item, verdict, nested) \/ AdmitClosedByPolicy(item, verdict, nested)

PumpStep(s) ==
  \/ Retire(s) \/ PumpBlocked(s) \/ PumpApproved(s)
  \/ \E verdict \in Verdicts, nested \in Nested :
       PumpDecided(s, verdict, nested) \/ PumpClosedByPolicy(s, verdict, nested)

Operation ==
  \/ \E s \in Sockets : End(s) \/ SendUnarmed(s) \/ \E op \in Ops : Send(op, s)
  \/ \E first, second \in Sockets : Publish(first, second)

Event ==
  \/ \E s \in Sockets :
       \/ Flush(s) \/ Drain(s) \/ RawSend(s) \/ Timeout(s) \/ OrphanDecision(s)
       \/ EndTimer(s) \/ CloseEvent(s)
       \/ \E verdict \in Verdicts : Decision(s, verdict)
       \/ \E nested \in Nested \ {<<>>} : DecisionContinues(s, nested)
  \/ Ended \/ Reset \/ Configure

Running == Admit \/ Leave \/ \E s \in Sockets : PumpStep(s)

Next == Operation \/ Event \/ Running

\* An operation runs to its end, and the event loop serves what is due however many
\* operations come between: a timer, a flush, a drain event, the close of a socket
\* that was ended.
Fairness ==
  /\ WF_vars(Running)
  /\ \A s \in Sockets :
       /\ SF_vars(Timeout(s)) /\ SF_vars(EndTimer(s))
       /\ SF_vars(Flush(s)) /\ SF_vars(Drain(s))
       /\ SF_vars(native[s] = "ending" /\ CloseEvent(s))

Spec == Init /\ [][Next]_vars
FairSpec == Spec /\ Fairness

-----------------------------------------------------------------------------
(* Safety.                                                                 *)

\* Frames reach a socket's transport in the order they were offered: none passes
\* a held frame, and what a policy issues follows the fan-out it was deciding.
NoOvertaking == [][\A s \in Sockets : sent'[s] >= sent[s]]_vars

\* Once a frame of a socket was refused, nothing more reaches that socket.
NothingAfterRefusal == [][\A s \in Sockets : refused[s] => sent'[s] = sent[s]]_vars

\* An application frame that was held is handed to an empty transport buffer, on a
\* verdict given since that buffer was last seen to hold bytes.
DecidedLate ==
  [][\A s \in Sockets :
       (/\ gate[s] = "pumping" /\ queue[s] # <<>> /\ Head(queue[s]).op = "app"
        /\ sent'[s] # sent[s])
         => ~Full(s) /\ (ready[s] => fresh[s])]_vars

\* What a socket holds exceeds the bound by at most the entry that crossed it.
HeldIsBounded == \A s \in Sockets : Len(queue[s]) <= MaxPending + 1

\* The worker counts exactly the ends that still wait for held frames, and the
\* shutdown waits only while there is one: its wake-up is never lost.
EndingsExact ==
  /\ endings = Cardinality({s \in Sockets : ending[s]})
  /\ waiters => endings > 0
  /\ \A s \in Sockets : ending[s] => Held(s)

-----------------------------------------------------------------------------
(* Liveness.                                                               *)

\* A socket does not hold frames for ever: they are handed on, or it is closed.
\* Only raw sends that keep filling the transport may put every decision off.
HeldFramesSettle ==
  \A s \in Sockets : <>[][~RawSend(s)]_vars => (Held(s) ~> ~Held(s))

\* A shutdown that waits for the ends in progress goes on.
ShutdownSettles == waiters ~> ~waiters
=============================================================================
