--------------------------- MODULE RequestLifetime ----------------------------
(***************************************************************************)
(* The HTTP requests a shutdown waits for.  A request is counted while it  *)
(* is unfinished, and finished by whichever comes first of: its response   *)
(* complete, its stream ended, failed or cancelled, its client gone, its   *)
(* body over the limit.  What comes later finds it finished.               *)
(*                                                                         *)
(* A finished request may still have its render, or a read of its          *)
(* response, outstanding; either settles into nothing.                     *)
(***************************************************************************)
EXTENDS Naturals, FiniteSets

CONSTANT Requests  \* identities of requests, reused when nothing of one is outstanding

ASSUME RequestsAssumption == IsFiniteSet(Requests)

VARIABLES
  lifetimes,  \* inFlightCount, requestSignals, and the requests not finished
  work        \* what each still waits for: its render, or a read of its response

requests == <<lifetimes, work>>

\* The requests whose responseReader is set.
Streaming == {r \in lifetimes.unfinished : work[r] = "read"}

RequestTypeOK ==
  /\ lifetimes \in [inFlightCount : 0..Cardinality(Requests),
                    requestSignals : SUBSET Requests, unfinished : SUBSET Requests]
  /\ work \in [Requests -> {"none", "render", "read"}]

RequestInit ==
  /\ lifetimes = [inFlightCount |-> 0, requestSignals |-> {}, unfinished |-> {}]
  /\ work = [r \in Requests |-> "none"]

-----------------------------------------------------------------------------
FinishedAgain(l, r) ==
  [l EXCEPT !.inFlightCount = @ - 1, !.requestSignals = @ \ {r}, !.unfinished = @ \ {r}]
\* finish, called by several endings of one request.
Finished(l, r) ==
  IF r \in l.unfinished
  THEN [l EXCEPT !.inFlightCount = @ - 1,
                 !.requestSignals = @ \ {r}, !.unfinished = @ \ {r}]
  ELSE l

Finish(r) == lifetimes' = Finished(lifetimes, r)

OpenRequest(r) ==
  /\ r \notin lifetimes.unfinished /\ work[r] = "none"
  /\ lifetimes' = [inFlightCount |-> lifetimes.inFlightCount + 1,
                   requestSignals |-> lifetimes.requestSignals \cup {r},
                   unfinished |-> lifetimes.unfinished \cup {r}]
  /\ work' = [work EXCEPT ![r] = "render"]

\* The upload passes its limit: the guard gives the render up and a 413 completes, or the
\* response that is being streamed fails.
BodyOverLimit(r) ==
  /\ r \in lifetimes.unfinished
  /\ Finish(r) /\ UNCHANGED work

\* disconnect: only a response that is being streamed ends here, while the read of it is
\* outstanding.
ClientLeaves(r) ==
  /\ r \in Streaming
  /\ Finish(r) /\ UNCHANGED work

\* The render fails, is answered in one piece, or finds that the client has left.
RenderCompletes(r) ==
  /\ work[r] = "render"
  /\ Finish(r)
  /\ work' = [work EXCEPT ![r] = "none"]

\* The render answers with a stream.
RenderStreams(r) ==
  /\ work[r] = "render" /\ r \in lifetimes.unfinished
  /\ work' = [work EXCEPT ![r] = "read"]
  /\ UNCHANGED lifetimes

\* The read finds the end of the stream or its failure; a chunk leads to another read.
ReadSettles(r) ==
  /\ work[r] = "read"
  /\ Finish(r)
  /\ work' = [work EXCEPT ![r] = "none"]

\* The server cancels the stream: disconnect, which finishes what is streaming, and then
\* finish once more.
StreamCancelled(r) ==
  /\ work[r] = "read"
  /\ lifetimes' = Finished(Finished(lifetimes, r), r)
  /\ UNCHANGED work

\* abortInFlightRequests: every controller still known is aborted and forgotten.
Aborted(l) == [l EXCEPT !.requestSignals = {}]

RequestStep ==
  \E r \in Requests :
    \/ OpenRequest(r) \/ BodyOverLimit(r) \/ ClientLeaves(r) \/ StreamCancelled(r)
    \/ RenderCompletes(r) \/ RenderStreams(r) \/ ReadSettles(r)

-----------------------------------------------------------------------------
\* A request is counted exactly until its first ending, and can be aborted no longer.
RequestsExact ==
  /\ lifetimes.inFlightCount = Cardinality(lifetimes.unfinished)
  /\ lifetimes.requestSignals \subseteq lifetimes.unfinished
==============================================================================
