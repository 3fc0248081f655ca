---------------------------- MODULE ResumeCutover ----------------------------
(***************************************************************************)
(* Resuming one topic after a disconnect: the browser client's stored      *)
(* offset (client.js), the request it sends on the new connection, the     *)
(* server's capture of live frames while the application's resume hook     *)
(* serves the history (handler/resume-buffer.js, platform.js), and the     *)
(* flush that joins the two.                                               *)
(*                                                                         *)
(* The topic is published with explicit sequence numbers of one authority, *)
(* the history of one epoch; a restart of the server starts both again.    *)
(* Publication i carries seq i - origin.  A stored offset of 0 is none, a  *)
(* mark of 0 is the code's NO_MARK: explicit numbers start at 1.           *)
(***************************************************************************)
EXTENDS Subsequences

CONSTANTS
  MaxPubs,        \* bound: publications of a behaviour
  MaxConns,       \* bound: connections of a behaviour
  MaxRestarts,    \* bound: restarts of the server
  MaxUpsets,      \* bound: departures of the application, refusals, overtaking subscribes
  MaxRetries,     \* RATE_LIMITED_MAX_ATTEMPTS of the client
  MaxHeld,        \* MAX_RESUME_BUFFERED_FRAMES
  RingSize,       \* messages the history retains
  Hooks           \* what the application's resume hook does with the epoch it is handed

ASSUME ResumeBounds ==
  /\ {MaxPubs, MaxConns, MaxRestarts, MaxUpsets, MaxRetries, RingSize} \subseteq Nat
  /\ MaxHeld \in Nat \ {0}
  /\ Hooks \subseteq {"compares", "ignores"}

VARIABLES
  pubs,      \* publications so far
  origin,    \* publications before the current epoch
  epoch,     \* the topic's epoch
  mark,      \* maxAuthoritativeSeq of the topic
  srv,       \* is the server's end of the connection open
  live,      \* the connection's membership of the topic
  attempts,  \* subscribe attempts that wait for the resume hook
  c2s, s2c,  \* frames under way in either direction
  link,      \* the client's current socket is open
  wanted,    \* subscribedTopics holds the topic
  lastSeen, lastEpoch,  \* the client's entries in lastSeenSeqs and lastSeenEpochs
  pending,   \* its entry in pendingRecoveries
  retries, timer,       \* its entry in rateLimitedTopics, rateLimitedTimer
  nextRef, conns, upsets,
  \* What the client was given, for the properties alone:
  known,     \* publications it received, or was told to read anew
  base,      \* publications before the subscription it is owed from
  seenIn,    \* the epoch its offset was seen in
  overtaken, \* the server installed the topic while frames were owed
  asked,     \* recoveries of this connection that the client has no answer to
  strayed,   \* the offset was put to a use that it does not bear
  newest,    \* the newest live frame sent on this connection
  refused    \* the topic stands denied on this connection

store == <<pubs, origin, epoch, mark>>
conn == <<srv, live, attempts, c2s, s2c>>
client == <<link, wanted, lastSeen, lastEpoch, pending, retries, timer>>
bounds == <<nextRef, conns, upsets>>
ghosts == <<known, base, seenIn, overtaken, asked, strayed, newest, refused>>
vars == <<store, conn, client, bounds, ghosts>>

NoEpoch == -1
Epochs == 0..MaxRestarts
Stamp(i) == i - origin
Current == Stamp(pubs)
NoPending == [ref |-> 0, highest |-> 0]

Item(k, pub, seq, ref) == [k |-> k, pub |-> pub, seq |-> seq, ref |-> ref, ep |-> epoch]
Frame(i) == Item("frame", i, Stamp(i), 0)
\* History goes out under the topic's own seqs, or under none.
History(i, stamped) == Item("history", i, IF stamped THEN Stamp(i) ELSE 0, 0)
\* Any of the __replay markers that clear the client's offset.
Marker(k) == Item(k, 0, 0, 0)
Ack(ref) == Item("subscribed", 0, 0, ref)
Denied(ref, reason) == Item(reason, 0, 0, ref)
\* A subscribe, with the offset and epoch it asks to recover from; `seen` is the epoch
\* that the offset was really seen in, for the properties alone.
Request(ref, offset, ep, seen) ==
  [op |-> "subscribe", ref |-> ref, offset |-> offset, epoch |-> ep, seen |-> seen]
Plain(ref) == Request(ref, 0, NoEpoch, NoEpoch)
Release == [op |-> "unsubscribe", ref |-> 0, offset |-> 0, epoch |-> NoEpoch, seen |-> NoEpoch]

\* One more of the events that MaxUpsets bounds.
Upset == upsets < MaxUpsets /\ upsets' = upsets + 1

TypeOK ==
  /\ pubs \in 0..MaxPubs /\ origin \in 0..pubs /\ epoch \in Epochs /\ mark \in 0..Current
  /\ srv \in BOOLEAN /\ live \in BOOLEAN /\ (live \/ attempts # {} => srv)
  /\ \A a \in attempts :
       /\ a.ref \in 1..(nextRef - 1) /\ a.stage \in {"serving", "served"}
       /\ a.offset \in 1..MaxPubs /\ {a.epoch, a.seen} \subseteq Epochs \cup {NoEpoch}
       /\ a.before \in 0..MaxPubs /\ a.upto \in 0..MaxPubs
       /\ {a.overflow, a.revoked} \subseteq BOOLEAN
       /\ Len(a.held) <= MaxHeld /\ \A i \in 1..Len(a.held) : a.held[i] \in (origin + 1)..pubs
  /\ \A i \in 1..Len(s2c) : s2c[i].pub \in 0..pubs /\ s2c[i].ep \in Epochs
  /\ link \in BOOLEAN /\ wanted \in BOOLEAN
  /\ lastSeen \in 0..MaxPubs /\ lastEpoch \in Epochs \cup {NoEpoch}
  /\ pending.ref \in 0..(nextRef - 1) /\ pending.highest \in 0..MaxPubs
  /\ retries \in 0..MaxRetries /\ timer \in BOOLEAN
  /\ known \subseteq 1..pubs /\ base \in 0..pubs /\ newest \in 0..pubs
  /\ asked \subseteq 1..(nextRef - 1)

Init ==
  /\ pubs = 0 /\ origin = 0 /\ epoch = 0 /\ mark = 0
  /\ srv = FALSE /\ live = FALSE /\ attempts = {} /\ c2s = <<>> /\ s2c = <<>>
  /\ link = FALSE /\ wanted = TRUE /\ lastSeen = 0 /\ lastEpoch = NoEpoch
  /\ pending = NoPending /\ retries = 0 /\ timer = FALSE
  /\ nextRef = 1 /\ conns = 0 /\ upsets = 0
  /\ known = {} /\ base = 0 /\ seenIn = NoEpoch /\ overtaken = FALSE
  /\ asked = {} /\ strayed = FALSE /\ newest = 0 /\ refused = FALSE

-----------------------------------------------------------------------------
(* The server: publications and the history.                               *)

CaptureOneMore(a, i) ==
  IF Len(a.held) > MaxHeld THEN [a EXCEPT !.overflow = TRUE] ELSE [a EXCEPT !.held = Append(@, i)]
\* captureResumeFrame, for one open buffer.
Capture(a, i) ==
  IF Len(a.held) >= MaxHeld
    THEN [a EXCEPT !.overflow = TRUE]
    ELSE [a EXCEPT !.held = Append(@, i)]

\* platform.publish with an explicit seq: the mark moves up, the open buffers
\* take the frame, and so does the connection if it is a live member.
Publish ==
  /\ pubs < MaxPubs
  /\ LET i == pubs + 1 IN
       /\ pubs' = i
       /\ mark' = IF Stamp(i) > mark THEN Stamp(i) ELSE mark
       /\ attempts' = {Capture(a, i) : a \in attempts}
       /\ s2c' = IF live THEN Append(s2c, Frame(i)) ELSE s2c
       /\ newest' = IF live THEN i ELSE newest
  /\ UNCHANGED <<origin, epoch, srv, live, c2s, client, bounds, known, base, seenIn, overtaken,
                 asked, strayed, refused>>

\* notePublishedSeq of another topic at MAX_SEQ_TOPICS: this mark is the victim.
EvictMark ==
  /\ mark # 0
  /\ mark' = 0
  /\ UNCHANGED <<pubs, origin, epoch, conn, client, bounds, ghosts>>

\* The process restarts: numbers, marks and history begin again, in a new epoch.
Restart ==
  /\ epoch < MaxRestarts /\ conns < MaxConns
  /\ epoch' = epoch + 1 /\ origin' = pubs /\ mark' = 0
  /\ srv' = FALSE /\ live' = FALSE /\ attempts' = {} /\ c2s' = <<>>
  /\ UNCHANGED <<pubs, s2c, client, bounds, ghosts>>

-----------------------------------------------------------------------------
(* The server: subscribing.                                                *)

\* beginResumeCapture, at the request of an admitted attempt.
Begin(m) ==
  attempts' = attempts \cup
    {[ref |-> m.ref, offset |-> m.offset, epoch |-> m.epoch, seen |-> m.seen, stage |-> "serving",
      before |-> mark, upto |-> 0, held |-> <<>>, overflow |-> FALSE, revoked |-> FALSE]}

\* A subscribe that asks for no history installs the membership and is acked.
\* What the client is owed starts here, if it was no member.
LandPlain(m) ==
  /\ live' = TRUE
  /\ s2c' = Append(s2c, Ack(m.ref))
  /\ base' = IF live THEN base ELSE pubs
  /\ overtaken' = (overtaken /\ live) /\ strayed' = (strayed /\ live)
  /\ UNCHANGED attempts

\* A subscribe frame passes its gate or is refused.
ServerSubscribe ==
  /\ srv /\ c2s # <<>> /\ Head(c2s).op = "subscribe"
  /\ c2s' = Tail(c2s)
  /\ LET m == Head(c2s) IN
       \/ \E reason \in {"RATE_LIMITED", "FORBIDDEN"} :
            /\ Upset
            /\ s2c' = Append(s2c, Denied(m.ref, reason))
            /\ UNCHANGED <<live, attempts, base, overtaken, strayed>>
       \/ /\ m.offset = 0
          /\ LandPlain(m)
          /\ UNCHANGED upsets
       \/ /\ m.offset # 0
          /\ Begin(m)
          /\ UNCHANGED <<live, s2c, base, overtaken, strayed, upsets>>
  /\ UNCHANGED <<store, srv, client, nextRef, conns, known, seenIn, asked, newest, refused>>

\* An unsubscribe frame releases the membership and cancels attempts in flight.
ServerUnsubscribe ==
  /\ srv /\ c2s # <<>> /\ Head(c2s).op = "unsubscribe"
  /\ c2s' = Tail(c2s)
  /\ live' = FALSE
  /\ attempts' = {[a EXCEPT !.revoked = TRUE] : a \in attempts}
  /\ UNCHANGED <<store, srv, s2c, client, bounds, ghosts>>

\* platform.subscribe by the server itself, while the client's own is parked.
Overtake ==
  /\ srv /\ ~live /\ attempts # {}
  /\ Upset
  /\ live' = TRUE /\ overtaken' = TRUE
  /\ UNCHANGED <<store, srv, attempts, c2s, s2c, client, nextRef, conns, known, base, seenIn,
                 asked, strayed, newest, refused>>

\* replay of the replay plugin: the retained messages above the offset, and a
\* truncated end if some are gone.  It knows no epochs: an offset at or above the
\* counter has missed nothing.
Replayed(a, stamped) ==
  LET oldest == IF Current > RingSize THEN Current - RingSize + 1 ELSE 1
      first  == IF a.offset + 1 > oldest THEN a.offset + 1 ELSE oldest
      frames == IF first > Current THEN <<>>
                ELSE [j \in 1..(Current - first + 1) |-> History(origin + first + j - 1, stamped)]
  IN  IF Current > 0 /\ oldest > a.offset + 1
        THEN Append(frames, Marker("end-truncated")) ELSE frames

\* The epoch that came with the offset is not the topic's: topicEpoch and lastSeenEpochs.
Stale(a) == a.epoch \notin {NoEpoch, epoch}

EpochIgnored(a, hook, stamped) == Replayed(a, stamped)
\* What the application's hook sends.  The server hands it the epoch and leaves the rest to
\* it: a hook that compares finds an offset of another epoch and has the client rehydrate,
\* one that ignores the epoch replays from the offset.
Served(a, hook, stamped) ==
  IF Stale(a) /\ hook = "compares" THEN <<Marker("rehydrate")>> ELSE Replayed(a, stamped)

\* The history is read from an offset of another epoch: by a hook that ignores the epoch,
\* or because the client named the wrong one.
Misread(a, hook) == a.seen # epoch /\ ~(Stale(a) /\ hook = "compares")

\* The resume hook reads the history and sends it; it has not returned yet.
HookServes ==
  \E a \in attempts, hook \in Hooks :
    /\ a.stage = "serving"
    /\ \E stamped \in BOOLEAN : s2c' = s2c \o Served(a, hook, stamped)
    /\ attempts' = (attempts \ {a}) \cup {[a EXCEPT !.stage = "served", !.upto = Current]}
    /\ strayed' = (strayed \/ Misread(a, hook))
    /\ UNCHANGED <<store, srv, live, c2s, client, bounds, known, base, seenIn, overtaken,
                   asked, newest, refused>>

-----------------------------------------------------------------------------
(* The server: the landing of an attempt whose hook settled.               *)

None == -1
\* What a hook may report as covered: what it read, nothing, a number the server
\* never stamped, or the client's own offset, of whatever epoch.
Reports(a) == {a.upto, None, MaxPubs + 1, a.offset}

FloorAsReported(a, covered) == IF covered = None THEN a.before ELSE covered
\* The dedup floor of flushResumeTopic.
Floor(a, covered) ==
  LET ceiling == IF mark > a.before THEN mark ELSE a.before
  IN  IF covered = None \/ covered > ceiling THEN a.before ELSE covered

\* The held frames that the history did not cover.
Uncovered(a, covered) ==
  Picked(a.held, {j \in DOMAIN a.held : Stamp(a.held[j]) > Floor(a, covered)})

\* flushResumeTopic: what it sends, and whether the connection is given up.  The
\* socket takes `taken` of the frames; m1 and m2 answer the marker, and "gone"
\* is a connection the control budget has cut.
Flush(a, covered, truncated, taken, m1, m2) ==
  LET early  == a.overflow \/ truncated
      told   == early /\ m1 = "delivered"
      gone   == early /\ m1 = "gone"
      frames == Uncovered(a, covered)
      sent   == IF gone THEN <<>> ELSE SubSeq(frames, 1, taken)
      late   == ~gone /\ ~told /\ (early \/ taken < Len(frames))
      mark1  == IF told THEN <<Marker("truncated")>> ELSE <<>>
      mark2  == IF late /\ m2 = "delivered" THEN <<Marker("truncated")>> ELSE <<>>
  IN  [items |-> mark1 \o [j \in 1..Len(sent) |-> Frame(sent[j])] \o mark2,
       newest |-> IF sent = <<>> THEN newest ELSE sent[Len(sent)],
       ended |-> gone \/ (late /\ m2 # "delivered")]

Answers == {"delivered", "refused", "gone"}

HeldFlushes(a) ==
  /\ live
  /\ s2c' = s2c \o [j \in 1..Len(a.held) |-> Frame(a.held[j])] \o <<Ack(a.ref)>>
  /\ newest' = IF a.held = <<>> THEN newest ELSE a.held[Len(a.held)]
  /\ UNCHANGED <<srv, live, upsets>>
\* The landing finds the topic held: the buffer is discarded and the attempt acked.
LandHeld(a) ==
  /\ live
  /\ s2c' = Append(s2c, Ack(a.ref))
  /\ UNCHANGED <<srv, live, newest, upsets>>

\* The landing is refused: revoked while it waited, or the subscriptions are full.
LandRefused(a) ==
  /\ ~live
  /\ \/ /\ a.revoked
        /\ s2c' = Append(s2c, Denied(a.ref, "FORBIDDEN"))
        /\ UNCHANGED upsets
     \/ /\ ~a.revoked
        /\ Upset
        /\ s2c' = Append(s2c, Denied(a.ref, "RATE_LIMITED"))
  /\ UNCHANGED <<srv, live, newest>>

\* The landing installs the membership, flushes the buffer and acks, unless the
\* flush ended the connection.  The socket may refuse the ack itself.
LandInstalled(a, covered, truncated) ==
  /\ ~live /\ ~a.revoked
  /\ \E taken \in 0..Len(Uncovered(a, covered)), m1 \in Answers, m2 \in Answers, acked \in BOOLEAN :
       LET f == Flush(a, covered, truncated, taken, m1, m2) IN
         /\ f.ended => conns < MaxConns
         /\ s2c' = s2c \o f.items \o (IF acked /\ ~f.ended THEN <<Ack(a.ref)>> ELSE <<>>)
         /\ newest' = f.newest
         /\ srv' = ~f.ended
         /\ live' = ~f.ended
  /\ UNCHANGED upsets

Land(a, covered, truncated) ==
  \/ LandHeld(a)
  \/ LandRefused(a)
  \/ LandInstalled(a, covered, truncated)

\* Every attempt of the connection goes with it.
Leaving(a) ==
  /\ attempts' = IF srv' THEN attempts \ {a} ELSE {}
  /\ c2s' = IF srv' THEN c2s ELSE <<>>
  /\ UNCHANGED <<store, client, nextRef, conns, known, base, seenIn, overtaken, asked, refused>>

\* The landing trusts a hook that vouches for the client's offset above all that it read.
Vouches(a, covered) == ~live /\ covered = a.offset /\ a.offset > a.upto

HookReturns ==
  \E a \in attempts :
    /\ a.stage = "served"
    /\ \E covered \in Reports(a) :
         /\ Land(a, covered, FALSE)
         /\ strayed' = (strayed \/ Vouches(a, covered))
    /\ Leaving(a)

\* The hook throws, before or after it sent its history: markResumeTruncated.
HookThrows ==
  \E a \in attempts :
    /\ Land(a, None, TRUE)
    /\ Leaving(a)
    /\ UNCHANGED strayed

-----------------------------------------------------------------------------
(* The client.                                                             *)

\* A frame the client sends; it reaches nobody once the server's end is closed.
Outbox(q, m) == IF srv' THEN Append(q, m) ELSE q

\* A request for the frames above the stored offset, or for none.
Asking(ref) == IF lastSeen = 0 THEN Plain(ref) ELSE Request(ref, lastSeen, lastEpoch, seenIn)

\* chunkResubscribe and sendRecoveryFrame: a topic with a stored offset asks for
\* the frames above it, and the offset is set aside until the answer.
Resubscribe(q) ==
  /\ c2s' = Outbox(q, Asking(nextRef))
  /\ nextRef' = nextRef + 1

Recovering == IF lastSeen = 0 THEN pending ELSE [ref |-> nextRef, highest |-> 0]

\* doConnect up to onopen: recoveries of the old connection are dropped and the
\* topic is subscribed anew.  Refs only have to be distinct on one connection.
Reconnect ==
  /\ ~link /\ conns < MaxConns
  /\ link' = TRUE /\ srv' = TRUE /\ conns' = conns + 1
  /\ IF wanted
       THEN /\ c2s' = <<Asking(1)>>
            /\ pending' = IF lastSeen = 0 THEN NoPending ELSE [ref |-> 1, highest |-> 0]
       ELSE c2s' = <<>> /\ pending' = NoPending
  /\ nextRef' = 2
  /\ newest' = 0 /\ refused' = FALSE /\ asked' = IF wanted /\ lastSeen # 0 THEN {1} ELSE {}
  /\ UNCHANGED <<store, live, attempts, s2c, wanted, lastSeen, lastEpoch, retries, timer,
                 upsets, known, base, seenIn, overtaken, strayed>>

\* onclose: what was under way is lost; the refused subscribes are forgotten.
ConnectionLost ==
  /\ link /\ (srv => conns < MaxConns)
  /\ link' = FALSE /\ srv' = FALSE /\ live' = FALSE
  /\ attempts' = {} /\ c2s' = <<>> /\ s2c' = <<>>
  /\ retries' = 0 /\ timer' = FALSE
  /\ UNCHANGED <<store, wanted, lastSeen, lastEpoch, pending, bounds, ghosts>>

Higher(a, b) == IF a > b THEN a ELSE b

\* dispatchEvent, an event with a seq: a recovery under way keeps the watermark.
ReceiveFrame(m) ==
  /\ m.k \in {"frame", "history"}
  /\ IF m.seq = 0 THEN UNCHANGED <<pending, lastSeen, seenIn>>
     ELSE IF pending.ref # 0
       THEN /\ pending' = [pending EXCEPT !.highest = Higher(@, m.seq)]
            /\ UNCHANGED <<lastSeen, seenIn>>
       ELSE /\ lastSeen' = Higher(lastSeen, m.seq)
            /\ seenIn' = IF m.seq > lastSeen THEN m.ep ELSE seenIn
            /\ UNCHANGED pending
  /\ known' = known \cup {m.pub}
  /\ UNCHANGED <<lastEpoch, retries, timer, overtaken, asked, refused>>

\* dispatchEvent, a marker: the offset is gone and the application reads anew.
ReceiveMarker(m) ==
  /\ m.k \in {"truncated", "end-truncated", "rehydrate"}
  /\ lastSeen' = 0
  /\ pending' = [pending EXCEPT !.highest = 0]
  /\ lastEpoch' = IF m.k = "rehydrate" THEN m.ep ELSE lastEpoch
  /\ known' = 1..pubs /\ overtaken' = FALSE
  /\ UNCHANGED <<retries, timer, seenIn, asked, refused>>

\* finishRecovery and the rest of the subscribed frame.
ReceiveAck(m) ==
  /\ m.k = "subscribed"
  /\ IF pending.ref = m.ref
       THEN /\ pending' = NoPending
            /\ lastSeen' = Higher(lastSeen, pending.highest)
            /\ seenIn' = IF pending.highest > lastSeen THEN m.ep ELSE seenIn
       ELSE UNCHANGED <<pending, lastSeen, seenIn>>
  /\ lastEpoch' = m.ep
  /\ asked' = asked \ {m.ref}
  /\ retries' = 0 /\ refused' = FALSE
  /\ UNCHANGED <<timer, known, overtaken>>

RetryNotArmed(m) ==
  /\ m.k \in {"RATE_LIMITED", "FORBIDDEN"}
  /\ pending' = IF pending.ref = m.ref THEN NoPending ELSE pending
  /\ LET again == m.k = "RATE_LIMITED" /\ wanted /\ retries < MaxRetries IN
       /\ retries' = IF again THEN retries + 1 ELSE retries
       /\ timer' = (timer \/ (again /\ retries = 0 /\ pending.ref = 0))
       /\ refused' = ~again
  /\ asked' = asked \ {m.ref}
  /\ UNCHANGED <<lastSeen, lastEpoch, known, seenIn, overtaken>>
\* finishRecovery and retryRateLimitedSubscribe for a subscribe-denied frame.
ReceiveDenied(m) ==
  /\ m.k \in {"RATE_LIMITED", "FORBIDDEN"}
  /\ pending' = IF pending.ref = m.ref THEN NoPending ELSE pending
  /\ LET again == m.k = "RATE_LIMITED" /\ wanted /\ retries < MaxRetries IN
       /\ retries' = IF again THEN retries + 1
                     ELSE IF m.k = "RATE_LIMITED" /\ wanted THEN 0 ELSE retries
       /\ timer' = (timer \/ again)
       /\ refused' = ~again
  /\ asked' = asked \ {m.ref}
  /\ UNCHANGED <<lastSeen, lastEpoch, known, seenIn, overtaken>>

\* A frame raises the offset over a recovery that is under way, but that
\* pendingRecoveries no longer holds.
Forgetful == wanted /\ lastSeen' > lastSeen /\ pending.ref = 0 /\ asked # {}

Receive ==
  /\ link /\ s2c # <<>>
  /\ s2c' = Tail(s2c)
  /\ LET m == Head(s2c) IN
       /\ ReceiveFrame(m) \/ ReceiveMarker(m) \/ ReceiveAck(m) \/ ReceiveDenied(m)
       /\ strayed' = /\ m.k \notin {"truncated", "end-truncated", "rehydrate"}
                     /\ strayed \/ Forgetful
  /\ UNCHANGED <<store, srv, live, attempts, c2s, link, wanted, bounds, base, newest>>

\* flushRateLimitedRetries: the refused subscribe is asked again, with its offset.
RetryFires ==
  /\ timer /\ timer' = FALSE
  /\ IF retries > 0 /\ wanted /\ link
       THEN /\ UNCHANGED srv /\ Resubscribe(c2s) /\ pending' = Recovering
            /\ asked' = IF lastSeen = 0 THEN asked ELSE asked \cup {nextRef}
       ELSE UNCHANGED <<srv, c2s, nextRef, pending, asked>>
  /\ UNCHANGED <<store, live, attempts, s2c, link, wanted, lastSeen, lastEpoch, retries,
                 conns, upsets, known, base, seenIn, overtaken, strayed, newest, refused>>

\* doUnsubscribe: the recovery is forgotten, the stored offset and epoch are not.
Leave ==
  /\ wanted
  /\ Upset
  /\ wanted' = FALSE
  /\ pending' = NoPending /\ retries' = 0
  /\ UNCHANGED srv
  /\ c2s' = IF link THEN Outbox(c2s, Release) ELSE c2s
  /\ UNCHANGED <<store, live, attempts, s2c, link, lastSeen, lastEpoch, timer,
                 nextRef, conns, ghosts>>

\* subscribe and flushPendingSubscribes: a new subscription asks for no history; the
\* application reads the topic's state when it takes it up.
Return ==
  /\ ~wanted
  /\ wanted' = TRUE
  /\ base' = pubs /\ overtaken' = FALSE /\ strayed' = FALSE
  /\ UNCHANGED srv
  /\ IF link
       THEN c2s' = Outbox(c2s, Plain(nextRef)) /\ nextRef' = nextRef + 1
       ELSE UNCHANGED <<c2s, nextRef>>
  /\ UNCHANGED <<store, live, attempts, s2c, link, lastSeen, lastEpoch, pending, retries,
                 timer, conns, upsets, known, seenIn, asked, newest, refused>>

-----------------------------------------------------------------------------
Next ==
  \/ Publish \/ EvictMark \/ Restart
  \/ ServerSubscribe \/ ServerUnsubscribe \/ Overtake
  \/ HookServes \/ HookReturns \/ HookThrows
  \/ Reconnect \/ ConnectionLost \/ Receive \/ RetryFires \/ Leave \/ Return

Spec == Init /\ [][Next]_vars

\* Frames under way arrive, timers fire, the hook settles, and a client without a
\* connection gets one: a closed end is noticed.  Nobody has to publish or leave.
Fairness ==
  /\ WF_vars(ServerSubscribe) /\ WF_vars(ServerUnsubscribe)
  /\ WF_vars(HookServes) /\ WF_vars(HookReturns \/ HookThrows)
  /\ WF_vars(Reconnect) /\ WF_vars(~srv /\ ConnectionLost)
  /\ WF_vars(Receive) /\ WF_vars(RetryFires)

FairSpec == Spec /\ Fairness

-----------------------------------------------------------------------------
(* Properties.                                                             *)

\* The client received the publications up to the given one, or was told that it
\* has to read anew, as far back as its subscription reaches.
KnownUpTo(i) == (base + 1)..i \subseteq known

\* The offset a client would resume from never passes a publication that it
\* neither received nor was told it missed: no overflow, hook that throws, refused
\* frame, lost connection, restart, evicted mark, or topic left and taken again
\* leaves a hole below it.  Not claimed once a landing was overtaken (it discards its
\* buffer) and once the offset strayed: the hook read it in an epoch it is not of, or
\* vouched for more than it read, or the client raised it over a recovery that it
\* forgot.  A marker and a new subscription end either.
NoSilentGap ==
  wanted /\ lastSeen # 0 /\ seenIn = epoch /\ ~overtaken /\ ~strayed => KnownUpTo(origin + lastSeen)

\* Once nothing is under way, a member of the topic is not behind: the cutover
\* from history to live frames dropped nothing between them, whatever the hook
\* reported and however often the topic was left.  The exceptions are the same.
QuietIsComplete ==
  /\ link /\ srv /\ wanted /\ live /\ ~overtaken /\ ~strayed
  /\ attempts = {} /\ c2s = <<>> /\ s2c = <<>>
  => KnownUpTo(pubs)

\* Live frames reach a connection in the order of their publication, once each:
\* held frames precede those that follow the landing, none is sent by both ways.
LiveInOrder == [][conns' = conns /\ newest' # newest => newest' > newest]_vars

\* When losses and publications end, a client that still wants the topic is a
\* member of it and behind in nothing, unless its subscription stands denied: across a
\* restart too, if the hook compares epochs.  The exceptions are those of NoSilentGap.
Converges ==
  <>[](wanted /\ ~refused => live /\ (overtaken \/ strayed \/ KnownUpTo(pubs)))

\* A request never pairs an offset with another epoch than the one the offset was
\* seen in, so that the server can tell that the numbers behind it are gone
\* (client.js on lastSeenEpochs, ws-state.js on the epoch of an ack).
OffsetKeepsItsEpoch ==
  \A i \in 1..Len(c2s) :
    c2s[i].offset # 0 /\ c2s[i].epoch # NoEpoch => c2s[i].epoch = c2s[i].seen

\* While a recovery is under way a frame that overtakes the gap-fill does not move the
\* offset past what is still to come, so that a lost connection asks for it again: the
\* offset waits for the matching ack (client.js on pendingRecoveries, and README.md,
\* "Recovery keeps the requested offset until a matching topic/ref acknowledgement").
OffsetAwaitsItsAck ==
  [][wanted /\ ~overtaken /\ asked # {} /\ asked' = asked /\ lastSeen' > lastSeen
     => (KnownUpTo(origin + lastSeen))']_vars
=============================================================================
