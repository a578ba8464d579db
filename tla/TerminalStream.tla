---------------------------- MODULE TerminalStream ----------------------------
(***************************************************************************)
(* A terminal's output on its way to a browser.  The reader of the pseudo  *)
(* terminal writes to the hub (internal/pty/hub.go): a replay ring, a      *)
(* position, a coalescing buffer with its timer and one bounded channel    *)
(* per subscriber.  handleWSPTY (internal/web/ws_pty.go) subscribes from   *)
(* the browser's position, sends what it missed and pumps its channel onto *)
(* the socket; the browser (frontend/src/ws.ts) counts the bytes it gets   *)
(* and reconnects with that count, whatever host it then finds.            *)
(*                                                                         *)
(* A byte is the pair of the host generation that produced it and its      *)
(* position there, from 1; what is in a byte is never looked at.           *)
(***************************************************************************)
EXTENDS RingBuffer, FiniteSets, FiniteSetsExt, SequencesExt

CONSTANTS
    Conns,          \* websocket connections of the browser, reused once over
    NoConn,
    BufCap,         \* pty.DefaultSubscriberBuffer, in bytes
    FrameCap,       \* capacity of subscriber.ch, at least minSubscriberFrames
    FlushBytes,     \* coalesceFlushBytes
    MarkerLen,      \* length of a "dropped" marker
    ResizeLen,      \* length of a resize frame
    WireCap,        \* bound: messages under way when the pump may write
    MaxOut,         \* bound: bytes the first host writes
    MaxAfter,       \* bound: bytes a later one writes
    MaxChunk,       \* bound: bytes of one Hub.Write
    MaxResizes,     \* bound: resizes of one host
    MaxGen          \* bound: hosts after the first

\* The bytes that hosts write.
Output == {<<g, i>> : g \in 0 .. MaxGen, i \in 1 .. MaxOut}

\* A marker, a snapshot and a frame are queued in one go behind a loss.
ASSUME StreamAssumption ==
    /\ NoConn \notin Conns
    /\ {BufCap, FlushBytes, MarkerLen, ResizeLen, WireCap} \subseteq Nat \ {0}
    /\ FrameCap \in Nat /\ FrameCap >= 3
    /\ {MaxOut, MaxChunk, MaxResizes, MaxGen} \subseteq Nat
    /\ MaxAfter \in 0 .. MaxOut
    /\ Output \subseteq Byte

VARIABLES
    hub,        \* the hub of the session's current host
    callbacks,  \* coalescing timers that have fired and wait for the lock
    sub,        \* subscriber of a connection
    wire,       \* messages under way to the browser on its connection
    client      \* TerminalWS of the browser

vars == <<hub, callbacks, sub, wire, client>>

\* What is queued and what is sent; only a snapshot and a recovery carry a position.
Frame(kind, data, seq) == [kind |-> kind, data |-> data, seq |-> seq]
Bytes(data) == Frame("bytes", data, 0)
Marker == Frame("marker", <<>>, 0)
Resize == Frame("resize", <<>>, 0)

FrameLen(f) == CASE f.kind = "marker" -> MarkerLen
                 [] f.kind = "resize" -> ResizeLen
                 [] OTHER -> Len(f.data)

FramesLen(q) == FoldLeft(LAMBDA n, f : n + FrameLen(f), 0, q)

NewHub(gen) == [gen |-> gen, ring |-> EmptyRing, seq |-> 0, pending |-> <<>>,
                timer |-> "nil", resizes |-> 0, closed |-> FALSE]

\* A subscriber of the host of generation gen; one of a closed hub has a closed
\* channel.  need is needMarker, swapped is closed (an atomic.Bool), leaving an
\* unsub between its two halves, closes counts close(ch) and lossy records that a
\* frame was ever dropped.
Subscriber(gen, open) ==
    [gen |-> gen, registered |-> open, swapped |-> ~open, leaving |-> FALSE,
     closes |-> IF open THEN 0 ELSE 1, q |-> <<>>, bufBytes |-> 0,
     need |-> FALSE, lossy |-> FALSE]

\* The page only appends to its terminal: above \o run is all it ever showed.  run
\* is what it shows since the last marker, snapshot or inexact reconnection, where
\* the text above it is not continued; that place is recorded here, the page does
\* not know it.  exact records that lastSeq is a position of host gen: no frame was
\* lost and no other host's bytes were counted since the last snapshot.
NewClient == [conn |-> NoConn, lastSeq |-> 0, gen |-> 0, exact |-> TRUE,
              above |-> <<>>, run |-> <<>>]

Page(cl) == cl.above \o cl.run

\* What the page shows of a marker; 0 is no byte's position.
MarkText(cl) == <<<<cl.gen, 0>>>>

Free(c) == ~sub[c].registered /\ sub[c].swapped /\ ~sub[c].leaving /\ client.conn # c
-----------------------------------------------------------------------------
(* subscriber                                                              *)

\* The n oldest queued frames are thrown away (dropOldestLocked).
Dropped(s, n, track) ==
    LET lost == track /\ n > 0 IN
    [s EXCEPT !.q = SubSeq(@, n + 1, Len(@)),
              !.bufBytes = @ - FramesLen(SubSeq(s.q, 1, n)),
              !.need = @ \/ lost,
              !.lossy = @ \/ lost]

\* Nothing queued counts nothing.
Recounted(s) == IF s.q = <<>> THEN [s EXCEPT !.bufBytes = 0] ELSE s

\* How many frames have to go: for room in bytes, then for room in the channel.
Evicted(s, len, enforceCap) ==
    LET Room(n) == \/ n = Len(s.q)
                   \/ /\ len <= BufCap
                      /\ s.bufBytes - FramesLen(SubSeq(s.q, 1, n)) + len <= BufCap
        over == IF enforceCap THEN Min({n \in 0 .. Len(s.q) : Room(n)}) ELSE 0
    IN  IF Len(s.q) - over < FrameCap THEN over ELSE over + 1

Pushed(s, f) == [s EXCEPT !.q = Append(@, f), !.bufBytes = @ + FrameLen(f)]

\* sendLocked
Send(s, f, track, enforceCap) ==
    LET t == Recounted(s)
        n == Evicted(t, FrameLen(f), enforceCap)
    IN  IF FrameLen(f) = 0 THEN s ELSE Pushed(Dropped(t, n, track), f)

\* clearQueuedLocked; the marker that follows tells of the loss.
Cleared(s) == [s EXCEPT !.q = <<>>, !.bufBytes = 0, !.need = FALSE]

\* Mutant: the frame behind the snapshot has to fit the byte budget.
RestartedInBudget(s, f, snapshot) ==
    LET marked == Send(Cleared(s), Marker, FALSE, FALSE)
    IN  Send(Send(marked, Bytes(snapshot), FALSE, FALSE), f, FALSE, TRUE)

\* Behind a loss the queue starts again: marker, snapshot, frame.
Restarted(s, f, snapshot) ==
    LET marked == Send(Cleared(s), Marker, FALSE, FALSE)
    IN  Send(Send(marked, Bytes(snapshot), FALSE, FALSE), f, FALSE, FALSE)

\* enqueueLocked
Enqueue(s, f, snapshot) ==
    IF s.swapped THEN s
    ELSE IF s.need THEN Restarted(s, f, snapshot)
    ELSE Send(s, f, TRUE, TRUE)

\* broadcastLocked
Broadcast(h, subs, f) ==
    [c \in Conns |-> IF subs[c].registered /\ ~h.closed
                     THEN Enqueue(subs[c], f, Snapshot(h.ring)) ELSE subs[c]]
-----------------------------------------------------------------------------
(* Hub                                                                     *)

\* Mutant: a stopped timer is not forgotten.
FlushedKeepsTimer(h) == [h EXCEPT !.pending = <<>>,
                                  !.timer = IF @ = "nil" THEN "nil" ELSE "stopped"]

\* flushLocked: the coalesced bytes are broadcast and the timer is forgotten.
Flushed(h) == [h EXCEPT !.pending = <<>>, !.timer = "nil"]

FlushedSubs(h, subs) ==
    IF h.pending = <<>> THEN subs ELSE Broadcast(h, subs, Bytes(h.pending))

\* Mutant: the ring is written when the bytes are flushed.
WrittenLate(h, n) ==
    LET out == [i \in 1 .. n |-> <<h.gen, h.seq + i>>] IN
    [h EXCEPT !.ring = RingWrite(@, h.pending),
              !.seq = @ + n,
              !.pending = @ \o out,
              !.timer = IF Len(h.pending) + n < FlushBytes /\ @ = "nil"
                        THEN "armed" ELSE @]

\* Hub.Write up to the flush: ring, position, coalescing buffer and timer.
Written(h, n) ==
    LET out == [i \in 1 .. n |-> <<h.gen, h.seq + i>>] IN
    [h EXCEPT !.ring = RingWrite(@, out),
              !.seq = @ + n,
              !.pending = @ \o out,
              !.timer = IF Len(h.pending) + n < FlushBytes /\ @ = "nil"
                        THEN "armed" ELSE @]

\* The reader hands a chunk to the hub, which transcodes it to n bytes; a
\* closed hub swallows it.
Write(n) ==
    LET h == Written(hub, n)
        full == Len(h.pending) >= FlushBytes
    IN  /\ ~hub.closed
        /\ hub.seq + n <= IF hub.gen = 0 THEN MaxOut ELSE MaxAfter     \* bound
        /\ hub' = IF full THEN Flushed(h) ELSE h
        /\ sub' = IF full THEN FlushedSubs(h, sub) ELSE sub
        /\ UNCHANGED <<callbacks, wire, client>>

\* time.AfterFunc starts the callback, which needs the hub's lock.
TimerFires ==
    /\ hub.timer = "armed"
    /\ hub' = [hub EXCEPT !.timer = "fired"]
    /\ callbacks' = callbacks + 1
    /\ UNCHANGED <<sub, wire, client>>

\* Hub.flush, perhaps after the buffer was flushed and filled again.
FlushCallback ==
    /\ callbacks > 0
    /\ callbacks' = callbacks - 1
    /\ hub' = Flushed(hub)
    /\ sub' = FlushedSubs(hub, sub)
    /\ UNCHANGED <<wire, client>>

\* Hub.BroadcastResize: ahead of the bytes that are still being coalesced.
BroadcastResize ==
    /\ ~hub.closed
    /\ hub.resizes < MaxResizes
    /\ hub' = [hub EXCEPT !.resizes = @ + 1]
    /\ sub' = Broadcast(hub, sub, Resize)
    /\ UNCHANGED <<callbacks, wire, client>>

\* Mutant: Close closes every channel it finds.
ClosedSubAlways(s) ==
    IF ~s.registered THEN s
    ELSE [s EXCEPT !.registered = FALSE, !.swapped = TRUE, !.closes = @ + 1]

\* The hub lets a subscriber go; whoever swapped first closes the channel.
ClosedSub(s) ==
    IF ~s.registered THEN s
    ELSE IF s.swapped THEN [s EXCEPT !.registered = FALSE]
    ELSE [s EXCEPT !.registered = FALSE, !.swapped = TRUE, !.closes = @ + 1]

\* Hub.Close: the child has exited (readMaster) or the host is closed.
Close ==
    /\ ~hub.closed
    /\ hub' = [Flushed(hub) EXCEPT !.closed = TRUE]
    /\ sub' = LET flushed == FlushedSubs(hub, sub)
              IN  [c \in Conns |-> ClosedSub(flushed[c])]
    /\ UNCHANGED <<callbacks, wire, client>>

\* The daemon gives the session another host (EnsureWebPTYHost).
ReplaceHost ==
    /\ hub.closed
    /\ hub.gen < MaxGen
    /\ hub' = NewHub(hub.gen + 1)
    /\ callbacks' = 0           \* those of a closed hub do nothing
    /\ UNCHANGED <<sub, wire, client>>
-----------------------------------------------------------------------------
(* handleWSPTY                                                             *)

\* replaySinceLocked: what follows a position, or all there is.
ReplaySince(h, seq) ==
    LET snapshot == Snapshot(h.ring)
        earliest == h.seq - Len(snapshot)
    IN  IF seq < earliest \/ seq > h.seq
        THEN Frame("snapshot", snapshot, h.seq)
        ELSE Bytes(SubSeq(snapshot, seq - earliest + 1, Len(snapshot)))


\* Mutant: the coalesced bytes stay where they are.
AttachHubUnflushed == hub

\* SubscribeFrom flushes before it reads the replay.
AttachHub == Flushed(hub)

\* The browser's attach frame arrives: SubscribeFrom flushes, reads the replay and
\* registers under one lock, then the replay and the recovery frame are written.
Attach(c) ==
    LET h == AttachHub
        replay == ReplaySince(h, client.lastSeq)
        compared == client.gen = hub.gen \/ client.lastSeq = 0
        exact == client.exact /\ (replay.kind = "snapshot" \/ compared)
    IN  /\ client.conn = NoConn /\ Free(c)
        /\ hub' = h
        /\ sub' = [FlushedSubs(hub, sub) EXCEPT ![c] =
                      Subscriber(hub.gen, ~hub.closed)]
        /\ wire' = (IF replay.kind = "bytes" /\ replay.data = <<>> THEN <<>> ELSE <<replay>>)
                   \o <<Frame("recovery", <<>>, h.seq)>>
        /\ client' = [client EXCEPT !.conn = c, !.exact = exact,
                                    !.above = IF exact THEN @ ELSE Page(client),
                                    !.run = IF exact THEN @ ELSE <<>>]
        /\ UNCHANGED callbacks

\* The pump goroutine forwards a frame.
Pump(c) ==
    /\ client.conn = c /\ sub[c].q # <<>>
    /\ Len(wire) < WireCap
    /\ wire' = Append(wire, Head(sub[c].q))
    /\ sub' = [sub EXCEPT ![c].q = Tail(@)]
    /\ UNCHANGED <<hub, callbacks, client>>

\* The pump finds the channel closed and drained, and closes the socket.
PumpEnds(c) ==
    /\ client.conn = c /\ sub[c].q = <<>> /\ sub[c].closes > 0
    /\ \A i \in 1 .. Len(wire) : wire[i].kind # "closed"
    /\ Len(wire) < WireCap
    /\ wire' = Append(wire, Frame("closed", <<>>, 0))
    /\ UNCHANGED <<hub, callbacks, sub, client>>

\* unsub, first half: closed.Swap(true) says who closes the channel.
Leave(c) ==
    /\ client.conn # c /\ ~sub[c].swapped
    /\ sub' = [sub EXCEPT ![c].swapped = TRUE, ![c].leaving = TRUE]
    /\ UNCHANGED <<hub, callbacks, wire, client>>

\* unsub, second half, under the hub's lock.
Unsubscribe(c) ==
    /\ sub[c].leaving
    /\ sub' = [sub EXCEPT ![c].registered = FALSE, ![c].leaving = FALSE,
                          ![c].closes = @ + 1]
    /\ UNCHANGED <<hub, callbacks, wire, client>>
-----------------------------------------------------------------------------
(* TerminalWS                                                            *)

\* The connection is gone: whatever was under way is lost.
Disconnected(cl) == [cl EXCEPT !.conn = NoConn, !.exact = @ /\ ~sub[cl.conn].lossy]

Disconnect ==
    /\ client.conn # NoConn
    /\ client' = Disconnected(client)
    /\ wire' = <<>>
    /\ UNCHANGED <<hub, callbacks, sub>>

\* Mutant: a recovery frame does not move the position.
ReceivedKeeps(cl, m) ==
    CASE m.kind = "snapshot" -> [cl EXCEPT !.gen = sub[cl.conn].gen, !.exact = TRUE,
                                           !.above = Page(cl), !.run = m.data]
      [] m.kind = "bytes"    -> [cl EXCEPT !.lastSeq = @ + Len(m.data),
                                           !.gen = sub[cl.conn].gen, !.run = @ \o m.data]
      [] m.kind = "marker"   -> [cl EXCEPT !.lastSeq = @ + MarkerLen,
                                           !.above = Page(cl) \o MarkText(cl), !.run = <<>>]
      [] m.kind = "resize"   -> cl
      [] m.kind = "recovery" -> [cl EXCEPT !.gen = sub[cl.conn].gen]
      [] m.kind = "closed"   -> Disconnected(cl)

\* handleText and handleBinary: whatever comes is written behind the text that is
\* there, and a marker is written and counted like any other bytes.
Received(cl, m) ==
    CASE m.kind = "snapshot" -> [cl EXCEPT !.lastSeq = m.seq, !.gen = sub[cl.conn].gen,
                                           !.exact = TRUE,
                                           !.above = Page(cl), !.run = m.data]
      [] m.kind = "bytes"    -> [cl EXCEPT !.lastSeq = @ + Len(m.data),
                                           !.gen = sub[cl.conn].gen, !.run = @ \o m.data]
      [] m.kind = "marker"   -> [cl EXCEPT !.lastSeq = @ + MarkerLen,
                                           !.above = Page(cl) \o MarkText(cl), !.run = <<>>]
      [] m.kind = "resize"   -> cl
      [] m.kind = "recovery" -> [cl EXCEPT !.lastSeq = m.seq, !.gen = sub[cl.conn].gen]
      [] m.kind = "closed"   -> Disconnected(cl)

Receive ==
    /\ wire # <<>>
    /\ client' = Received(client, Head(wire))
    /\ wire' = IF Head(wire).kind = "closed" THEN <<>> ELSE Tail(wire)
    /\ UNCHANGED <<hub, callbacks, sub>>
-----------------------------------------------------------------------------
Init ==
    /\ hub = NewHub(0)
    /\ callbacks = 0
    /\ sub = [c \in Conns |-> Subscriber(0, FALSE)]
    /\ wire = <<>>
    /\ client = NewClient

Next ==
    \/ \E n \in 1 .. MaxChunk : Write(n)
    \/ TimerFires
    \/ FlushCallback
    \/ BroadcastResize
    \/ Close
    \/ ReplaceHost
    \/ \E c \in Conns : Attach(c) \/ Pump(c) \/ PumpEnds(c) \/ Leave(c) \/ Unsubscribe(c)
    \/ Disconnect
    \/ Receive

Spec == Init /\ [][Next]_vars

\* Timers fire, goroutines run and a connected browser reads its socket.
Fairness ==
    /\ WF_vars(TimerFires)
    /\ WF_vars(FlushCallback)
    /\ WF_vars(\E c \in Conns : Pump(c) \/ PumpEnds(c))
    /\ WF_vars(Receive)

FairSpec == Spec /\ Fairness
-----------------------------------------------------------------------------
\* Type invariant of the stream; a channel never holds more than it was made for.
StreamTypeOK ==
    /\ hub.gen \in 0 .. MaxGen /\ hub.seq \in 0 .. MaxOut /\ hub.resizes \in 0 .. MaxResizes
    /\ hub.ring \in Ring /\ hub.closed \in BOOLEAN /\ hub.timer \in {"nil", "armed", "fired"}
    /\ Len(hub.pending) < FlushBytes
    /\ callbacks \in Nat
    /\ \A c \in Conns :
          /\ {sub[c].registered, sub[c].swapped, sub[c].leaving} \subseteq BOOLEAN
          /\ {sub[c].need, sub[c].lossy} \subseteq BOOLEAN /\ sub[c].closes \in Nat
          /\ Len(sub[c].q) <= FrameCap /\ sub[c].bufBytes >= FramesLen(sub[c].q)
    /\ client.conn \in Conns \cup {NoConn} /\ client.lastSeq \in Nat
    /\ client.exact \in BOOLEAN /\ \A i \in DOMAIN client.run : client.run[i] \in Output

\* What a newcomer can be given ends at the hub's position and holds the newest
\* bytes, and the bytes being coalesced are the newest of those (Hub.Write keeps
\* ring, seq and coalesceBuf in step, whoever flushes and however large the chunk).
RingHoldsNewest ==
    LET kept == Min({hub.seq, RingSize})
        held == Len(hub.pending)
    IN  /\ Snapshot(hub.ring) = [i \in 1 .. kept |-> <<hub.gen, hub.seq - kept + i>>]
        /\ hub.pending = [i \in 1 .. held |-> <<hub.gen, hub.seq - held + i>>]

\* A broadcast never meets a closed channel and no channel is closed twice, though
\* Close, the context's goroutine and the handler's own unsub race for it: each
\* would panic the daemon.
ChannelSafe ==
    \A c \in Conns :
        /\ sub[c].closes <= 1
        /\ sub[c].registered /\ ~sub[c].swapped => sub[c].closes = 0 /\ ~hub.closed

Consecutive(s) == \A i \in 1 .. Len(s) - 1 : s[i + 1] = <<s[i][1], s[i][2] + 1>>

\* As long as nothing was dropped and the host is the same, the browser shows every
\* byte behind the last marker or snapshot once and in order and knows how far it
\* got, over any number of connections and whatever was being coalesced, queued or
\* under way when one broke.
StreamContiguous ==
    client.exact /\ (client.conn # NoConn => ~sub[client.conn].lossy) =>
        /\ Consecutive(client.run)
        /\ client.run # <<>> => Last(client.run) = <<client.gen, client.lastSeq>>

Gap(s) == \E i \in 1 .. Len(s) - 1 : s[i + 1][1] = s[i][1] /\ s[i + 1][2] > s[i][2] + 1

\* A browser that is missing output in the middle of what its connection gave it is
\* about to be told, or will be told ahead of the next output (host.go: the hub
\* "injects drop/resize control frames").  A loss that the connection did not live
\* to announce is told to nobody: the next one has a subscriber that owes nothing,
\* and its output goes behind the old text (see Attach).
LossIsSignalled ==
    client.conn # NoConn /\ Gap(client.run) =>
        \/ sub[client.conn].need
        \/ Marker \in ToSet(sub[client.conn].q) \cup ToSet(wire)

Watching == client.conn # NoConn /\ client.exact /\ ~hub.closed /\ ~sub[client.conn].lossy

\* Whatever the child prints reaches a browser that stays connected, also what is
\* less than a flush and is followed by silence.
OutputReachesViewer ==
    \A n \in 1 .. MaxOut :
        (Watching /\ hub.seq = n) ~> (~Watching \/ client.lastSeq >= n)

\* ws_pty_test.go, TestWSPTYAttachAfterHostRestartReturnsSnapshot: a browser that
\* reconnects with a position of an earlier host is given a snapshot.
RestartedHostSendsSnapshot ==
    [][\A c \in Conns :
          Attach(c) /\ client.lastSeq > 0 /\ client.gen # hub.gen
              => Head(wire').kind = "snapshot"]_vars
===============================================================================
