---------------------------- MODULE RelayFrames ----------------------------
(***************************************************************************)
(* What the end-to-end envelope does about frames that come twice or out   *)
(* of order: the sequence numbers of a websocket, which the browser draws  *)
(* before an await and counts up after it, and the replay cache of sealed  *)
(* HTTP requests.  The relay may deliver a frame that went through it      *)
(* again, on a socket of the browser's or on one it opens itself.  A frame *)
(* is authentic here; what it is sealed with is the business of WebAccess. *)
(***************************************************************************)
EXTENDS Naturals, Sequences, FiniteSets

CONSTANTS MaxTyped,   \* bound: frames a browser hands to a socket, its hello first
          MaxSockets, \* bound: sockets that are opened
          MaxReplays, \* bound: frames the relay delivers again
          Requests,   \* sealed HTTP requests, each with a stream id of its own
          MaxCopies,  \* bound: times one of them arrives
          ReplayTTL,  \* e2eHTTPReplayTTL, in ticks
          ReplayLimit,\* e2eHTTPReplayLimit
          MaxClock    \* bound: ticks

ASSUME FramesAssumption ==
    /\ MaxTyped \in Nat /\ MaxSockets \in Nat /\ MaxReplays \in Nat /\ IsFiniteSet(Requests) /\ MaxCopies \in Nat
    /\ ReplayTTL \in Nat \ {0} /\ ReplayLimit \in Nat \ {0} /\ MaxClock \in Nat

VARIABLES page,     \* the browser's half: [open, typed, sendSeq, sealing]
          wire,     \* frames under way to the server, in order
          codec,    \* the server's half: [open, stream, inSeq, taken]; stream is 0 until a
                    \* frame is taken
          sockets,  \* sockets opened so far, which numbers the streams
          recorded, \* the frames that went through the relay
          replays,
          clock,
          cache,    \* e2eHTTPReplay: request -> when its entry expires, 0 without one
          arrived,  \* how often each request came
          accepted  \* requests let through, with the time

frameVars == <<page, wire, codec, sockets, recorded, replays, clock, cache, arrived, accepted>>
wsVars == <<page, wire, codec, sockets, recorded, replays>>
httpVars == <<clock, cache, arrived, accepted>>

----------------------------------------------------------------------------
(* A websocket.                                                            *)

Closed == [open |-> FALSE, typed |-> 0, sendSeq |-> 0, sealing |-> {}]
NewCodec == [open |-> TRUE, stream |-> 0, inSeq |-> 0, taken |-> <<>>]

\* handleOpen: startStream, and the hello is the first frame handed to sealBytes
Open ==
    /\ ~page.open /\ sockets < MaxSockets
    /\ sockets' = sockets + 1
    /\ page' = [open |-> TRUE, typed |-> 1, sendSeq |-> 0,
                sealing |-> {[stream |-> sockets + 1, data |-> 1, seq |-> 0]}]
    /\ wire' = <<>>
    /\ codec' = NewCodec
    /\ UNCHANGED <<recorded, replays, httpVars>>

\* sendText and sendBinary do not wait for the frame before: the number is read now
Type ==
    /\ page.open /\ page.typed < MaxTyped
    /\ page' = [page EXCEPT !.typed = @ + 1,
                            !.sealing = @ \cup {[stream |-> sockets, data |-> page.typed + 1,
                                                 seq |-> page.sendSeq]}]
    /\ UNCHANGED <<wire, codec, sockets, recorded, replays, httpVars>>

\* the await of sealFrame is over, in any order; the number is counted up, the frame sent
Sealed(f) ==
    /\ page.open /\ f \in page.sealing
    /\ page' = [page EXCEPT !.sealing = @ \ {f}, !.sendSeq = @ + 1]
    /\ wire' = Append(wire, f)
    /\ recorded' = recorded \cup {f}
    /\ UNCHANGED <<codec, sockets, replays, httpVars>>

\* the relay ends the browser's socket and opens one of its own
Reopen ==
    /\ recorded # {} /\ sockets < MaxSockets
    /\ sockets' = sockets + 1
    /\ page' = Closed /\ wire' = <<>> /\ codec' = NewCodec
    /\ UNCHANGED <<recorded, replays, httpVars>>

\* what went through the relay comes again, whatever socket it was on (bound: when no other
\* frame is under way, which leaves every order in which the server can be given them)
Redeliver(f) ==
    /\ codec.open /\ wire = <<>> /\ replays < MaxReplays
    /\ replays' = replays + 1
    /\ wire' = Append(wire, f)
    /\ UNCHANGED <<page, codec, sockets, recorded, httpVars>>

\* readPTYAttach takes the hello first, handlePTYClientFrame anything but a hello
Expected(f) == IF codec.taken = <<>> THEN f.data = 1 ELSE f.data # 1

\* mutant: any frame of the stream is taken
TakesAny(f) == codec.stream \in {0, f.stream} /\ Expected(f)

\* decrypt: the number OpenRelayFrame expects, in the stream of the first frame that is
\* opened.  A new codec takes whatever stream comes, and nothing remembers the old ones.
Takes(f) == f.seq = codec.inSeq /\ codec.stream \in {0, f.stream} /\ Expected(f)

Receive ==
    /\ wire # <<>>
    /\ LET f == Head(wire) IN
       IF Takes(f)
       THEN /\ codec' = [codec EXCEPT !.stream = f.stream, !.inSeq = @ + 1,
                                      !.taken = Append(@, f.data)]
            /\ wire' = Tail(wire)
            /\ UNCHANGED page
       ELSE /\ page' = Closed /\ wire' = <<>>      \* StatusPolicyViolation
            /\ codec' = [codec EXCEPT !.open = FALSE]
    /\ UNCHANGED <<sockets, recorded, replays, httpVars>>

Disconnect ==
    /\ codec.open
    /\ page' = Closed /\ wire' = <<>>
    /\ codec' = [codec EXCEPT !.open = FALSE]
    /\ UNCHANGED <<sockets, recorded, replays, httpVars>>

----------------------------------------------------------------------------
(* A sealed request.                                                       *)

Live(c) == {r \in Requests : c[r] > clock}
Purged == [r \in Requests |-> IF cache[r] > clock THEN cache[r] ELSE 0]

Let(r, c) ==
    /\ cache' = [c EXCEPT ![r] = clock + ReplayTTL]
    /\ accepted' = Append(accepted, [req |-> r, at |-> clock])

Arrive(r) ==
    /\ arrived[r] < MaxCopies
    /\ arrived' = [arrived EXCEPT ![r] = @ + 1]
    /\ UNCHANGED <<wsVars, clock>>

\* mutant: makes room before it looks
AcceptEvictsFirst(r) ==
    /\ Arrive(r)
    /\ IF Cardinality(Live(cache)) >= ReplayLimit
       THEN \E old \in Live(cache) :
              IF r \in Live(cache) \ {old} THEN cache' = [Purged EXCEPT ![old] = 0] /\ UNCHANGED accepted
              ELSE Let(r, [Purged EXCEPT ![old] = 0])
       ELSE IF r \in Live(cache) THEN cache' = Purged /\ UNCHANGED accepted ELSE Let(r, Purged)

\* acceptE2EHTTPReplay: expired entries go, a live one refuses the request, and a full
\* cache loses whichever entry the map's order gives first
Accept(r) ==
    /\ Arrive(r)
    /\ IF r \in Live(cache)
       THEN cache' = Purged /\ UNCHANGED accepted
       ELSE IF Cardinality(Live(cache)) >= ReplayLimit
       THEN \E old \in Live(cache) : Let(r, [Purged EXCEPT ![old] = 0])
       ELSE Let(r, Purged)

Clock ==
    /\ clock < MaxClock /\ clock' = clock + 1
    /\ UNCHANGED <<wsVars, cache, arrived, accepted>>

FramesInit ==
    /\ page = Closed /\ wire = <<>> /\ codec = [NewCodec EXCEPT !.open = FALSE]
    /\ sockets = 0 /\ recorded = {} /\ replays = 0
    /\ clock = 0 /\ cache = [r \in Requests |-> 0] /\ arrived = [r \in Requests |-> 0]
    /\ accepted = <<>>

SocketStep ==
    \/ Open \/ Type \/ (\E f \in page.sealing : Sealed(f)) \/ Receive \/ Disconnect
    \/ Reopen \/ \E f \in recorded : Redeliver(f)

RequestStep == (\E r \in Requests : Accept(r)) \/ Clock

FramesNext == SocketStep \/ RequestStep

FramesSpec == FramesInit /\ [][FramesNext]_frameVars

----------------------------------------------------------------------------
(* Properties.                                                             *)

\* What a socket has taken is a hello and then input of that hello's stream in the order it
\* was typed, none of it twice, although frames are sealed side by side and overtake each
\* other and the relay puts recorded ones among them.  (A socket of its own may be given
\* the recorded frames of an earlier one from the hello on: it takes them once more, in the
\* same order.  SPEC-e2e.md lists that among what is protected against.)
TakenInOrder ==
    \A i \in 1..Len(codec.taken) :
        /\ IF i = 1 THEN codec.taken[i] = 1 ELSE codec.taken[i - 1] < codec.taken[i]
        /\ \E f \in recorded :
              f.stream = codec.stream /\ f.data = codec.taken[i] /\ f.seq = i - 1

\* A sealed request that arrives again within the TTL is let through again only after
\* as many others as the cache holds have been.
AppliedOnce ==
    \A i, j \in 1..Len(accepted) :
        (i < j /\ accepted[i].req = accepted[j].req) =>
            \/ accepted[j].at >= accepted[i].at + ReplayTTL
            \/ Cardinality({accepted[k].req : k \in 1..j}) > ReplayLimit

\* The two together: a socket takes each frame of one stream once and in its place, and a
\* request is applied once within the reach of the replay cache, whatever sealed bytes
\* come again or late.
TakenOnce == TakenInOrder /\ AppliedOnce

=============================================================================
