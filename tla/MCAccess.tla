------------------------------ MODULE MCAccess ------------------------------
(* One run of systems that share no state: part says which of them moves.   *)
EXTENDS WebAccess, RelayFrames, EventFeed
VARIABLE part

MCModes == {TRUE, FALSE}
mcVars == <<accessVars, frameVars, eventVars, part>>

Moves(p, next, others) == part = p /\ next /\ UNCHANGED <<others, part>>

MCInit ==
    /\ part \in {"access", "sockets", "requests", "events"}
    /\ AccessInit /\ FramesInit /\ EventsInit

\* bounds: of the tokens, which are interchangeable, one is minted first; a behaviour has
\* a revocation, or a second daemon and tokens that expire
FirstToken == CHOOSE t \in Tokens : TRUE
AccessBound ==
    /\ \A t \in Tokens : pairing[t] # Unminted => pairing[FirstToken] # Unminted
    /\ revokes = 0 \/ (up /\ daemons = 0 /\ tick = 0)

MCNext == \/ Moves("access", AccessNext /\ AccessBound', <<frameVars, eventVars>>)
          \/ Moves("sockets", SocketStep, <<accessVars, eventVars>>)
          \/ Moves("requests", RequestStep, <<accessVars, eventVars>>)
          \/ Moves("events", EventsNext, <<accessVars, frameVars>>)

MCSpec ==
    /\ MCInit /\ [][MCNext]_mcVars
    /\ AccessFairness
    /\ WF_mcVars(Moves("events", FeedStep, <<accessVars, frameVars>>))
-----------------------------------------------------------------------------
\* EventFeed.CatchesUp, of the behaviours in which it moves: a connected phone ends up
\* with every event the bus has published counted, and told each but for the two
\* exceptions stated there.
EventsCatchUp == <>[](part = "events" => lastSeq = seq /\ \A n \in 1..seq : WasTold(n))
=============================================================================
