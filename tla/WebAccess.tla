------------------------------ MODULE WebAccess ------------------------------
(***************************************************************************)
(* How a browser becomes the owner and stays it: pairing tokens, the       *)
(* volatile relay keys, the web_sessions table, and the websockets that    *)
(* watchWebSession closes when their session is revoked.  With             *)
(* requireE2E (the public relays) a session is of no use without the key   *)
(* that the QR carried in its fragment; a key is named by its token here.  *)
(* The relay between the two may deliver a hello that went through it      *)
(* again, on a socket it opens itself.                                     *)
(***************************************************************************)
EXTENDS Naturals, FiniteSets

CONSTANTS Tokens,     \* pairing tokens that may be minted
          SessionIDs, \* ids newSessionID may return
          Phones,
          Keepers,    \* the phones whose page still has the key after the redirect to "/"
          Modes,      \* bound: the values of requireE2E to start with
          PairTTL,    \* PairTokenTTL, in ticks
          MaxNow,     \* bound: ticks
          MaxDaemons, \* bound: daemons that may follow the first one
          MaxRevokes  \* bound: revocations

ASSUME AccessAssumption ==
    /\ IsFiniteSet(Tokens) /\ IsFiniteSet(SessionIDs)
    /\ "none" \notin Tokens \cup SessionIDs
    /\ Keepers \subseteq Phones /\ "relay" \notin Phones /\ Modes \subseteq BOOLEAN
    /\ PairTTL \in Nat \ {0} /\ MaxNow \in Nat /\ MaxDaemons \in Nat /\ MaxRevokes \in Nat

VARIABLES requireE2E,
          tick,
          pairing,   \* the pairing_tokens table: [state, expires]
          pairs,     \* RelayKeys.pairs: when the key of a token expires, 0 without one
          keys,      \* RelayKeys.sessions: session id -> the token whose key it has, or "none"
          owner,     \* the web_sessions table: [state, verifier, from]; from is the token
                     \* the session was created for (the table does not have it)
          phone,     \* the browser: its page, that page's token and key, and the cookie
          call,      \* the request of a phone that the daemon is serving
          socket,    \* the websocket of a phone or of the relay, with the key of its codec
          sealed,    \* the sealed hellos that went through the relay: [id, key]
          up, daemons, revokes

accessVars == <<requireE2E, tick, pairing, pairs, keys, owner, phone, call, socket,
                sealed, up, daemons, revokes>>
tables == <<pairing, pairs, keys, owner>>
counters == <<requireE2E, tick, up, daemons, revokes>>

Diallers == Phones \cup {"relay"}

Unminted == [state |-> "absent", expires |-> 0]
NoOwner  == [state |-> "absent", verifier |-> "none", from |-> "none"]
NoCall   == [pc |-> "idle", token |-> "none", id |-> "none"]
NoSocket == [pc |-> "closed", id |-> "none", codec |-> "none"]
NewPhone == [page |-> "blank", token |-> "none", key |-> "none", cookie |-> "none"]

----------------------------------------------------------------------------
(* Minting and the end of a token.                                         *)

Minted == [state |-> "minted", expires |-> tick + PairTTL]

\* NewToken in `onibi up`, and with a public relay RegisterPair
Mint(t) ==
    /\ up /\ pairing[t] = Unminted
    /\ pairing' = [pairing EXCEPT ![t] = Minted]
    /\ pairs' = IF requireE2E THEN [pairs EXCEPT ![t] = tick + PairTTL] ELSE pairs
    /\ UNCHANGED <<keys, owner, phone, call, socket, sealed, counters>>

\* `onibi phone pair` writes the table from another process: the daemon has no key for it
MintByCommand(t) ==
    /\ pairing[t] = Unminted
    /\ pairing' = [pairing EXCEPT ![t] = Minted]
    /\ UNCHANGED <<pairs, keys, owner, phone, call, socket, sealed, counters>>

\* ConsumePairingToken's transaction
Claimable(t) == pairing[t].state = "minted" /\ tick < pairing[t].expires

\* KeyForPair and BindSession: a key in RelayKeys.pairs that has not expired
HasPairKey(t) == pairs[t] # 0 /\ tick <= pairs[t]

----------------------------------------------------------------------------
(* The requests of a pairing.                                              *)

Goto(p, pc) == call' = [call EXCEPT ![p].pc = pc]
Serving(p, pc) == up /\ call[p].pc = pc

\* GET /pair/t: with a relay it is only answered with the confirm page, which has the
\* key when the link did
Scan(p, t) ==
    /\ up /\ call[p] = NoCall /\ pairing[t].state # "absent"
    /\ IF requireE2E
       THEN /\ \E k \in {t, "none"} :
                 phone' = [phone EXCEPT ![p] = [@ EXCEPT !.page = "confirm", !.token = t, !.key = k]]
            /\ UNCHANGED call
       ELSE /\ call' = [call EXCEPT ![p] = [pc |-> "consume", token |-> t, id |-> "none"]]
            /\ UNCHANGED phone
    /\ socket' = [socket EXCEPT ![p] = NoSocket]   \* the page of that socket is gone
    /\ UNCHANGED <<tables, sealed, counters>>

\* POST /pair/confirm: refused unless the daemon has the token's key, the one the page
\* sealed the request and the verifier with
Confirm(p) ==
    /\ up /\ call[p] = NoCall /\ phone[p].page = "confirm" /\ phone[p].key # "none"
    /\ LET t == phone[p].token IN
       /\ phone' = [phone EXCEPT ![p].page = "sent"]
       /\ call' = IF HasPairKey(t)
                  THEN [call EXCEPT ![p] = [pc |-> "consume", token |-> t, id |-> "none"]] ELSE call
       /\ pairs' = IF HasPairKey(t) THEN pairs ELSE [pairs EXCEPT ![t] = 0]
    /\ UNCHANGED <<pairing, keys, owner, socket, sealed, counters>>

\* mutant: looks at the token before the transaction and not in it
ConsumeUnchecked(p) ==
    /\ Serving(p, "consume")
    /\ tick < pairing[call[p].token].expires
    /\ pairing' = [pairing EXCEPT ![call[p].token].state = "used"]
    /\ Goto(p, "create")
    /\ UNCHANGED <<pairs, keys, owner, phone, socket, sealed, counters>>

Consume(p) ==
    /\ Serving(p, "consume")
    /\ IF Claimable(call[p].token)
       THEN pairing' = [pairing EXCEPT ![call[p].token].state = "used"] /\ Goto(p, "create")
       ELSE call' = [call EXCEPT ![p] = NoCall] /\ UNCHANGED pairing
    /\ UNCHANGED <<pairs, keys, owner, phone, socket, sealed, counters>>

\* newSessionID: bound: ids are used up in one order, whichever it is
FreshID == LET unused == {id \in SessionIDs : owner[id] = NoOwner}
           IN  IF unused = {} THEN {} ELSE {CHOOSE id \in unused : TRUE}

NewOwner(t) == [state |-> "active", verifier |-> "none", from |-> t]

\* CreateOwnerSession: the row, and the cookie among the headers of whatever is answered;
\* the token stays used when the row cannot be written
CreateOwner(p) ==
    /\ Serving(p, "create")
    /\ \/ \E id \in FreshID :
            /\ owner' = [owner EXCEPT ![id] = NewOwner(call[p].token)]
            /\ call' = [call EXCEPT ![p].pc = "bind", ![p].id = id]
       \/ call' = [call EXCEPT ![p] = NoCall] /\ UNCHANGED owner
    /\ UNCHANGED <<pairing, pairs, keys, phone, socket, sealed, counters>>

\* BindSession: the key moves from the token to the session, then the row gets the
\* verifier, if it is still active and the database takes it
Bind(p) ==
    /\ Serving(p, "bind")
    /\ LET t == call[p].token  id == call[p].id IN
       /\ pairs' = [pairs EXCEPT ![t] = 0]
       /\ IF HasPairKey(t)
          THEN /\ keys' = [keys EXCEPT ![id] = t]
               /\ \/ owner[id].state = "active" /\ owner' = [owner EXCEPT ![id].verifier = t]
                  \/ UNCHANGED owner
               /\ Goto(p, "paired")
          ELSE /\ UNCHANGED <<keys, owner>>
               /\ Goto(p, IF requireE2E THEN "refused" ELSE "paired")
    /\ UNCHANGED <<pairing, phone, socket, sealed, counters>>

\* The answer: an answered page goes on to "/", where main.ts looks for the key in the
\* fragment; the confirm page has taken the fragment out of the address by then
Respond(p) ==
    /\ Serving(p, "paired") \/ Serving(p, "refused")
    /\ phone' = [phone EXCEPT ![p] =
                    [@ EXCEPT !.cookie = call[p].id,
                              !.page = IF call[p].pc = "paired" THEN "app" ELSE "failed",
                              !.key = IF p \in Keepers /\ call[p].pc = "paired"
                                    THEN phone[p].key ELSE "none"]]
    /\ call' = [call EXCEPT ![p] = NoCall]
    /\ UNCHANGED <<tables, socket, sealed, counters>>

\* the connection breaks before the answer; the handler's context ends with it
AnswerLost(p) ==
    /\ call[p] # NoCall
    /\ call' = [call EXCEPT ![p] = NoCall]
    /\ UNCHANGED <<tables, phone, socket, sealed, counters>>

----------------------------------------------------------------------------
(* The websockets of an owner.                                             *)

\* mutant: a session without a key gets a socket without a codec
SessionKeyOpen(id) == TRUE

\* e2eSessionKey: with a relay, no key is no socket
SessionKey(id) == ~requireE2E \/ keys[id] # "none"

Opened(id) == [pc |-> "hello", id |-> id, codec |-> keys[id]]

\* requireWSAuthInfo (TouchWebSession) and e2eSessionKey, then the upgrade
Upgrades(d, id) ==
    /\ up /\ socket[d] = NoSocket
    /\ id # "none" /\ owner[id].state = "active" /\ SessionKey(id)
    /\ socket' = [socket EXCEPT ![d] = Opened(id)]
    /\ UNCHANGED <<tables, phone, call, sealed, counters>>

Dial(p) == phone[p].page = "app" /\ Upgrades(p, phone[p].cookie)

\* the relay opens a socket with the cookie of one whose hello it has carried
Redial == \E h \in sealed : Upgrades("relay", h.id)

\* decrypt and verifyRelayAttach: what the frame is sealed with has to open under the session's key, and
\* to hold the verifier of an active row.  Nothing says that it has not come before.
Verified(d, key) ==
    LET c == socket[d].codec IN
    /\ key = c /\ owner[socket[d].id].state = "active" /\ owner[socket[d].id].verifier = c

LetIn(d, proven) ==
    /\ up /\ socket[d].pc = "hello"
    /\ socket' = IF proven THEN [socket EXCEPT ![d].pc = "attached"]
                 ELSE [socket EXCEPT ![d] = NoSocket]
    /\ UNCHANGED <<tables, phone, call, counters>>

\* the first frame of a page: sealed when it has a key, which means nothing without a codec
Proven(p) ==
    LET c == socket[p].codec IN
    IF c = "none" THEN phone[p].key = "none" ELSE Verified(p, phone[p].key)

Hello(p) ==
    /\ LetIn(p, Proven(p))
    /\ sealed' = IF phone[p].key = "none" THEN sealed
                 ELSE sealed \cup {[id |-> socket[p].id, key |-> phone[p].key]}

\* a recorded hello comes again, on the relay's own socket; the session's id is among what
\* the frame is sealed over
Rehello ==
    /\ \E h \in sealed :
          LetIn("relay", h.id = socket["relay"].id /\ Verified("relay", h.key))
    /\ UNCHANGED sealed

\* mutant: closes only for a row that is gone
WatchMissing(d) ==
    /\ up /\ socket[d] # NoSocket /\ owner[socket[d].id].state = "absent"
    /\ socket' = [socket EXCEPT ![d] = NoSocket]
    /\ UNCHANGED <<tables, phone, call, sealed, counters>>

\* watchWebSession: a check that cannot read the table is repeated at the next tick
Watch(d) ==
    /\ up /\ socket[d] # NoSocket /\ owner[socket[d].id].state # "active"
    /\ socket' = [socket EXCEPT ![d] = NoSocket]
    /\ UNCHANGED <<tables, phone, call, sealed, counters>>

\* the peer goes away, its hello does not come in time, or it does not answer a ping
Drop(d) ==
    /\ socket[d] # NoSocket
    /\ socket' = [socket EXCEPT ![d] = NoSocket]
    /\ UNCHANGED <<tables, phone, call, sealed, counters>>

----------------------------------------------------------------------------
(* The rest of the machine.                                                *)

\* mutant: forgets the row
RevokeDeletes(S) ==
    /\ revokes < MaxRevokes /\ revokes' = revokes + 1
    /\ owner' = [id \in SessionIDs |-> IF id \in S THEN [owner[id] EXCEPT !.state = "deleted"] ELSE owner[id]]
    /\ UNCHANGED <<requireE2E, tick, pairing, pairs, keys, phone, call, socket, sealed, up, daemons>>

\* RevokeWebSession of one session, or a rekey's transaction over all it has read
Revoke(S) ==
    /\ revokes < MaxRevokes /\ revokes' = revokes + 1
    /\ \E id \in S : owner[id].state = "active"
    /\ owner' = [id \in SessionIDs |-> IF id \in S /\ owner[id].state = "active"
                                       THEN [owner[id] EXCEPT !.state = "revoked"] ELSE owner[id]]
    /\ UNCHANGED <<requireE2E, tick, pairing, pairs, keys, phone, call, socket, sealed, up, daemons>>

\* `onibi phone remove`
Unpair(id) == Revoke({id})

Crash ==
    /\ up /\ up' = FALSE /\ daemons < MaxDaemons
    /\ pairs' = [t \in Tokens |-> 0]
    /\ keys' = [id \in SessionIDs |-> "none"]
    /\ call' = [p \in Phones |-> NoCall]
    /\ socket' = [d \in Diallers |-> NoSocket]
    /\ UNCHANGED <<requireE2E, tick, pairing, owner, phone, sealed, daemons, revokes>>

\* a new daemon has a new RelayKeys
Restart ==
    /\ ~up
    /\ up' = TRUE /\ daemons' = daemons + 1
    /\ UNCHANGED <<requireE2E, tick, tables, phone, call, socket, sealed, revokes>>

Tick ==
    /\ tick < MaxNow /\ tick' = tick + 1
    /\ UNCHANGED <<requireE2E, tables, phone, call, socket, sealed, up, daemons, revokes>>

AccessInit ==
    /\ requireE2E \in Modes
    /\ tick = 0 /\ up = TRUE /\ daemons = 0 /\ revokes = 0
    /\ pairing = [t \in Tokens |-> Unminted]
    /\ pairs = [t \in Tokens |-> 0]
    /\ keys = [id \in SessionIDs |-> "none"]
    /\ owner = [id \in SessionIDs |-> NoOwner]
    /\ phone = [p \in Phones |-> NewPhone]
    /\ call = [p \in Phones |-> NoCall]
    /\ socket = [d \in Diallers |-> NoSocket] /\ sealed = {}

Serve(p) == Consume(p) \/ CreateOwner(p) \/ Bind(p) \/ Respond(p)

AccessNext ==
    \/ \E t \in Tokens : Mint(t) \/ MintByCommand(t) \/ \E p \in Phones : Scan(p, t)
    \/ \E p \in Phones : Confirm(p) \/ Serve(p) \/ AnswerLost(p) \/ Dial(p) \/ Hello(p)
    \/ Redial \/ Rehello
    \/ \E d \in Diallers : Watch(d) \/ Drop(d)
    \/ \E id \in SessionIDs : Unpair(id)
    \/ Revoke(SessionIDs)
    \/ Crash \/ Restart \/ Tick

AccessSpec == AccessInit /\ [][AccessNext]_accessVars

\* the ticker has a goroutine of its own
AccessFairness == \A d \in Diallers : WF_accessVars(Watch(d))

AccessFairSpec == AccessSpec /\ AccessFairness

\* a page keeps dialling and says hello first thing; a handler goes on to its end
AttachingSpec ==
    /\ AccessFairSpec
    /\ \A p \in Phones : /\ WF_accessVars(Serve(p))
                         /\ SF_accessVars(Dial(p)) /\ SF_accessVars(Hello(p))

----------------------------------------------------------------------------
(* Properties.                                                             *)

\* The values the state takes.
AccessTypeOK ==
    /\ requireE2E \in BOOLEAN /\ up \in BOOLEAN
    /\ tick \in 0..MaxNow /\ daemons \in 0..MaxDaemons /\ revokes \in 0..MaxRevokes
    /\ pairing \in [Tokens -> [state : {"absent", "minted", "used"}, expires : 0..(MaxNow + PairTTL)]]
    /\ pairs \in [Tokens -> 0..(MaxNow + PairTTL)]
    /\ keys \in [SessionIDs -> Tokens \cup {"none"}]
    /\ owner \in [SessionIDs -> [state : {"absent", "active", "revoked"},
                                 verifier : Tokens \cup {"none"}, from : Tokens \cup {"none"}]]
    /\ phone \in [Phones -> [page : {"blank", "confirm", "sent", "app", "failed"},
                             token : Tokens \cup {"none"}, key : Tokens \cup {"none"},
                             cookie : SessionIDs \cup {"none"}]]
    /\ call \in [Phones -> [pc : {"idle", "consume", "create", "bind", "paired", "refused"},
                            token : Tokens \cup {"none"}, id : SessionIDs \cup {"none"}]]
    /\ socket \in [Diallers -> [pc : {"closed", "hello", "attached"}, id : SessionIDs \cup {"none"},
                              codec : Tokens \cup {"none"}]]
    /\ sealed \subseteq [id : SessionIDs \cup {"none"}, key : Tokens \cup {"none"}]

\* A pairing token makes one owner at most, however many phones scan it and however
\* their requests interleave; a used or unknown token makes none.
TokenSpentOnce ==
    /\ \A i, j \in SessionIDs : owner[i].from = owner[j].from /\ i # j => owner[i].from = "none"
    /\ \A i \in SessionIDs : owner[i].from # "none" => pairing[owner[i].from].state = "used"

\* Behind a public relay, a socket is let in only on a hello that a page with the key of
\* its session's own pairing has sealed for this session; a page's socket only on the
\* page's own key.  (The relay may have recorded that hello and send it again: the server
\* keeps no memory of the hellos it took, so being let in does not prove that the other
\* end holds the key, which it needs to read or write anything but what was recorded.)
RelaySocketProven ==
    \A d \in Diallers : requireE2E /\ socket[d].pc = "attached" =>
        LET c == socket[d].codec  row == owner[socket[d].id] IN
        /\ c # "none" /\ row.verifier = c /\ row.from = c
        /\ [id |-> socket[d].id, key |-> c] \in sealed
        /\ d \in Phones => phone[d].key = c

Revoked(d) == socket[d] # NoSocket /\ owner[socket[d].id].state = "revoked"

\* A socket whose session has been revoked is closed, one that was let in too.
RevokedCutOff ==
    \A d \in Diallers : Revoked(d) ~> socket[d] = NoSocket

\* the phone is on the page, with a session the daemon has everything for
OwnsSession(p) ==
    /\ up /\ phone[p].page = "app"
    /\ owner[phone[p].cookie].state = "active"
    /\ requireE2E => /\ keys[phone[p].cookie] # "none"
                     /\ owner[phone[p].cookie].verifier = keys[phone[p].cookie]

\* A phone whose pairing was answered gets its socket, unless its session is revoked or
\* the daemon, with the relay keys in its memory, goes first.  (SPEC-e2e.md: "Client
\* sends `session_verifier` in the first encrypted WebSocket hello.")
PairedAttaches ==
    \A p \in Phones : OwnsSession(p) ~> (socket[p].pc = "attached" \/ ~OwnsSession(p))

=============================================================================
