------------------------------ MODULE AccessProofs ------------------------------
(***************************************************************************)
(* What the daemon lets in and what it shows: the tokens, phones and       *)
(* sessions of WebAccess, the frames and requests of RelayFrames and the   *)
(* app events of EventFeed, for every number of each of them.              *)
(***************************************************************************)
EXTENDS WebAccess, RelayFrames, EventFeed, FiniteSetTheorems, SequenceTheorems, TLAPS
-----------------------------------------------------------------------------
(***************************************************************************)
(* For any number of tokens, phones and sessions, and any order of their   *)
(* requests, crashes and revocations: a token makes one owner at most, and *)
(* behind a relay a socket is let in only on a hello that was sealed with  *)
(* the key of its session's own pairing.                                   *)
(*                                                                         *)
(* The first rests on who may still create an owner: a request that has    *)
(* claimed its token is alone with it.  The second rests on what a page    *)
(* can do at a time (it pairs, or it has a socket, never both) and on the  *)
(* verifier of a row, which is that of the token the row was created for.  *)
(***************************************************************************)

\* A request past the claim of its token is alone with it.
ClaimsOnce ==
    /\ \A p \in Phones : call[p] # NoCall => call[p].token \in Tokens
    /\ \A p \in Phones : call[p].pc = "create" =>
          /\ pairing[call[p].token].state = "used"
          /\ \A i \in SessionIDs : owner[i].from # call[p].token
    /\ \A p, q \in Phones : call[p].pc = "create" /\ call[q].pc = "create" /\ p # q =>
          call[p].token # call[q].token

\* A row has the verifier of the token it was created for, or none yet.
VerifierOfToken ==
    /\ \A i \in SessionIDs : owner[i].verifier \in {"none", owner[i].from}
    /\ \A p \in Phones : call[p].pc = "bind" =>
          call[p].id \in SessionIDs /\ owner[call[p].id].from = call[p].token

\* Behind a relay a page pairs, or has a socket, never both; and every socket has a key.
PagePairsOrTalks ==
    /\ \A p \in Phones : requireE2E =>
          /\ call[p] # NoCall => phone[p].page = "sent"
          /\ socket[p] # NoSocket => phone[p].page = "app"
    /\ \A d \in Diallers : requireE2E /\ socket[d] # NoSocket =>
          socket[d].id \in SessionIDs /\ socket[d].codec # "none"

\* A daemon that is down is one that may be followed by another.
RestartLeft == ~up => daemons < MaxDaemons

\* A page that asks for a confirmation names a token.
PageNamesToken == \A p \in Phones : phone[p].page = "confirm" => phone[p].token \in Tokens

SpentInv == AccessTypeOK /\ PageNamesToken /\ ClaimsOnce /\ TokenSpentOnce
RelayInv == VerifierOfToken /\ PagePairsOrTalks /\ RelaySocketProven
AccessInv == RestartLeft /\ SpentInv /\ RelayInv
-----------------------------------------------------------------------------
(* The sets of AccessTypeOK, by name. *)
Expiry     == 0..(MaxNow + PairTTL)
PairingRow == [state : {"absent", "minted", "used"}, expires : Expiry]
TokenOrNone == Tokens \cup {"none"}
IDOrNone   == SessionIDs \cup {"none"}
OwnerRow   == [state : {"absent", "active", "revoked"}, verifier : TokenOrNone, from : TokenOrNone]
Page       == [page : {"blank", "confirm", "sent", "app", "failed"}, token : TokenOrNone,
               key : TokenOrNone, cookie : IDOrNone]
Call       == [pc : {"idle", "consume", "create", "bind", "paired", "refused"},
               token : TokenOrNone, id : IDOrNone]
Socket     == [pc : {"closed", "hello", "attached"}, id : IDOrNone, codec : TokenOrNone]
Hellos     == [id : IDOrNone, key : TokenOrNone]

CountersOK ==
    /\ requireE2E \in BOOLEAN /\ up \in BOOLEAN
    /\ tick \in 0..MaxNow /\ daemons \in 0..MaxDaemons /\ revokes \in 0..MaxRevokes

TablesOK ==
    /\ pairing \in [Tokens -> PairingRow]
    /\ pairs \in [Tokens -> Expiry]
    /\ keys \in [SessionIDs -> TokenOrNone]
    /\ owner \in [SessionIDs -> OwnerRow]

BrowsersOK ==
    /\ phone \in [Phones -> Page]
    /\ call \in [Phones -> Call]
    /\ socket \in [Diallers -> Socket]
    /\ sealed \subseteq Hellos

LEMMA TypeParts == AccessTypeOK <=> CountersOK /\ TablesOK /\ BrowsersOK
  BY DEF AccessTypeOK, CountersOK, TablesOK, BrowsersOK, Expiry, PairingRow, TokenOrNone,
         IDOrNone, OwnerRow, Page, Call, Socket, Hellos

\* What an assignment to a field makes of a row, a page and a request.
LEMMA PairingUsed ==
    ASSUME NEW r \in PairingRow
    PROVE  /\ [r EXCEPT !.state = "used"] \in PairingRow
           /\ [r EXCEPT !.state = "used"].state = "used"
  BY DEF PairingRow

LEMMA OwnerVerified ==
    ASSUME NEW r \in OwnerRow, NEW t \in TokenOrNone
    PROVE  /\ [r EXCEPT !.verifier = t] \in OwnerRow
           /\ [r EXCEPT !.verifier = t].verifier = t
           /\ [r EXCEPT !.verifier = t].from = r.from
  BY DEF OwnerRow

LEMMA OwnerRevoked ==
    ASSUME NEW r \in OwnerRow
    PROVE  /\ [r EXCEPT !.state = "revoked"] \in OwnerRow
           /\ [r EXCEPT !.state = "revoked"].verifier = r.verifier
           /\ [r EXCEPT !.state = "revoked"].from = r.from
  BY DEF OwnerRow

LEMMA CallMoved ==
    ASSUME NEW c \in Call, NEW pc \in {"idle", "consume", "create", "bind", "paired", "refused"}
    PROVE  /\ [c EXCEPT !.pc = pc] \in Call
           /\ [c EXCEPT !.pc = pc].pc = pc
           /\ [c EXCEPT !.pc = pc].token = c.token
           /\ [c EXCEPT !.pc = pc].id = c.id
  BY DEF Call

LEMMA CallNamed ==
    ASSUME NEW c \in Call, NEW id \in SessionIDs
    PROVE  LET d == [[c EXCEPT !.pc = "bind"] EXCEPT !.id = id]
           IN  d \in Call /\ d.pc = "bind" /\ d.token = c.token /\ d.id = id
  BY DEF Call, IDOrNone

LEMMA Fields ==
    /\ NoCall \in Call /\ NoCall.pc = "idle" /\ NoCall.token = "none"
    /\ NoSocket \in Socket /\ NoSocket.pc = "closed"
    /\ NoOwner \in OwnerRow /\ NoOwner.verifier = "none" /\ NoOwner.from = "none"
    /\ \A r \in OwnerRow : r.verifier \in TokenOrNone /\ r.from \in TokenOrNone
    /\ \A c \in Call : c.token \in TokenOrNone /\ c.id \in IDOrNone
    /\ \A t \in Tokens : t \in TokenOrNone /\ t # "none"
    /\ \A i \in SessionIDs : i \in IDOrNone /\ i # "none"
  BY AccessAssumption DEF NoCall, Call, NoSocket, Socket, NoOwner, OwnerRow, TokenOrNone, IDOrNone

\* A fresh id is an id whose row is absent.
LEMMA FreshIDAbsent ==
    ASSUME NEW id \in FreshID PROVE id \in SessionIDs /\ owner[id] = NoOwner
  BY DEF FreshID

LEMMA InitInv == AccessInit => AccessInv
<1> SUFFICES ASSUME AccessInit PROVE AccessInv
  OBVIOUS
<1>1. CountersOK
  BY AccessAssumption DEF AccessInit, CountersOK
<1>2. TablesOK /\ BrowsersOK
  <2>1. Unminted \in PairingRow /\ 0 \in Expiry /\ NewPhone \in Page /\ "none" \in TokenOrNone
    BY AccessAssumption DEF Unminted, PairingRow, Expiry, NewPhone, Page, TokenOrNone, IDOrNone
  <2> QED
    BY <2>1, Fields DEF AccessInit, TablesOK, BrowsersOK
<1>3. PageNamesToken /\ ClaimsOnce /\ TokenSpentOnce
  BY DEF AccessInit, NoCall, NoOwner, NewPhone, PageNamesToken, ClaimsOnce, TokenSpentOnce
<1>4. VerifierOfToken /\ PagePairsOrTalks /\ RelaySocketProven
  <2>1. VerifierOfToken
    BY DEF AccessInit, NoCall, NoOwner, VerifierOfToken
  <2>2. \A d \in Diallers : socket[d] = NoSocket /\ socket[d].pc # "attached"
    BY Fields DEF AccessInit
  <2>3. \A p \in Phones : p \in Diallers /\ call[p] = NoCall
    BY DEF AccessInit, Diallers
  <2> QED
    BY <2>1, <2>2, <2>3 DEF PagePairsOrTalks, RelaySocketProven
<1> QED
  BY <1>1, <1>2, <1>3, <1>4, TypeParts DEF AccessInit, RestartLeft, AccessInv, SpentInv, RelayInv
-----------------------------------------------------------------------------
\* Every step keeps the counters in their ranges.
LEMMA NextCountersOK ==
    CountersOK /\ RestartLeft /\ [AccessNext]_accessVars => CountersOK' /\ RestartLeft'
<1> SUFFICES ASSUME CountersOK, RestartLeft, [AccessNext]_accessVars
             PROVE  CountersOK' /\ RestartLeft'
  OBVIOUS
<1> USE AccessAssumption DEF CountersOK, RestartLeft, counters
<1>1. CASE UNCHANGED counters
  BY <1>1
<1>2. ASSUME NEW S \in SUBSET SessionIDs, Revoke(S) PROVE CountersOK' /\ RestartLeft'
  BY <1>2 DEF Revoke
<1>3. CASE Crash \/ Restart \/ Tick
  <2>1. tick' \in 0..MaxNow /\ daemons' \in 0..MaxDaemons /\ revokes' \in 0..MaxRevokes
    <3>1. CASE Crash
      BY <3>1 DEF Crash
    <3>2. CASE Restart
      BY <3>2 DEF Restart
    <3>3. CASE Tick
      BY <3>3 DEF Tick
    <3> QED
      BY <1>3, <3>1, <3>2, <3>3
  <2>2. requireE2E' \in BOOLEAN /\ up' \in BOOLEAN
    BY <1>3 DEF Crash, Restart, Tick
  <2>3. RestartLeft'
    BY <1>3 DEF Crash, Restart, Tick
  <2> QED
    BY <2>1, <2>2, <2>3
<1>4. CASE UNCHANGED accessVars
  BY <1>4 DEF accessVars
<1> QED
  BY <1>1, <1>2, <1>3, <1>4
     DEF AccessNext, Serve, Unpair, Mint, MintByCommand, Scan, Confirm, Consume, CreateOwner, Bind,
         Respond, AnswerLost, Dial, Redial, Upgrades, Hello, Rehello, LetIn, Watch, Drop

\* Every step keeps the rows of the tables rows.
LEMMA NextTablesOK ==
    AccessTypeOK /\ [AccessNext]_accessVars => TablesOK'
<1> SUFFICES ASSUME CountersOK, TablesOK, BrowsersOK, [AccessNext]_accessVars PROVE TablesOK'
  BY TypeParts
<1> USE DEF TablesOK, tables
<1>1. ASSUME NEW t \in Tokens, Mint(t) \/ MintByCommand(t) PROVE TablesOK'
  <2>1. tick + PairTTL \in Expiry
    BY AccessAssumption DEF CountersOK, Expiry
  <2>2. Minted \in PairingRow
    BY <2>1 DEF Minted, PairingRow
  <2> QED
    BY <1>1, <2>1, <2>2 DEF Mint, MintByCommand
<1>2. ASSUME NEW p \in Phones, NEW t \in Tokens, Scan(p, t) PROVE TablesOK'
  BY <1>2 DEF Scan
<1>3. 0 \in Expiry /\ "none" \in TokenOrNone
  BY AccessAssumption DEF Expiry, TokenOrNone
<1>4. ASSUME NEW p \in Phones, Confirm(p) PROVE TablesOK'
  BY <1>3, <1>4 DEF Confirm
<1>5. ASSUME NEW p \in Phones, Consume(p) PROVE TablesOK'
  BY <1>5, PairingUsed DEF Consume
<1>6. ASSUME NEW p \in Phones, CreateOwner(p) PROVE TablesOK'
  <2>1. NewOwner(call[p].token) \in OwnerRow
    BY Fields DEF BrowsersOK, NewOwner, OwnerRow, TokenOrNone
  <2> QED
    BY <1>6, <2>1, FreshIDAbsent DEF CreateOwner
<1>7. ASSUME NEW p \in Phones, Bind(p) PROVE TablesOK'
  <2>1. call[p].token \in TokenOrNone
    BY Fields DEF BrowsersOK
  <2>2. owner[call[p].id] \in OwnerRow =>
           [owner[call[p].id] EXCEPT !.verifier = call[p].token] \in OwnerRow
    BY <2>1, OwnerVerified
  <2>3. owner' \in [SessionIDs -> OwnerRow]
    <3>1. \/ owner' = owner
          \/ owner' = [owner EXCEPT ![call[p].id] =
                          [owner[call[p].id] EXCEPT !.verifier = call[p].token]]
      BY <1>7 DEF Bind
    <3> QED
      BY <2>2, <3>1
  <2>4. keys' \in [SessionIDs -> TokenOrNone] /\ pairs' \in [Tokens -> Expiry]
    BY <1>3, <1>7, <2>1 DEF Bind
  <2> QED
    BY <1>7, <2>3, <2>4 DEF Bind
<1>8. ASSUME NEW p \in Phones, Respond(p) \/ AnswerLost(p) PROVE TablesOK'
  BY <1>8 DEF Respond, AnswerLost
<1>9. CASE UNCHANGED tables
  BY <1>9
<1>10. ASSUME NEW S \in SUBSET SessionIDs, Revoke(S) PROVE TablesOK'
  BY <1>10, OwnerRevoked DEF Revoke
<1>11. CASE Crash \/ Restart \/ Tick
  BY <1>3, <1>11 DEF Crash, Restart, Tick
<1>12. CASE UNCHANGED accessVars
  BY <1>12 DEF accessVars
<1> QED
  BY <1>1, <1>2, <1>4, <1>5, <1>6, <1>7, <1>8, <1>9, <1>10, <1>11, <1>12
     DEF AccessNext, Serve, Unpair, Dial, Redial, Upgrades, Hello, Rehello, LetIn, Watch, Drop

\* What an upgrade and a first frame make of the sockets.
LEMMA UpgradeMakes ==
    ASSUME TablesOK, BrowsersOK, NEW d \in Diallers, NEW id \in IDOrNone, Upgrades(d, id)
    PROVE  /\ id \in SessionIDs /\ Opened(id) \in Socket
           /\ Opened(id).pc = "hello" /\ Opened(id).id = id /\ Opened(id).codec = keys[id]
           /\ requireE2E => keys[id] # "none"
           /\ socket' = [socket EXCEPT ![d] = Opened(id)] /\ socket'[d] = Opened(id)
           /\ \A e \in Diallers \ {d} : socket'[e] = socket[e]
           /\ UNCHANGED <<requireE2E, owner, phone, call, sealed>>
<1>1. id \in SessionIDs
  BY DEF Upgrades, IDOrNone
<1>2. keys[id] \in TokenOrNone
  BY <1>1 DEF TablesOK
<1>3. Opened(id) \in Socket /\ Opened(id).pc = "hello" /\ Opened(id).id = id
      /\ Opened(id).codec = keys[id]
  BY <1>1, <1>2 DEF Opened, Socket, IDOrNone
<1> QED
  BY <1>1, <1>3 DEF Upgrades, SessionKey, BrowsersOK, counters, tables

LEMMA LetInMakes ==
    ASSUME BrowsersOK, NEW d \in Diallers, NEW proven, LetIn(d, proven)
    PROVE  /\ socket[d].pc = "hello" /\ socket[d] # NoSocket
           /\ socket' \in [Diallers -> Socket]
           /\ \A e \in Diallers \ {d} : socket'[e] = socket[e]
           /\ ~proven => socket'[d] = NoSocket
           /\ proven => socket'[d].id = socket[d].id /\ socket'[d].codec = socket[d].codec
           /\ UNCHANGED <<requireE2E, owner, phone, call>>
<1>1. socket[d] \in Socket /\ NoSocket \in Socket
  BY Fields DEF BrowsersOK
<1>2. [socket[d] EXCEPT !.pc = "attached"] \in Socket
  BY <1>1 DEF Socket
<1>3. /\ [socket[d] EXCEPT !.pc = "attached"].id = socket[d].id
      /\ [socket[d] EXCEPT !.pc = "attached"].codec = socket[d].codec
  BY <1>1 DEF Socket
<1>4. UNCHANGED <<requireE2E, owner, phone, call>> /\ socket[d].pc = "hello"
  BY DEF LetIn, counters, tables
<1>5. CASE proven
  <2>1. socket' = [socket EXCEPT ![d] = [socket[d] EXCEPT !.pc = "attached"]]
    BY <1>5 DEF LetIn
  <2> QED
    BY <1>1, <1>2, <1>3, <1>4, <1>5, <2>1, Fields DEF BrowsersOK
<1>6. CASE ~proven
  <2>1. socket' = [socket EXCEPT ![d] = NoSocket]
    BY <1>6 DEF LetIn
  <2> QED
    BY <1>1, <1>4, <1>6, <2>1, Fields DEF BrowsersOK
<1> QED
  BY <1>5, <1>6

\* The dialler of the relay is one that no phone is.
LEMMA RelayDials ==
    /\ "relay" \in Diallers /\ "relay" \notin Phones
    /\ \A d \in Diallers : d \in Phones \/ d = "relay"
    /\ \A p \in Phones : p \in Diallers
  BY AccessAssumption DEF Diallers

\* Every step keeps the pages, requests and sockets what they are.
LEMMA NextBrowsersOK ==
    AccessTypeOK /\ [AccessNext]_accessVars => BrowsersOK'
<1> SUFFICES ASSUME TablesOK, BrowsersOK, [AccessNext]_accessVars PROVE BrowsersOK'
  BY TypeParts
<1> USE DEF BrowsersOK
<1>1. ASSUME NEW t \in Tokens, Mint(t) \/ MintByCommand(t) PROVE BrowsersOK'
  BY <1>1 DEF Mint, MintByCommand
<1>2. ASSUME NEW p \in Phones, NEW t \in Tokens, Scan(p, t) PROVE BrowsersOK'
  <2>1. \A k \in {t, "none"} :
           [phone[p] EXCEPT !.page = "confirm", !.token = t, !.key = k] \in Page
    BY DEF Page, TokenOrNone
  <2>2. [pc |-> "consume", token |-> t, id |-> "none"] \in Call
    BY DEF Call, TokenOrNone, IDOrNone
  <2> QED
    BY <1>2, <2>1, <2>2, Fields DEF Scan
<1>3. ASSUME NEW p \in Phones, Confirm(p) PROVE BrowsersOK'
  <2>1. [phone[p] EXCEPT !.page = "sent"] \in Page /\ phone[p].token \in TokenOrNone
    BY DEF Page
  <2>2. [pc |-> "consume", token |-> phone[p].token, id |-> "none"] \in Call
    BY <2>1 DEF Call, IDOrNone
  <2> QED
    BY <1>3, <2>1, <2>2 DEF Confirm
<1>4. ASSUME NEW p \in Phones, Consume(p) PROVE BrowsersOK'
  <2>1. [call[p] EXCEPT !.pc = "create"] \in Call
    BY CallMoved
  <2> QED
    BY <1>4, <2>1, Fields DEF Consume, Goto
<1>5. ASSUME NEW p \in Phones, CreateOwner(p) PROVE BrowsersOK'
  <2>1. \A id \in FreshID : [[call[p] EXCEPT !.pc = "bind"] EXCEPT !.id = id] \in Call
    BY FreshIDAbsent, CallNamed
  <2> QED
    BY <1>5, <2>1, Fields DEF CreateOwner
<1>6. ASSUME NEW p \in Phones, Bind(p) PROVE BrowsersOK'
  <2>1. \A pc \in {"paired", "refused"} : [call[p] EXCEPT !.pc = pc] \in Call
    BY CallMoved
  <2> QED
    BY <1>6, <2>1 DEF Bind, Goto
<1>7. ASSUME NEW p \in Phones, Respond(p) \/ AnswerLost(p) PROVE BrowsersOK'
  <2>1. call[p].id \in IDOrNone
    BY Fields
  <2> DEFINE loaded == [phone[p] EXCEPT
           !.cookie = call[p].id,
           !.page = IF call[p].pc = "paired" THEN "app" ELSE "failed",
           !.key = IF p \in Keepers /\ call[p].pc = "paired" THEN phone[p].key ELSE "none"]
  <2>2. loaded \in Page
    BY <2>1 DEF Page, TokenOrNone
  <2>3. CASE Respond(p)
    <3>1. phone' = [phone EXCEPT ![p] = loaded] /\ UNCHANGED <<socket, sealed>>
      BY <2>3 DEF Respond
    <3>2. call' = [call EXCEPT ![p] = NoCall]
      BY <2>3 DEF Respond
    <3> HIDE DEF loaded
    <3> QED
      BY <2>2, <3>1, <3>2, Fields
  <2>4. CASE AnswerLost(p)
    BY <2>4, Fields DEF AnswerLost
  <2> QED
    BY <1>7, <2>3, <2>4
<1>8. ASSUME NEW d \in Diallers, NEW id \in IDOrNone, Upgrades(d, id) PROVE BrowsersOK'
  BY <1>8, UpgradeMakes
<1>9. ASSUME NEW p \in Phones, Hello(p) PROVE BrowsersOK'
  <2>1. socket[p].id \in IDOrNone /\ phone[p].key \in TokenOrNone
    BY RelayDials DEF Socket, Page
  <2>2. [id |-> socket[p].id, key |-> phone[p].key] \in Hellos
    BY <2>1 DEF Hellos
  <2>3. sealed' \subseteq Hellos
    BY <1>9, <2>2 DEF Hello
  <2>4. LetIn(p, Proven(p))
    BY <1>9 DEF Hello
  <2> QED
    BY <2>3, <2>4, LetInMakes, RelayDials
<1>13. CASE Rehello
  <2>1. PICK h \in sealed : LetIn("relay", h.id = socket["relay"].id /\ Verified("relay", h.key))
    BY <1>13 DEF Rehello
  <2>2. UNCHANGED sealed
    BY <1>13 DEF Rehello
  <2> QED
    BY <2>1, <2>2, LetInMakes, RelayDials
<1>14. ASSUME NEW d \in Diallers, Watch(d) \/ Drop(d) PROVE BrowsersOK'
  BY <1>14, Fields DEF Watch, Drop
<1>15. \A p \in Phones : phone[p].cookie \in IDOrNone
  BY DEF Page
<1>16. \A h \in sealed : h.id \in IDOrNone
  BY DEF Hellos
<1>10. ASSUME NEW S \in SUBSET SessionIDs, Revoke(S) PROVE BrowsersOK'
  BY <1>10 DEF Revoke
<1>11. CASE Crash \/ Restart \/ Tick
  BY <1>11, Fields DEF Crash, Restart, Tick
<1>12. CASE UNCHANGED accessVars
  BY <1>12 DEF accessVars
<1>18. ASSUME NEW p \in Phones, Dial(p) PROVE BrowsersOK'
  BY <1>8, <1>15, <1>18, RelayDials DEF Dial
<1>19. CASE Redial
  BY <1>8, <1>16, <1>19, RelayDials DEF Redial
<1> QED
  BY <1>1, <1>2, <1>3, <1>4, <1>5, <1>6, <1>7, <1>9, <1>10, <1>11, <1>12, <1>13, <1>14, <1>18, <1>19
     DEF AccessNext, Serve, Unpair

\* Every step keeps the state in its sets.
LEMMA NextTypeOK ==
    AccessTypeOK /\ RestartLeft /\ [AccessNext]_accessVars => AccessTypeOK' /\ RestartLeft'
<1> SUFFICES ASSUME AccessTypeOK, RestartLeft, [AccessNext]_accessVars
             PROVE  AccessTypeOK' /\ RestartLeft'
  OBVIOUS
<1>1. CountersOK' /\ RestartLeft'
  BY TypeParts, NextCountersOK
<1>2. TablesOK' /\ BrowsersOK'
  BY NextTablesOK, NextBrowsersOK
<1>3. AccessTypeOK' <=> CountersOK' /\ TablesOK' /\ BrowsersOK'
  BY TypeParts, PTL
<1> QED
  BY <1>1, <1>2, <1>3
-----------------------------------------------------------------------------
\* Every step keeps a token on a page that asks for a confirmation.
LEMMA NextPageNamesToken ==
    AccessTypeOK /\ PageNamesToken /\ [AccessNext]_accessVars => PageNamesToken'
<1> SUFFICES ASSUME BrowsersOK, PageNamesToken, [AccessNext]_accessVars PROVE PageNamesToken'
  BY TypeParts
<1>1. CASE UNCHANGED phone
  BY <1>1 DEF PageNamesToken
<1>2. ASSUME NEW p \in Phones, NEW t \in Tokens, Scan(p, t) PROVE PageNamesToken'
  <2>1. \A k : [phone[p] EXCEPT !.page = "confirm", !.token = t, !.key = k].token = t
    BY DEF BrowsersOK, Page
  <2>2. \/ phone' = phone
        \/ \E k \in {t, "none"} :
              phone' = [phone EXCEPT ![p] = [phone[p] EXCEPT !.page = "confirm", !.token = t, !.key = k]]
    BY <1>2 DEF Scan
  <2>3. \A q \in Phones : phone'[q] = phone[q] \/ phone'[q].token = t
    BY <2>1, <2>2 DEF BrowsersOK
  <2> QED
    BY <2>3 DEF PageNamesToken
<1>3. ASSUME NEW p \in Phones, Confirm(p) PROVE PageNamesToken'
  <2>1. [phone[p] EXCEPT !.page = "sent"].page = "sent"
    BY DEF BrowsersOK, Page
  <2> QED
    BY <1>3, <2>1 DEF Confirm, PageNamesToken, BrowsersOK
<1>4. ASSUME NEW p \in Phones, Respond(p) PROVE PageNamesToken'
  <2> DEFINE loaded == [phone[p] EXCEPT
           !.cookie = call[p].id,
           !.page = IF call[p].pc = "paired" THEN "app" ELSE "failed",
           !.key = IF p \in Keepers /\ call[p].pc = "paired" THEN phone[p].key ELSE "none"]
  <2>1. loaded.page # "confirm"
    BY DEF BrowsersOK, Page
  <2>2. phone' = [phone EXCEPT ![p] = loaded]
    BY <1>4 DEF Respond
  <2> HIDE DEF loaded
  <2> QED
    BY <2>1, <2>2 DEF BrowsersOK, PageNamesToken
<1> QED
  BY <1>1, <1>2, <1>3, <1>4
     DEF AccessNext, Mint, MintByCommand, Serve, Consume, CreateOwner, Bind, AnswerLost, Dial, Redial, Upgrades,
         Hello, Rehello, LetIn, Watch, Drop, Unpair, Revoke, Crash, Restart, Tick, accessVars
-----------------------------------------------------------------------------
\* Where used tokens stay used, no owner is new and nobody claims, all stays right.
LEMMA NobodyClaims ==
    ASSUME TablesOK, ClaimsOnce, TokenSpentOnce,
           \A i \in SessionIDs : owner'[i].from = owner[i].from,
           \A t \in Tokens : pairing[t].state = "used" => pairing'[t].state = "used",
           \A p \in Phones :
              \/ call'[p] = NoCall
              \/ /\ call'[p].token \in Tokens
                 /\ call'[p].pc = "create" =>
                       call[p].pc = "create" /\ call'[p].token = call[p].token,
           \A p \in Phones : call[p].pc = "create" => call[p] # NoCall
    PROVE  ClaimsOnce' /\ TokenSpentOnce'
<1>1. \A i \in SessionIDs : owner[i].from \in Tokens \cup {"none"}
  BY Fields DEF TablesOK, TokenOrNone
<1>2. TokenSpentOnce'
  BY <1>1 DEF TokenSpentOnce
<1>3. \A p \in Phones : call'[p].pc = "create" =>
         call[p].pc = "create" /\ call'[p].token = call[p].token /\ call[p].token \in Tokens
  BY Fields DEF ClaimsOnce
<1>4. ClaimsOnce'
  BY <1>3 DEF ClaimsOnce
<1> QED
  BY <1>2, <1>4

\* Every step keeps the claims apart and a token's owner alone.
LEMMA NextSpent ==
    SpentInv /\ [AccessNext]_accessVars => ClaimsOnce' /\ TokenSpentOnce'
<1> SUFFICES ASSUME TablesOK, BrowsersOK, PageNamesToken, ClaimsOnce, TokenSpentOnce,
                    [AccessNext]_accessVars
             PROVE  ClaimsOnce' /\ TokenSpentOnce'
  BY TypeParts DEF SpentInv
<1>0. /\ \A p \in Phones : call[p].pc = "create" => call[p] # NoCall
      /\ \A p \in Phones : call[p] \in Call /\ phone[p] \in Page
      /\ \A p \in Phones : call[p] # NoCall => call[p].token \in Tokens
  BY Fields DEF BrowsersOK, ClaimsOnce
<1>1. ASSUME NEW t \in Tokens, Mint(t) \/ MintByCommand(t)
      PROVE  ClaimsOnce' /\ TokenSpentOnce'
  <2>1. pairing[t].state # "used"
    BY <1>1 DEF Mint, MintByCommand, Unminted
  <2>2. /\ pairing' = [pairing EXCEPT ![t] = Minted]
        /\ owner' = owner /\ call' = call
    BY <1>1 DEF Mint, MintByCommand
  <2>3. \A u \in Tokens : pairing[u].state = "used" => pairing'[u].state = "used"
    BY <2>1, <2>2 DEF TablesOK
  <2> QED
    BY <1>0, <2>2, <2>3, NobodyClaims
<1>2. ASSUME NEW p \in Phones, NEW t \in Tokens, Scan(p, t)
      PROVE  ClaimsOnce' /\ TokenSpentOnce'
  <2>1. /\ UNCHANGED <<pairing, owner>>
        /\ \/ call' = call
           \/ call' = [call EXCEPT ![p] = [pc |-> "consume", token |-> t, id |-> "none"]]
    BY <1>2 DEF Scan, tables
  <2> QED
    BY <1>0, <2>1, NobodyClaims DEF BrowsersOK
<1>3. ASSUME NEW p \in Phones, Confirm(p) PROVE ClaimsOnce' /\ TokenSpentOnce'
  <2>1. /\ UNCHANGED <<pairing, owner>>
        /\ \/ call' = call
           \/ call' = [call EXCEPT ![p] = [pc |-> "consume", token |-> phone[p].token, id |-> "none"]]
    BY <1>3 DEF Confirm
  <2>2. phone[p].token \in Tokens
    BY <1>3 DEF Confirm, PageNamesToken
  <2> QED
    BY <1>0, <2>1, <2>2, NobodyClaims DEF BrowsersOK
<1>4. ASSUME NEW p \in Phones, Consume(p) PROVE ClaimsOnce' /\ TokenSpentOnce'
  <2> DEFINE t == call[p].token
  <2>1. CASE ~Claimable(t)
    <3>1. call' = [call EXCEPT ![p] = NoCall] /\ UNCHANGED <<pairing, owner>>
      BY <1>4, <2>1 DEF Consume
    <3> QED
      BY <1>0, <3>1, NobodyClaims DEF BrowsersOK
  <2>2. CASE Claimable(t)
    <3>1. /\ pairing' = [pairing EXCEPT ![t] = [pairing[t] EXCEPT !.state = "used"]]
          /\ call' = [call EXCEPT ![p] = [call[p] EXCEPT !.pc = "create"]]
          /\ owner' = owner /\ call[p].pc = "consume" /\ pairing[t].state = "minted"
      BY <1>4, <2>2 DEF Consume, Serving, Goto, Claimable
    <3>2. t \in Tokens
      BY <1>0, <3>1, Fields
    <3>3. /\ pairing'[t].state = "used"
          /\ \A u \in Tokens \ {t} : pairing'[u] = pairing[u]
      BY <3>1, <3>2, PairingUsed DEF TablesOK
    <3>4. /\ call'[p].pc = "create" /\ call'[p].token = t
          /\ \A q \in Phones \ {p} : call'[q] = call[q]
      BY <1>0, <3>1, CallMoved DEF BrowsersOK
    <3>5. \A i \in SessionIDs : owner[i].from # t
      BY <3>1, <3>2, Fields DEF TokenSpentOnce
    <3>6. \A q \in Phones \ {p} : call[q].pc = "create" => call[q].token # t
      BY <3>1 DEF ClaimsOnce
    <3>7. ClaimsOnce'
      BY <1>0, <3>1, <3>2, <3>3, <3>4, <3>5, <3>6 DEF ClaimsOnce
    <3>8. TokenSpentOnce'
      BY <3>1, <3>2, <3>3, <3>5, Fields DEF TokenSpentOnce, TablesOK, TokenOrNone
    <3> QED
      BY <3>7, <3>8
  <2> QED
    BY <2>1, <2>2
<1>5. ASSUME NEW p \in Phones, CreateOwner(p) PROVE ClaimsOnce' /\ TokenSpentOnce'
  <2> DEFINE t == call[p].token
  <2>1. call[p].pc = "create" /\ UNCHANGED pairing
    BY <1>5 DEF CreateOwner, Serving
  <2>2. CASE call' = [call EXCEPT ![p] = NoCall] /\ UNCHANGED owner
    BY <1>0, <2>1, <2>2, NobodyClaims DEF BrowsersOK
  <2>3. ASSUME NEW id \in FreshID, owner' = [owner EXCEPT ![id] = NewOwner(t)],
               call' = [call EXCEPT ![p] = [[call[p] EXCEPT !.pc = "bind"] EXCEPT !.id = id]]
        PROVE  ClaimsOnce' /\ TokenSpentOnce'
    <3>1. id \in SessionIDs /\ t \in Tokens /\ pairing[t].state = "used"
      BY <1>0, <2>1, FreshIDAbsent DEF ClaimsOnce
    <3>2. /\ owner'[id].from = t
          /\ \A i \in SessionIDs \ {id} : owner'[i] = owner[i] /\ owner[i].from # t
      BY <2>1, <2>3, <3>1 DEF TablesOK, NewOwner, ClaimsOnce
    <3>3. /\ call'[p].pc = "bind" /\ call'[p].token = t
          /\ \A q \in Phones \ {p} : call'[q] = call[q]
      BY ZenonT(40), <1>0, <2>3, <3>1, CallNamed DEF BrowsersOK
    <3>4. \A q \in Phones \ {p} : call[q].pc = "create" => call[q].token # t
      BY <2>1 DEF ClaimsOnce
    <3>5. ClaimsOnce'
      BY <1>0, <2>1, <3>1, <3>2, <3>3, <3>4 DEF ClaimsOnce
    <3>6. TokenSpentOnce'
      BY <2>1, <3>1, <3>2 DEF TokenSpentOnce
    <3> QED
      BY <3>5, <3>6
  <2> QED
    BY <1>5, <2>2, <2>3 DEF CreateOwner
<1>6. ASSUME NEW p \in Phones, Bind(p) PROVE ClaimsOnce' /\ TokenSpentOnce'
  <2>1. /\ call[p].pc = "bind" /\ UNCHANGED pairing
        /\ \/ owner' = owner
           \/ owner' = [owner EXCEPT ![call[p].id] =
                           [owner[call[p].id] EXCEPT !.verifier = call[p].token]]
        /\ \E pc \in {"paired", "refused"} : call' = [call EXCEPT ![p] = [call[p] EXCEPT !.pc = pc]]
    BY <1>6 DEF Bind, Serving, Goto
  <2>2. \A i \in SessionIDs : owner'[i].from = owner[i].from
    <3>1. CASE owner' = owner
      BY <3>1
    <3>2. CASE owner' = [owner EXCEPT ![call[p].id] =
                            [owner[call[p].id] EXCEPT !.verifier = call[p].token]]
      <4>1. call[p].token \in TokenOrNone
        BY <1>0, Fields
      <4>2. \A r \in OwnerRow : [r EXCEPT !.verifier = call[p].token].from = r.from
        BY <4>1, OwnerVerified
      <4> QED
        BY <3>2, <4>2 DEF TablesOK
    <3> QED
      BY <2>1, <3>1, <3>2
  <2>3. call[p] # NoCall
    BY <2>1, Fields
  <2>4. call'[p].pc # "create" /\ call'[p].token = call[p].token
    <3>1. PICK pc \in {"paired", "refused"} : call' = [call EXCEPT ![p] = [call[p] EXCEPT !.pc = pc]]
      BY <2>1
    <3>2. call'[p] = [call[p] EXCEPT !.pc = pc]
      BY <3>1 DEF BrowsersOK
    <3>3. [call[p] EXCEPT !.pc = pc].pc = pc /\ [call[p] EXCEPT !.pc = pc].token = call[p].token
      BY <1>0, CallMoved
    <3> QED
      BY <3>2, <3>3
  <2> QED
    BY <1>0, <2>1, <2>2, <2>3, <2>4, NobodyClaims DEF BrowsersOK
<1>7. ASSUME NEW p \in Phones, Respond(p) \/ AnswerLost(p) PROVE ClaimsOnce' /\ TokenSpentOnce'
  <2>1. call' = [call EXCEPT ![p] = NoCall] /\ UNCHANGED <<pairing, owner>>
    BY <1>7 DEF Respond, AnswerLost, tables
  <2> QED
    BY <1>0, <2>1, NobodyClaims DEF BrowsersOK
<1>8. CASE UNCHANGED <<pairing, owner, call>>
  BY <1>0, <1>8, NobodyClaims
<1>9. ASSUME NEW S \in SUBSET SessionIDs, Revoke(S) PROVE ClaimsOnce' /\ TokenSpentOnce'
  <2>1. \A i \in SessionIDs : owner'[i].from = owner[i].from
    BY <1>9, OwnerRevoked DEF Revoke, TablesOK
  <2>2. UNCHANGED <<pairing, call>>
    BY <1>9 DEF Revoke
  <2> QED
    BY <1>0, <2>1, <2>2, NobodyClaims
<1>10. CASE Crash
  BY <1>0, <1>10, NobodyClaims DEF Crash
<1> QED
  BY <1>1, <1>2, <1>3, <1>4, <1>5, <1>6, <1>7, <1>8, <1>9, <1>10
     DEF AccessNext, Serve, Unpair, Dial, Redial, Upgrades, Hello, Rehello, LetIn, Watch, Drop, Restart, Tick, tables, accessVars
-----------------------------------------------------------------------------
\* Where no row changes its token and no request starts to bind, all stays right.
LEMMA NobodyBinds ==
    ASSUME VerifierOfToken,
           \A i \in SessionIDs : /\ owner'[i].from = owner[i].from
                                 /\ owner'[i].verifier \in {owner[i].verifier, owner[i].from},
           \A p \in Phones : call'[p].pc = "bind" => call'[p] = call[p]
    PROVE  VerifierOfToken'
  BY DEF VerifierOfToken

\* Every step keeps the rows with the verifier of their token.
LEMMA NextVerifier == AccessInv /\ [AccessNext]_accessVars => VerifierOfToken'
<1> SUFFICES ASSUME TablesOK, BrowsersOK, ClaimsOnce, VerifierOfToken, [AccessNext]_accessVars
             PROVE  VerifierOfToken'
  BY TypeParts DEF AccessInv, SpentInv, RelayInv
<1>0. /\ \A p \in Phones : call[p] \in Call
      /\ \A i \in SessionIDs : owner[i] \in OwnerRow
      /\ NoCall.pc # "bind"
  BY Fields DEF BrowsersOK, TablesOK
<1>1. CASE UNCHANGED <<owner, call>>
  BY <1>1, NobodyBinds
<1>2. ASSUME NEW p \in Phones, NEW t \in Tokens, Scan(p, t) PROVE VerifierOfToken'
  BY <1>2, NobodyBinds DEF Scan, BrowsersOK, tables
<1>3. ASSUME NEW p \in Phones, Confirm(p) PROVE VerifierOfToken'
  BY <1>3, NobodyBinds DEF Confirm, BrowsersOK
<1>4. ASSUME NEW p \in Phones, Consume(p) PROVE VerifierOfToken'
  <2>1. [call[p] EXCEPT !.pc = "create"].pc # "bind"
    BY <1>0, CallMoved
  <2> QED
    BY <1>0, <1>4, <2>1, NobodyBinds DEF Consume, Goto, BrowsersOK
<1>5. ASSUME NEW p \in Phones, CreateOwner(p) PROVE VerifierOfToken'
  <2> DEFINE t == call[p].token
  <2>1. CASE call' = [call EXCEPT ![p] = NoCall] /\ UNCHANGED owner
    BY <1>0, <2>1, NobodyBinds DEF BrowsersOK
  <2>2. ASSUME NEW id \in FreshID, owner' = [owner EXCEPT ![id] = NewOwner(t)],
               call' = [call EXCEPT ![p] = [[call[p] EXCEPT !.pc = "bind"] EXCEPT !.id = id]]
        PROVE  VerifierOfToken'
    <3>1. id \in SessionIDs /\ owner[id].from = "none"
      BY FreshIDAbsent, Fields
    <3>2. /\ owner'[id].from = t /\ owner'[id].verifier = "none"
          /\ \A i \in SessionIDs \ {id} : owner'[i] = owner[i]
      BY <2>2, <3>1 DEF TablesOK, NewOwner
    <3>3. /\ call'[p].pc = "bind" /\ call'[p].token = t /\ call'[p].id = id
          /\ \A q \in Phones \ {p} : call'[q] = call[q]
      <4>1. /\ call'[p] = [[call[p] EXCEPT !.pc = "bind"] EXCEPT !.id = id]
            /\ \A q \in Phones \ {p} : call'[q] = call[q]
        BY <2>2 DEF BrowsersOK
      <4>2. LET d == [[call[p] EXCEPT !.pc = "bind"] EXCEPT !.id = id]
            IN  d.pc = "bind" /\ d.token = t /\ d.id = id
        BY <1>0, <3>1, CallNamed
      <4> QED
        BY <4>1, <4>2
    <3>4. \A q \in Phones : call[q].pc = "bind" => call[q].id # id
      <4> SUFFICES ASSUME NEW q \in Phones, call[q].pc = "bind", call[q].id = id PROVE FALSE
        OBVIOUS
      <4>1. call[q].token \in Tokens
        BY <1>0 DEF ClaimsOnce
      <4>2. call[q].token = "none"
        BY <3>1 DEF VerifierOfToken
      <4> QED
        BY <4>1, <4>2, Fields
    <3> QED
      BY <3>1, <3>2, <3>3, <3>4 DEF VerifierOfToken
  <2> QED
    BY <1>5, <2>1, <2>2 DEF CreateOwner
<1>6. ASSUME NEW p \in Phones, Bind(p) PROVE VerifierOfToken'
  <2> DEFINE id == call[p].id
             t  == call[p].token
  <2>1. /\ call[p].pc = "bind"
        /\ owner' = owner \/ owner' = [owner EXCEPT ![id] = [owner[id] EXCEPT !.verifier = t]]
    BY <1>6 DEF Bind, Serving
  <2>2. PICK pc \in {"paired", "refused"} : call' = [call EXCEPT ![p] = [call[p] EXCEPT !.pc = pc]]
    BY <1>6 DEF Bind, Goto
  <2>3. id \in SessionIDs /\ owner[id].from = t
    BY <2>1 DEF VerifierOfToken
  <2>4. /\ [owner[id] EXCEPT !.verifier = t].verifier = owner[id].from
        /\ [owner[id] EXCEPT !.verifier = t].from = owner[id].from
    BY <1>0, <2>3, OwnerVerified, Fields
  <2>5. \A i \in SessionIDs : /\ owner'[i].from = owner[i].from
                              /\ owner'[i].verifier \in {owner[i].verifier, owner[i].from}
    BY <2>1, <2>3, <2>4 DEF TablesOK
  <2>6. [call[p] EXCEPT !.pc = pc].pc # "bind"
    BY <1>0, CallMoved
  <2> QED
    BY <2>2, <2>5, <2>6, NobodyBinds DEF BrowsersOK
<1>7. ASSUME NEW p \in Phones, Respond(p) \/ AnswerLost(p) PROVE VerifierOfToken'
  BY <1>0, <1>7, NobodyBinds DEF Respond, AnswerLost, BrowsersOK, tables
<1>8. ASSUME NEW S \in SUBSET SessionIDs, Revoke(S) PROVE VerifierOfToken'
  <2>1. \A i \in SessionIDs : /\ owner'[i].from = owner[i].from
                              /\ owner'[i].verifier = owner[i].verifier
    BY <1>0, <1>8, OwnerRevoked DEF Revoke
  <2> QED
    BY <1>8, <2>1, NobodyBinds DEF Revoke
<1>9. CASE Crash
  BY <1>0, <1>9, NobodyBinds DEF Crash
<1> QED
  BY <1>1, <1>2, <1>3, <1>4, <1>5, <1>6, <1>7, <1>8, <1>9
     DEF AccessNext, Mint, MintByCommand, Serve, Unpair, Dial, Redial, Upgrades, Hello, Rehello, LetIn, Watch, Drop, Restart, Tick,
         tables, accessVars
-----------------------------------------------------------------------------
\* A page keeps what it does where nothing new starts on it, or all on it ends.
LEMMA NothingStarts ==
    ASSUME PagePairsOrTalks, UNCHANGED requireE2E,
           \A p \in Phones : requireE2E =>
              \/ /\ phone'[p].page = phone[p].page
                 /\ call'[p] = NoCall \/ call[p] # NoCall
                 /\ socket'[p] = NoSocket \/ socket[p] # NoSocket
              \/ call'[p] = NoCall /\ socket'[p] = NoSocket,
           \A d \in Diallers : requireE2E =>
              \/ socket'[d] = NoSocket
              \/ /\ socket[d] # NoSocket
                 /\ socket'[d].id = socket[d].id /\ socket'[d].codec = socket[d].codec
    PROVE  PagePairsOrTalks'
  BY DEF PagePairsOrTalks

\* Every step keeps pairing and talking apart.
LEMMA NextPage == AccessInv /\ [AccessNext]_accessVars => PagePairsOrTalks'
<1> SUFFICES ASSUME TablesOK, BrowsersOK, PagePairsOrTalks, [AccessNext]_accessVars
             PROVE  PagePairsOrTalks'
  BY TypeParts DEF AccessInv, SpentInv, RelayInv
<1>0. /\ \A p \in Phones : phone[p] \in Page /\ call[p] \in Call
      /\ \A d \in Diallers : socket[d] \in Socket
      /\ \A p \in Phones : p \in Diallers
      /\ NoCall.pc = "idle" /\ NoSocket.pc = "closed"
  BY Fields, RelayDials DEF BrowsersOK
<1>1. CASE UNCHANGED <<requireE2E, phone, call, socket>>
  BY <1>1, NothingStarts
<1>2. ASSUME NEW p \in Phones, NEW t \in Tokens, Scan(p, t) PROVE PagePairsOrTalks'
  <2>1. /\ UNCHANGED requireE2E /\ socket' = [socket EXCEPT ![p] = NoSocket]
        /\ requireE2E => call' = call /\ call[p] = NoCall
        /\ \A q \in Phones \ {p} : phone'[q] = phone[q]
    BY <1>2 DEF Scan, counters, BrowsersOK
  <2>2. socket'[p] = NoSocket /\ \A d \in Diallers \ {p} : socket'[d] = socket[d]
    BY <1>0, <2>1 DEF BrowsersOK
  <2> QED
    BY <1>0, <2>1, <2>2, NothingStarts
<1>3. ASSUME NEW p \in Phones, Confirm(p) PROVE PagePairsOrTalks'
  <2>1. /\ UNCHANGED <<requireE2E, socket>> /\ phone[p].page = "confirm"
        /\ phone' = [phone EXCEPT ![p] = [phone[p] EXCEPT !.page = "sent"]]
        /\ \A q \in Phones \ {p} : call'[q] = call[q]
    BY <1>3 DEF Confirm, counters, BrowsersOK
  <2>2. phone'[p].page = "sent" /\ \A q \in Phones \ {p} : phone'[q] = phone[q]
    BY <1>0, <2>1 DEF BrowsersOK, Page
  <2>3. requireE2E => socket[p] = NoSocket
    BY <2>1 DEF PagePairsOrTalks
  <2> QED
    BY <2>1, <2>2, <2>3 DEF PagePairsOrTalks
<1>4. ASSUME NEW p \in Phones, Consume(p) \/ CreateOwner(p) \/ Bind(p) PROVE PagePairsOrTalks'
  <2>1. UNCHANGED <<requireE2E, phone, socket>> /\ call[p].pc # "idle"
    BY <1>4 DEF Consume, CreateOwner, Bind, Serving, counters
  <2>2. \A q \in Phones \ {p} : call'[q] = call[q]
    BY <1>4 DEF Consume, CreateOwner, Bind, Goto, BrowsersOK
  <2> QED
    BY <1>0, <2>1, <2>2, NothingStarts
<1>5. ASSUME NEW p \in Phones, Respond(p) PROVE PagePairsOrTalks'
  <2>1. /\ UNCHANGED <<requireE2E, socket>> /\ call[p] # NoCall
        /\ call' = [call EXCEPT ![p] = NoCall]
        /\ \A q \in Phones \ {p} : phone'[q] = phone[q]
    BY <1>0, <1>5 DEF Respond, Serving, tables, counters, BrowsersOK
  <2>2. requireE2E => socket[p] = NoSocket
    BY <2>1 DEF PagePairsOrTalks
  <2> QED
    BY <2>1, <2>2, NothingStarts DEF BrowsersOK
<1>6. ASSUME NEW p \in Phones, AnswerLost(p) PROVE PagePairsOrTalks'
  BY <1>6, NothingStarts DEF AnswerLost, counters, BrowsersOK
<1>7. ASSUME NEW p \in Phones, Dial(p) PROVE PagePairsOrTalks'
  <2>1. Upgrades(p, phone[p].cookie) /\ phone[p].page = "app" /\ phone[p].cookie \in IDOrNone
    BY <1>0, <1>7 DEF Dial, Page
  <2>2. p \in Diallers
    BY <1>0
  <2> QED
    BY <1>0, <2>1, <2>2, UpgradeMakes DEF PagePairsOrTalks
<1>10. CASE Redial
  <2>1. PICK h \in sealed : Upgrades("relay", h.id)
    BY <1>10 DEF Redial
  <2>2. h.id \in IDOrNone
    BY DEF BrowsersOK, Hellos
  <2> QED
    BY <1>0, <2>1, <2>2, UpgradeMakes, RelayDials DEF PagePairsOrTalks
<1>11. ASSUME NEW d \in Diallers, NEW proven, LetIn(d, proven) PROVE PagePairsOrTalks'
  BY <1>0, <1>11, LetInMakes, NothingStarts
<1>12. ASSUME NEW p \in Phones, Hello(p) PROVE PagePairsOrTalks'
  BY <1>0, <1>11, <1>12 DEF Hello
<1>13. CASE Rehello
  BY <1>11, <1>13, RelayDials DEF Rehello
<1>8. ASSUME NEW d \in Diallers, Watch(d) \/ Drop(d) PROVE PagePairsOrTalks'
  <2>1. /\ UNCHANGED <<requireE2E, phone, call>> /\ socket'[d] = NoSocket
        /\ \A e \in Diallers \ {d} : socket'[e] = socket[e]
    BY <1>8 DEF Watch, Drop, counters, BrowsersOK
  <2> QED
    BY <1>0, <2>1, NothingStarts
<1>9. CASE Crash
  <2>1. /\ UNCHANGED requireE2E /\ \A p \in Phones : call'[p] = NoCall
        /\ \A d \in Diallers : socket'[d] = NoSocket
    BY <1>9 DEF Crash
  <2> QED
    BY <1>0, <2>1, NothingStarts
<1> QED
  BY <1>1, <1>2, <1>3, <1>4, <1>5, <1>6, <1>7, <1>8, <1>9, <1>10, <1>12, <1>13
     DEF AccessNext, Mint, MintByCommand, Serve, Unpair, Revoke, Restart, Tick, counters, accessVars
-----------------------------------------------------------------------------
\* What RelaySocketProven says of a socket.
SocketProven(d) ==
    LET c == socket[d].codec  row == owner[socket[d].id] IN
    /\ c # "none" /\ row.verifier = c /\ row.from = c
    /\ [id |-> socket[d].id, key |-> c] \in sealed
    /\ d \in Phones => phone[d].key = c

\* A socket stays proven where it, the key of its page and its row's verifier stay.
LEMMA NobodyEnters ==
    ASSUME PagePairsOrTalks, RelaySocketProven, UNCHANGED requireE2E, NoSocket.pc = "closed",
           sealed \subseteq sealed',
           \A d \in Diallers : requireE2E /\ socket'[d].pc = "attached" =>
              socket'[d] = socket[d] /\ (d \in Phones => phone'[d].key = phone[d].key),
           \A i \in SessionIDs : owner[i].verifier # "none" =>
              owner'[i].verifier = owner[i].verifier /\ owner'[i].from = owner[i].from
    PROVE  RelaySocketProven'
<1> SUFFICES ASSUME NEW d \in Diallers, requireE2E, socket'[d].pc = "attached"
             PROVE  SocketProven(d)'
  BY DEF RelaySocketProven, SocketProven
<1>1. socket'[d] = socket[d] /\ (d \in Phones => phone'[d].key = phone[d].key)
  OBVIOUS
<1>2. SocketProven(d)
  BY <1>1 DEF RelaySocketProven, SocketProven
<1>3. socket[d].id \in SessionIDs
  BY <1>1 DEF PagePairsOrTalks
<1> QED
  BY <1>1, <1>2, <1>3 DEF SocketProven

\* Every step keeps the sockets behind a relay proven.
LEMMA NextProven == AccessInv /\ [AccessNext]_accessVars => RelaySocketProven'
<1> SUFFICES ASSUME TablesOK, BrowsersOK, VerifierOfToken, PagePairsOrTalks, RelaySocketProven,
                    [AccessNext]_accessVars
             PROVE  RelaySocketProven'
  BY TypeParts DEF AccessInv, SpentInv, RelayInv
<1>0. /\ \A p \in Phones : phone[p] \in Page /\ call[p] \in Call
      /\ \A d \in Diallers : socket[d] \in Socket
      /\ \A p \in Phones : p \in Diallers
      /\ \A i \in SessionIDs : owner[i] \in OwnerRow
      /\ NoCall.pc = "idle" /\ NoSocket.pc = "closed"
  BY Fields, RelayDials DEF BrowsersOK, TablesOK
<1>1. CASE UNCHANGED <<requireE2E, owner, phone, socket, sealed>>
  BY <1>0, <1>1, NobodyEnters
<1>2. ASSUME NEW p \in Phones, NEW t \in Tokens, Scan(p, t) PROVE RelaySocketProven'
  <2>1. /\ UNCHANGED <<requireE2E, owner, sealed>> /\ socket' = [socket EXCEPT ![p] = NoSocket]
        /\ \A q \in Phones \ {p} : phone'[q] = phone[q]
    BY <1>2 DEF Scan, counters, tables, BrowsersOK
  <2> QED
    BY <1>0, <2>1, NobodyEnters DEF BrowsersOK
<1>3. ASSUME NEW p \in Phones, Confirm(p) PROVE RelaySocketProven'
  <2>1. [phone[p] EXCEPT !.page = "sent"].key = phone[p].key
    BY <1>0 DEF Page
  <2>2. /\ UNCHANGED <<requireE2E, owner, socket, sealed>>
        /\ phone' = [phone EXCEPT ![p] = [phone[p] EXCEPT !.page = "sent"]]
    BY <1>3 DEF Confirm, counters
  <2> QED
    BY <1>0, <2>1, <2>2, NobodyEnters DEF BrowsersOK
<1>4. ASSUME NEW p \in Phones, CreateOwner(p) PROVE RelaySocketProven'
  <2>1. /\ UNCHANGED <<requireE2E, phone, socket, sealed>>
        /\ owner' = owner \/ \E id \in FreshID : owner' = [owner EXCEPT ![id] = NewOwner(call[p].token)]
    BY <1>4 DEF CreateOwner, counters
  <2>2. \A i \in SessionIDs : owner[i].verifier # "none" => owner'[i] = owner[i]
    BY <2>1, FreshIDAbsent, Fields DEF TablesOK
  <2> QED
    BY <1>0, <2>1, <2>2, NobodyEnters
<1>5. ASSUME NEW p \in Phones, Bind(p) PROVE RelaySocketProven'
  <2> DEFINE id == call[p].id
             t  == call[p].token
  <2>1. /\ UNCHANGED <<requireE2E, phone, socket, sealed>> /\ call[p].pc = "bind"
        /\ owner' = owner \/ owner' = [owner EXCEPT ![id] = [owner[id] EXCEPT !.verifier = t]]
    BY <1>5 DEF Bind, Serving, counters
  <2>2. id \in SessionIDs /\ owner[id].from = t /\ owner[id].verifier \in {"none", t}
    BY <2>1 DEF VerifierOfToken
  <2>3. /\ [owner[id] EXCEPT !.verifier = t].verifier = t
        /\ [owner[id] EXCEPT !.verifier = t].from = t
    BY <1>0, <2>2, OwnerVerified, Fields
  <2>4. \A i \in SessionIDs : owner[i].verifier # "none" =>
           owner'[i].verifier = owner[i].verifier /\ owner'[i].from = owner[i].from
    BY <2>1, <2>2, <2>3 DEF TablesOK
  <2> QED
    BY <1>0, <2>1, <2>4, NobodyEnters
<1>6. ASSUME NEW p \in Phones, Respond(p) PROVE RelaySocketProven'
  <2>1. /\ UNCHANGED <<requireE2E, owner, socket, sealed>> /\ call[p] # NoCall
        /\ \A q \in Phones \ {p} : phone'[q] = phone[q]
    BY <1>0, <1>6 DEF Respond, Serving, tables, counters, BrowsersOK
  <2>2. requireE2E => socket[p].pc = "closed"
    BY <1>0, <2>1 DEF PagePairsOrTalks
  <2> QED
    BY <1>0, <2>1, <2>2, NobodyEnters
<1>7. ASSUME NEW d \in Diallers, NEW id \in IDOrNone, Upgrades(d, id) PROVE RelaySocketProven'
  <2>1. socket'[d].pc = "hello" /\ UNCHANGED <<requireE2E, owner, phone, sealed>>
        /\ \A e \in Diallers \ {d} : socket'[e] = socket[e]
    BY <1>7, UpgradeMakes
  <2> QED
    BY <1>0, <2>1, NobodyEnters
<1>12. ASSUME NEW p \in Phones, Dial(p) PROVE RelaySocketProven'
  <2>1. Upgrades(p, phone[p].cookie) /\ phone[p].cookie \in IDOrNone
    BY <1>0, <1>12 DEF Dial, Page
  <2> QED
    BY <1>0, <1>7, <2>1
<1>13. CASE Redial
  <2>1. PICK h \in sealed : Upgrades("relay", h.id)
    BY <1>13 DEF Redial
  <2>2. h.id \in IDOrNone
    BY DEF BrowsersOK, Hellos
  <2> QED
    BY <1>7, <2>1, <2>2, RelayDials
\* A first frame that is refused, and one that is let in.
<1>14. ASSUME NEW d \in Diallers, NEW proven, LetIn(d, proven), sealed \subseteq sealed',
              proven /\ requireE2E =>
                 LET c == socket[d].codec IN
                 /\ owner[socket[d].id].verifier = c
                 /\ [id |-> socket[d].id, key |-> c] \in sealed'
                 /\ d \in Phones => phone[d].key = c
       PROVE  RelaySocketProven'
  <2>1. /\ UNCHANGED <<requireE2E, owner, phone>> /\ socket[d] # NoSocket
        /\ \A e \in Diallers \ {d} : socket'[e] = socket[e]
    BY <1>14, LetInMakes
  <2>2. CASE ~proven
    <3>1. socket'[d] = NoSocket
      BY <1>14, <2>2, LetInMakes
    <3> QED
      BY <1>0, <1>14, <2>1, <3>1, NobodyEnters
  <2>3. CASE proven
    <3>1. socket'[d].id = socket[d].id /\ socket'[d].codec = socket[d].codec
      BY <1>14, <2>3, LetInMakes
    <3>2. requireE2E => socket[d].id \in SessionIDs /\ socket[d].codec # "none"
      BY <2>1 DEF PagePairsOrTalks
    <3>3. requireE2E => owner[socket[d].id].from = socket[d].codec
      BY <1>14, <2>3, <3>2 DEF VerifierOfToken
    <3>4. requireE2E => SocketProven(d)'
      BY <1>14, <2>1, <2>3, <3>1, <3>2, <3>3 DEF SocketProven
    <3>5. ASSUME NEW e \in Diallers \ {d}, requireE2E, socket'[e].pc = "attached"
          PROVE  SocketProven(e)'
      <4>1. SocketProven(e) /\ socket'[e] = socket[e]
        BY <2>1, <3>5 DEF RelaySocketProven, SocketProven
      <4> QED
        BY <1>14, <2>1, <4>1 DEF SocketProven
    <3> QED
      BY <2>1, <3>4, <3>5 DEF RelaySocketProven, SocketProven
  <2> QED
    BY <2>2, <2>3
<1>8. ASSUME NEW p \in Phones, Hello(p) PROVE RelaySocketProven'
  <2>1. LetIn(p, Proven(p)) /\ p \in Diallers /\ sealed \subseteq sealed'
    BY <1>0, <1>8 DEF Hello
  <2>2. requireE2E => socket[p].codec # "none"
    BY <2>1, LetInMakes DEF PagePairsOrTalks
  <2>3. Proven(p) /\ requireE2E => /\ phone[p].key = socket[p].codec
                                  /\ owner[socket[p].id].verifier = socket[p].codec
    BY <2>2 DEF Proven, Verified
  <2>4. Proven(p) /\ requireE2E => [id |-> socket[p].id, key |-> socket[p].codec] \in sealed'
    BY <1>8, <2>2, <2>3 DEF Hello
  <2> QED
    BY <1>14, <2>1, <2>3, <2>4
<1>15. CASE Rehello
  <2>1. PICK h \in sealed : LetIn("relay", h.id = socket["relay"].id /\ Verified("relay", h.key))
    BY <1>15 DEF Rehello
  <2>2. sealed' = sealed
    BY <1>15 DEF Rehello
  <2>3. h \in Hellos /\ h = [id |-> h.id, key |-> h.key]
    BY DEF BrowsersOK, Hellos
  <2>4. (h.id = socket["relay"].id /\ Verified("relay", h.key)) =>
           /\ owner[socket["relay"].id].verifier = socket["relay"].codec
           /\ [id |-> socket["relay"].id, key |-> socket["relay"].codec] \in sealed'
    BY <2>2, <2>3 DEF Verified
  <2> QED
    BY <1>14, <2>1, <2>2, <2>4, RelayDials
<1>9. ASSUME NEW d \in Diallers, Watch(d) \/ Drop(d) PROVE RelaySocketProven'
  <2>1. UNCHANGED <<requireE2E, owner, phone, sealed>> /\ socket' = [socket EXCEPT ![d] = NoSocket]
    BY <1>9 DEF Watch, Drop, counters, tables
  <2> QED
    BY <1>0, <2>1, NobodyEnters DEF BrowsersOK
<1>10. ASSUME NEW S \in SUBSET SessionIDs, Revoke(S) PROVE RelaySocketProven'
  <2>1. \A i \in SessionIDs : /\ owner'[i].from = owner[i].from
                              /\ owner'[i].verifier = owner[i].verifier
    BY <1>0, <1>10, OwnerRevoked DEF Revoke
  <2> QED
    BY <1>0, <1>10, <2>1, NobodyEnters DEF Revoke
<1>11. CASE Crash
  BY <1>0, <1>11, NobodyEnters DEF Crash
<1> QED
  BY <1>1, <1>2, <1>3, <1>4, <1>5, <1>6, <1>8, <1>9, <1>10, <1>11, <1>12, <1>13, <1>15
     DEF AccessNext, Mint, MintByCommand, Serve, Unpair, Consume, AnswerLost, Restart, Tick,
         tables, counters, accessVars
-----------------------------------------------------------------------------
\* The inductive invariant of WebAccess: the state in its sets, claims apart, rows with
\* the verifier of their token, and pages that pair or talk.
THEOREM AccessInvariant == AccessSpec => []AccessInv
<1>1. AccessInit => AccessInv
  BY InitInv
<1>2. AccessInv /\ [AccessNext]_accessVars => AccessInv'
  <2> SUFFICES ASSUME AccessInv, [AccessNext]_accessVars PROVE AccessInv'
    OBVIOUS
  <2>1. AccessTypeOK' /\ RestartLeft'
    BY NextTypeOK DEF AccessInv, SpentInv
  <2>2. PageNamesToken'
    BY NextPageNamesToken DEF AccessInv, SpentInv
  <2>3. ClaimsOnce' /\ TokenSpentOnce'
    BY NextSpent DEF AccessInv
  <2>4. VerifierOfToken' /\ PagePairsOrTalks' /\ RelaySocketProven'
    BY NextVerifier, NextPage, NextProven
  <2> QED
    BY <2>1, <2>2, <2>3, <2>4 DEF AccessInv, SpentInv, RelayInv
<1> QED
  BY <1>1, <1>2, PTL DEF AccessSpec

\* However many phones scan a token, and however their requests interleave with crashes
\* and revocations, it makes one owner at most (ConsumePairingToken's transaction).
THEOREM TokenMakesOneOwner == AccessSpec => []TokenSpentOnce
<1>1. AccessInv => TokenSpentOnce
  BY DEF AccessInv, SpentInv
<1> QED
  BY <1>1, AccessInvariant, PTL

\* Behind a public relay a socket is let in only on a hello that a page with the key of its
\* session's own pairing has sealed for this session, and a page's socket only on the
\* page's own key (e2eSessionKey, decrypt and verifyRelayAttach).  The hello may be one
\* that the relay has recorded.
THEOREM SocketIsProven == AccessSpec => []RelaySocketProven
<1>1. AccessInv => RelaySocketProven
  BY DEF AccessInv, RelayInv
<1> QED
  BY <1>1, AccessInvariant, PTL
-----------------------------------------------------------------------------
(* A socket.  Of two frames of a stream the one that got the higher number   *)
(* was typed later, whether they wait to be sealed or the relay has them on  *)
(* record; and what a server has taken is, number by number, on that record. *)

Frames == [stream : Nat \ {0}, data : Nat, seq : Nat]
Pages == [open : BOOLEAN, typed : Nat, sendSeq : Nat, sealing : SUBSET Frames]
Codecs == [open : BOOLEAN, stream : Nat, inSeq : Nat, taken : Seq(Nat)]
Drawn == page.sealing \cup recorded

SocketTypeOK ==
    /\ page \in Pages /\ codec \in Codecs
    /\ wire \in Seq(recorded) /\ recorded \subseteq Frames
    /\ sockets \in Nat

FramesNumbered ==
    /\ \A f \in Drawn : /\ f.stream <= sockets
                        /\ page.open /\ f.stream = sockets => f.data <= page.typed /\ f.seq <= page.sendSeq
    /\ \A f, g \in Drawn : f.stream = g.stream /\ f.seq < g.seq => f.data < g.data
    /\ page.open => sockets # 0

TakenOfStream ==
    /\ codec.inSeq = Len(codec.taken)
    /\ codec.taken # <<>> => codec.stream # 0

SocketInv == SocketTypeOK /\ FramesNumbered /\ TakenOfStream /\ TakenInOrder

LEMMA NewParts == Closed \in Pages /\ NewCodec \in Codecs /\ NewCodec.taken = <<>> /\ NewCodec.inSeq = 0
BY DEF Closed, NewCodec, Pages, Codecs

\* What an assignment to their fields makes of a page and of a codec.
PageWhere(p, typed, sealing) == [p EXCEPT !.typed = typed, !.sealing = sealing]
PageSends(p, sealing, sendSeq) == [p EXCEPT !.sealing = sealing, !.sendSeq = sendSeq]
CodecAfter(c, stream, n, taken) == [c EXCEPT !.stream = stream, !.inSeq = n, !.taken = taken]

LEMMA PageTyped ==
    ASSUME NEW p \in Pages, NEW t \in Nat, NEW s \in SUBSET Frames
    PROVE  /\ PageWhere(p, t, s) \in Pages /\ PageWhere(p, t, s).open = p.open
           /\ PageWhere(p, t, s).typed = t /\ PageWhere(p, t, s).sendSeq = p.sendSeq
           /\ PageWhere(p, t, s).sealing = s
BY DEF PageWhere, Pages

LEMMA PageSealed ==
    ASSUME NEW p \in Pages, NEW t \in Nat, NEW s \in SUBSET Frames
    PROVE  /\ PageSends(p, s, t) \in Pages /\ PageSends(p, s, t).open = p.open
           /\ PageSends(p, s, t).typed = p.typed /\ PageSends(p, s, t).sendSeq = t
           /\ PageSends(p, s, t).sealing = s
BY DEF PageSends, Pages

LEMMA CodecTakes ==
    ASSUME NEW c \in Codecs, NEW st \in Nat, NEW n \in Nat, NEW q \in Seq(Nat)
    PROVE  CodecAfter(c, st, n, q) = [open |-> c.open, stream |-> st, inSeq |-> n, taken |-> q]
<1>1. CodecAfter(c, st, n, q) \in Codecs
  BY DEF CodecAfter, Codecs
<1>2. /\ CodecAfter(c, st, n, q).open = c.open /\ CodecAfter(c, st, n, q).stream = st
      /\ CodecAfter(c, st, n, q).inSeq = n /\ CodecAfter(c, st, n, q).taken = q
  BY DEF CodecAfter, Codecs
<1> QED
  BY <1>1, <1>2 DEF Codecs

LEMMA CodecShuts ==
    ASSUME NEW c \in Codecs
    PROVE  LET d == [c EXCEPT !.open = FALSE]
           IN  d \in Codecs /\ d.taken = c.taken /\ d.stream = c.stream /\ d.inSeq = c.inSeq
BY DEF Codecs

LEMMA InitSocket == FramesInit => SocketInv
<1> SUFFICES ASSUME FramesInit PROVE SocketInv
  OBVIOUS
<1>1. [NewCodec EXCEPT !.open = FALSE] \in Codecs /\ [NewCodec EXCEPT !.open = FALSE].taken = <<>>
      /\ [NewCodec EXCEPT !.open = FALSE].inSeq = 0
  BY NewParts, CodecShuts
<1> QED
  BY <1>1, NewParts DEF FramesInit, SocketInv, SocketTypeOK, FramesNumbered, TakenOfStream, TakenInOrder,
     Drawn, Closed

LEMMA AppendAt ==
    ASSUME NEW S, NEW q \in Seq(S), NEW e \in S
    PROVE  /\ Append(q, e) \in Seq(S) /\ Len(Append(q, e)) = Len(q) + 1
           /\ Append(q, e)[Len(q) + 1] = e
           /\ \A i \in 1..Len(q) : Append(q, e)[i] = q[i]
           /\ \A i \in 1..Len(q) + 1 : i \in 1..Len(q) \/ i = Len(q) + 1
OBVIOUS

\* A page that is gone and a codec that has taken nothing more, or nothing yet.
LEMMA PageGone ==
    ASSUME SocketInv, page' = Closed, wire' = <<>>, recorded' = recorded,
           sockets' \in Nat, sockets <= sockets', codec' \in Codecs,
           \/ /\ codec'.taken = codec.taken /\ codec'.stream = codec.stream
              /\ codec'.inSeq = codec.inSeq
           \/ codec'.taken = <<>> /\ codec'.inSeq = 0
    PROVE  SocketInv'
<1>1. SocketTypeOK'
  BY NewParts DEF SocketInv, SocketTypeOK
<1>2. Drawn' \subseteq Drawn /\ ~page'.open
  BY DEF Drawn, Closed
<1>3. \A f \in Drawn : f.stream \in Nat
  BY DEF Drawn, SocketInv, SocketTypeOK, Pages, Frames
<1>4. FramesNumbered'
  BY <1>2, <1>3 DEF SocketInv, SocketTypeOK, FramesNumbered
<1>5. TakenOfStream' /\ TakenInOrder'
  BY DEF SocketInv, TakenOfStream, TakenInOrder
<1> QED
  BY <1>1, <1>4, <1>5 DEF SocketInv

LEMMA CodecShut ==
    ASSUME SocketInv
    PROVE  LET c == [codec EXCEPT !.open = FALSE]
           IN  c \in Codecs /\ c.taken = codec.taken /\ c.stream = codec.stream /\ c.inSeq = codec.inSeq
BY CodecShuts DEF SocketInv, SocketTypeOK

LEMMA OpenKeeps == SocketInv /\ Open => SocketInv'
<1> SUFFICES ASSUME SocketInv, Open PROVE SocketInv'
  OBVIOUS
<1> DEFINE hello == [stream |-> sockets + 1, data |-> 1, seq |-> 0]
<1>1. sockets \in Nat /\ recorded \subseteq Frames /\ ~page.open
  BY DEF Open, SocketInv, SocketTypeOK
<1>2. hello \in Frames
  BY <1>1 DEF Frames
<1>3. /\ page' = [open |-> TRUE, typed |-> 1, sendSeq |-> 0, sealing |-> {hello}]
      /\ wire' = <<>> /\ codec' = NewCodec /\ sockets' = sockets + 1 /\ recorded' = recorded
  BY DEF Open
<1>4. SocketTypeOK'
  BY <1>1, <1>2, <1>3, NewParts DEF SocketTypeOK, Pages
<1>5. \A f \in Drawn' : f = hello \/ (f \in Drawn /\ f.stream \in Nat /\ f.stream <= sockets)
  <2>1. \A f \in Drawn : f.stream <= sockets
    BY DEF SocketInv, FramesNumbered
  <2>2. \A f \in recorded : f \in Drawn /\ f.stream \in Nat
    BY <1>1 DEF Drawn, Frames
  <2> QED
    BY <1>3, <2>1, <2>2 DEF Drawn
<1>6. hello.stream = sockets + 1 /\ hello.data = 1 /\ hello.seq = 0
  OBVIOUS
<1> HIDE DEF hello
<1>7. FramesNumbered'
  <2>1. \A f \in Drawn' : /\ f.stream <= sockets'
                          /\ f.stream = sockets' => f.data <= page'.typed /\ f.seq <= page'.sendSeq
    BY <1>1, <1>3, <1>5, <1>6
  <2>2. ASSUME NEW f \in Drawn', NEW g \in Drawn', f.stream = g.stream, f.seq < g.seq
        PROVE  f.data < g.data
    <3>1. CASE f \in Drawn /\ g \in Drawn
      BY <2>2, <3>1 DEF SocketInv, FramesNumbered
    <3>2. CASE f = hello \/ g = hello
      BY <1>1, <1>5, <1>6, <2>2, <3>2
    <3> QED
      BY <1>5, <3>1, <3>2
  <2>3. sockets' # 0
    BY <1>1, <1>3
  <2> QED
    BY <2>1, <2>2, <2>3 DEF FramesNumbered
<1>8. TakenOfStream' /\ TakenInOrder'
  BY <1>3, NewParts DEF TakenOfStream, TakenInOrder
<1> QED
  BY <1>4, <1>7, <1>8 DEF SocketInv

LEMMA TypeKeeps == SocketInv /\ Type => SocketInv'
<1> SUFFICES ASSUME SocketInv, Type PROVE SocketInv'
  OBVIOUS
<1> DEFINE new == [stream |-> sockets, data |-> page.typed + 1, seq |-> page.sendSeq]
<1>1. /\ page \in Pages /\ page.open /\ page.typed \in Nat /\ page.sendSeq \in Nat
      /\ page.sealing \subseteq Frames /\ recorded \subseteq Frames /\ sockets \in Nat
  BY DEF Type, SocketInv, SocketTypeOK, Pages
<1>2. /\ page' = [page EXCEPT !.typed = page.typed + 1, !.sealing = page.sealing \cup {new}]
      /\ UNCHANGED <<wire, codec, sockets, recorded>>
  BY DEF Type
<1>3. sockets # 0
  BY <1>1 DEF SocketInv, FramesNumbered
<1>4. new \in Frames
  BY <1>1, <1>3 DEF Frames
<1>5. page' \in Pages /\ page'.open /\ page'.typed = page.typed + 1 /\ page'.sendSeq = page.sendSeq
      /\ page'.sealing = page.sealing \cup {new}
  <2>1. page.typed + 1 \in Nat /\ page.sealing \cup {new} \in SUBSET Frames
    BY <1>1, <1>4
  <2>2. page' = PageWhere(page, page.typed + 1, page.sealing \cup {new})
    BY <1>2 DEF PageWhere
  <2> QED
    BY <1>1, <2>1, <2>2, PageTyped
<1>6. SocketTypeOK'
  BY <1>2, <1>5 DEF SocketInv, SocketTypeOK
<1>7. Drawn' = Drawn \cup {new}
  BY <1>2, <1>5 DEF Drawn
<1>8. \A f \in Drawn : f.stream \in Nat /\ f.data \in Nat /\ f.seq \in Nat
  BY <1>1 DEF Drawn, Frames
<1>9. new.stream = sockets /\ new.data = page.typed + 1 /\ new.seq = page.sendSeq
  OBVIOUS
<1> HIDE DEF new
<1>10. FramesNumbered'
  <2>1. \A f \in Drawn : /\ f.stream <= sockets
                         /\ f.stream = sockets => f.data <= page.typed /\ f.seq <= page.sendSeq
    BY <1>1 DEF SocketInv, FramesNumbered
  <2>2. \A f \in Drawn' : /\ f.stream <= sockets'
                          /\ f.stream = sockets' => f.data <= page'.typed /\ f.seq <= page'.sendSeq
    BY <1>1, <1>2, <1>5, <1>7, <1>8, <1>9, <2>1
  <2>3. ASSUME NEW f \in Drawn', NEW g \in Drawn', f.stream = g.stream, f.seq < g.seq
        PROVE  f.data < g.data
    <3>1. CASE f \in Drawn /\ g \in Drawn
      BY <2>3, <3>1 DEF SocketInv, FramesNumbered
    <3>2. CASE f \in Drawn /\ g = new
      BY <1>1, <1>8, <1>9, <2>1, <2>3, <3>2
    <3>3. CASE f = new
      BY <1>1, <1>7, <1>8, <1>9, <2>1, <2>3, <3>3
    <3> QED
      BY <1>7, <3>1, <3>2, <3>3
  <2>4. sockets' # 0
    BY <1>2, <1>3
  <2> QED
    BY <2>2, <2>3, <2>4 DEF FramesNumbered
<1>11. TakenOfStream' /\ TakenInOrder'
  BY <1>2 DEF SocketInv, TakenOfStream, TakenInOrder
<1> QED
  BY <1>6, <1>10, <1>11 DEF SocketInv

LEMMA SealedKeeps == ASSUME SocketInv, NEW h \in page.sealing, Sealed(h) PROVE SocketInv'
<1>1. /\ page \in Pages /\ page.open /\ page.typed \in Nat /\ page.sendSeq \in Nat
      /\ page.sealing \subseteq Frames /\ recorded \subseteq Frames /\ sockets \in Nat
  BY DEF Sealed, SocketInv, SocketTypeOK, Pages
<1>2. /\ page' = [page EXCEPT !.sealing = page.sealing \ {h}, !.sendSeq = page.sendSeq + 1]
      /\ wire' = Append(wire, h) /\ recorded' = recorded \cup {h} /\ UNCHANGED <<codec, sockets>>
  BY DEF Sealed
<1>3. page' \in Pages /\ page'.open /\ page'.typed = page.typed /\ page'.sendSeq = page.sendSeq + 1
      /\ page'.sealing = page.sealing \ {h}
  <2>1. page.sendSeq + 1 \in Nat /\ page.sealing \ {h} \in SUBSET Frames
    BY <1>1
  <2>2. page' = PageSends(page, page.sealing \ {h}, page.sendSeq + 1)
    BY <1>2 DEF PageSends
  <2> QED
    BY <1>1, <2>1, <2>2, PageSealed
<1>4. wire' \in Seq(recorded')
  <2>1. wire \in Seq(recorded')
    BY <1>2 DEF SocketInv, SocketTypeOK
  <2> QED
    BY <1>2, <2>1
<1>5. SocketTypeOK'
  BY <1>1, <1>2, <1>3, <1>4 DEF SocketInv, SocketTypeOK
<1>6. Drawn' = Drawn
  BY <1>2, <1>3 DEF Drawn
<1>7. \A f \in Drawn : f.stream \in Nat /\ f.data \in Nat /\ f.seq \in Nat
  BY <1>1 DEF Drawn, Frames
<1>8. FramesNumbered'
  BY <1>1, <1>2, <1>3, <1>6, <1>7 DEF SocketInv, FramesNumbered
<1>9. TakenOfStream' /\ TakenInOrder'
  BY <1>2 DEF SocketInv, TakenOfStream, TakenInOrder
<1> QED
  BY <1>5, <1>8, <1>9 DEF SocketInv

LEMMA ReceiveKeeps == SocketInv /\ Receive => SocketInv'
<1> SUFFICES ASSUME SocketInv, Receive PROVE SocketInv'
  OBVIOUS
<1> DEFINE f == Head(wire)
           n == Len(codec.taken)
<1>1. f \in recorded /\ Tail(wire) \in Seq(recorded) /\ UNCHANGED <<sockets, recorded>>
  BY DEF Receive, SocketInv, SocketTypeOK
<1>2. f.stream \in Nat \ {0} /\ f.data \in Nat /\ f.seq \in Nat
  BY <1>1 DEF SocketInv, SocketTypeOK, Frames
<1>3. /\ codec \in Codecs /\ codec.taken \in Seq(Nat) /\ codec.stream \in Nat /\ n \in Nat
      /\ codec.inSeq = n
  BY DEF SocketInv, SocketTypeOK, Codecs, TakenOfStream
<1>4. CASE ~Takes(f)
  <2>1. /\ page' = Closed /\ wire' = <<>> /\ codec' = [codec EXCEPT !.open = FALSE]
    BY <1>4 DEF Receive
  <2>2. sockets' \in Nat /\ sockets <= sockets'
    BY <1>1 DEF SocketInv, SocketTypeOK
  <2> QED
    BY <1>1, <2>1, <2>2, CodecShut, PageGone
<1>5. CASE Takes(f)
  <2>1. /\ codec' = [codec EXCEPT !.stream = f.stream, !.inSeq = codec.inSeq + 1,
                                  !.taken = Append(codec.taken, f.data)]
        /\ wire' = Tail(wire) /\ page' = page
        /\ f.seq = n /\ codec.stream \in {0, f.stream} /\ (codec.taken = <<>> => f.data = 1)
    BY <1>3, <1>5 DEF Receive, Takes, Expected
  <2>2. /\ codec' \in Codecs /\ codec'.stream = f.stream /\ codec'.inSeq = n + 1
        /\ codec'.taken = Append(codec.taken, f.data)
    <3>1. n + 1 \in Nat /\ Append(codec.taken, f.data) \in Seq(Nat) /\ f.stream \in Nat
      BY <1>2, <1>3
    <3>2. codec' = CodecAfter(codec, f.stream, n + 1, Append(codec.taken, f.data))
      BY <1>3, <2>1 DEF CodecAfter
    <3> DEFINE m == n + 1
               taken == Append(codec.taken, f.data)
    <3> HIDE DEF f, n, m, taken
    <3>3. m \in Nat /\ taken \in Seq(Nat) /\ f.stream \in Nat /\ codec.open \in BOOLEAN
      BY <1>3, <3>1 DEF m, taken, Codecs
    <3>4. CodecAfter(codec, f.stream, m, taken) =
             [open |-> codec.open, stream |-> f.stream, inSeq |-> m, taken |-> taken]
      BY <1>3, <3>3, CodecTakes
    <3>5. [open |-> codec.open, stream |-> f.stream, inSeq |-> m, taken |-> taken] \in Codecs
      BY <3>3 DEF Codecs
    <3> QED
      BY <3>2, <3>4, <3>5 DEF m, taken
  <2> HIDE DEF f, n
  <2>3. /\ Len(codec'.taken) = n + 1 /\ codec'.taken[n + 1] = f.data
        /\ \A i \in 1..n : codec'.taken[i] = codec.taken[i]
        /\ \A i \in 1..n + 1 : i \in 1..n \/ i = n + 1
    BY <1>2, <1>3, <2>2, AppendAt DEF n
  <2>4. SocketTypeOK'
    BY <1>1, <2>1, <2>2 DEF SocketInv, SocketTypeOK
  <2>5. FramesNumbered'
    BY <1>1, <2>1 DEF SocketInv, FramesNumbered, Drawn
  <2>6. TakenOfStream'
    BY <1>2, <2>2, <2>3 DEF TakenOfStream
  <2>7. n # 0 => codec.stream = f.stream
    BY <2>1 DEF n, SocketInv, TakenOfStream
  <2>8. ASSUME NEW i \in 1..n
        PROVE  /\ IF i = 1 THEN codec'.taken[i] = 1 ELSE codec'.taken[i - 1] < codec'.taken[i]
               /\ \E g \in recorded :
                     g.stream = f.stream /\ g.data = codec'.taken[i] /\ g.seq = i - 1
    <3>1. n # 0 /\ (i # 1 => i - 1 \in 1..n)
      BY <1>3
    <3> QED
      BY <2>3, <2>7, <3>1 DEF SocketInv, TakenInOrder, n
  <2>9. IF n + 1 = 1 THEN codec'.taken[n + 1] = 1 ELSE codec'.taken[n] < codec'.taken[n + 1]
    <3>1. CASE n = 0
      <4>1. codec.taken = <<>>
        BY <1>3, <3>1, EmptySeq DEF n
      <4> QED
        BY <2>1, <2>3, <3>1, <4>1
    <3>2. CASE n # 0
      <4>1. n \in 1..n
        BY <1>3, <3>2
      <4>2. PICK g \in recorded : g.stream = f.stream /\ g.data = codec'.taken[n] /\ g.seq = n - 1
        BY <2>8, <4>1
      <4>3. g.seq < f.seq
        BY <1>3, <2>1, <4>2
      <4>4. g.data < f.data
        BY <1>1, <4>2, <4>3 DEF SocketInv, FramesNumbered, Drawn
      <4> QED
        BY <1>3, <2>3, <3>2, <4>2, <4>4
    <3> QED
      BY <3>1, <3>2
  <2>10. TakenInOrder'
    <3> SUFFICES ASSUME NEW i \in 1..n + 1
                 PROVE  /\ IF i = 1 THEN codec'.taken[i] = 1 ELSE codec'.taken[i - 1] < codec'.taken[i]
                        /\ \E g \in recorded :
                              g.stream = f.stream /\ g.data = codec'.taken[i] /\ g.seq = i - 1
      <4>1. Len(codec'.taken) = n + 1 /\ codec'.stream = f.stream /\ recorded' = recorded
        BY <1>1, <2>2, <2>3
      <4> QED
        BY <4>1 DEF TakenInOrder
    <3>1. CASE i \in 1..n
      BY <2>8, <3>1
    <3>2. CASE i = n + 1
      <4>1. i - 1 = n
        BY <1>3, <3>2
      <4> QED
        BY <1>1, <2>1, <2>3, <2>9, <3>2, <4>1
    <3> QED
      BY <2>3, <3>1, <3>2
  <2> QED
    BY <2>4, <2>5, <2>6, <2>10 DEF SocketInv
<1> QED
  BY <1>4, <1>5

LEMMA NextSocket == SocketInv /\ [FramesNext]_frameVars => SocketInv'
<1> SUFFICES ASSUME SocketInv, [FramesNext]_frameVars PROVE SocketInv'
  OBVIOUS
<1>1. CASE UNCHANGED wsVars
  BY <1>1 DEF wsVars, SocketInv, SocketTypeOK, FramesNumbered, TakenOfStream, TakenInOrder, Drawn
<1>2. CASE Reopen
  <2>1. sockets \in Nat
    BY DEF SocketInv, SocketTypeOK
  <2> QED
    BY <1>2, <2>1, NewParts, PageGone DEF Reopen
<1>3. CASE Disconnect
  <2>1. sockets \in Nat /\ sockets' = sockets
    BY <1>3 DEF Disconnect, SocketInv, SocketTypeOK
  <2> QED
    BY <1>3, <2>1, CodecShut, PageGone DEF Disconnect
<1>4. ASSUME NEW f \in recorded, Redeliver(f) PROVE SocketInv'
  <2>1. wire' = Append(wire, f) /\ UNCHANGED <<page, codec, sockets, recorded>>
    BY <1>4 DEF Redeliver
  <2>2. SocketTypeOK'
    BY <2>1 DEF SocketInv, SocketTypeOK
  <2> QED
    BY <2>1, <2>2 DEF SocketInv, FramesNumbered, TakenOfStream, TakenInOrder, Drawn
<1> QED
  BY <1>1, <1>2, <1>3, <1>4, OpenKeeps, TypeKeeps, SealedKeeps, ReceiveKeeps
     DEF FramesNext, SocketStep, RequestStep, Accept, Arrive, Clock, frameVars, wsVars

-----------------------------------------------------------------------------
(* Requests.  What was let through within the TTL is still in the cache, or  *)
(* more requests than it holds have been let through since.                  *)

Admission == [req : Requests, at : Nat]
AcceptedUpTo(j) == {accepted[k].req : k \in 1..j}

RequestTypeOK ==
    /\ clock \in Nat /\ cache \in [Requests -> Nat] /\ arrived \in [Requests -> Nat]
    /\ accepted \in Seq(Admission)

CachedAccepted == \A r \in Requests : cache[r] > clock => r \in AcceptedUpTo(Len(accepted))

RememberedOrMany ==
    \A i \in 1..Len(accepted) :
        \/ accepted[i].at + ReplayTTL <= cache[accepted[i].req]
        \/ accepted[i].at + ReplayTTL <= clock
        \/ Cardinality(AcceptedUpTo(Len(accepted))) > ReplayLimit

RequestInv == RequestTypeOK /\ CachedAccepted /\ RememberedOrMany /\ AppliedOnce
LEMMA InitRequest == FramesInit => RequestInv
BY FramesAssumption DEF FramesInit, RequestInv, RequestTypeOK, CachedAccepted, RememberedOrMany, AppliedOnce

LEMMA AcceptedAt ==
    ASSUME RequestTypeOK, NEW i \in 1..Len(accepted)
    PROVE  /\ accepted[i] \in Admission /\ accepted[i].req \in Requests /\ accepted[i].at \in Nat
           /\ cache[accepted[i].req] \in Nat
<1>1. accepted[i] \in Admission
  BY DEF RequestTypeOK
<1>2. accepted[i].req \in Requests /\ accepted[i].at \in Nat
  BY <1>1 DEF Admission
<1> QED
  BY <1>1, <1>2 DEF RequestTypeOK

LEMMA ManyFinite ==
    ASSUME RequestTypeOK, NEW j \in 0..Len(accepted)
    PROVE  AcceptedUpTo(j) \subseteq Requests /\ IsFiniteSet(AcceptedUpTo(j))
           /\ Cardinality(AcceptedUpTo(j)) \in Nat
<1>1. AcceptedUpTo(j) \subseteq Requests
  <2>1. \A i \in 1..j : i \in 1..Len(accepted)
    BY DEF RequestTypeOK
  <2> QED
    BY <2>1, AcceptedAt DEF AcceptedUpTo
<1> QED
  BY <1>1, FramesAssumption, FS_Subset, FS_CardinalityType

\* What Let does: r is let through while no live entry is its own, and entries that are
\* lost either expired or were live in a full cache.
LetThrough(r, c) ==
    /\ c \in [Requests -> Nat] /\ cache[r] <= clock
    /\ Let(r, c)
    /\ \A s \in Requests : c[s] = cache[s] \/ cache[s] <= clock
                           \/ Cardinality(Live(cache)) >= ReplayLimit
    /\ \A s \in Requests : c[s] > clock => cache[s] > clock

LEMMA AcceptCases ==
    ASSUME RequestTypeOK, NEW r \in Requests, Accept(r)
    PROVE  /\ arrived' \in [Requests -> Nat] /\ clock' = clock
           /\ \/ /\ cache' = Purged /\ accepted' = accepted
              \/ \E c : LetThrough(r, c)
<1>1. Purged \in [Requests -> Nat]
  BY DEF Purged, RequestTypeOK
<1>2. arrived' \in [Requests -> Nat] /\ clock' = clock
  BY DEF Accept, Arrive, RequestTypeOK
<1>3. CASE r \in Live(cache)
  BY <1>2, <1>3 DEF Accept
<1>4. CASE r \notin Live(cache) /\ Cardinality(Live(cache)) >= ReplayLimit
  <2>1. PICK old \in Live(cache) : Let(r, [Purged EXCEPT ![old] = 0])
    BY <1>4 DEF Accept
  <2>2. LetThrough(r, [Purged EXCEPT ![old] = 0])
    <3>1. [Purged EXCEPT ![old] = 0] \in [Requests -> Nat]
      BY <1>1
    <3>2. \A s \in Requests : [Purged EXCEPT ![old] = 0][s] > clock => cache[s] > clock
      BY DEF Purged, Live, RequestTypeOK
    <3>3. cache[r] <= clock
      BY <1>4 DEF Live, RequestTypeOK
    <3> QED
      BY <1>4, <2>1, <3>1, <3>2, <3>3 DEF LetThrough
  <2> QED
    BY <1>2, <2>2
<1>5. CASE r \notin Live(cache) /\ ~(Cardinality(Live(cache)) >= ReplayLimit)
  <2>1. LetThrough(r, Purged)
    BY <1>1, <1>5 DEF Accept, LetThrough, Purged, Live, RequestTypeOK
  <2> QED
    BY <1>2, <2>1
<1> QED
  BY <1>3, <1>4, <1>5

LEMMA LetKeeps ==
    ASSUME RequestInv, NEW r \in Requests, NEW c, LetThrough(r, c), clock' = clock,
           arrived' \in [Requests -> Nat]
    PROVE  RequestInv'
<1> USE DEF RequestInv
<1>n. PICK n \in Nat : n = Len(accepted)
  BY DEF RequestTypeOK
<1> DEFINE new == [req |-> r, at |-> clock]
<1>0. accepted' = Append(accepted, new) /\ cache' = [c EXCEPT ![r] = clock + ReplayTTL] /\ new \in Admission
  BY DEF LetThrough, Let, RequestTypeOK, Admission
<1>1. /\ RequestTypeOK' /\ Len(accepted') = n + 1 /\ n \in Nat
      /\ accepted'[n + 1] = new
      /\ \A i \in 1..n : accepted'[i] = accepted[i]
  <2> HIDE DEF new
  <2> QED
    BY <1>n, <1>0, FramesAssumption DEF LetThrough, RequestTypeOK
<1>2. \A j \in 1..n : AcceptedUpTo(j)' = AcceptedUpTo(j)
  <2> SUFFICES ASSUME NEW j \in 1..n PROVE AcceptedUpTo(j)' = AcceptedUpTo(j)
    OBVIOUS
  <2>1. \A k \in 1..j : accepted'[k].req = accepted[k].req
    BY <1>1
  <2> HIDE DEF RequestInv
  <2> QED
    BY <2>1 DEF AcceptedUpTo
<1>3. AcceptedUpTo(n + 1)' = AcceptedUpTo(n) \cup {r}
  <2>1. 1..n + 1 = (1..n) \cup {n + 1}
    BY <1>1
  <2>2. \A k \in 1..n : accepted'[k].req = accepted[k].req
    BY <1>1
  <2>3. accepted'[n + 1].req = r
    BY <1>1
  <2> HIDE DEF RequestInv
  <2> QED
    BY <2>1, <2>2, <2>3 DEF AcceptedUpTo
<1>4. /\ cache' = [c EXCEPT ![r] = clock + ReplayTTL]
      /\ cache'[r] = clock + ReplayTTL /\ \A s \in Requests \ {r} : cache'[s] = c[s]
  BY DEF LetThrough, Let
<1>5. CachedAccepted'
  <2>1. \A s \in Requests \ {r} : cache'[s] > clock => s \in AcceptedUpTo(n)
    BY <1>n, <1>4 DEF CachedAccepted, LetThrough
  <2>2. AcceptedUpTo(Len(accepted))' = AcceptedUpTo(n + 1)'
    BY <1>1 DEF AcceptedUpTo
  <2> QED
    BY <1>3, <2>1, <2>2 DEF CachedAccepted
<1>6. /\ IsFiniteSet(AcceptedUpTo(n)) /\ IsFiniteSet(AcceptedUpTo(n) \cup {r})
      /\ Cardinality(AcceptedUpTo(n)) \in Nat /\ Cardinality(AcceptedUpTo(n) \cup {r}) \in Nat
      /\ Cardinality(AcceptedUpTo(n)) <= Cardinality(AcceptedUpTo(n) \cup {r})
  <2>1. IsFiniteSet(AcceptedUpTo(n)) /\ Cardinality(AcceptedUpTo(n)) \in Nat
    BY <1>n, <1>1, ManyFinite
  <2>2. IsFiniteSet(AcceptedUpTo(n) \cup {r})
    BY <2>1, FS_AddElement
  <2> QED
    BY <2>1, <2>2, FS_Subset, FS_CardinalityType
\* a full cache: those that live in it and r have all been let through
<1>7. Cardinality(Live(cache)) >= ReplayLimit => Cardinality(AcceptedUpTo(n) \cup {r}) > ReplayLimit
  <2> HAVE Cardinality(Live(cache)) >= ReplayLimit
  <2>1. Live(cache) \subseteq AcceptedUpTo(n) /\ r \notin Live(cache)
    BY <1>n DEF CachedAccepted, Live, LetThrough, RequestTypeOK
  <2>2. IsFiniteSet(Live(cache)) /\ Cardinality(Live(cache)) \in Nat
    BY <1>6, <2>1, FS_Subset, FS_CardinalityType
  <2>3. /\ IsFiniteSet(Live(cache) \cup {r})
        /\ Cardinality(Live(cache) \cup {r}) = Cardinality(Live(cache)) + 1
    BY <2>1, <2>2, FS_AddElement
  <2>4. Cardinality(Live(cache) \cup {r}) <= Cardinality(AcceptedUpTo(n) \cup {r})
    BY <1>6, <2>1, FS_Subset
  <2> QED
    BY <1>6, <2>2, <2>3, <2>4, FramesAssumption
<1>8. RememberedOrMany'
  <2>1. ASSUME NEW i \in 1..n
        PROVE  \/ accepted[i].at + ReplayTTL <= cache'[accepted[i].req]
               \/ accepted[i].at + ReplayTTL <= clock
               \/ Cardinality(AcceptedUpTo(n) \cup {r}) > ReplayLimit
    <3> DEFINE s == accepted[i].req
    <3>1. s \in Requests /\ accepted[i].at \in Nat /\ cache[s] \in Nat /\ clock \in Nat /\ cache[r] \in Nat
          /\ cache[r] <= clock /\ ReplayTTL \in Nat /\ ReplayLimit \in Nat /\ ReplayTTL > 0
      BY <1>n, AcceptedAt, FramesAssumption DEF RequestTypeOK, LetThrough
    <3>2. CASE accepted[i].at + ReplayTTL <= cache[s]
      <4>1. CASE s = r
        BY <3>1, <3>2, <4>1
      <4>2. CASE s # r
        <5>1. cache'[s] = cache[s] \/ cache[s] <= clock \/ Cardinality(Live(cache)) >= ReplayLimit
          BY <1>4, <3>1, <4>2 DEF LetThrough
        <5> QED
          BY <1>7, <3>1, <3>2, <5>1
      <4> QED
        BY <4>1, <4>2
    <3>3. CASE Cardinality(AcceptedUpTo(n)) > ReplayLimit
      BY <1>6, <3>1, <3>3
    <3> QED
      BY <1>n, <3>2, <3>3 DEF RememberedOrMany
  <2>2. accepted'[n + 1].at + ReplayTTL <= cache'[accepted'[n + 1].req]
    BY <1>1, <1>4, FramesAssumption DEF RequestTypeOK
  <2>3. AcceptedUpTo(Len(accepted))' = AcceptedUpTo(n + 1)'
    BY <1>1 DEF AcceptedUpTo
  <2>4. \A i \in 1..n + 1 : i \in 1..n \/ i = n + 1
    BY <1>1
  <2> QED
    BY <1>1, <1>3, <2>1, <2>2, <2>3, <2>4 DEF RememberedOrMany
<1>9. AppliedOnce'
  <2> SUFFICES ASSUME NEW i \in 1..n + 1, NEW j \in 1..n + 1, i < j, accepted'[i].req = accepted'[j].req
               PROVE  \/ accepted'[j].at >= accepted'[i].at + ReplayTTL
                      \/ Cardinality(AcceptedUpTo(j)') > ReplayLimit
    BY <1>1 DEF AppliedOnce, AcceptedUpTo
  <2>1. CASE j \in 1..n
    <3>1. i \in 1..n /\ accepted[i].req = accepted[j].req
      BY <1>1, <2>1
    <3>2. accepted[j].at >= accepted[i].at + ReplayTTL \/ Cardinality(AcceptedUpTo(j)) > ReplayLimit
      BY <1>n, <2>1, <3>1 DEF AppliedOnce, AcceptedUpTo
    <3> QED
      BY <1>1, <1>2, <2>1, <3>1, <3>2
  <2>2. CASE j = n + 1
    <3>1. i \in 1..n /\ accepted[i].req = r
      BY <1>1, <2>2
    <3>2. /\ accepted[i].at \in Nat /\ cache[r] \in Nat /\ clock \in Nat /\ cache[r] <= clock
          /\ ReplayTTL \in Nat /\ ReplayLimit \in Nat
      BY <1>n, <3>1, AcceptedAt, FramesAssumption DEF RequestTypeOK, LetThrough
    <3>3. \/ accepted[i].at + ReplayTTL <= clock
          \/ Cardinality(AcceptedUpTo(n)) > ReplayLimit
      BY <1>n, <3>1, <3>2 DEF RememberedOrMany
    <3>4. accepted'[j].at = clock /\ accepted'[i].at = accepted[i].at
      BY <1>1, <2>2, <3>1
    <3>5. AcceptedUpTo(j)' = AcceptedUpTo(n) \cup {r}
      BY <1>3, <2>2
    <3> QED
      BY <1>6, <3>2, <3>3, <3>4, <3>5
  <2> QED
    BY <1>1, <2>1, <2>2
<1> QED
  BY <1>1, <1>5, <1>8, <1>9

LEMMA NextRequest == RequestInv /\ [FramesNext]_frameVars => RequestInv'
<1> SUFFICES ASSUME RequestInv, [FramesNext]_frameVars PROVE RequestInv'
  OBVIOUS
<1> USE DEF RequestInv
<1>1. CASE UNCHANGED httpVars
  <2>1. UNCHANGED <<arrived, clock, cache, accepted>>
    BY <1>1 DEF httpVars
  <2>2. RequestTypeOK'
    BY <2>1 DEF RequestTypeOK
  <2>3. CachedAccepted'
    BY <2>1 DEF CachedAccepted, AcceptedUpTo
  <2>5. AppliedOnce'
    BY <2>1 DEF AppliedOnce
  <2>4. RememberedOrMany'
    BY <2>1 DEF RememberedOrMany, AcceptedUpTo
  <2> QED
    BY <2>2, <2>3, <2>4, <2>5
<1>2. ASSUME NEW r \in Requests, Accept(r) PROVE RequestInv'
  <2>1. CASE cache' = Purged /\ accepted' = accepted
    <3>1. arrived' \in [Requests -> Nat] /\ clock' = clock
      BY <1>2, AcceptCases
    <3>2. RequestTypeOK' /\ \A s \in Requests : cache'[s] = cache[s] \/ (cache[s] <= clock /\ cache'[s] = 0)
      BY <2>1, <3>1 DEF RequestTypeOK, Purged
    <3>3. CachedAccepted' /\ AppliedOnce'
      <4>1. \A j : AcceptedUpTo(j)' = AcceptedUpTo(j)
        BY <2>1 DEF AcceptedUpTo
      <4>2. \A s \in Requests : cache'[s] > clock => cache[s] > clock
        <5>1. clock \in Nat
          BY DEF RequestTypeOK
        <5> QED
          BY <3>2, <5>1
      <4>3. CachedAccepted'
        BY <2>1, <3>1, <4>1, <4>2 DEF CachedAccepted
      <4> QED
        BY <2>1, <4>3 DEF AppliedOnce
    <3>4. RememberedOrMany'
      <4> SUFFICES ASSUME NEW i \in 1..Len(accepted)
                   PROVE  \/ accepted[i].at + ReplayTTL <= cache'[accepted[i].req]
                          \/ accepted[i].at + ReplayTTL <= clock
                          \/ Cardinality(AcceptedUpTo(Len(accepted))) > ReplayLimit
        BY <2>1, <3>1 DEF RememberedOrMany, AcceptedUpTo
      <4>1. accepted[i].req \in Requests /\ accepted[i].at \in Nat /\ clock \in Nat
            /\ cache[accepted[i].req] \in Nat /\ ReplayTTL \in Nat
        BY AcceptedAt, FramesAssumption DEF RequestTypeOK
      <4> QED
        BY <3>2, <4>1 DEF RememberedOrMany
    <3> QED
      BY <3>2, <3>3, <3>4
  <2>2. ASSUME NEW c, LetThrough(r, c) PROVE RequestInv'
    BY <1>2, <2>2, AcceptCases, LetKeeps
  <2> QED
    BY <1>2, <2>1, <2>2, AcceptCases
<1>3. CASE Clock
  <2>1. clock' = clock + 1 /\ cache' = cache /\ accepted' = accepted /\ arrived' = arrived
    BY <1>3 DEF Clock
  <2>2. RequestTypeOK' /\ AppliedOnce' /\ CachedAccepted'
    BY <2>1 DEF RequestTypeOK, CachedAccepted, AppliedOnce, AcceptedUpTo
  <2>3. RememberedOrMany'
    <3> SUFFICES ASSUME NEW i \in 1..Len(accepted)
                 PROVE  \/ accepted[i].at + ReplayTTL <= cache[accepted[i].req]
                        \/ accepted[i].at + ReplayTTL <= clock + 1
                        \/ Cardinality(AcceptedUpTo(Len(accepted))) > ReplayLimit
      BY <2>1 DEF RememberedOrMany, AcceptedUpTo
    <3>1. accepted[i].at \in Nat /\ clock \in Nat /\ ReplayTTL \in Nat
      BY AcceptedAt, FramesAssumption DEF RequestTypeOK
    <3> QED
      BY <3>1 DEF RememberedOrMany
  <2> QED
    BY <2>2, <2>3
<1> QED
  BY <1>1, <1>2, <1>3
     DEF FramesNext, SocketStep, RequestStep, Open, Type, Sealed, Receive, Disconnect, Reopen, Redeliver,
         frameVars, httpVars

THEOREM FramesInvariant == FramesSpec => [](SocketInv /\ RequestInv)
BY InitSocket, InitRequest, NextSocket, NextRequest, PTL DEF FramesSpec

\* TakenOnce: whatever recorded frames the relay puts in, a socket takes each frame of one
\* stream once and in the order it was typed, and a sealed request is let through a second
\* time only when its TTL is over or the cache has been too small for what came since.
THEOREM FramesTakenOnce == FramesSpec => []TakenOnce
<1>1. SocketInv /\ RequestInv => TakenOnce
  BY DEF SocketInv, RequestInv, TakenOnce
<1> QED
  BY <1>1, FramesInvariant, PTL
-----------------------------------------------------------------------------
(* The app events.  All that is under way to the browser is of this epoch,   *)
(* and what the frame that ends a recovery by snapshot counts has been told, *)
(* or is told by a frame before it: by a snapshot as late as it, or by its   *)
(* own; unless the handler passed it over.                                   *)

EventFrames == [type : {"event", "snapshot", "recovery"}, seq : Nat, epoch : Nat,
                mode : {"none", "snapshot", "replay"}]
PCs == {"none", "hello", "subscribed", "stream"}

EventsTypeOK ==
    /\ seq \in Nat /\ epoch \in Nat /\ lastSeq \in Nat /\ from \in 0..epoch
    /\ channel \in Seq(Nat) /\ line \in Seq(EventFrames)
    /\ conn \in [pc : PCs, todo : Seq(EventFrames)]

Settles(f) == f.type = "recovery" /\ f.mode = "snapshot"
Covers(f, m) == (f.type = "snapshot" /\ m <= f.seq) \/ (f.type = "event" /\ f.seq = m)
\* A snapshot that is yet to be written will be as late as the bus is now.
WillCover(f, m) == f.type = "snapshot" \/ (f.type = "event" /\ f.seq = m)

OfThisEpoch(q) == \A i \in 1..Len(q) : q[i].epoch = epoch /\ (q[i].mode = "snapshot" => q[i].type = "recovery")

LineCovered ==
    \A i \in 1..Len(line) : Settles(line[i]) =>
        \A m \in 1..line[i].seq : WasTold(m) \/ \E j \in 1..i - 1 : Covers(line[j], m)

TodoCovered ==
    \A i \in 1..Len(conn.todo) : Settles(conn.todo[i]) =>
        /\ conn.todo[i].seq <= seq
        /\ \A m \in 1..conn.todo[i].seq :
              \/ WasTold(m) \/ \E j \in 1..Len(line) : Covers(line[j], m)
              \/ \E j \in 1..i - 1 : WillCover(conn.todo[j], m)

\* A snapshot comes first, and alone or before a whole history.
TodoShape(q) ==
    /\ \A i \in 2..Len(q) : q[i].type # "snapshot"
    /\ \A i \in 1..Len(q) : Settles(q[i]) => i = Len(q)
    /\ q # <<>> /\ q[1].type = "snapshot" =>
          \/ Len(q) = 2
          \/ \A m \in 1..q[Len(q)].seq : \E j \in 2..Len(q) - 1 : q[j].type = "event" /\ q[j].seq = m

EventsInv ==
    /\ EventsTypeOK /\ OfThisEpoch(line) /\ OfThisEpoch(conn.todo)
    /\ conn.pc = "subscribed" => conn.todo # <<>>
    /\ TodoShape(conn.todo) /\ LineCovered /\ TodoCovered /\ CountedIsKnown

LEMMA InitEvents == EventsInit => EventsInv
BY DEF EventsInit, EventsInv, EventsTypeOK, OfThisEpoch, LineCovered, TodoCovered, TodoShape, CountedIsKnown,
       NoConn, PCs

LEMMA HeadIn ==
    ASSUME NEW S, NEW q \in Seq(S), q # <<>>
    PROVE  /\ Head(q) \in S /\ Head(q) = q[1] /\ Tail(q) \in Seq(S) /\ Len(Tail(q)) = Len(q) - 1
           /\ Len(q) \in Nat \ {0} /\ \A i \in 1..Len(Tail(q)) : Tail(q)[i] = q[i + 1] /\ i + 1 \in 1..Len(q)
BY HeadTailProperties, LenProperties

LEMMA OfferIsSeq ==
    ASSUME NEW q \in Seq(Nat), NEW n \in Nat
    PROVE  Offer(q, n) \in Seq(Nat)
BY EventsAssumption DEF Offer

\* The frames before the stream, one by one.
LEMMA TodoAt ==
    ASSUME EventsInv, NEW i \in 1..Len(conn.todo)
    PROVE  /\ conn.todo[i] \in EventFrames /\ conn.todo[i].seq \in Nat
           /\ conn.todo[i].type \in {"event", "snapshot", "recovery"}
<1>1. conn.todo \in Seq(EventFrames)
  BY DEF EventsInv, EventsTypeOK
<1>2. conn.todo[i] \in EventFrames
  BY <1>1
<1> QED
  BY <1>2 DEF EventFrames

LEMMA PublishKeeps == EventsInv /\ Publish => EventsInv'
<1> SUFFICES ASSUME EventsInv, Publish PROVE EventsInv'
  OBVIOUS
<1>1. UNCHANGED <<epoch, conn, line, lastSeq, seen, from, passed>> /\ seq' = seq + 1
  BY DEF Publish
<1>2. channel' \in Seq(Nat)
  BY OfferIsSeq DEF Publish, EventsInv, EventsTypeOK
<1>3. EventsTypeOK'
  BY <1>1, <1>2 DEF EventsInv, EventsTypeOK
<1>4. TodoCovered'
  <2>1. \A m : WasTold(m)' <=> WasTold(m)
    BY <1>1 DEF WasTold
  <2> SUFFICES ASSUME NEW i \in 1..Len(conn.todo), Settles(conn.todo[i]) PROVE conn.todo[i].seq <= seq + 1
    BY <1>1, <2>1 DEF EventsInv, TodoCovered, Settles, Covers, WillCover
  <2>2. conn.todo[i].seq \in Nat /\ seq \in Nat /\ conn.todo[i].seq <= seq
    BY TodoAt DEF EventsInv, EventsTypeOK, TodoCovered
  <2> QED
    BY <2>2
<1> QED
  BY <1>1, <1>3, <1>4
     DEF EventsInv, OfThisEpoch, LineCovered, TodoShape, CountedIsKnown, WasTold, Settles, Covers

LEMMA HangupKeeps ==
    ASSUME EventsInv, Hangup, seq' \in Nat, epoch' \in Nat, epoch <= epoch', lastSeq' = lastSeq,
           seen' = seen, from' = from, passed' = passed
    PROVE  EventsInv'
<1>1. EventsTypeOK'
  BY DEF Hangup, NoConn, EventsInv, EventsTypeOK, PCs
<1>2. from' = epoch' => epoch' = epoch
  BY DEF EventsInv, EventsTypeOK
<1>3. CountedIsKnown'
  BY <1>2 DEF EventsInv, CountedIsKnown, WasTold
<1> QED
  BY <1>1, <1>3 DEF Hangup, NoConn, EventsInv, OfThisEpoch, LineCovered, TodoCovered, TodoShape

LEMMA ConnectKeeps == EventsInv /\ Connect => EventsInv'
<1> SUFFICES ASSUME EventsInv, Connect PROVE EventsInv'
  OBVIOUS
<1>1. /\ conn' = [pc |-> "hello", todo |-> <<>>] /\ line' = <<>>
      /\ UNCHANGED <<seq, epoch, channel, lastSeq, seen, from, passed>>
  BY DEF Connect, NoConn
<1>2. EventsTypeOK'
  BY <1>1 DEF EventsInv, EventsTypeOK, PCs
<1> QED
  BY <1>1, <1>2 DEF EventsInv, OfThisEpoch, LineCovered, TodoCovered, TodoShape, CountedIsKnown, WasTold

LEMMA ReplayIsEvents ==
    ASSUME EventsTypeOK
    PROVE  /\ Replay(lastSeq) \in Seq(EventFrames)
           /\ \A i \in 1..Len(Replay(lastSeq)) : /\ Replay(lastSeq)[i].epoch = epoch
                                                 /\ Replay(lastSeq)[i].mode = "none"
                                                 /\ Replay(lastSeq)[i].type = "event"
           /\ NeedsSnapshot(lastSeq) => Replay(lastSeq) = <<>>
           \* a page that has counted nothing is replayed all there was, or nothing
           /\ lastSeq = 0 /\ ~NeedsSnapshot(lastSeq) =>
                 /\ Len(Replay(lastSeq)) = seq
                 /\ \A i \in 1..seq : Replay(lastSeq)[i].seq = i
<1> DEFINE later == {m \in Earliest..seq : m > lastSeq}
           c == Cardinality(later)
<1>1. c \in Nat /\ c <= seq /\ (lastSeq = 0 /\ ~NeedsSnapshot(lastSeq) => c = seq)
  <2>1. later \subseteq 1..seq
    BY EventsAssumption DEF EventsTypeOK, Earliest
  <2>2. IsFiniteSet(1..seq) /\ Cardinality(1..seq) = seq
    BY FS_Interval DEF EventsTypeOK
  <2>3. lastSeq = 0 /\ ~NeedsSnapshot(lastSeq) => later = 1..seq
    <3> HAVE lastSeq = 0 /\ ~NeedsSnapshot(lastSeq)
    <3>1. CASE seq = 0
      BY <2>1, <3>1
    <3>2. CASE seq # 0
      <4>1. seq \in Nat /\ Earliest \in Int /\ Earliest <= 1
        BY <3>2, EventsAssumption DEF EventsTypeOK, NeedsSnapshot, Earliest
      <4>2. \A m \in 1..seq : m \in Earliest..seq /\ m > lastSeq
        BY <4>1
      <4> QED
        BY <2>1, <4>2
    <3> QED
      BY <3>1, <3>2
  <2> QED
    BY <2>1, <2>2, <2>3, FS_Subset, FS_CardinalityType
<1>2. Replay(lastSeq) = IF NeedsSnapshot(lastSeq) THEN <<>> ELSE [i \in 1..c |-> EventFrame(seq - c + i)]
  BY DEF Replay
<1> HIDE DEF c
<1>3. \A i \in 1..c : seq - c + i \in Nat /\ EventFrame(seq - c + i) \in EventFrames
  BY <1>1 DEF EventsTypeOK, EventFrame, EventFrames
<1>4. [i \in 1..c |-> EventFrame(seq - c + i)] \in Seq(EventFrames)
  BY <1>1, <1>3, IsASeq
<1>5. Len([i \in 1..c |-> EventFrame(seq - c + i)]) = c
  BY <1>1, <1>4, LenProperties
<1>6. \A i \in 1..c : /\ EventFrame(seq - c + i).epoch = epoch /\ EventFrame(seq - c + i).mode = "none"
                      /\ EventFrame(seq - c + i).type = "event" /\ EventFrame(seq - c + i).seq = seq - c + i
  BY DEF EventFrame
<1>7. CASE NeedsSnapshot(lastSeq)
  <2>1. Replay(lastSeq) = <<>>
    BY <1>2, <1>7
  <2> QED
    BY <1>7, <2>1
<1>8. CASE ~NeedsSnapshot(lastSeq)
  <2>1. Replay(lastSeq) = [i \in 1..c |-> EventFrame(seq - c + i)]
    BY <1>2, <1>8
  <2>2. lastSeq = 0 => c = seq /\ \A i \in 1..seq : seq - c + i = i
    BY <1>1, <1>8 DEF EventsTypeOK
  <2> QED
    BY <1>4, <1>5, <1>6, <1>8, <2>1, <2>2
<1> QED
  BY <1>7, <1>8

\* What Subscribe makes of a connection: a snapshot or none, the replay, the recovery.
LEMMA OpeningTodo ==
    ASSUME EventsInv, Subscribe
    PROVE  /\ conn' \in [pc : PCs, todo : Seq(EventFrames)] /\ conn'.pc = "subscribed" /\ conn'.todo # <<>>
           /\ TodoShape(conn'.todo)
           /\ \A i \in 1..Len(conn'.todo) :
                 /\ conn'.todo[i].epoch = epoch
                 /\ conn'.todo[i].mode = "snapshot" => conn'.todo[i].type = "recovery"
                 /\ Settles(conn'.todo[i]) =>
                       conn'.todo[i].seq = seq /\ \E j \in 1..i - 1 : conn'.todo[j].type = "snapshot"
<1> DEFINE whole == lastSeq = 0 \/ NeedsSnapshot(lastSeq)
           opening == IF whole THEN <<SnapshotFrame>> ELSE <<>>
           last == RecoveryFrame(IF whole THEN "snapshot" ELSE "replay", seq)
           middle == Replay(lastSeq)
           todo == (opening \o middle) \o <<last>>
<1>1. conn' = [pc |-> "subscribed", todo |-> todo]
  BY DEF Subscribe
<1>2. SnapshotFrame \in EventFrames /\ last \in EventFrames
  BY DEF EventsInv, EventsTypeOK, SnapshotFrame, RecoveryFrame, EventFrames
<1>3. /\ middle \in Seq(EventFrames)
      /\ \A i \in 1..Len(middle) : middle[i].epoch = epoch /\ middle[i].mode = "none" /\ middle[i].type = "event"
      /\ whole => middle = <<>> \/ (Len(middle) = seq /\ \A i \in 1..seq : middle[i].seq = i)
  BY ReplayIsEvents DEF EventsInv
<1>4. /\ last.epoch = epoch /\ last.type = "recovery" /\ last.seq = seq
      /\ last.mode = (IF whole THEN "snapshot" ELSE "replay")
      /\ SnapshotFrame.epoch = epoch /\ SnapshotFrame.mode = "none" /\ SnapshotFrame.type = "snapshot"
  BY DEF SnapshotFrame, RecoveryFrame
<1> HIDE DEF last, middle
<1>5. /\ opening \in Seq(EventFrames)
      /\ Len(opening) = IF whole THEN 1 ELSE 0
      /\ whole => opening[1] = SnapshotFrame
  BY <1>2
<1> HIDE DEF opening, whole
<1>6. /\ opening \o middle \in Seq(EventFrames) /\ Len(opening \o middle) = Len(opening) + Len(middle)
      /\ \A i \in 1..Len(opening) + Len(middle) :
            (opening \o middle)[i] = IF i <= Len(opening) THEN opening[i] ELSE middle[i - Len(opening)]
  BY <1>3, <1>5, ConcatProperties
<1> DEFINE first == opening \o middle
<1>7. \A i \in 1..Len(first) : /\ first[i].epoch = epoch /\ first[i].mode = "none"
                               /\ first[i].type = IF whole /\ i = 1 THEN "snapshot" ELSE "event"
  <2> TAKE i \in 1..Len(first)
  <2>1. CASE i <= Len(opening)
    <3>1. whole /\ i = 1
      BY <1>5, <2>1
    <3> QED
      BY <1>4, <1>5, <1>6, <2>1, <3>1
  <2>2. CASE ~(i <= Len(opening))
    <3>1. i - Len(opening) \in 1..Len(middle) /\ ~(whole /\ i = 1)
      BY <1>3, <1>5, <1>6, <2>2
    <3> QED
      BY <1>3, <1>6, <2>2, <3>1
  <2> QED
    BY <2>1, <2>2
<1>8. whole => /\ Len(first) >= 1
               /\ \/ Len(first) = 1
                  \/ \A m \in 1..seq : m + 1 \in 2..Len(first) /\ first[m + 1].seq = m
  <2> HAVE whole
  <2>1. Len(opening) = 1 /\ Len(first) = 1 + Len(middle) /\ Len(middle) \in Nat
    BY <1>3, <1>5, <1>6
  <2>2. CASE middle = <<>>
    BY <2>1, <2>2
  <2>3. CASE Len(middle) = seq /\ \A i \in 1..seq : middle[i].seq = i
    <3> SUFFICES ASSUME NEW m \in 1..seq PROVE m + 1 \in 2..Len(first) /\ first[m + 1].seq = m
      BY <2>1
    <3>1. m + 1 \in 1..Len(opening) + Len(middle) /\ ~(m + 1 <= Len(opening)) /\ (m + 1) - Len(opening) = m
          /\ m + 1 \in 2..Len(first)
      BY <2>1, <2>3
    <3> QED
      BY <1>6, <2>3, <3>1
  <2> QED
    BY <1>3, <2>2, <2>3
<1>9. first \in Seq(EventFrames) /\ Len(first) \in Nat
  BY <1>6
<1> HIDE DEF first
<1>10. /\ todo \in Seq(EventFrames) /\ Len(todo) = Len(first) + 1 /\ todo[Len(first) + 1] = last
       /\ \A i \in 1..Len(first) : todo[i] = first[i]
  <2>1. <<last>> \in Seq(EventFrames) /\ Len(<<last>>) = 1 /\ <<last>>[1] = last
    BY <1>2
  <2>2. todo = first \o <<last>>
    BY DEF first
  <2> HIDE DEF todo
  <2>3. \A i \in 1..Len(first) + 1 : todo[i] = IF i <= Len(first) THEN first[i] ELSE <<last>>[i - Len(first)]
    BY <1>9, <2>1, <2>2, ConcatProperties
  <2> QED
    BY <1>9, <2>1, <2>2, <2>3, ConcatProperties
<1> HIDE DEF todo
<1>11. ASSUME NEW i \in 1..Len(todo)
       PROVE  /\ todo[i].epoch = epoch
              /\ todo[i].mode = "snapshot" => todo[i].type = "recovery"
              /\ todo[i].type = "snapshot" <=> (whole /\ i = 1)
              /\ Settles(todo[i]) => /\ todo[i].seq = seq /\ i = Len(todo)
                                     /\ \E j \in 1..i - 1 : todo[j].type = "snapshot"
  <2>1. CASE i \in 1..Len(first)
    BY <1>7, <1>10, <2>1 DEF Settles
  <2>2. CASE i = Len(first) + 1
    <3>1. whole => 1 \in 1..i - 1 /\ todo[1].type = "snapshot" /\ i # 1
      BY <1>7, <1>8, <1>9, <1>10, <2>2
    <3> QED
      BY <1>4, <1>10, <2>2, <3>1 DEF Settles
  <2> QED
    BY <1>9, <1>10, <2>1, <2>2
<1>12. conn'.todo = todo /\ conn'.pc = "subscribed" /\ conn' \in [pc : PCs, todo : Seq(EventFrames)]
  BY <1>1, <1>10 DEF PCs
<1>13. todo # <<>> /\ Len(todo) \in Nat \ {0}
  BY <1>9, <1>10
<1>14. TodoShape(todo)
  <2>1. \A i \in 2..Len(todo) : todo[i].type # "snapshot"
    BY <1>11, <1>13
  <2>2. ASSUME todo[1].type = "snapshot"
        PROVE  \/ Len(todo) = 2
               \/ \A m \in 1..todo[Len(todo)].seq :
                     \E j \in 2..Len(todo) - 1 : todo[j].type = "event" /\ todo[j].seq = m
    <3>1. whole /\ Len(todo) - 1 = Len(first) /\ todo[Len(todo)].seq = seq
      BY <1>4, <1>9, <1>10, <1>11, <1>13, <2>2
    <3>2. CASE Len(first) = 1
      BY <1>10, <3>2
    <3>3. CASE \A m \in 1..seq : m + 1 \in 2..Len(first) /\ first[m + 1].seq = m
      <4> SUFFICES ASSUME NEW m \in 1..seq
                   PROVE  m + 1 \in 2..Len(todo) - 1 /\ todo[m + 1].type = "event" /\ todo[m + 1].seq = m
        BY <3>1
      <4>1. m + 1 \in 2..Len(first) /\ m + 1 \in 1..Len(first) /\ m + 1 # 1
        BY <1>9, <3>3
      <4> QED
        BY <1>7, <1>10, <3>1, <3>3, <4>1
    <3> QED
      BY <1>8, <3>1, <3>2, <3>3
  <2> QED
    BY <1>11, <2>1, <2>2 DEF TodoShape
<1> QED
  BY <1>11, <1>12, <1>13, <1>14

LEMMA SubscribeKeeps == EventsInv /\ Subscribe => EventsInv'
<1> SUFFICES ASSUME EventsInv, Subscribe PROVE EventsInv'
  OBVIOUS
<1>1. UNCHANGED <<seq, epoch, line, lastSeq, seen, from>> /\ channel' = <<>> /\ passed \subseteq passed'
  BY DEF Subscribe
<1>2. EventsTypeOK' /\ conn'.todo # <<>> /\ TodoShape(conn'.todo)
  BY <1>1, OpeningTodo DEF EventsInv, EventsTypeOK
<1>3. OfThisEpoch(conn.todo)'
  BY <1>1, OpeningTodo DEF OfThisEpoch
<1>4. \A m : WasTold(m) => WasTold(m)'
  BY <1>1 DEF WasTold
<1>5. TodoCovered'
  <2> SUFFICES ASSUME NEW i \in 1..Len(conn'.todo), Settles(conn'.todo[i])
               PROVE  conn'.todo[i].seq <= seq /\ \E j \in 1..i - 1 : conn'.todo[j].type = "snapshot"
    BY <1>1 DEF TodoCovered, Settles, WillCover
  <2>1. seq \in Nat /\ conn'.todo[i].seq = seq
    BY OpeningTodo DEF EventsInv, EventsTypeOK
  <2> QED
    BY <2>1, OpeningTodo
<1>6. LineCovered'
  BY <1>1, <1>4 DEF EventsInv, LineCovered
<1>7. CountedIsKnown'
  BY <1>1, <1>4 DEF EventsInv, CountedIsKnown
<1> QED
  BY <1>1, <1>2, <1>3, <1>5, <1>6, <1>7 DEF EventsInv, OfThisEpoch, TodoShape

LEMMA StreamKeeps == EventsInv /\ Stream => EventsInv'
<1> SUFFICES ASSUME EventsInv, Stream PROVE EventsInv'
  OBVIOUS
<1>1. UNCHANGED <<seq, epoch, conn, lastSeq, seen, from, passed>> /\ channel # <<>>
  BY DEF Stream
<1> DEFINE f == EventFrame(Head(channel))
<1>2. Head(channel) \in Nat /\ Tail(channel) \in Seq(Nat)
  BY <1>1, HeadIn DEF EventsInv, EventsTypeOK
<1>3. f \in EventFrames /\ f.epoch = epoch /\ f.mode = "none"
  BY <1>2 DEF EventFrame, EventFrames, EventsInv, EventsTypeOK
<1>4. line' = Append(line, f) /\ channel' = Tail(channel)
  BY DEF Stream
<1> HIDE DEF f
<1>5. /\ line' \in Seq(EventFrames) /\ Len(line') = Len(line) + 1 /\ Len(line) \in Nat
      /\ line'[Len(line) + 1] = f /\ \A i \in 1..Len(line) : line'[i] = line[i]
      /\ \A i \in 1..Len(line') : i \in 1..Len(line) \/ i = Len(line) + 1
  BY <1>3, <1>4, AppendProperties DEF EventsInv, EventsTypeOK
<1>6. EventsTypeOK'
  BY <1>1, <1>2, <1>4, <1>5 DEF EventsInv, EventsTypeOK
<1>7. OfThisEpoch(line)'
  BY <1>1, <1>3, <1>5 DEF EventsInv, OfThisEpoch
<1>t. \A m : WasTold(m)' <=> WasTold(m)
  BY <1>1 DEF WasTold
<1>8. LineCovered'
  <2> SUFFICES ASSUME NEW i \in 1..Len(line'), Settles(line'[i]), NEW m \in 1..line'[i].seq
               PROVE  WasTold(m) \/ \E j \in 1..i - 1 : Covers(line'[j], m)
    BY <1>t DEF LineCovered, Settles, Covers
  <2>1. i \in 1..Len(line) /\ line'[i] = line[i]
    BY <1>3, <1>5 DEF Settles
  <2>2. \A j \in 1..i - 1 : j \in 1..Len(line) /\ line'[j] = line[j]
    BY <1>5, <2>1
  <2> QED
    BY <2>1, <2>2 DEF EventsInv, LineCovered
<1>9. TodoCovered'
  <2>1. \A j \in 1..Len(line) : j \in 1..Len(line') /\ line'[j] = line[j]
    BY <1>5
  <2>2. \A m : (\E j \in 1..Len(line) : Covers(line[j], m)) => \E j \in 1..Len(line') : Covers(line'[j], m)
    BY <2>1
  <2> SUFFICES ASSUME NEW i \in 1..Len(conn.todo), Settles(conn.todo[i])
               PROVE  /\ conn.todo[i].seq <= seq
                      /\ \A m \in 1..conn.todo[i].seq :
                            \/ WasTold(m) \/ \E j \in 1..Len(line') : Covers(line'[j], m)
                            \/ \E j \in 1..i - 1 : WillCover(conn.todo[j], m)
    BY <1>1, <1>t DEF TodoCovered, Settles, Covers, WillCover
  <2> QED
    BY <2>2 DEF EventsInv, TodoCovered
<1>10. OfThisEpoch(conn.todo)' /\ TodoShape(conn.todo)' /\ (conn.pc = "subscribed" => conn.todo # <<>>)'
  BY <1>1 DEF EventsInv, OfThisEpoch, TodoShape, Settles
<1>11. CountedIsKnown'
  BY <1>1, <1>t DEF EventsInv, CountedIsKnown
<1> QED
  BY <1>6, <1>7, <1>8, <1>9, <1>10, <1>11 DEF EventsInv

\* What writing the next frame, or passing it over, makes of the rest.
LEMMA NextTodo ==
    ASSUME EventsInv, NEW frames, WriteNext(frames)
    PROVE  LET t == conn.todo IN
           /\ t # <<>> /\ t \in Seq(EventFrames) /\ 1 \in 1..Len(t) /\ Len(t) \in Nat \ {0} /\ Head(t) = t[1]
           /\ UNCHANGED <<seq, epoch, channel, lastSeq, seen, from>> /\ line' = line \o frames
           /\ conn'.todo \in Seq(EventFrames) /\ Len(conn'.todo) = Len(t) - 1
           /\ \A i \in 1..Len(conn'.todo) : conn'.todo[i] = t[i + 1] /\ i + 1 \in 1..Len(t)
           /\ conn' \in [pc : PCs, todo : Seq(EventFrames)] /\ (conn'.pc = "subscribed" => conn'.todo # <<>>)
           /\ \A i \in 1..Len(conn'.todo) : conn'.todo[i].type # "snapshot"
<1> DEFINE t == conn.todo
<1>1. UNCHANGED <<seq, epoch, channel, lastSeq, seen, from>> /\ t # <<>> /\ t \in Seq(EventFrames)
      /\ line' = line \o frames
  BY DEF WriteNext, EventsInv, EventsTypeOK
<1>2. 1 \in 1..Len(t) /\ Len(t) \in Nat \ {0} /\ Head(t) = t[1]
  BY <1>1, HeadIn
<1>3. /\ conn'.todo \in Seq(EventFrames) /\ Len(conn'.todo) = Len(t) - 1
      /\ \A i \in 1..Len(conn'.todo) : conn'.todo[i] = t[i + 1] /\ i + 1 \in 1..Len(t)
      /\ conn' \in [pc : PCs, todo : Seq(EventFrames)] /\ (conn'.pc = "subscribed" => conn'.todo # <<>>)
  <2>1. CASE Len(t) = 1
    <3>1. conn' = [pc |-> "stream", todo |-> <<>>]
      BY <2>1 DEF WriteNext
    <3> QED
      BY <2>1, <3>1 DEF PCs
  <2>2. CASE Len(t) # 1
    <3>1. conn'.todo = Tail(t) /\ conn'.pc = conn.pc /\ conn' = [conn EXCEPT !.todo = Tail(t)]
      BY <2>2 DEF WriteNext, EventsInv, EventsTypeOK
    <3>2. /\ Tail(t) \in Seq(EventFrames) /\ Len(Tail(t)) = Len(t) - 1 /\ Len(t) \in Nat \ {0}
          /\ \A i \in 1..Len(Tail(t)) : Tail(t)[i] = t[i + 1] /\ i + 1 \in 1..Len(t)
      BY <1>1, HeadIn
    <3>3. conn' \in [pc : PCs, todo : Seq(EventFrames)]
      BY <3>1, <3>2 DEF EventsInv, EventsTypeOK
    <3>4. Tail(t) # <<>>
      <4>1. Len(Tail(t)) # 0
        BY <2>2, <3>2
      <4> QED
        BY <3>2, <4>1, EmptySeq
    <3> QED
      BY <3>1, <3>2, <3>3, <3>4
  <2> QED
    BY <2>1, <2>2
<1>4. \A i \in 1..Len(conn'.todo) : conn'.todo[i].type # "snapshot"
  <2> TAKE i \in 1..Len(conn'.todo)
  <2>1. i + 1 \in 2..Len(t) /\ conn'.todo[i] = t[i + 1]
    BY <1>2, <1>3
  <2> QED
    BY <2>1 DEF EventsInv, TodoShape
<1> QED
  BY <1>1, <1>2, <1>3, <1>4

\* The rest of what precedes the stream keeps its shape.
LEMMA NextTodoShape ==
    ASSUME EventsInv, NEW frames, WriteNext(frames)
    PROVE  TodoShape(conn'.todo) /\ OfThisEpoch(conn.todo)'
<1> DEFINE t == conn.todo
           u == conn'.todo
<1>1. /\ Len(u) = Len(t) - 1 /\ Len(t) \in Nat \ {0} /\ epoch' = epoch
      /\ \A i \in 1..Len(u) : u[i] = t[i + 1] /\ i + 1 \in 1..Len(t) /\ u[i].type # "snapshot"
  BY NextTodo
<1>2. \A i \in 1..Len(t) : Settles(t[i]) => i = Len(t)
  BY DEF EventsInv, TodoShape
<1>3. \A i \in 1..Len(t) : t[i].epoch = epoch /\ (t[i].mode = "snapshot" => t[i].type = "recovery")
  BY DEF EventsInv, OfThisEpoch
<1>6. u \in Seq(EventFrames)
  BY NextTodo
<1> HIDE DEF u
<1>4. OfThisEpoch(conn.todo)'
  <2>1. \A i \in 1..Len(u) : u[i].epoch = epoch' /\ (u[i].mode = "snapshot" => u[i].type = "recovery")
    BY <1>1, <1>3
  <2> QED
    BY <2>1 DEF OfThisEpoch, u
<1>5. TodoShape(u)
  <2>1. \A i \in 1..Len(u) : Settles(u[i]) => i = Len(u)
    BY <1>1, <1>2
  <2>2. u # <<>> => 1 \in 1..Len(u)
    BY <1>6
  <2> QED
    BY <1>1, <2>1, <2>2 DEF TodoShape
<1> QED
  BY <1>4, <1>5 DEF u

LEMMA WriteKeeps == EventsInv /\ WriteTodo => EventsInv'
<1> SUFFICES ASSUME EventsInv, WriteTodo PROVE EventsInv'
  OBVIOUS
<1> DEFINE t == conn.todo
           f == t[1]
           g == IF f.type = "snapshot" THEN [f EXCEPT !.seq = seq] ELSE f
           h == IF Head(t).type = "snapshot" THEN [Head(t) EXCEPT !.seq = seq] ELSE Head(t)
<1>0. WriteNext(<<h>>) /\ passed' = passed
  BY DEF WriteTodo
<1> HIDE DEF h
<1>1. /\ UNCHANGED <<seq, epoch, channel, lastSeq, seen, from, passed>> /\ line' = line \o <<h>>
      /\ 1 \in 1..Len(t) /\ Len(t) \in Nat /\ Head(t) = f
      /\ Len(conn'.todo) = Len(t) - 1
      /\ \A i \in 1..Len(conn'.todo) : conn'.todo[i] = t[i + 1] /\ i + 1 \in 1..Len(t)
      /\ conn' \in [pc : PCs, todo : Seq(EventFrames)] /\ (conn'.pc = "subscribed" => conn'.todo # <<>>)
  BY <1>0, NextTodo
<1>2. line \in Seq(EventFrames) /\ seq \in Nat /\ h = g
  BY <1>1 DEF EventsInv, EventsTypeOK, h
<1>3. f \in EventFrames /\ f.seq \in Nat /\ f.epoch = epoch /\ (f.mode = "snapshot" => f.type = "recovery")
  BY <1>1, TodoAt DEF EventsInv, OfThisEpoch
<1>4. /\ g \in EventFrames /\ g.epoch = epoch /\ (g.mode = "snapshot" => g.type = "recovery")
      /\ g.type = f.type /\ (f.type # "snapshot" => g = f) /\ (f.type = "snapshot" => g.seq = seq)
  BY <1>2, <1>3 DEF EventFrames
<1>s. TodoShape(conn'.todo) /\ OfThisEpoch(conn.todo)'
  BY <1>0, NextTodoShape
<1>t. \A m : WasTold(m)' <=> WasTold(m)
  BY <1>1 DEF WasTold
<1> HIDE DEF g, f
<1>5. /\ line' \in Seq(EventFrames) /\ Len(line') = Len(line) + 1 /\ Len(line) \in Nat
      /\ line'[Len(line) + 1] = g /\ \A i \in 1..Len(line) : line'[i] = line[i]
      /\ \A i \in 1..Len(line') : i \in 1..Len(line) \/ i = Len(line) + 1
  <2>1. <<g>> \in Seq(EventFrames) /\ Len(<<g>>) = 1 /\ <<g>>[1] = g
    BY <1>4
  <2>2. line' = line \o <<g>> /\ Len(line) \in Nat
    BY <1>1, <1>2
  <2>3. \A i \in 1..Len(line) + 1 :
           line'[i] = IF i <= Len(line) THEN line[i] ELSE <<g>>[i - Len(line)]
    BY <1>2, <2>1, <2>2, ConcatProperties
  <2> QED
    BY <1>2, <2>1, <2>2, <2>3, ConcatProperties
<1>7. EventsTypeOK'
  BY <1>1, <1>5 DEF EventsInv, EventsTypeOK
<1>8. OfThisEpoch(line)'
  BY <1>1, <1>4, <1>5 DEF EventsInv, OfThisEpoch
<1>10. LineCovered'
  <2> SUFFICES ASSUME NEW i \in 1..Len(line'), Settles(line'[i]), NEW m \in 1..line'[i].seq
               PROVE  WasTold(m) \/ \E j \in 1..i - 1 : Covers(line'[j], m)
    BY <1>t DEF LineCovered, Settles, Covers
  <2>1. CASE i \in 1..Len(line)
    <3>1. \A j \in 1..i - 1 : j \in 1..Len(line) /\ line'[j] = line[j]
      BY <1>5, <2>1
    <3> QED
      BY <1>5, <2>1, <3>1 DEF EventsInv, LineCovered
  <2>2. CASE i = Len(line) + 1
    <3>1. line'[i] = t[1] /\ Settles(t[1]) /\ 1..(1 - 1) = {}
      BY <1>4, <1>5, <2>2 DEF Settles, f
    <3>2. WasTold(m) \/ \E j \in 1..Len(line) : Covers(line[j], m)
      BY <1>1, <3>1 DEF EventsInv, TodoCovered
    <3>3. \A j \in 1..Len(line) : j \in 1..i - 1 /\ line'[j] = line[j]
      BY <1>5, <2>2
    <3> QED
      BY <3>2, <3>3
  <2> QED
    BY <1>5, <2>1, <2>2
<1>11. TodoCovered'
  <2> SUFFICES ASSUME NEW i \in 1..Len(conn'.todo), Settles(conn'.todo[i])
               PROVE  /\ conn'.todo[i].seq <= seq
                      /\ \A m \in 1..conn'.todo[i].seq :
                            \/ WasTold(m) \/ \E j \in 1..Len(line') : Covers(line'[j], m)
                            \/ \E j \in 1..i - 1 : WillCover(conn'.todo[j], m)
    BY <1>1, <1>t DEF TodoCovered, Settles, Covers, WillCover
  <2>1. conn'.todo[i] = t[i + 1] /\ i + 1 \in 1..Len(t) /\ Settles(t[i + 1]) /\ (i + 1) - 1 = i
    BY <1>1
  <2>2. t[i + 1].seq <= seq /\ t[i + 1].seq \in Nat
    BY <2>1, TodoAt DEF EventsInv, TodoCovered
  <2>3. ASSUME NEW m \in 1..t[i + 1].seq
        PROVE  \/ WasTold(m) \/ \E j \in 1..Len(line') : Covers(line'[j], m)
               \/ \E j \in 1..i - 1 : WillCover(conn'.todo[j], m)
    <3>1. CASE WasTold(m)
      BY <3>1
    <3>2. ASSUME NEW j \in 1..Len(line), Covers(line[j], m)
          PROVE  \E k \in 1..Len(line') : Covers(line'[k], m)
      <4>1. j \in 1..Len(line') /\ line'[j] = line[j]
        BY <1>5
      <4> QED
        BY <3>2, <4>1
    <3>3. ASSUME NEW j \in 1..i, WillCover(t[j], m)
          PROVE  \/ \E k \in 1..Len(line') : Covers(line'[k], m)
                 \/ \E k \in 1..i - 1 : WillCover(conn'.todo[k], m)
      <4>1. CASE j = 1
        <5>1. m <= seq
          BY <1>2, <2>2
        <5>2. Covers(g, m)
          BY <1>4, <3>3, <4>1, <5>1 DEF Covers, WillCover, f
        <5>3. Len(line) + 1 \in 1..Len(line')
          BY <1>5
        <5> QED
          BY <1>5, <5>2, <5>3
      <4>2. CASE j # 1
        <5>1. j - 1 \in 1..i - 1 /\ j - 1 \in 1..Len(conn'.todo) /\ (j - 1) + 1 = j
          BY <4>2
        <5>2. conn'.todo[j - 1] = t[j]
          BY <1>1, <5>1
        <5> QED
          BY <3>3, <5>1, <5>2
      <4> QED
        BY <4>1, <4>2
    <3> QED
      BY <2>1, <3>1, <3>2, <3>3 DEF EventsInv, TodoCovered
  <2> QED
    BY <2>1, <2>2, <2>3
<1> QED
  BY <1>1, <1>t, <1>s, <1>7, <1>8, <1>10, <1>11 DEF EventsInv, CountedIsKnown, TodoShape

LEMMA PassKeeps == EventsInv /\ SnapshotFails => EventsInv'
<1> SUFFICES ASSUME EventsInv, SnapshotFails PROVE EventsInv'
  OBVIOUS
<1> DEFINE t == conn.todo
<1>0. WriteNext(<<>>) /\ Head(t).type = "snapshot"
      /\ passed' = IF Len(t) > 2 THEN passed ELSE passed \cup EventsTo(t[Len(t)].seq)
  BY DEF SnapshotFails
<1>1. /\ UNCHANGED <<seq, epoch, channel, lastSeq, seen, from>> /\ line' = line \o <<>>
      /\ t # <<>> /\ 1 \in 1..Len(t) /\ Len(t) \in Nat /\ Head(t) = t[1]
      /\ Len(conn'.todo) = Len(t) - 1
      /\ \A i \in 1..Len(conn'.todo) : conn'.todo[i] = t[i + 1] /\ i + 1 \in 1..Len(t)
      /\ conn' \in [pc : PCs, todo : Seq(EventFrames)] /\ (conn'.pc = "subscribed" => conn'.todo # <<>>)
  BY <1>0, NextTodo
<1>2. line' = line
  BY <1>1 DEF EventsInv, EventsTypeOK
<1>3. \A m : WasTold(m) => WasTold(m)'
  BY <1>0, <1>1 DEF WasTold
<1>4. EventsTypeOK'
  BY <1>1, <1>2 DEF EventsInv, EventsTypeOK
<1>5. TodoShape(conn'.todo) /\ OfThisEpoch(conn.todo)'
  BY <1>0, NextTodoShape
<1>6. LineCovered' /\ CountedIsKnown'
  BY <1>1, <1>2, <1>3 DEF EventsInv, LineCovered, CountedIsKnown
<1>7. OfThisEpoch(line)'
  BY <1>1, <1>2 DEF EventsInv, OfThisEpoch
<1>8. TodoCovered'
  <2> SUFFICES ASSUME NEW i \in 1..Len(conn'.todo), Settles(conn'.todo[i])
               PROVE  /\ conn'.todo[i].seq <= seq
                      /\ \A m \in 1..conn'.todo[i].seq :
                            WasTold(m)' \/ \E j \in 1..i - 1 : WillCover(conn'.todo[j], m)
    BY <1>1 DEF TodoCovered, Settles, WillCover
  <2>1. conn'.todo[i] = t[i + 1] /\ i + 1 \in 1..Len(t) /\ Settles(t[i + 1])
    BY <1>1
  <2>2. t[i + 1].seq <= seq /\ i + 1 = Len(t)
    BY <2>1 DEF EventsInv, TodoCovered, TodoShape
  <2>3. CASE Len(t) = 2
    <3>1. \A m \in 1..t[i + 1].seq : WasTold(m)'
      BY <1>0, <1>1, <2>2, <2>3 DEF WasTold, EventsTo
    <3> QED
      BY <2>1, <2>2, <3>1
  <2>4. CASE Len(t) # 2
    <3>1. \A m \in 1..t[Len(t)].seq : \E j \in 2..Len(t) - 1 : t[j].type = "event" /\ t[j].seq = m
      BY <1>0, <1>1, <2>4 DEF EventsInv, TodoShape
    <3>2. ASSUME NEW m \in 1..conn'.todo[i].seq PROVE \E j \in 1..i - 1 : WillCover(conn'.todo[j], m)
      <4>1. PICK j \in 2..Len(t) - 1 : t[j].type = "event" /\ t[j].seq = m
        BY <2>1, <2>2, <3>1
      <4>2. j - 1 \in 1..i - 1 /\ j - 1 \in 1..Len(conn'.todo) /\ (j - 1) + 1 = j
        BY <1>1, <2>2
      <4>3. conn'.todo[j - 1] = t[j]
        BY <1>1, <4>2
      <4> QED
        BY <4>1, <4>2, <4>3 DEF WillCover
    <3> QED
      BY <2>1, <2>2, <3>2
  <2> QED
    BY <2>3, <2>4
<1> QED
  BY <1>1, <1>4, <1>5, <1>6, <1>7, <1>8 DEF EventsInv, TodoShape

LEMMA AppliedKeeps ==
    ASSUME EventsInv, line # <<>>, Applies(Head(line)), Message
    PROVE  EventsInv'
<1> DEFINE f == line[1]
<1>1. UNCHANGED <<seq, epoch, conn, channel, passed>> /\ line \in Seq(EventFrames) /\ epoch \in Nat
      /\ lastSeq \in Nat /\ from \in 0..epoch
  BY DEF Message, EventsInv, EventsTypeOK
<1>2. /\ line' = Tail(line) /\ Head(line) = f
      /\ line' \in Seq(EventFrames) /\ Len(line') = Len(line) - 1 /\ Len(line) \in Nat \ {0}
      /\ \A i \in 1..Len(line') : line'[i] = line[i + 1] /\ i + 1 \in 1..Len(line)
  BY <1>1, HeadIn DEF Message
<1>3. f \in EventFrames /\ 1 \in 1..Len(line)
  BY <1>1, <1>2, HeadIn
<1>4. f.seq \in Nat /\ f.epoch = epoch /\ (f.mode = "snapshot" => f.type = "recovery")
      /\ f.type \in {"event", "snapshot", "recovery"}
  BY <1>3 DEF EventsInv, OfThisEpoch, EventFrames
<1>5. /\ lastSeq' = IF f.type = "snapshot" THEN lastSeq ELSE f.seq
      /\ from' = IF f.mode = "snapshot" \/ (f.type = "event" /\ lastSeq = 0) THEN epoch ELSE from
      /\ seen' = seen \cup Knows(f) /\ Applies(f)
  BY <1>2 DEF Message
<1>6. Settles(f) => \A m \in 1..f.seq : WasTold(m)
  <2>1. 1..(1 - 1) = {}
    OBVIOUS
  <2> QED
    BY <1>3, <2>1 DEF EventsInv, LineCovered
<1>7. \A m : WasTold(m) => WasTold(m)'
  BY <1>1, <1>5 DEF WasTold
<1>8. \A k \in Nat : \A m \in 1..k : Covers(f, m) => WasTold(m)'
  BY <1>1, <1>4, <1>5 DEF Covers, WasTold, Knows
<1> HIDE DEF f
<1>9. EventsTypeOK'
  BY <1>1, <1>2, <1>4, <1>5 DEF EventsInv, EventsTypeOK
<1>10. CountedIsKnown'
  <2> SUFFICES ASSUME from' = epoch, NEW n \in 1..lastSeq' PROVE WasTold(n)'
    BY <1>1 DEF CountedIsKnown
  <2>1. CASE f.type = "event"
    <3>1. lastSeq' = lastSeq + 1 /\ f.seq = lastSeq + 1 /\ <<epoch, lastSeq + 1>> \in seen' /\ f.mode # "snapshot"
      BY <1>4, <1>5, <2>1 DEF Applies, Knows
    <3>2. n = lastSeq + 1 \/ (n \in 1..lastSeq /\ from = epoch)
      BY <1>1, <1>5, <3>1
    <3>3. CASE n = lastSeq + 1
      BY <1>1, <3>1, <3>3 DEF WasTold
    <3>4. CASE n \in 1..lastSeq /\ from = epoch
      BY <1>7, <3>4 DEF EventsInv, CountedIsKnown
    <3> QED
      BY <3>2, <3>3, <3>4
  <2>2. CASE f.type = "snapshot"
    BY <1>4, <1>5, <1>7, <2>2 DEF EventsInv, CountedIsKnown
  <2>3. CASE f.type = "recovery" /\ f.mode = "snapshot"
    BY <1>5, <1>6, <1>7, <2>3 DEF Settles
  <2>4. CASE f.type = "recovery" /\ f.mode # "snapshot"
    BY <1>5, <1>7, <2>4 DEF Applies, EventsInv, CountedIsKnown
  <2> QED
    BY <1>4, <2>1, <2>2, <2>3, <2>4
<1>11. OfThisEpoch(line)' /\ OfThisEpoch(conn.todo)' /\ TodoShape(conn'.todo)
  BY <1>1, <1>2 DEF EventsInv, OfThisEpoch
<1>12. \A i \in 1..Len(line') : line'[i].seq \in Nat
  <2>1. \A i \in 1..Len(line') : line'[i] \in EventFrames
    BY <1>2
  <2> QED
    BY <2>1 DEF EventFrames
\* a frame that was covered by one on the line is covered still, or by what the page knows now
<1>15. ASSUME NEW k \in Nat, NEW m \in 1..k, NEW i \in 1..Len(line) + 1, NEW j \in 1..i - 1, Covers(line[j], m)
       PROVE  WasTold(m)' \/ \E l \in 1..(i - 1) - 1 : Covers(line'[l], m)
  <2>1. CASE j = 1
    BY <1>8, <1>15, <2>1 DEF f
  <2>2. CASE j # 1
    <3>1. j - 1 \in 1..(i - 1) - 1 /\ j - 1 \in 1..Len(line') /\ (j - 1) + 1 = j
      BY <1>2, <2>2
    <3> QED
      BY <1>2, <1>15, <3>1
  <2> QED
    BY <2>1, <2>2
<1>13. LineCovered'
  <2> SUFFICES ASSUME NEW i \in 1..Len(line'), Settles(line'[i]), NEW m \in 1..line'[i].seq
               PROVE  WasTold(m)' \/ \E j \in 1..i - 1 : Covers(line'[j], m)
    BY DEF LineCovered, Settles, Covers
  <2>1. /\ line'[i] = line[i + 1] /\ i + 1 \in 1..Len(line) /\ line'[i].seq \in Nat /\ (i + 1) - 1 = i
        /\ i + 1 \in 1..Len(line) + 1
    BY <1>2, <1>12
  <2>2. WasTold(m) \/ \E j \in 1..(i + 1) - 1 : Covers(line[j], m)
    BY <2>1 DEF EventsInv, LineCovered
  <2>3. ((i + 1) - 1) - 1 = i - 1
    OBVIOUS
  <2> QED
    BY <1>7, <1>15, <2>1, <2>2, <2>3
<1>14. TodoCovered'
  <2> SUFFICES ASSUME NEW i \in 1..Len(conn.todo), Settles(conn.todo[i]), NEW m \in 1..conn.todo[i].seq
               PROVE  \/ WasTold(m)' \/ \E j \in 1..Len(line') : Covers(line'[j], m)
                      \/ \E j \in 1..i - 1 : WillCover(conn.todo[j], m)
    BY <1>1 DEF EventsInv, TodoCovered, Settles, Covers, WillCover
  <2>1. conn.todo[i].seq \in Nat
    BY TodoAt
  <2>2. Len(line) + 1 \in 1..Len(line) + 1 /\ (Len(line) + 1) - 1 = Len(line) /\ Len(line) - 1 = Len(line')
    BY <1>2
  <2>3. ASSUME NEW j \in 1..Len(line), Covers(line[j], m)
        PROVE  WasTold(m)' \/ \E l \in 1..Len(line') : Covers(line'[l], m)
    BY <1>15, <2>1, <2>2, <2>3
  <2> QED
    BY <1>7, <2>3 DEF EventsInv, TodoCovered
<1> QED
  BY <1>1, <1>9, <1>10, <1>11, <1>13, <1>14 DEF EventsInv, TodoShape

LEMMA NextEvents == EventsInv /\ [EventsNext]_eventVars => EventsInv'
<1> SUFFICES ASSUME EventsInv, [EventsNext]_eventVars PROVE EventsInv'
  OBVIOUS
<1>1. CASE UNCHANGED eventVars
  <2>1. UNCHANGED <<seq, epoch, channel, conn, line, lastSeq, seen, from, passed>>
    BY <1>1 DEF eventVars
  <2>2. \A m : WasTold(m)' <=> WasTold(m)
    BY <2>1 DEF WasTold
  <2>3. EventsTypeOK' /\ OfThisEpoch(line)' /\ OfThisEpoch(conn.todo)' /\ CountedIsKnown'
    BY <2>1, <2>2 DEF EventsInv, EventsTypeOK, OfThisEpoch, CountedIsKnown
  <2>4. LineCovered'
    BY <2>1, <2>2 DEF EventsInv, LineCovered, Settles, Covers
  <2>5. TodoCovered'
    BY <2>1, <2>2 DEF EventsInv, TodoCovered, Settles, Covers, WillCover
  <2> QED
    BY <2>1, <2>3, <2>4, <2>5 DEF EventsInv, TodoShape, Settles
<1>2. CASE Message
  <2>1. CASE Applies(Head(line))
    BY <1>2, <2>1, AppliedKeeps DEF Message
  <2>2. CASE ~Applies(Head(line))
    <3>1. Hangup /\ UNCHANGED <<lastSeq, from, seen, seq, epoch, passed>>
      BY <1>2, <2>2 DEF Message
    <3>2. seq' \in Nat /\ epoch' \in Nat /\ epoch <= epoch'
      BY <3>1 DEF EventsInv, EventsTypeOK
    <3> QED
      BY <3>1, <3>2, HangupKeeps
  <2> QED
    BY <2>1, <2>2
<1>3. CASE Break
  <2>1. seq' \in Nat /\ epoch' \in Nat /\ epoch <= epoch'
    BY <1>3 DEF Break, EventsInv, EventsTypeOK
  <2> QED
    BY <1>3, <2>1, HangupKeeps DEF Break
<1>4. CASE RestartBus
  <2>1. seq' \in Nat /\ epoch' \in Nat /\ epoch <= epoch'
    BY <1>4 DEF RestartBus, EventsInv, EventsTypeOK
  <2> QED
    BY <1>4, <2>1, HangupKeeps DEF RestartBus
<1> QED
  BY <1>1, <1>2, <1>3, <1>4, PublishKeeps, ConnectKeeps, SubscribeKeeps, WriteKeeps, PassKeeps, StreamKeeps
     DEF EventsNext, FeedStep

THEOREM EventsInvariant == EventsSpec => []EventsInv
BY InitEvents, NextEvents, PTL DEF EventsSpec

\* CountedIsKnown: the page never counts an event of this daemon it has not been told,
\* whatever a reconnect replays, drops or replaces by a snapshot; but for those up to a
\* recovery whose snapshot could not be read and whose history was trimmed.
THEOREM CountedEventsAreKnown == EventsSpec => []CountedIsKnown
<1>1. EventsInv => CountedIsKnown
  BY DEF EventsInv
<1> QED
  BY <1>1, EventsInvariant, PTL
=============================================================================
