----------------------------- MODULE WebAttach -----------------------------
(***************************************************************************)
(* The tmux clients Onibi attaches for the browser, on top of the life of  *)
(* the session they show.  EnsureWebPTYHost lets one requester attach while *)
(* the others wait; handover and hide take the client away again; a client *)
(* is killed with the context of the request that started it.              *)
(***************************************************************************)
EXTENDS SessionLifecycle

CONSTANTS Viewed,   \* the tmux-backed session the requests are about
          Hosts,    \* bound: clients that exist at once
          Viewers,  \* terminal websockets, whose context lasts as long as they do
          Calls     \* HTTP requests, whose context ends with the response

ASSUME AttachAssumption ==
    /\ Viewed \in Sessions /\ Viewers \cap Calls = {}
    /\ "none" \notin Hosts \cup Viewers \cup Calls

VARIABLES host,     \* [life, owner]: the client and the requester whose context it got
          mapped,   \* webAttachHosts[Viewed]
          pending,  \* webAttachPending[Viewed]: who is attaching
          req       \* [pc, host, why] of each requester

avars == <<host, mapped, pending, req>>
allvars == <<vars, avars>>

Requesters == Viewers \cup Calls
Whys == {"view", "act", "phone", "mac", "headless", "end"}
NoHost == [life |-> "free", owner |-> "none"]
AtRest == [pc |-> "idle", host |-> "none", why |-> "none"]

AttachIdle == \A q \in Requesters : req[q] = AtRest

\* bound: other sessions, outages and restarts happen while nothing is attached.  To an
\* attachment an outage is what the end of its target is, and a restart forgets it.
Apart == \/ AttachIdle /\ \A h \in Hosts : host[h] = NoHost
         \/ /\ \A s \in Sessions \ {Viewed} : sess[s] = NoSession /\ tmux[s] = "none"
            /\ boots = 0 /\ outages = 0 /\ restore.pc = "done"

At(q, pc) == req[q].pc = pc
Goto(q, pc) == req' = [req EXCEPT ![q].pc = pc]
AtRestIf(q, done, pc) == req' = [req EXCEPT ![q] = IF done THEN AtRest ELSE [@ EXCEPT !.pc = pc, !.host = "none"]]

\* the clients in H are told to go, by SIGHUP, SIGKILL or a detach; whose they were no
\* longer matters
Going == [life |-> "doomed", owner |-> "none"]
Doomed(H) == [h \in Hosts |-> IF h \in H /\ host[h].life = "live" THEN Going ELSE host[h]]

\* exec.CommandContext kills what was started with the context of q
ContextOf(q) == {h \in Hosts : host[h].owner = q}

----------------------------------------------------------------------------
(* Requests.                                                               *)

\* sessionByID: the session is registered and has not ended
Found == Running /\ reg[Viewed] = "live" /\ IsTmux(Viewed)

\* handleWSPTY, or executeLocalControl with an action that needs a host
Attach(q) ==
    /\ Found /\ At(q, "idle")
    /\ req' = [req EXCEPT ![q] = [pc |-> "ensure", host |-> "none",
                                  why |-> IF q \in Viewers THEN "view" ELSE "act"]]
    /\ UNCHANGED <<host, mapped, pending>>

\* HandoverSession and HideSession
Displace(q, why) ==
    /\ Found /\ At(q, "idle") /\ q \in Calls
    /\ req' = [req EXCEPT ![q] = [pc |-> IF why \in {"phone", "headless"} THEN "detach" ELSE "unmap",
                                  host |-> "none", why |-> why]]
    /\ UNCHANGED <<host, mapped, pending>>

\* DetachClients: only HideSession cares whether it worked
Detach(q) ==
    /\ At(q, "detach")
    /\ host' = IF Answers(Viewed) THEN Doomed(Hosts) ELSE host
    /\ AtRestIf(q, req[q].why = "headless" /\ ~Answers(Viewed), "unmap")
    /\ UNCHANGED <<mapped, pending>>

\* closeWebAttachHost: out of the map under the lock, then closed without it
Unmap(q) ==
    /\ At(q, "unmap")
    /\ mapped' = "none"
    /\ req' = [req EXCEPT ![q].pc = "close", ![q].host = mapped]
    /\ UNCHANGED <<host, pending>>

CloseHost(q) ==
    /\ At(q, "close")
    /\ host' = Doomed({req[q].host} \cap Hosts)
    /\ AtRestIf(q, req[q].why \in {"mac", "headless"},
                IF req[q].why = "phone" THEN "ensure" ELSE "kill")
    /\ UNCHANGED <<mapped, pending>>

\* the rest of HideSession(end); the target may be gone by now
EndKills(q) ==
    /\ At(q, "kill")
    /\ KillTarget(Viewed) \/ (~Answers(Viewed) /\ UNCHANGED vars)
    /\ req' = [req EXCEPT ![q] = AtRest]
    /\ UNCHANGED <<host, mapped, pending>>

----------------------------------------------------------------------------
(* EnsureWebPTYHost, one lock section at a time.                           *)

\* a phone handover has nothing to do with the host it asked for
Serve(q, h) ==
    IF req[q].why = "phone" THEN [req[q] EXCEPT !.pc = "return"]
    ELSE [req[q] EXCEPT !.pc = "using", !.host = h]

Reuse(q) ==
    /\ At(q, "ensure") /\ mapped # "none"
    /\ req' = [req EXCEPT ![q] = Serve(q, mapped)]
    /\ UNCHANGED <<host, mapped, pending>>

Wait(q) ==
    /\ At(q, "ensure") /\ mapped = "none" /\ pending # "none"
    /\ Goto(q, "wait")
    /\ UNCHANGED <<host, mapped, pending>>

BeginSpawn(q) ==
    /\ At(q, "ensure") /\ mapped = "none" /\ pending = "none"
    /\ pending' = q
    /\ Goto(q, "spawn")
    /\ UNCHANGED <<host, mapped>>

\* EnablePassthrough and DetachClients, whose errors are ignored
DetachOthers(q) ==
    /\ At(q, "spawn")
    /\ host' = IF Answers(Viewed) THEN Doomed(Hosts) ELSE host
    /\ Goto(q, "attach")
    /\ UNCHANGED <<mapped, pending>>

\* closing pending wakes everyone who waits for it
Woken == {w \in Requesters : At(w, "wait")}
Finish(q, r) ==
    /\ pending' = "none"
    /\ req' = [w \in Requesters |-> IF w = q THEN r
                                    ELSE IF w \in Woken THEN [req[w] EXCEPT !.pc = "ensure"]
                                    ELSE req[w]]

Spawned(q, h) ==
    /\ At(q, "attach") /\ host[h] = NoHost
    /\ \A w \in Requesters : req[w].host # h
    /\ host' = [host EXCEPT ![h] = [life |-> "live", owner |-> q]]
    /\ mapped' = h
    /\ Finish(q, Serve(q, h))

\* mutant: returns the error before it lets go of pending
SpawnFailsEarly(q) ==
    /\ At(q, "attach")
    /\ req' = [req EXCEPT ![q] = AtRest]
    /\ UNCHANGED <<host, mapped, pending>>

SpawnFails(q) ==
    /\ At(q, "attach")
    /\ Finish(q, AtRest)
    /\ UNCHANGED <<host, mapped>>

\* input or an interrupt leaves the client alone, "kill" signals its process group
Acts(q, kill) ==
    /\ At(q, "using") /\ req[q].why = "act"
    /\ host' = IF kill THEN Doomed({req[q].host}) ELSE host
    /\ req' = [req EXCEPT ![q] = [@ EXCEPT !.pc = "return", !.host = "none"]]
    /\ UNCHANGED <<mapped, pending>>

\* the response is written: net/http cancels the request's context
Return(q) ==
    /\ At(q, "return")
    /\ host' = Doomed(ContextOf(q))
    /\ req' = [req EXCEPT ![q] = AtRest]
    /\ UNCHANGED <<mapped, pending>>

\* a websocket goes away, while it waits or because the client's hub was closed
Leave(q) ==
    /\ q \in Viewers /\ (At(q, "wait") \/ At(q, "using"))
    /\ host' = Doomed(ContextOf(q))
    /\ req' = [req EXCEPT ![q] = AtRest]
    /\ UNCHANGED <<mapped, pending>>

----------------------------------------------------------------------------
(* The clients.                                                            *)

HostExits(h) ==
    /\ host[h].life = "doomed" \/ (host[h].life = "live" /\ ~Answers(Viewed))
    /\ host' = [host EXCEPT ![h] = [life |-> "dead", owner |-> "none"]]
    /\ UNCHANGED <<mapped, pending, req>>

\* mutant: clears whatever is there
ClearBlindly(h) ==
    /\ host[h].life = "dead"
    /\ mapped' = "none"
    /\ host' = [host EXCEPT ![h] = NoHost]
    /\ UNCHANGED <<pending, req>>

\* the goroutine that waited for the process: clearWebAttachHost compares the pointer
Clear(h) ==
    /\ host[h].life = "dead"
    /\ mapped' = IF mapped = h THEN "none" ELSE mapped
    /\ host' = [host EXCEPT ![h] = NoHost]
    /\ UNCHANGED <<pending, req>>

Ensure(q) == Reuse(q) \/ Wait(q) \/ BeginSpawn(q) \/ DetachOthers(q)
             \/ (\E h \in Hosts : Spawned(q, h)) \/ SpawnFails(q)

Handler(q) ==
    \/ Detach(q) \/ Unmap(q) \/ CloseHost(q)
    \/ Ensure(q) \/ Acts(q, FALSE) \/ Acts(q, TRUE) \/ Return(q)

HostStep(h) == HostExits(h) \/ Clear(h)

AttachStep ==
    \/ \E q \in Requesters : Attach(q) \/ Handler(q) \/ Leave(q)
    \/ \E q \in Calls : \E why \in {"phone", "mac", "headless", "end"} : Displace(q, why)
    \/ \E h \in Hosts : HostStep(h)

\* the clients are children of the daemon and go with it
Stopped ==
    /\ host' = [h \in Hosts |-> NoHost]
    /\ mapped' = "none" /\ pending' = "none"
    /\ req' = [q \in Requesters |-> AtRest]

AttachInit ==
    /\ Init
    /\ host = [h \in Hosts |-> NoHost]
    /\ mapped = "none" /\ pending = "none"
    /\ req = [q \in Requesters |-> AtRest]

AttachNext ==
    /\ \/ AttachStep /\ UNCHANGED vars
       \/ \E q \in Calls : EndKills(q)
       \/ Next /\ (IF Running' THEN UNCHANGED avars ELSE Stopped)
    /\ Apart'

AttachSpec == AttachInit /\ [][AttachNext]_allvars

Plain(step) == step /\ (IF Running' THEN UNCHANGED avars ELSE Stopped)

\* the fairness of SessionLifecycle, for its steps in the composition
AttachFairness ==
    /\ WF_allvars(Plain(RestoreStep))
    /\ WF_allvars(Plain(Boot("rows")))
    /\ \A s \in Sessions : WF_allvars(Plain(Persist(s) \/ LoopStep(s) \/ MarkRow(s) \/ KillerMarks(s)))

AttachFairSpec == AttachSpec /\ AttachFairness

----------------------------------------------------------------------------
(* Properties.                                                             *)

\* The values the state takes, those of the session included.
AttachTypeOK ==
    /\ TypeOK
    /\ host \in [Hosts -> [life : {"free", "live", "doomed", "dead"}, owner : Requesters \cup {"none"}]]
    /\ mapped \in Hosts \cup {"none"}
    /\ pending \in Requesters \cup {"none"}
    /\ req \in [Requesters -> [pc : {"idle", "ensure", "wait", "spawn", "attach", "using", "return",
                                     "detach", "unmap", "close", "kill"},
                               host : Hosts \cup {"none"}, why : Whys \cup {"none"}]]

\* A client that nobody has told to go can still be found by whoever has to close it:
\* it is in webAttachHosts, or in the hands of a request that took it out to close it.
NoLeakedHost ==
    \A h \in Hosts : host[h].life = "live" =>
        mapped = h \/ \E q \in Calls : At(q, "close") /\ req[q].host = h

\* Whoever waits for another request's attachment waits for one that is under way, so
\* that its end, a failure too, wakes them.
WaitersAwaited ==
    \A q \in Requesters : At(q, "wait") =>
        pending # "none" /\ req[pending].pc \in {"spawn", "attach"}

\* The two together: every tmux client that lives has somebody to close it, and every
\* request that waits for a client waits for one that is under way.
HostsOwned == NoLeakedHost /\ WaitersAwaited

=============================================================================
