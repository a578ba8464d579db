----------------------------- MODULE StartCommand -----------------------------
(***************************************************************************)
(* `onibi start` (cli/up.go): it binds an address, starts a managed tmux   *)
(* session, runs the daemon in a goroutine, waits until its web server     *)
(* answers, opens a transport for the phone (web/transport), mints a       *)
(* pairing token, prints the URL, and watches the transport until it is    *)
(* told to stop.  The deferred cleanups run in reverse order; the context  *)
(* of the daemon is cancelled last.                                        *)
(*                                                                         *)
(* The transports share one life and differ in a few policies: one record  *)
(* per transport names them.                                               *)
(***************************************************************************)
EXTENDS Naturals, FiniteSets

CONSTANTS
    Transports,   \* names of the transports to check, a subset of DOMAIN Transport
    Hosts,        \* addresses a mesh interface may have
    NoHost,
    MaxFaults     \* bound: moves of the address, deaths of processes, commands that fail

ASSUME StartAssumption ==
    /\ Transports \subseteq {"lan", "tailscale", "wireguard", "zerotier", "cloudflare", "ngrok"}
    /\ IsFiniteSet(Hosts) /\ Hosts # {} /\ NoHost \notin Hosts
    /\ MaxFaults \in Nat

\* opens: what Enable starts; undoes: an Enable that fails undoes it; bound: the
\* web server listens on the address of the mesh only; watched: health is checked
\* every five seconds; relay: the URL needs a key; reads: where Enable and Check
\* look for the tunnel.
Lan       == [opens |-> "nothing", undoes |-> TRUE, bound |-> FALSE,
              watched |-> FALSE, relay |-> FALSE, reads |-> "nothing"]
Tailscale == [opens |-> "serve", undoes |-> FALSE, bound |-> FALSE,
              watched |-> FALSE, relay |-> FALSE, reads |-> "status"]
WireGuard == [opens |-> "nothing", undoes |-> TRUE, bound |-> TRUE,
              watched |-> TRUE, relay |-> FALSE, reads |-> "address"]
ZeroTier  == [opens |-> "nothing", undoes |-> TRUE, bound |-> TRUE,
              watched |-> TRUE, relay |-> FALSE, reads |-> "address"]
Cloudflare == [opens |-> "child", undoes |-> TRUE, bound |-> FALSE,
              watched |-> TRUE, relay |-> TRUE, reads |-> "output"]
Ngrok     == [opens |-> "child", undoes |-> TRUE, bound |-> FALSE,
              watched |-> TRUE, relay |-> TRUE, reads |-> "agent"]

Transport == [lan |-> Lan, tailscale |-> Tailscale, wireguard |-> WireGuard,
              zerotier |-> ZeroTier, cloudflare |-> Cloudflare, ngrok |-> Ngrok]

VARIABLES
    mode,      \* the transport of this behaviour
    step,      \* where runWebPairUp is
    context,   \* the signal context: live or cancelled
    server,    \* the daemon.Run goroutine, with its web server
    heard,     \* errCh has been read
    port,      \* who has the port already: free, another onibi, something else
    address,   \* of the mesh interface, NoHost while it is down
    listen,    \* the address the web server was told to use
    active,    \* what Enable found: a mesh address, or a tunnel
    exposed,   \* the ways to the local server: the serve rule, the tunnel of our
               \* child, the tunnel of an ngrok agent that an earlier start left
    agentAPI,  \* whose agent answers on the ngrok API address
    child,     \* our cloudflared or ngrok
    held,      \* cleanupPairTransport is deferred
    session,   \* the managed session: its row and its tmux target
    pairing,   \* token minted, key registered, and the URL that was printed
    stuck,     \* history: what a failing command has left in place
    served,    \* history: the web server has listened
    faults

transportVars == <<address, active, exposed, agentAPI, child, held>>
serverVars == <<server, port, served>>
startVars == <<mode, step, context, serverVars, heard, listen, transportVars,
               session, pairing, stuck, faults>>

way == Transport[mode]
NoUrl == "none"
-----------------------------------------------------------------------------
Enter(s) == step' = s

\* The cleanups that are deferred at this point, the last first.
Unwind ==
    Enter(CASE held -> "disable"
            [] ~held /\ session.row # "none" -> "hide"
            [] OTHER -> "return")

\* The mesh interface has an address.
MeshUp == address # NoHost

\* applyWireGuardListenAddr, applyZeroTierListenAddr.
ListenHost == IF way.bound THEN address ELSE "any"

\* runWebPairUp up to the daemon: the listen address, terminfo, certificate.
Bind ==
    /\ step = "bind"
    /\ \/ /\ way.bound => MeshUp
          /\ listen' = ListenHost
          /\ Enter("session")
       \/ Enter("return") /\ UNCHANGED listen
    /\ UNCHANGED <<mode, context, serverVars, heard, transportVars, session, pairing, stuck, faults>>

\* startManagedWebPairSession.
StartSession ==
    /\ step = "session"
    /\ \/ session' = [row |-> "live", tmux |-> TRUE] /\ Enter("attach")
       \/ Enter("return") /\ UNCHANGED session
    /\ UNCHANGED <<mode, context, serverVars, heard, listen, transportVars, pairing, stuck, faults>>

\* EnsureWebPTYHost, then `go d.Run`.
RunDaemon ==
    /\ step = "attach"
    /\ \/ server' = "starting" /\ Enter("probe")
       \/ Unwind /\ UNCHANGED server
    /\ UNCHANGED <<mode, context, port, served, heard, listen, transportVars,
                   session, pairing, stuck, faults>>

Answers == server = "listening" \/ port = "onibi"
Reported == server = "returned" /\ ~heard

\* waitForWebHealth: whoever has the port may answer, and the result of a Run
\* that has ended is nil, whatever ended it.
Probe ==
    /\ step = "probe"
    /\ \/ Answers /\ Enter("open") /\ UNCHANGED heard
       \/ Reported /\ heard' = TRUE /\ Enter("open")
       \/ (context = "cancelled" \/ ~Answers) /\ Unwind /\ UNCHANGED heard
    /\ UNCHANGED <<mode, context, serverVars, listen, transportVars, session, pairing, stuck, faults>>
-----------------------------------------------------------------------------
\* startManagedCommand: the child brings its tunnel up.
StartChild == child' = "alive" /\ exposed' = exposed \cup {"own"}

\* Enable of a provider up to its wait.
Open ==
    /\ step = "open"
    /\ \/ /\ way.opens = "nothing" /\ (way.bound => MeshUp)
          /\ active' = ListenHost
          /\ Enter("url") /\ UNCHANGED <<exposed, child>>
       \/ /\ way.opens = "serve" /\ exposed' = exposed \cup {"serve"}
          /\ Enter("await") /\ UNCHANGED <<active, child>>
       \/ /\ way.opens = "child" /\ context = "live"
          /\ StartChild
          /\ Enter("await") /\ UNCHANGED active
       \/ Unwind /\ UNCHANGED <<active, exposed, child>>
    /\ UNCHANGED <<mode, context, serverVars, heard, listen, address, agentAPI, held,
                   session, pairing, stuck, faults>>

\* The tunnel that Enable and Check see; the agent API may be that of another agent.
Seen == CASE way.reads = "agent" -> agentAPI
          [] way.reads = "output" -> "own"
          [] way.reads = "status" -> "serve"
          [] OTHER -> "any"

\* stopManagedProcess.
KillChild == child' = IF child = "alive" THEN "dead" ELSE child

\* Disable of a relay: the tunnel is deleted by its name, the child is killed.
CloseTunnel(tunnel) == exposed' = exposed \ {tunnel, "own"} /\ KillChild

\* Mutant: a tunnel that is late is left to the caller.
AwaitKeeps ==
    /\ step = "await"
    /\ \/ Seen \in exposed /\ active' = Seen /\ Enter("url") /\ UNCHANGED <<exposed, child, stuck>>
       \/ Unwind /\ UNCHANGED <<exposed, child, active, stuck>>
    /\ UNCHANGED <<mode, context, serverVars, heard, listen, address, agentAPI, held,
                   session, pairing, faults>>

\* The wait of Enable: the tunnel shows up, or time is up, the child has died or
\* the context is cancelled.  The tailscale provider then leaves its rule.
Await ==
    /\ step = "await"
    /\ \/ Seen \in exposed /\ active' = Seen /\ Enter("url") /\ UNCHANGED <<exposed, child, stuck>>
       \/ /\ Unwind
          /\ IF way.undoes THEN CloseTunnel("own") /\ UNCHANGED stuck
             ELSE stuck' = stuck \cup {"serve"} /\ UNCHANGED <<exposed, child>>
          /\ UNCHANGED active
    /\ UNCHANGED <<mode, context, serverVars, heard, listen, address, agentAPI, held,
                   session, pairing, faults>>

\* `tailscale serve --bg off`, which may fail; the others do not depend on a command.
CloseServe ==
    \/ exposed' = exposed \ {"serve"} /\ UNCHANGED <<stuck, faults>>
    \/ /\ faults < MaxFaults /\ faults' = faults + 1                 \* bound
       /\ stuck' = stuck \cup {"serve"} /\ UNCHANGED exposed

\* startProvider after Enable: URL, and Disable if that fails.
Url ==
    /\ step = "url"
    /\ \/ held' = TRUE /\ Enter("validate") /\ UNCHANGED <<exposed, stuck, faults>>
       \/ way.opens = "serve" /\ CloseServe /\ Unwind /\ UNCHANGED held
    /\ UNCHANGED <<mode, context, serverVars, heard, listen, address, active, agentAPI,
                   child, session, pairing>>

\* validatePrivatePairTransport.
Validate ==
    /\ step = "validate"
    /\ IF way.bound /\ active # listen THEN Unwind ELSE Enter("health")
    /\ UNCHANGED <<mode, context, serverVars, heard, listen, transportVars, session, pairing, stuck, faults>>

\* Check of the provider while its transport is open.
Healthy ==
    CASE way.reads = "address" -> address = active
      [] way.reads = "output" -> child = "alive"
      [] way.reads = "agent" -> active \in exposed
      [] OTHER -> TRUE

\* Mutant: only the mesh transports are watched.
WatchedMesh == way.bound

\* requiresRuntimeTransportHealth.
Watched == way.watched

\* The health check before the token; a cancelled context fails it too.
CheckHealth ==
    /\ step = "health"
    /\ \/ (Watched => Healthy) /\ Enter("mint")
       \/ Watched /\ (~Healthy \/ context = "cancelled") /\ Unwind
    /\ UNCHANGED <<mode, context, serverVars, heard, listen, transportVars, session, pairing, stuck, faults>>

\* NewToken, RegisterPair for a relay, and the URL; each may fail.
Mint ==
    /\ step = "mint"
    /\ \/ pairing' = [pairing EXCEPT !.token = TRUE] /\ Enter("register")
       \/ Unwind /\ UNCHANGED pairing
    /\ UNCHANGED <<mode, context, serverVars, heard, listen, transportVars, session, stuck, faults>>

Register ==
    /\ step = "register"
    /\ \/ pairing' = [pairing EXCEPT !.key = way.relay] /\ Enter("print")
       \/ way.relay /\ Unwind /\ UNCHANGED pairing
    /\ UNCHANGED <<mode, context, serverVars, heard, listen, transportVars, session, stuck, faults>>

\* WebPairURLs: the URL leads to what Enable found, wherever the server listens.
PairUrl == active

\* The QR code comes after the URL and may fail.
PrintUrl ==
    /\ step = "print"
    /\ pairing' = [pairing EXCEPT !.url = PairUrl]
    /\ Enter("wait") \/ Unwind
    /\ UNCHANGED <<mode, context, serverVars, heard, listen, transportVars, session, stuck, faults>>
-----------------------------------------------------------------------------
\* The select loop: the ticker, the context, and the result of the daemon.
HealthTick ==
    /\ step = "wait" /\ Watched
    /\ ~Healthy \/ context = "cancelled"
    /\ Unwind
    /\ UNCHANGED <<mode, context, serverVars, heard, listen, transportVars, session, pairing, stuck, faults>>

StopWaiting ==
    /\ step = "wait"
    /\ \/ context = "cancelled" /\ Enter("drain") /\ UNCHANGED heard
       \/ Reported /\ heard' = TRUE /\ Unwind
    /\ UNCHANGED <<mode, context, serverVars, listen, transportVars, session, pairing, stuck, faults>>

\* The daemon has five seconds.
Drain ==
    /\ step = "drain"
    /\ heard' = (heard \/ server = "returned")
    /\ Unwind
    /\ UNCHANGED <<mode, context, serverVars, listen, transportVars, session, pairing, stuck, faults>>

\* cleanupPairTransport.
Disable ==
    /\ step = "disable"
    /\ Enter("hide")
    /\ held' = FALSE
    /\ CASE way.opens = "serve" -> CloseServe /\ UNCHANGED child
         [] way.opens = "child" -> CloseTunnel(active) /\ UNCHANGED <<stuck, faults>>
         [] OTHER -> UNCHANGED <<exposed, child, stuck, faults>>
    /\ UNCHANGED <<mode, context, serverVars, heard, listen, address, active, agentAPI, session, pairing>>

\* cleanupManagedWebPairShell: HideSession with "end", then the tmux target.
Hide ==
    /\ step = "hide"
    /\ Enter("kill")
    /\ \/ session' = [session EXCEPT !.row = "ended"] /\ UNCHANGED <<stuck, faults>>
       \/ /\ faults < MaxFaults /\ faults' = faults + 1              \* bound
          /\ stuck' = stuck \cup {"row"} /\ UNCHANGED session
    /\ UNCHANGED <<mode, context, serverVars, heard, listen, transportVars, pairing>>

KillTarget ==
    /\ step = "kill"
    /\ Enter("return")
    /\ \/ session' = [session EXCEPT !.tmux = FALSE] /\ UNCHANGED <<stuck, faults>>
       \/ /\ faults < MaxFaults /\ faults' = faults + 1              \* bound
          /\ stuck' = stuck \cup {"tmux"} /\ UNCHANGED session
    /\ UNCHANGED <<mode, context, serverVars, heard, listen, transportVars, pairing>>

\* stop() of the signal context, and the return.
Return ==
    /\ step = "return"
    /\ Enter("returned")
    /\ context' = "cancelled"
    /\ UNCHANGED <<mode, serverVars, heard, listen, transportVars, session, pairing, stuck, faults>>
-----------------------------------------------------------------------------
\* daemon.Run and StartContext: a server that cannot listen cancels the others,
\* and Run returns nil.
ServerStep ==
    /\ \/ server = "starting" /\ port = "free" /\ server' = "listening" /\ served' = TRUE
       \/ server = "starting" /\ port # "free" /\ server' = "closing" /\ UNCHANGED served
       \/ /\ server \in {"starting", "listening"} /\ context = "cancelled"
          /\ server' = "closing" /\ UNCHANGED served
       \/ server = "closing" /\ server' = "returned" /\ UNCHANGED served
    /\ UNCHANGED <<mode, step, context, port, heard, listen, transportVars, session, pairing, stuck, faults>>

\* SIGINT or SIGTERM.
Signal ==
    /\ context = "live" /\ step # "returned"
    /\ context' = "cancelled"
    /\ UNCHANGED <<mode, step, serverVars, heard, listen, transportVars, session, pairing, stuck, faults>>

\* A child dies, with its tunnel: of itself or with the context (CommandContext).
ChildDies ==
    /\ child = "alive"
    /\ \/ context = "cancelled" /\ UNCHANGED faults
       \/ faults < MaxFaults /\ faults' = faults + 1                 \* bound
    /\ child' = "dead" /\ exposed' = exposed \ {"own"}
    /\ UNCHANGED <<mode, step, context, serverVars, heard, listen, address, active,
                   agentAPI, held, session, pairing, stuck>>

\* The mesh interface moves, goes down or comes back; the other agent dies.
Outside ==
    /\ faults < MaxFaults /\ faults' = faults + 1                    \* bound
    /\ \/ way.bound /\ address' \in (Hosts \cup {NoHost}) \ {address} /\ UNCHANGED exposed
       \/ "orphan" \in exposed /\ exposed' = exposed \ {"orphan"} /\ UNCHANGED address
    /\ UNCHANGED <<mode, step, context, serverVars, heard, listen, active, agentAPI,
                   child, held, session, pairing, stuck>>

StartInit ==
    /\ mode \in Transports
    /\ step = "bind" /\ context = "live" /\ server = "off" /\ heard = FALSE
    /\ port \in {"free", "onibi", "other"}
    /\ address \in IF way.bound THEN Hosts ELSE {NoHost}
    /\ listen = "any" /\ active = "any"
    /\ agentAPI \in IF way.reads = "agent" THEN {"own", "orphan"} ELSE {"own"}
    /\ exposed = {agentAPI} \ {"own"}
    /\ child = "none" /\ held = FALSE
    /\ session = [row |-> "none", tmux |-> FALSE]
    /\ pairing = [token |-> FALSE, key |-> FALSE, url |-> NoUrl]
    /\ stuck = {} /\ served = FALSE /\ faults = 0

Command ==
    \/ Bind \/ StartSession \/ RunDaemon \/ Probe
    \/ Open \/ Await \/ Url \/ Validate \/ CheckHealth
    \/ Mint \/ Register \/ PrintUrl
    \/ StopWaiting \/ Drain \/ Disable \/ Hide \/ KillTarget \/ Return

StartNext == Command \/ HealthTick \/ ServerStep \/ Signal \/ ChildDies \/ Outside

StartSpec == StartInit /\ [][StartNext]_startVars

\* The command and the daemon are goroutines that run, the ticker ticks.
StartFairness == WF_startVars(Command) /\ WF_startVars(HealthTick) /\ WF_startVars(ServerStep)
-----------------------------------------------------------------------------
\* However far the command got and whatever failed or was interrupted, once it
\* has returned nothing it opened is left: no way from outside to the local
\* port, no child, no tmux target, no session row that says live; except what a
\* command that failed has left, or the serve rule of an Enable that timed out.
NothingLeftRunning ==
    step = "returned" =>
        /\ exposed \subseteq {"orphan"} \cup stuck
        /\ child # "alive"
        /\ session.tmux => "tmux" \in stuck
        /\ session.row = "live" => "row" \in stuck

\* A relay or mesh transport that fails while the command waits ends it, unless
\* it recovers first (docs/wireguard-setup.md: it rechecks every five seconds; if
\* either changes or becomes unavailable, Onibi stops).
UnhealthyStops ==
    (step = "wait" /\ way.watched /\ ~Healthy) ~> (step = "returned" \/ Healthy)
=============================================================================
