----------------------------- MODULE MCProcesses -----------------------------
(* One run of systems that share no state: part says which of them moves.   *)
(* The others stay in one of their initial states.                          *)
EXTENDS MCTerminalStream, StartCommand, ProviderAdapters
VARIABLE part

mcVars == <<vars, startVars, hookVars, gateVars, part>>

\* A command that does not move is one of a plain LAN start, an adapter that does
\* not is claude's.
MCInit ==
    /\ part \in {"terminal", "start", "hooks", "gate"}
    /\ Init
    /\ part # "start" => mode = "lan" /\ port = "free"
    /\ StartInit
    /\ HookInit /\ (part # "hooks" => agent = "claude" /\ file = Absent)
    /\ GateInit /\ (part # "gate" => /\ caller = "claude" /\ sessionKind = "managed"
                                     /\ payload = "valid" /\ daemon = "up")

Moves(p, next, others) == part = p /\ next /\ UNCHANGED <<others, part>>

MCNext ==
    \/ Moves("terminal", Next, <<startVars, hookVars, gateVars>>)
    \/ Moves("start", StartNext, <<vars, hookVars, gateVars>>)
    \/ Moves("hooks", HookNext, <<vars, startVars, gateVars>>)
    \/ Moves("gate", GateNext, <<vars, startVars, hookVars>>)

\* Fairness of TerminalStream and StartFairness, each where its system moves.
MCSpec ==
    /\ MCInit /\ [][MCNext]_mcVars
    /\ Fairness
    /\ WF_startVars(part = "start" /\ Command)
    /\ WF_startVars(part = "start" /\ HealthTick)
    /\ WF_startVars(part = "start" /\ ServerStep)
=============================================================================
