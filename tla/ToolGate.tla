------------------------------ MODULE ToolGate ------------------------------
(***************************************************************************)
(* One tool call of a coding agent, from the provider's hook to what the   *)
(* provider does: the hook or plugin of the adapter, onibi-notify          *)
(* (clients/onibi-notify), the intake socket, the daemon's handler and     *)
(* back.  What the queue does with a request is in ApprovalQueue; here a   *)
(* decision is one step.  The contract of adapters/contract.go says what   *)
(* each decision does to the call.                                         *)
(*                                                                         *)
(* Events that only report (agent_message, agent_done) are left out.       *)
(* An output of onibi-notify is the decision it carries and an exit code.  *)
(* Hook timeouts of the providers (360 s) are longer than onibi-notify     *)
(* takes (300 s and a few), so no provider gives up first.                 *)
(***************************************************************************)
EXTENDS Naturals

CONSTANT
    MaxGateFaults  \* bound: daemons stopped or killed, hooks killed, and boots

Decisions == {"approve", "edited", "deny", "expired", "cancelled"}
Providers == {"claude", "codex", "gemini", "copilot", "goose", "pi", "opencode", "amp"}

VARIABLES
    caller,        \* the agent
    sessionKind,   \* "managed", "unmanaged", or "unknown" to the daemon
    payload,       \* "valid", "invalid", or of another release than the daemon
    input,         \* of the call: an "object", or "missing" (or nothing to merge into)
    hook,          \* onibi-notify: "start", "ready", "waiting", "done"
    output,        \* what it wrote, and its exit code
    handler,       \* of the daemon: "none", "reading", "waiting", "replied"
    reply,
    row,           \* state of the approval, "none" before it is inserted
    daemon,        \* "up", "stopping", "down"
    tool,          \* "held", "ran", "ran edited", "ran merged", "blocked"
    cut,           \* history: the path was cut, or nobody answered in time
    gateFaults

gateVars == <<caller, sessionKind, payload, input, hook, output, handler, reply, row, daemon, tool, cut, gateFaults>>

\* What parseHookPayload and its caller make of the hook's input.
Payloads == {"valid", "invalid", "newer"}

Out(what, code) == [stdout |-> what, code |-> code]
Silent == Out("", 0)
-----------------------------------------------------------------------------
\* What the adapters promise (adapters/contract.go).
Contract == [approve |-> "ran", edited |-> "ran edited", deny |-> "blocked", expired |-> "blocked",
             cancelled |-> "ran"]
CopilotContract == Contract
GeminiContract == Contract
OpenCodeContract == Contract
AmpContract == Contract

\* Goose has no contract: it cannot replace the input of a call.  Pi's can only be
\* written over: the edited fields are assigned, one that the edit left out stays,
\* and a call without an input to write over is refused.
Promised(a, arg) ==
    CASE a = "copilot" -> CopilotContract
      [] a = "gemini" -> GeminiContract
      [] a = "opencode" -> OpenCodeContract
      [] a = "amp" -> AmpContract
      [] a = "goose" -> [Contract EXCEPT !.edited = "blocked"]
      [] a = "pi" -> [Contract EXCEPT !.edited = IF arg = "object" THEN "ran merged" ELSE "blocked"]
      [] OTHER -> Contract
-----------------------------------------------------------------------------
\* responseForDecision.
ResponseForDecision(state) == IF state \in {"approve", "edited", "deny", "expired"} THEN state ELSE "cancelled"

\* providerResponse, by format.
HookSpecificResponse(d) ==
    CASE d = "approve" -> Out("allow", 0)
      [] d = "edited" -> Out("edit", 0)
      [] d \in {"deny", "expired"} -> Out("deny", 2)
      [] OTHER -> Silent

GeminiResponse(d) ==
    CASE d = "edited" -> Out("edit", 0)
      [] d \in {"deny", "expired"} -> Out("deny", 0)
      [] OTHER -> Silent

CopilotResponse(d) ==
    CASE d = "approve" -> Out("allow", 0)
      [] d = "edited" -> Out("edit", 0)
      [] d \in {"deny", "expired"} -> Out("deny", 0)
      [] OTHER -> Silent

GooseResponse(d) == IF d \in {"deny", "expired", "edited"} THEN Out("", 2) ELSE Silent

\* writeWaitResponse; the plugins ask for onibi-json, the response as it is.
Printed(a, d) ==
    CASE a \in {"claude", "codex"} -> HookSpecificResponse(d)
      [] a = "gemini" -> GeminiResponse(d)
      [] a = "copilot" -> CopilotResponse(d)
      [] a = "goose" -> GooseResponse(d)
      [] OTHER -> Out(d, 0)

\* What the plugins make of the output.  An edit of the queue is an object.
PiExtension(o, arg) ==
    CASE o.stdout \in {"deny", "expired", "torn"} -> {"blocked"}
      [] o.stdout = "edited" -> {IF arg = "object" THEN "ran merged" ELSE "blocked"}
      [] OTHER -> {"ran"}

\* Mutant: a request nobody decided is not taken for a denied one.
OpenCodePluginExpires(o) ==
    CASE o.stdout \in {"deny", "torn"} -> {"blocked"}
      [] o.stdout = "edited" -> {"ran edited"}
      [] OTHER -> {"ran"}

\* An exception of the handler blocks the call; so does an answer that does not parse.
OpenCodePlugin(o) ==
    CASE o.stdout \in {"deny", "expired", "torn"} -> {"blocked"}
      [] o.stdout = "edited" -> {"ran edited"}
      [] OTHER -> {"ran"}

\* Nothing says what amp does with an exception.
AmpPlugin(o) ==
    CASE o.stdout \in {"deny", "expired"} -> {"blocked"}
      [] o.stdout = "edited" -> {"ran edited"}
      [] o.stdout = "torn" -> {"ran", "blocked"}
      [] OTHER -> {"ran"}

\* The providers with hooks: exit code 2 or a denial blocks, anything else runs.
ProviderHook(o) ==
    IF o.code = 2 \/ o.stdout = "deny" THEN {"blocked"}
    ELSE IF o.stdout = "edit" THEN {"ran edited"} ELSE {"ran"}

Effects(a, arg, o) ==
    CASE a = "pi" -> PiExtension(o, arg)
      [] a = "opencode" -> OpenCodePlugin(o)
      [] a = "amp" -> AmpPlugin(o)
      [] OTHER -> ProviderHook(o)
-----------------------------------------------------------------------------
Exit(o) == hook' = "done" /\ output' = o

\* main: without a session of Onibi nobody is asked.
Main ==
    /\ hook = "start"
    /\ IF sessionKind = "unmanaged" THEN Exit(Silent) ELSE hook' = "ready" /\ UNCHANGED output
    /\ UNCHANGED <<caller, sessionKind, payload, input, handler, reply, row, daemon, tool, cut, gateFaults>>

\* runWait and intake.Request: a payload that is no request, and a daemon that is
\* not there, let the call run.
RunWait ==
    /\ hook = "ready"
    /\ CASE payload = "invalid" -> Exit(Silent) /\ UNCHANGED <<handler, cut>>
         [] payload # "invalid" /\ daemon = "down" -> Exit(Silent) /\ cut' = TRUE /\ UNCHANGED handler
         [] OTHER -> hook' = "waiting" /\ handler' = "reading" /\ UNCHANGED <<output, cut>>
    /\ UNCHANGED <<caller, sessionKind, payload, input, reply, row, daemon, tool, gateFaults>>

Reply(d) == handler' = "replied" /\ reply' = d

\* Server.handle refuses fields it does not know and hangs up; handleApprovalRequest
\* cancels for a session it does not know, normalizes again and asks the queue,
\* which may fail.
Handle ==
    /\ handler = "reading" /\ daemon # "down"
    /\ CASE payload = "newer" -> handler' = "none" /\ UNCHANGED <<reply, row>>
         [] payload # "newer" /\ sessionKind = "unknown" -> Reply("cancelled") /\ UNCHANGED row
         [] OTHER -> \/ handler' = "waiting" /\ row' = "pending" /\ UNCHANGED reply
                     \/ Reply("cancelled") /\ UNCHANGED row
    /\ cut' = (cut \/ handler' # "waiting")
    /\ UNCHANGED <<caller, sessionKind, payload, input, hook, output, daemon, tool, gateFaults>>

\* The owner decides, or nobody did in time; a daemon that comes back finds the
\* row as it was.
Decide ==
    /\ row = "pending" /\ daemon = "up"
    /\ row' \in {"approve", "edited", "deny", "expired"}
    /\ UNCHANGED <<caller, sessionKind, payload, input, hook, output, handler, reply, daemon, tool, cut, gateFaults>>

Answer ==
    /\ handler = "waiting" /\ daemon # "down" /\ row # "pending"
    /\ Reply(ResponseForDecision(row))
    /\ UNCHANGED <<caller, sessionKind, payload, input, hook, output, row, daemon, tool, cut, gateFaults>>

\* The shutdown may win against a decision that is there already.
AnswerShutdown ==
    /\ handler = "waiting" /\ daemon = "stopping"
    /\ Reply("cancelled")
    /\ row' = IF row = "pending" THEN "cancelled" ELSE row
    /\ UNCHANGED <<caller, sessionKind, payload, input, hook, output, daemon, tool, cut, gateFaults>>

TakeReply ==
    /\ hook = "waiting" /\ handler = "replied"
    /\ Exit(Printed(caller, reply)) /\ handler' = "none"
    /\ UNCHANGED <<caller, sessionKind, payload, input, reply, row, daemon, tool, cut, gateFaults>>

\* The connection ended without an answer.
HungUp ==
    /\ hook = "waiting" /\ handler = "none"
    /\ Exit(Silent)
    /\ UNCHANGED <<caller, sessionKind, payload, input, handler, reply, row, daemon, tool, cut, gateFaults>>

\* waitForApproval: its time is up.  The daemon is told without the id of the
\* approval, so handleEvent writes an audit row and the request stays pending.
TimeOut ==
    /\ hook = "waiting"
    /\ Exit(Printed(caller, "cancelled")) /\ cut' = TRUE
    /\ UNCHANGED <<caller, sessionKind, payload, input, handler, reply, row, daemon, tool, gateFaults>>

ToolRuns ==
    /\ hook = "done" /\ tool = "held"
    /\ tool' \in Effects(caller, input, output)
    /\ UNCHANGED <<caller, sessionKind, payload, input, hook, output, handler, reply, row, daemon, cut, gateFaults>>
-----------------------------------------------------------------------------
Fault == gateFaults < MaxGateFaults /\ gateFaults' = gateFaults + 1    \* bound

StopDaemon ==
    /\ daemon = "up" /\ daemon' = "stopping" /\ cut' = TRUE /\ Fault
    /\ UNCHANGED <<caller, sessionKind, payload, input, hook, output, handler, reply, row, tool>>

\* The process ends, after a stop without waiting for its handlers.
EndDaemon ==
    /\ daemon # "down" /\ daemon' = "down" /\ cut' = TRUE /\ Fault
    /\ handler' = IF handler = "replied" THEN "replied" ELSE "none"
    /\ UNCHANGED <<caller, sessionKind, payload, input, hook, output, reply, row, tool>>

BootDaemon ==
    /\ daemon = "down" /\ daemon' = "up" /\ Fault
    /\ UNCHANGED <<caller, sessionKind, payload, input, hook, output, handler, reply, row, tool, cut>>

KillHook ==
    /\ hook \in {"ready", "waiting"} /\ Fault /\ cut' = TRUE
    /\ \/ Exit(Silent)
       \/ handler = "replied" /\ Exit(Out("torn", 0))
    /\ UNCHANGED <<caller, sessionKind, payload, input, handler, reply, row, daemon, tool>>

GateInit ==
    /\ caller \in Providers /\ sessionKind \in {"managed", "unmanaged", "unknown"}
    /\ payload \in Payloads /\ daemon \in {"up", "down"} /\ input \in {"object", "missing"}
    /\ caller # "pi" => input = "object"      \* nobody else looks at it
    /\ hook = "start" /\ output = Silent /\ handler = "none" /\ reply = "cancelled"
    /\ row = "none" /\ tool = "held" /\ cut = FALSE /\ gateFaults = 0

GateNext ==
    \/ Main \/ RunWait \/ Handle \/ Decide \/ Answer \/ AnswerShutdown \/ TakeReply \/ HungUp
    \/ TimeOut \/ ToolRuns \/ StopDaemon \/ EndDaemon \/ BootDaemon \/ KillHook

GateSpec == GateInit /\ [][GateNext]_gateVars
-----------------------------------------------------------------------------
\* Through every adapter, format and provider: while the path holds, the call
\* meets the decision in the store as the contract says, pi's edits merged.  However
\* it is cut, by timeouts, shutdowns and kills, a call is blocked only for a decision,
\* for an answer that arrived torn or for an edit that cannot be applied, and runs
\* with another input only if the owner edited it.
ContractHolds ==
    /\ (tool # "held" /\ row # "none" /\ ~cut) => row # "pending" /\ tool = Promised(caller, input)[row]
    /\ tool \in {"ran edited", "ran merged"} => row = "edited"
    /\ tool = "blocked" =>
          \/ row \in {"deny", "expired"} \/ output.stdout = "torn"
          \/ row = "edited" /\ (caller = "goose" \/ (caller = "pi" /\ input = "missing"))
=============================================================================
