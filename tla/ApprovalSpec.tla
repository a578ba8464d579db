---------------------------- MODULE ApprovalSpec ----------------------------
(***************************************************************************)
(* What the approval queue promises, without goroutines, rows, waiters or  *)
(* clocks: a request is opened once, gets one decision, and the hook that  *)
(* asked either learns exactly that decision or is abandoned (it times     *)
(* out, loses the daemon, or the daemon shuts down) and then falls back on *)
(* its provider's own permission rules.                                    *)
(***************************************************************************)
CONSTANTS Reqs, Edits, NoEdit

VARIABLES decision, told

specVars == <<decision, told>>

None      == [verdict |-> "none", input |-> NoEdit]
Open      == [verdict |-> "open", input |-> NoEdit]
Silent    == [verdict |-> "silent", input |-> NoEdit]
Abandoned == [verdict |-> "abandoned", input |-> NoEdit]

Outcomes ==
    [verdict : {"approve", "deny", "expired", "cancelled"}, input : {NoEdit}]
        \cup [verdict : {"edited"}, input : Edits]

SpecInit ==
    /\ decision = [r \in Reqs |-> None]
    /\ told = [r \in Reqs |-> Silent]

OpenRequest(r) ==
    /\ decision[r] = None
    /\ decision' = [decision EXCEPT ![r] = Open]
    /\ UNCHANGED told

Settled(r, d) ==
    /\ decision[r] = Open
    /\ decision' = [decision EXCEPT ![r] = d]
    /\ UNCHANGED told

Tell(r) ==
    /\ told[r] = Silent
    /\ decision[r] \in Outcomes
    /\ told' = [told EXCEPT ![r] = decision[r]]
    /\ UNCHANGED decision

\* A restart abandons every hook that was waiting, in one step.
Abandon(S) ==
    /\ \A r \in S : told[r] = Silent
    /\ told' = [r \in Reqs |-> IF r \in S THEN Abandoned ELSE told[r]]
    /\ UNCHANGED decision

SpecNext ==
    \/ \E r \in Reqs : OpenRequest(r) \/ Tell(r)
    \/ \E r \in Reqs, d \in Outcomes : Settled(r, d)
    \/ \E S \in SUBSET Reqs : Abandon(S)

Spec == SpecInit /\ [][SpecNext]_specVars
=============================================================================
