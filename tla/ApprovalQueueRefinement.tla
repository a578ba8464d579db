----------------------- MODULE ApprovalQueueRefinement -----------------------
(***************************************************************************)
(* ApprovalQueue implements ApprovalSpec: the decision of a request is     *)
(* what its row records, and what a hook has been told is what it read.    *)
(***************************************************************************)
EXTENDS ApprovalQueue

\* decisionFromApproval (queue.go): the verdict a stored state stands for.
VerdictForState ==
    [s \in {"absent", "pending"} \cup Terminal |->
        CASE s = "absent" -> "none"
          [] s = "pending" -> "open"
          [] s = "approved" -> "approve"
          [] s = "denied" -> "deny"
          [] OTHER -> s]

Recorded(r) == [verdict |-> VerdictForState[row[r].state],
                input |-> IF row[r].state = "edited" THEN row[r].edited ELSE NoEdit]

Learned(r) ==
    CASE hook[r].verdict \in {"idle", "waiting"} -> Plain("silent")
      [] hook[r].verdict \in {"timeout", "eof", "cancelled"} -> Plain("abandoned")
      [] OTHER -> hook[r]

Abs == INSTANCE ApprovalSpec
         WITH decision <- [r \in Reqs |-> Recorded(r)], told <- [r \in Reqs |-> Learned(r)]

\* Every behaviour of the queue, with its races, timeouts, shutdowns and
\* restarts, is a behaviour of the one-decision specification.
ImplementsSpec == Abs!Spec
=============================================================================
