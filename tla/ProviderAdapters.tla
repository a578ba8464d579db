-------------------------- MODULE ProviderAdapters --------------------------
(***************************************************************************)
(* A provider adapter has two halves: the hooks it keeps in the file of    *)
(* the coding agent, and what these hooks do with a tool call.             *)
(***************************************************************************)
EXTENDS HookInstall, ToolGate

(* A repeated install leaves one Onibi hook per event, and hooks that inspect
   finds in order; a decision meets the call they hold. *)
AdapterSafe == OneHookPerEvent /\ InstallTakes /\ ContractHolds
=============================================================================
