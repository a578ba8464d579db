----------------------------- MODULE OwnerNotices -----------------------------
(***************************************************************************)
(* What reaches an owner away from the browser: the forwarder of approvals *)
(* decides what to send, the Telegram client when it is sent.              *)
(***************************************************************************)
EXTENDS ApprovalForwarder, TelegramSends

(* What waits is offered once, spaced as Telegram asks, and no retry repeats
   or overtakes a message. *)
OwnerTold == OfferedOnce /\ SlotsSpaced /\ AcceptedInOrder
===============================================================================
