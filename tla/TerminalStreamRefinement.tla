----------------------- MODULE TerminalStreamRefinement -----------------------
(***************************************************************************)
(* TerminalStream implements ScreenSpec: what the hub of the current host  *)
(* has taken is printed, and a browser is faithful as long as its position *)
(* is one of the host it talks to and its channel dropped nothing.         *)
(***************************************************************************)
EXTENDS TerminalStream

Faithful == client.exact /\ (client.conn # NoConn => ~sub[client.conn].lossy)

Abs == INSTANCE ScreenSpec
         WITH host <- hub.gen, printed <- hub.seq,
              page <- Page(client), run <- client.run,
              place <- <<client.gen, client.lastSeq>>, faithful <- Faithful

\* Over any number of connections and hosts, through flushes, timers, drops and
\* resizes, the browser appends to its page: the next output of the run it shows,
\* or a run that begins further on.
ImplementsScreen == Abs!Spec
=============================================================================
