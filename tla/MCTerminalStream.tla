--------------------------- MODULE MCTerminalStream ---------------------------
(* Instances of TerminalStream for TLC.                                    *)
EXTENDS TerminalStreamRefinement, TLC

CONSTANTS c1, c2

\* Connections are only compared with each other.
ConnSymmetry == Permutations({c1, c2})

\* What the cells of a ring can hold.
MCByte == (0 .. MaxGen) \X (0 .. MaxOut)
MCZero == <<0, 0>>
=============================================================================
