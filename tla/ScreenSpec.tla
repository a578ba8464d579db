------------------------------ MODULE ScreenSpec ------------------------------
(***************************************************************************)
(* What a browser's terminal promises, without rings, queues, timers and   *)
(* connections.  Hosts print one after the other and the page only grows.  *)
(* Its last part is the run: as long as nothing was lost, the bytes that   *)
(* one host printed one after the other, up to the place the browser knows *)
(* it has reached.  The run grows, or the page goes on with another one    *)
(* that begins further on, never with output it has shown.  Once something *)
(* was lost the browser is not faithful again before another run begins.   *)
(*                                                                         *)
(* A byte, and a place, is the pair of a host and a number of bytes; a     *)
(* byte with number 0 is text of the system's own.                         *)
(***************************************************************************)
EXTENDS Naturals, Sequences, SequencesExt

VARIABLES host,      \* the host that prints now
          printed,   \* how many bytes it has printed
          page,      \* all that was ever shown
          run,       \* its last part, behind the last break
          place,     \* how far the browser has got
          faithful   \* nothing was lost since the run began

screenVars == <<host, printed, page, run, place, faithful>>

Behind(p, q) == p[1] < q[1] \/ (p[1] = q[1] /\ p[2] <= q[2])

\* Every byte has been printed.
WasPrinted(s) == \A i \in DOMAIN s : Behind(s[i], <<host, printed>>)

\* One byte after the other, up to p.
RunTo(s, p) ==
    /\ \A i \in 1 .. Len(s) - 1 : s[i + 1] = <<s[i][1], s[i][2] + 1>>
    /\ s # <<>> => Last(s) = p

\* The page up to the run.
Above == SubSeq(page, 1, Len(page) - Len(run))

SpecInit ==
    /\ host = 0 /\ printed = 0 /\ page = <<>> /\ run = <<>> /\ place = <<0, 0>>
    /\ faithful = TRUE

\* What is printed may push out what the browser has not got yet.
HostWrites ==
    /\ printed' > printed /\ (faithful' => faithful)
    /\ UNCHANGED <<host, page, run, place>>

NextHost ==
    /\ host' = host + 1 /\ printed' = 0
    /\ UNCHANGED <<page, run, place, faithful>>

Lose ==
    /\ faithful' = FALSE
    /\ UNCHANGED <<host, printed, page, run, place>>

\* More output: behind the last byte, if nothing was lost.
Show ==
    /\ IsPrefix(run, run') /\ WasPrinted(run') /\ page' = Above \o run'
    /\ faithful => RunTo(run', place') /\ Behind(place, place')
    /\ UNCHANGED <<host, printed, faithful>>

\* A snapshot goes behind what was shown and begins a run: a faithful browser is
\* given that of another host, or what is kept where the next byte no longer is.
Resume ==
    /\ WasPrinted(run') /\ RunTo(run', place') /\ page' = page \o run'
    /\ faithful => \/ place[1] < place'[1]
                   \/ place[1] = place'[1] /\ run' # <<>> /\ run'[1][2] > place[2] + 1
    /\ UNCHANGED <<host, printed>>

\* The run ends where output is missing or may be, with a mark or without.
BreakOff ==
    /\ run' = <<>> /\ faithful' = FALSE
    /\ page' \in {page, Append(page, <<place[1], 0>>)}
    /\ UNCHANGED <<host, printed>>

SpecNext == HostWrites \/ NextHost \/ Lose \/ Show \/ Resume \/ BreakOff

Spec == SpecInit /\ [][SpecNext]_screenVars
=============================================================================
