---------------------------- MODULE KittyTranscoder ----------------------------
(***************************************************************************)
(* The transcoder in front of the output hub (pty/transcode.go): Kitty     *)
(* graphics in the output of the child become inline images (IIP), which   *)
(* is what the browser's terminal can draw.  The output arrives in pieces  *)
(* as the PTY read returns them, an image may come in several envelopes,   *)
(* and tmux may wrap each of them.                                         *)
(*                                                                         *)
(* A byte is a name.  The introducers ESC _ G and ESC P tmux ; have two,   *)
(* as has the terminator, so that a read may end inside them.  In a body,  *)
(* "png" stands for f=100, "more" and "last" for m=1 and m=0, "other" for  *)
(* a control the code does not support, and "d" for payload it decodes.    *)
(***************************************************************************)
EXTENDS Naturals, Sequences, SequencesExt, FiniteSets, FiniteSetsExt

CONSTANTS
    MaxEnvelopeBytes,  \* maxKittyEnvelopeBytes
    MaxImageBytes,     \* maxKittyImageBytes
    MaxItems           \* bound: items in the output of the child

VARIABLES
    items,     \* what the child prints, a sequence of Item
    rest,      \* bytes not read yet
    carry,     \* an envelope or passthrough whose end has not come
    pending,   \* the image whose last envelope has not come
    painted,   \* bytes handed to the hub
    split      \* history: a read ended inside an introducer that the code then missed

kittyVars == <<items, rest, carry, pending, painted, split>>

Raw == <<"esc", "G">>
Tmux == <<"esc", "P">>
Terminator == <<"esc", "T">>
Controls == {"png", "more", "last", "other"}

NoImage == [active |-> FALSE, original |-> <<>>, data |-> <<>>]
IIP(data) == <<"iip">> \o data \o Terminator
-----------------------------------------------------------------------------
Starts(data, pattern) ==
    {i \in 1 .. Len(data) - 1 : SubSeq(data, i, i + 1) = pattern}

\* Whether an even number of ESC stands right before i: one that tmux did not double.
Single(data, i) ==
    Cardinality({j \in 1 .. i - 1 : \A k \in j .. i - 1 : data[k] = "esc"}) % 2 = 0

\* unwrapTmuxPassthrough: the end of the passthrough that data begins with, and
\* its content with the doubled ESC undone.
TmuxEnds(data) == {i \in Starts(data, Terminator) : i > 2 /\ Single(Tail(data), i - 1)}
Inner(body) == LET keep == {i \in DOMAIN body : body[i] # "esc" \/ Single(body, i)}
               IN  [n \in 1 .. Cardinality(keep) |->
                       body[CHOOSE i \in keep : Cardinality({j \in keep : j < i}) = n - 1]]

Decodes(payload) == payload # <<>> /\ Range(payload) \subseteq {"d"}

\* supportsDirectPNGKitty and supportsKittyContinuation.
DirectPNG(control) == "png" \in control /\ "other" \notin control
Continues(control) == control # {} /\ control \subseteq {"more", "last"}

\* Mutant: an image that is given up takes its first envelopes with it.
GiveUpForgets(image) == [out |-> <<>>, image |-> NoImage]

\* flushPendingOriginal.
GiveUp(image) == [out |-> image.original, image |-> NoImage]

\* transcodeEnvelope: what an envelope becomes and the image it leaves pending.
Envelope(body, original, image) ==
    LET control == Range(body) \cap Controls
        payload == SelectSeq(body, LAMBDA b : b \notin Controls)
        opened == [active |-> TRUE, original |-> image.original \o original, data |-> image.data]
        grown == [opened EXCEPT !.data = @ \o payload]
        fits == payload = <<>> \/ (Decodes(payload) /\ Len(grown.data) <= MaxImageBytes)
    IN  CASE image.active /\ (~Continues(control) \/ ~fits) -> GiveUp(opened)
          [] image.active /\ Continues(control) /\ fits /\ "more" \notin control ->
               [out |-> IF grown.data = <<>> THEN grown.original ELSE IIP(grown.data), image |-> NoImage]
          [] ~image.active /\ DirectPNG(control) /\ "more" \notin control /\ Decodes(payload) ->
               [out |-> IIP(payload), image |-> NoImage]
          [] (image.active \/ DirectPNG(control)) /\ fits /\ "more" \in control ->
               [out |-> <<>>, image |-> grown]
          [] OTHER -> [out |-> original, image |-> NoImage]

\* transcodeCompleteKitty: only a passthrough that holds one whole envelope.
Unwrapped(original, image) ==
    LET seq == Inner(SubSeq(original, 3, Len(original) - 2))
    IN  IF Len(seq) >= 4 /\ IsPrefix(Raw, seq) /\ IsSuffix(Terminator, seq)
        THEN Envelope(SubSeq(seq, 3, Len(seq) - 2), original, image)
        ELSE [out |-> original, image |-> image]

\* Write: text up to the next introducer goes on, an envelope that is whole is
\* transcoded, one that is not is kept for the next read unless it is too long.
RECURSIVE Scan(_, _)
Scan(data, image) ==
    LET starts == Starts(data, Raw) \cup Starts(data, Tmux)
        s == Min(starts)
        text == SubSeq(data, 1, s - 1)
        tail == SubSeq(data, s, Len(data))
        wrapped == tail[2] = "P"
        ends == IF wrapped THEN TmuxEnds(tail) ELSE {i \in Starts(tail, Terminator) : i > 2}
        e == Min(ends) + 1
        whole == SubSeq(tail, 1, e)
        done == IF wrapped THEN Unwrapped(whole, image)
                ELSE Envelope(SubSeq(whole, 3, e - 2), whole, image)
        after == Scan(SubSeq(tail, e + 1, Len(tail)), done.image)
    IN  CASE starts = {} \/ (ends = {} /\ Len(tail) > MaxEnvelopeBytes) ->
               [out |-> data, carry |-> <<>>, image |-> image]
          [] starts # {} /\ ends = {} /\ Len(tail) <= MaxEnvelopeBytes ->
               [out |-> text, carry |-> tail, image |-> image]
          [] OTHER -> [after EXCEPT !.out = text \o done.out \o @]

\* A read that ends inside an introducer, outside an envelope and a passthrough:
\* the code passes both halves on as text.
InsideIntroducer(n) ==
    /\ n < Len(rest)
    /\ SubSeq(rest, n, n + 1) \in {Raw, Tmux}
    /\ Scan(carry \o SubSeq(rest, 1, n - 1), pending).carry = <<>>

ReadChunk ==
    \E n \in 1 .. Len(rest) :
        LET result == Scan(carry \o SubSeq(rest, 1, n), pending) IN
        /\ split => n = Len(rest)                    \* bound: nothing is asked after a split
        /\ split' = (split \/ InsideIntroducer(n))
        /\ rest' = SubSeq(rest, n + 1, Len(rest))
        /\ painted' = painted \o result.out
        /\ carry' = result.carry
        /\ pending' = result.image
        /\ UNCHANGED items
-----------------------------------------------------------------------------
\* What a child prints, and what a terminal that draws inline images is to get.
Env(body) == Raw \o body \o Terminator
Doubled(seq) == FlattenSeq([i \in DOMAIN seq |-> IF seq[i] = "esc" THEN <<"esc", "esc">> ELSE <<seq[i]>>])
Wrap(seq) == Tmux \o Doubled(seq) \o Terminator
Same(seq) == [sent |-> seq, seen |-> seq]

Opening == Env(<<"png", "more", "d">>)
Closing == Env(<<"last", "d">>)
Item ==
    { Same(<<"x">>), Same(<<"esc">>), Same(Env(<<"other", "d">>)), Same(Env(<<"png", "x">>)), Same(Env(<<"png">>)),
      Same(Env(<<"other">> \o [i \in 1 .. MaxEnvelopeBytes |-> "d"])),      \* longer than what is kept
      Same(Wrap(<<"x">>)), Same(Wrap(Env(<<"other", "d">>))),
      [sent |-> Env(<<"png", "d">>), seen |-> IIP(<<"d">>)],
      [sent |-> Wrap(Env(<<"png", "d">>)), seen |-> IIP(<<"d">>)],
      [sent |-> Opening \o Env(<<"more", "d">>) \o Closing, seen |-> IIP(<<"d", "d", "d">>)],
      [sent |-> Wrap(Opening) \o <<"x">> \o Wrap(Closing), seen |-> <<"x">> \o IIP(<<"d", "d">>)],
      [sent |-> Opening \o <<"x">> \o Env(<<"last", "x">>), seen |-> <<"x">> \o Opening \o Env(<<"last", "x">>)],
      Same(Opening \o Env(<<"png", "d">>)),
      Same(Opening \o Env(<<"more", "d", "d">>) \o Env(<<"more", "d">>) \o Closing) }

KittyInit ==
    /\ items \in UNION {[1 .. n -> Item] : n \in 1 .. MaxItems}
    /\ rest = FlattenSeq([i \in DOMAIN items |-> items[i].sent])
    /\ carry = <<>> /\ pending = NoImage /\ painted = <<>> /\ split = FALSE

KittySpec == KittyInit /\ [][ReadChunk]_kittyVars
-----------------------------------------------------------------------------
Shown == FlattenSeq([i \in DOMAIN items |-> items[i].seen])

\* However the reads cut the output, unless one cut an introducer in two: every
\* PNG reaches the browser as one inline image at the place of its last
\* envelope, and all else, broken images too, as it was printed, in order.
ImagesTranscoded == rest = <<>> /\ ~split => painted \o carry = Shown
=============================================================================
