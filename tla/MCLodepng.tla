----------------------------- MODULE MCLodepng -----------------------------
(***************************************************************************)
(* Instances for TLC of the two halves of lodepng: Deflate, which packs    *)
(* bytes, and Png, which makes bytes of a frame.  They share no state: a   *)
(* behaviour picks one `part` and takes its steps, the other rests in an   *)
(* initial state.                                                          *)
(***************************************************************************)
EXTENDS Deflate, Png

VARIABLE part   \* the half whose steps this behaviour takes

(* --- constants for Deflate -------------------------------------------- *)

Pieces == {<<0, 0, 0>>, <<0, 0, 0, 0, 0>>, <<1, 2, 3>>, <<16, 1, 0, 0>>}

MCInputs == {FlattenSeq(t) : t \in UNION {[1 .. n -> Pieces] : n \in 1 .. 4}}

\* lodepng_default_compress_settings but for the window (2048 in the code).
Default == [btype |-> 2, use_lz77 |-> TRUE, windowsize |-> 16, minmatch |-> 3,
            nicematch |-> 128, lazymatching |-> TRUE]

MCSettings == {Default,
               [Default EXCEPT !.windowsize = 8],
               [Default EXCEPT !.windowsize = 32, !.lazymatching = FALSE, !.nicematch = 4],
               [Default EXCEPT !.btype = 1, !.windowsize = 32, !.minmatch = 4],
               [Default EXCEPT !.use_lz77 = FALSE],
               [Default EXCEPT !.btype = 0]}

(* --- constants for Png ------------------------------------------------ *)

Grey(v, a) == <<v, v, v, a>>
\* White, black and a transparent black, greys of 2, 4 and 8 bits, red,
\* transparent red, a translucent grey.
Pixels1 == {Grey(255, 255), Grey(0, 255), Grey(0, 0), Grey(85, 255), Grey(34, 255), Grey(200, 255),
            <<255, 0, 0, 255>>, <<255, 0, 0, 0>>, Grey(85, 128)}

Frame(fw, fh, im, interlace, st) ==
  [w |-> fw, h |-> fh, image |-> im, interlace |-> interlace, strategy |-> st]

\* A background with up to three other pixels: first, second and last.
Mixes == {Frame(s[1], s[2], [i \in 1 .. s[1] * s[2] |-> IF i = 1 THEN a ELSE IF i = 2 THEN b
                                 ELSE IF i = s[1] * s[2] THEN c ELSE d], 0, "MINSUM") :
            s \in {<<6, 3>>, <<4, 2>>}, a \in Pixels1, b \in Pixels1, c \in Pixels1, d \in Pixels1}

\* Pictures that fill the modes: grey of 1, 2, 4, 8 bits, RGB, RGBA, grey
\* with alpha, palettes.
Picture(kind, i) ==
  CASE kind = "grey1" -> Grey(255 * ((i \div 2) % 2), 255)
    [] kind = "grey2" -> Grey(85 * (i % 4), 255)
    [] kind = "grey4" -> Grey(17 * ((i * 7) % 16), IF i % 16 = 3 THEN 0 ELSE 255)
    [] kind = "grey8" -> Grey((i * i * 7) % 256, 255)
    [] kind = "rgb"   -> <<(i * 50) % 256, (i * i) % 256, i, IF i = 2 THEN 0 ELSE 255>>
    [] kind = "rgba"  -> <<(i * 50) % 256, (i * i) % 256, i, (i * 3) % 256>>
    [] kind = "greya" -> Grey((i * 11) % 256, 100 + i)
    [] kind = "pal"   -> <<255, i % 3, 0, 255 - (i % 2)>>

Layouts == {Frame(fw, fh, [i \in 1 .. fw * fh |-> Picture(k, i)], interlace, st) :
              fw \in 1 .. 9, fh \in {1, 2, 5}, interlace \in {0, 1}, st \in {"MINSUM"},
              k \in {"grey1", "grey2", "grey4", "grey8", "rgb", "rgba", "greya", "pal"}}

Strategies == {Frame(3, 3, [i \in 1 .. 9 |-> Picture(k, i)], interlace, st) :
                interlace \in {0, 1}, st \in {"ENTROPY", "ZERO", "ONE", "TWO", "THREE", "FOUR"},
                k \in {"grey8", "rgb", "greya", "rgba"}}

\* As many colours as a palette holds, and one more.
Full == {Frame(8, 5, [i \in 1 .. 40 |-> <<i % n, 0, 9, 255>>], 0, "MINSUM") : n \in {16, 17, 18, 19}}

Smallest == Frame(1, 1, <<Picture("grey1", 1)>>, 0, "MINSUM")

MCFrames == Full \union Mixes \union Layouts \union Strategies

(* --- one half at a time ----------------------------------------------- *)

MCInit ==
  \/ /\ part = "deflate" /\ DeflateInit
     /\ frame = Smallest /\ PngStart
  \/ /\ part = "png" /\ PngInit
     /\ data = <<1, 2, 3>> /\ settings = Default /\ DeflateStart

MCNext ==
  \/ part = "deflate" /\ DeflateNext /\ UNCHANGED <<part, pngVars>>
  \/ part = "png" /\ PngNext /\ UNCHANGED <<part, deflateVars>>

MCSpec == MCInit /\ [][MCNext]_<<part, deflateVars, pngVars>>
=============================================================================
