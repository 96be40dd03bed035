----------------------------- MODULE ColorMode -----------------------------
(***************************************************************************)
(* Colour types and the choice the encoder makes between them              *)
(* (lodepng.cpp 2635-2815, 3092-3420, 3524-3945).  A pixel is              *)
(* <<r, g, b, a>> of bytes.  The worker hands in RGBA of 8 bits            *)
(* (renderer.cpp 241), so 16-bit samples never arise and are left out.     *)
(***************************************************************************)
EXTENDS Integers, Sequences, SequencesExt, FiniteSetsExt, Functions

CONSTANTS
  MaxColors,    \* colours a palette can hold: 256
  FewPixels     \* up to here a tRNS chunk costs more than alpha: 16

\* LodePNGColorMode: key is <<>> or <<key_r, key_g, key_b>>.
Mode(colortype, bitdepth, key, palette) ==
  [colortype |-> colortype, bitdepth |-> bitdepth, key |-> key, palette |-> palette]

lodepng_color_mode_init == Mode("RGBA", 8, <<>>, <<>>)

checkColorValidity(m) ==
  IF m.bitdepth \in [GREY |-> {1, 2, 4, 8, 16}, RGB |-> {8, 16}, PALETTE |-> {1, 2, 4, 8},
                     GREY_ALPHA |-> {8, 16}, RGBA |-> {8, 16}][m.colortype] THEN 0 ELSE 37

getNumColorChannels(colortype) ==
  [GREY |-> 1, RGB |-> 3, PALETTE |-> 1, GREY_ALPHA |-> 2, RGBA |-> 4][colortype]

lodepng_get_bpp(m) == getNumColorChannels(m.colortype) * m.bitdepth

\* Mutant: the bits of a last, partial byte are not counted.
lodepng_get_raw_size_idatDown(w, h, bpp) == h * (1 + (w * bpp) \div 8)

\* Bytes of w x h pixels, without and with the padding and type byte of lines.
lodepng_get_raw_size(w, h, bpp) == ((w * h) \div 8) * bpp + (((w * h) % 8) * bpp + 7) \div 8
lodepng_get_raw_size_idat(w, h, bpp) == h * ((w \div 8) * bpp + 1 + ((w % 8) * bpp + 7) \div 8)

(* --- bits of bytes, most significant first ----------------------------- *)

BitsOfValue(v, n) == [i \in 1 .. n |-> (v \div 2^(n - i)) % 2]

ValueOfBits(bits) ==
  LET value[i \in 0 .. Len(bits)] == IF i = 0 THEN 0 ELSE 2 * value[i - 1] + bits[i]
  IN  value[Len(bits)]

BitsOf(bytes) == [i \in 1 .. 8 * Len(bytes) |->
                    (bytes[(i + 7) \div 8] \div 2^(7 - ((i - 1) % 8))) % 2]

BytesOf(bits) == [k \in 1 .. (Len(bits) + 7) \div 8 |->
                    ValueOfBits([j \in 1 .. 8 |-> IF 8 * k - 8 + j <= Len(bits)
                                                    THEN bits[8 * k - 8 + j] ELSE 0])]

\* A buffer is handled in units: bytes, or bits when pixels are smaller.
Units(bytes, bpp)  == IF bpp < 8 THEN BitsOf(bytes) ELSE bytes
Bytes(units, bpp)  == IF bpp < 8 THEN BytesOf(units) ELSE units
UnitsPerPixel(bpp) == IF bpp < 8 THEN bpp ELSE bpp \div 8

(* --- one pixel in and out of a mode ------------------------------------ *)

\* color_tree_get on the tree of the colours the bit depth can address.
paletteIndex(m, p) ==
  LET found == {i \in 1 .. Min({Len(m.palette), 2^m.bitdepth}) : m.palette[i] = p}
  IN  IF found = {} THEN -1 ELSE Max(found) - 1

\* <<>> when the colour is not in the palette (error 82).
rgba8ToPixel(m, p) ==
  LET Sample(v) == IF m.bitdepth = 8 THEN <<v>> ELSE BitsOfValue(v, m.bitdepth)
  IN  CASE m.colortype = "GREY"       -> Sample(p[1] \div 2^(8 - m.bitdepth))
        [] m.colortype = "RGB"        -> <<p[1], p[2], p[3]>>
        [] m.colortype = "PALETTE"    -> IF paletteIndex(m, p) < 0 THEN <<>>
                                         ELSE Sample(paletteIndex(m, p))
        [] m.colortype = "GREY_ALPHA" -> <<p[1], p[4]>>
        [] m.colortype = "RGBA"       -> p

\* The units of one pixel read back.  The palette is black beyond its end.
getPixelColorRGBA8(m, u) ==
  LET v == IF m.bitdepth = 8 THEN u[1] ELSE ValueOfBits(u)
      grey == (v * 255) \div (2^m.bitdepth - 1)
      Alpha(rgb) == IF m.key = rgb THEN 0 ELSE 255
  IN  CASE m.colortype = "GREY"       -> <<grey, grey, grey, Alpha(<<v, v, v>>)>>
        [] m.colortype = "RGB"        -> u \o <<Alpha(u)>>
        [] m.colortype = "PALETTE"    -> IF v < Len(m.palette) THEN m.palette[v + 1]
                                         ELSE <<0, 0, 0, 255>>
        [] m.colortype = "GREY_ALPHA" -> <<u[1], u[1], u[1], u[2]>>
        [] m.colortype = "RGBA"       -> u

(* --- the choice of a mode ---------------------------------------------- *)

lodepng_color_stats_init ==
  [colored |-> FALSE, key |-> FALSE, rgb |-> <<0, 0, 0>>, alpha |-> FALSE, bits |-> 1, palette |-> <<>>]

\* Grey levels of 2 and 4 bits are multiples of 85 and 17.
getValueRequiredBits(value) ==
  IF value \in {0, 255} THEN 1
  ELSE IF value % 17 = 0 THEN (IF value % 85 = 0 THEN 2 ELSE 4) ELSE 8

\* An alpha channel is needed: no key, and no fewer than 8 bits.
NeedAlpha(s) == [s EXCEPT !.alpha = TRUE, !.key = FALSE, !.bits = 8]

\* A translucent pixel needs alpha; so do two transparent colours, or a
\* colour that is both transparent and opaque.  One transparent colour is
\* the key.
addAlpha(s, p) ==
  LET matchkey == SubSeq(p, 1, 3) = s.rgb
  IN  IF s.alpha THEN s
      ELSE IF p[4] # 255 /\ (p[4] # 0 \/ (s.key /\ ~matchkey)) THEN NeedAlpha(s)
      ELSE IF p[4] = 0 /\ ~s.key THEN [s EXCEPT !.key = TRUE, !.rgb = SubSeq(p, 1, 3)]
      ELSE IF p[4] = 255 /\ s.key /\ matchkey THEN NeedAlpha(s)
      ELSE s

addBits(s, p) ==
  LET colored == s.colored \/ p[1] # p[2] \/ p[1] # p[3]
  IN  [s EXCEPT !.colored = colored,
                !.bits = IF colored THEN 8
                         ELSE IF @ < 8 THEN Max({@, getValueRequiredBits(p[1])}) ELSE @]

\* One colour more than a palette holds is counted, then no more.
addColor(s, p) ==
  IF Len(s.palette) > MaxColors \/ Contains(s.palette, p) THEN s
  ELSE [s EXCEPT !.palette = Append(@, p)]

\* Mutant: no second pass.
checkKeyOnce(s, image) == s

\* The first pass meets an opaque pixel of the key's colour only after the
\* key; the second looks for one before it.
checkKey(s, image) ==
  IF s.key /\ \E i \in DOMAIN image : image[i][4] # 0 /\ SubSeq(image[i], 1, 3) = s.rgb
    THEN NeedAlpha(s) ELSE s

lodepng_compute_color_stats(image) ==
  LET stats[i \in 0 .. Len(image)] ==
        IF i = 0 THEN lodepng_color_stats_init
        ELSE addColor(addAlpha(addBits(stats[i - 1], image[i]), image[i]), image[i])
  IN  checkKey(stats[Len(image)], image)

paletteBits(n) == IF n <= 2 THEN 1 ELSE IF n <= 4 THEN 2 ELSE IF n <= 16 THEN 4 ELSE 8

\* The key is kept with its bytes doubled and cut to the bit depth.
keyOf(s, bitdepth) == [i \in 1 .. 3 |-> (s.rgb[i] * 257) % 2^bitdepth]

auto_choose_color(s, numpixels) ==
  LET few   == s.key /\ numpixels <= FewPixels
      alpha == s.alpha \/ few
      key   == s.key /\ ~few
      grey  == ~s.colored
      bits  == IF (few \/ ~grey) /\ s.bits < 8 THEN 8 ELSE s.bits
      n     == Len(s.palette)
      palette_ok == /\ n <= MaxColors /\ n # 0 /\ numpixels >= 2 * n
                    /\ ~(grey /\ ~alpha /\ bits <= paletteBits(n))
  IN  IF palette_ok THEN Mode("PALETTE", paletteBits(n), <<>>, s.palette)
      ELSE Mode(IF alpha THEN IF grey THEN "GREY_ALPHA" ELSE "RGBA"
                ELSE IF grey THEN "GREY" ELSE "RGB",
                bits, IF key THEN keyOf(s, bits) ELSE <<>>, <<>>)
=============================================================================
