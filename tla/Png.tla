-------------------------------- MODULE Png --------------------------------
(***************************************************************************)
(* What a worker does with a rendered frame, lodepng::encode on a file     *)
(* (renderer.cpp 236-242, lodepng.cpp 5806-6075, 6388-6413): choose a      *)
(* colour mode, convert, interlace, pad, filter, write the chunks, save;   *)
(* and the decoder of the same library (4035-5027), which reads the file   *)
(* back through buffers it overwrites as it goes.  IDAT holds the filtered *)
(* scanlines: that compressing them loses nothing is module Deflate.       *)
(***************************************************************************)
EXTENDS ColorMode, Scanline

CONSTANT Frames     \* [w, h, image, interlace, strategy] to encode

VARIABLES
  frame,      \* the frame and the encoder settings
  pc,         \* where encoder or decoder stands
  stats,      \* LodePNGColorStats
  color,      \* info.color: the mode of the file
  buffer,     \* encoder: the image in that mode, then the filtered scanlines
  file,       \* [chunks, rest]: the whole chunks on disk, what is cut off
  info,       \* decoder: info_png.color
  scan,       \* decoder: scanlines, unfiltered and compacted in place
  decoded,    \* decoder: the image in the file's mode, then in RGBA
  at,         \* decoder: <<chunk>> read, or <<pass, line>> processed next
  png_error

pngVars == <<frame, pc, stats, color, buffer, file, info, scan, decoded, at, png_error>>

w == frame.w
h == frame.h
bpp == lodepng_get_bpp(color)

(* --- Adam7 ------------------------------------------------------------- *)

ADAM7_IX == <<0, 4, 0, 2, 0, 1, 0>>
ADAM7_IY == <<0, 0, 4, 0, 2, 0, 1>>
ADAM7_DX == <<8, 8, 4, 4, 2, 2, 1>>
ADAM7_DY == <<8, 8, 8, 4, 4, 2, 2>>

\* Bytes of a scanline with its padding.
linebytes(pw, bits) == (pw * bits + 7) \div 8

passSize(i) ==
  LET pw == (w + ADAM7_DX[i] - ADAM7_IX[i] - 1) \div ADAM7_DX[i]
      ph == (h + ADAM7_DY[i] - ADAM7_IY[i] - 1) \div ADAM7_DY[i]
  IN  IF pw = 0 \/ ph = 0 THEN <<0, 0>> ELSE <<pw, ph>>

\* Where in a buffer each pass starts if they take these numbers of bytes;
\* the last value is the size of all.
passStarts(bytes) ==
  LET start[i \in 0 .. Len(bytes)] == IF i = 0 THEN 0 ELSE start[i - 1] + bytes[i]
  IN  [i \in 1 .. Len(bytes) + 1 |-> start[i - 1]]

Adam7_getpassvalues(sizes, bits) ==
  LET line(i) == linebytes(sizes[i][1], bits)
  IN  [size   |-> sizes,
       filter |-> passStarts([i \in DOMAIN sizes |->
                                IF sizes[i][1] = 0 THEN 0 ELSE sizes[i][2] * (1 + line(i))]),
       padded |-> passStarts([i \in DOMAIN sizes |-> sizes[i][2] * line(i)]),
       packed |-> passStarts([i \in DOMAIN sizes |-> linebytes(sizes[i][1] * sizes[i][2], bits)])]

\* An image that is not interlaced is one pass.
Passes(interlace, bits) ==
  Adam7_getpassvalues(IF interlace = 0 THEN <<<<w, h>>>> ELSE [i \in 1 .. 7 |-> passSize(i)], bits)

\* The pixel of the image that is pixel k of pass i of width pw.
pixelOfPass(i, pw, k) ==
  (ADAM7_IY[i] + (k \div pw) * ADAM7_DY[i]) * w + ADAM7_IX[i] + (k % pw) * ADAM7_DX[i]

(* --- the encoder ------------------------------------------------------- *)

\* n pixels from pixel k on, in units.
Pixels(units, k, n, bits) ==
  SubSeq(units, k * UnitsPerPixel(bits) + 1, (k + n) * UnitsPerPixel(bits))

\* The passes one after another, each starting at a byte.
Adam7_interlace(units, passes) ==
  FlattenSeq([i \in 1 .. 7 |->
    Bytes(FlattenSeq([k \in 1 .. passes.size[i][1] * passes.size[i][2] |->
            Pixels(units, pixelOfPass(i, passes.size[i][1], k - 1), 1, bpp)]), bpp)])

\* The scanlines of a pass, each filled up to whole bytes with zeros.
addPaddingBits(units, pw, ph) ==
  [y \in 1 .. ph |-> Bytes(Pixels(units, (y - 1) * pw, pw, bpp), bpp)]

\* Palettes and small samples are not worth a filter.
strategy == IF color.colortype = "PALETTE" \/ color.bitdepth < 8 THEN "ZERO" ELSE frame.strategy

filterPass(bytes, passes, i) ==
  FlattenSeq(filter(addPaddingBits(Units(SubSeq(bytes, passes.packed[i] + 1, passes.packed[i + 1]), bpp),
                                   passes.size[i][1], passes.size[i][2]),
                    (bpp + 7) \div 8, strategy))

ComputeStats ==
  /\ pc = "stats"
  /\ stats' = lodepng_compute_color_stats(frame.image)
  /\ pc' = "choose"
  /\ UNCHANGED <<frame, color, buffer, file, info, scan, decoded, at, png_error>>

ChooseColor ==
  /\ pc = "choose"
  /\ color' = auto_choose_color(stats, w * h)
  /\ png_error' = checkColorValidity(color')
  /\ pc' = "convert"
  /\ UNCHANGED <<frame, stats, buffer, file, info, scan, decoded, at>>

\* addColorBits packs small samples without regard to lines.
lodepng_convert ==
  /\ pc = "convert" /\ png_error = 0
  /\ \E pixels \in {[i \in DOMAIN frame.image |-> rgba8ToPixel(color, frame.image[i])]} :
       /\ buffer' = Bytes(FlattenSeq(pixels), bpp)
       /\ png_error' = IF \E i \in DOMAIN pixels : pixels[i] = <<>> THEN 82 ELSE 0
  /\ pc' = "scanlines"
  /\ UNCHANGED <<frame, stats, color, file, info, scan, decoded, at>>

preProcessScanlines ==
  /\ pc = "scanlines" /\ png_error = 0
  /\ \E passes \in {Passes(frame.interlace, bpp)} :
     \E bytes \in {IF frame.interlace = 0 THEN buffer
                   ELSE Adam7_interlace(Units(buffer, bpp), passes)} :
       buffer' = FlattenSeq([i \in DOMAIN passes.size |-> filterPass(bytes, passes, i)])
  /\ pc' = "save"
  /\ UNCHANGED <<frame, stats, color, file, info, scan, decoded, at, png_error>>

(* --- chunks and the file ----------------------------------------------- *)

Chunk(type, data) == <<[type |-> type, data |-> data]>>

addChunk_PLTE == IF color.colortype # "PALETTE" THEN <<>>
                 ELSE Chunk("PLTE", [i \in DOMAIN color.palette |-> SubSeq(color.palette[i], 1, 3)])

\* Alpha values up to the last that is not 255, or the key.
addChunk_tRNS ==
  LET amount == Max({0} \union {i \in DOMAIN color.palette : color.palette[i][4] # 255})
  IN  IF amount > 0 THEN Chunk("tRNS", [i \in 1 .. amount |-> color.palette[i][4]])
      ELSE IF color.key = <<>> THEN <<>>
      ELSE Chunk("tRNS", IF color.colortype = "GREY" THEN <<color.key[1]>> ELSE color.key)

\* The first chunk includes the signature.
addChunk_IHDR ==
  Chunk("IHDR", [w |-> w, h |-> h, bitdepth |-> color.bitdepth, colortype |-> color.colortype,
                 interlace |-> frame.interlace])

\* zlib_compress, whose inverse the decoder applies, is module Deflate.
addChunk_IDAT == Chunk("IDAT", buffer)

addChunk_IEND == Chunk("IEND", <<>>)

\* The chunks lodepng_encode writes.  lodepng_info_init, which nobody follows
\* up here, asks for none of the others.
Chunks == addChunk_IHDR \o addChunk_PLTE \o addChunk_tRNS \o addChunk_IDAT \o addChunk_IEND

\* fopen may fail, and fwrite may write less than it is given, which nobody
\* looks at: the file ends behind a chunk, in the first bytes of one, or
\* later in one.
lodepng_save_file ==
  /\ pc = "save"
  /\ \/ png_error' = 79 /\ UNCHANGED file
     \/ \E n \in 0 .. Len(Chunks), rest \in {"none", "head", "body"} :
          /\ n = Len(Chunks) => rest = "none"
          /\ file' = [chunks |-> SubSeq(Chunks, 1, n), rest |-> rest]
          /\ UNCHANGED png_error
  /\ pc' = "inspect"
  /\ UNCHANGED <<frame, stats, color, buffer, info, scan, decoded, at>>

(* --- the decoder ------------------------------------------------------- *)

ih == file.chunks[1].data

lodepng_inspect ==
  /\ pc = "inspect" /\ png_error = 0
  /\ IF file.chunks = <<>>
       THEN png_error' = (IF file.rest = "none" THEN 48 ELSE 27) /\ UNCHANGED <<info, at, pc>>
       ELSE /\ info' = Mode(ih.colortype, ih.bitdepth, <<>>, <<>>)
            /\ png_error' = IF ih.w = 0 \/ ih.h = 0 THEN 93 ELSE checkColorValidity(info')
            /\ at' = <<2>> /\ pc' = "chunks"
  /\ UNCHANGED <<frame, stats, color, buffer, file, scan, decoded>>

readChunk_PLTE(data) ==
  /\ info' = [info EXCEPT !.palette = [i \in DOMAIN data |-> data[i] \o <<255>>]]
  /\ png_error' = IF Len(data) \in 1 .. MaxColors THEN 0 ELSE 38

readChunk_tRNS(data) ==
  CASE info.colortype = "PALETTE" /\ Len(data) <= Len(info.palette) ->
         /\ info' = [info EXCEPT !.palette = [i \in DOMAIN @ |->
                       IF i <= Len(data) THEN [@[i] EXCEPT ![4] = data[i]] ELSE @[i]]]
         /\ UNCHANGED png_error
    [] info.colortype = "GREY" /\ Len(data) = 1 ->
         info' = [info EXCEPT !.key = <<data[1], data[1], data[1]>>] /\ UNCHANGED png_error
    [] info.colortype = "RGB" /\ Len(data) = 3 ->
         info' = [info EXCEPT !.key = data] /\ UNCHANGED png_error
    [] OTHER -> png_error' = 42 /\ UNCHANGED info

\* One turn of decodeGeneric's loop over the chunks, up to IEND.
readChunk(c) ==
  /\ at' = <<at[1] + 1>>
  /\ CASE c.type = "PLTE" -> readChunk_PLTE(c.data) /\ UNCHANGED <<scan, pc>>
       [] c.type = "tRNS" -> readChunk_tRNS(c.data) /\ UNCHANGED <<scan, pc>>
       [] c.type = "IDAT" -> scan' = scan \o c.data /\ UNCHANGED <<info, png_error, pc>>
       [] c.type = "IEND" -> pc' = "inflate" /\ UNCHANGED <<info, scan, png_error>>

\* Mutant: the end of the file counts as the end of the image.
ReadChunkIgnoreEnd ==
  /\ pc = "chunks" /\ png_error = 0
  /\ IF at[1] <= Len(file.chunks) THEN readChunk(file.chunks[at[1]])
     ELSE pc' = "inflate" /\ UNCHANGED <<at, info, scan, png_error>>
  /\ UNCHANGED <<frame, stats, color, buffer, file, decoded>>

ReadChunk ==
  /\ pc = "chunks" /\ png_error = 0
  /\ IF at[1] <= Len(file.chunks) THEN readChunk(file.chunks[at[1]])
     ELSE png_error' = (IF file.rest = "body" THEN 64 ELSE 30) /\ UNCHANGED <<at, info, scan, pc>>
  /\ UNCHANGED <<frame, stats, color, buffer, file, decoded>>

\* The size the scanlines must have: one image, or the seven of Adam7.
expected_size(bits) ==
  LET Size(pw, ph) == lodepng_get_raw_size_idat(pw, ph, bits)
  IN  IF ih.interlace = 0 THEN Size(w, h)
      ELSE Size((w + 7) \div 8, (h + 7) \div 8)
             + (IF w > 4 THEN Size((w + 3) \div 8, (h + 7) \div 8) ELSE 0)
             + Size((w + 3) \div 4, (h + 3) \div 8)
             + (IF w > 2 THEN Size((w + 1) \div 4, (h + 3) \div 4) ELSE 0)
             + Size((w + 1) \div 2, (h + 1) \div 4)
             + (IF w > 1 THEN Size(w \div 2, (h + 1) \div 2) ELSE 0)
             + Size(w, h \div 2)

Inflate ==
  /\ pc = "inflate"
  /\ png_error' = IF info.colortype = "PALETTE" /\ info.palette = <<>> THEN 106
              ELSE IF Len(scan) # expected_size(lodepng_get_bpp(info)) THEN 91 ELSE 0
  /\ decoded' = [i \in 1 .. lodepng_get_raw_size(w, h, lodepng_get_bpp(info)) |-> 0]
  /\ at' = <<1, 1>> /\ pc' = "unfilter"
  /\ UNCHANGED <<frame, stats, color, buffer, file, info, scan>>

Put(target, from, bytes) ==
  [i \in DOMAIN target |-> IF i \in from + 1 .. from + Len(bytes) THEN bytes[i - from] ELSE target[i]]

\* Lines are unfiltered inside scan if padding or passes still have to go.
InPlace(bits) == ih.interlace = 1 \/ (bits < 8 /\ (w * bits) % 8 # 0)

\* Mutant: written where the next pass belongs.
unfilterLineNextPass(i, y, n, passes, bits) ==
  LET from == passes.filter[i] + (y - 1) * (n + 1)
      to   == passes.padded[i + 1] + (y - 1) * n
  IN  scan' = Put(scan, to, unfilterScanline(SubSeq(scan, from + 2, from + 1 + n), <<>>,
                                             (bits + 7) \div 8, scan[from + 1])) /\ UNCHANGED decoded

\* Line y of pass i: read at its place among the filtered lines, the line
\* above at its place among the unfiltered ones, and written there.
unfilterLine(i, y, n, passes, bits) ==
  LET target == IF InPlace(bits) THEN scan ELSE decoded
      from   == passes.filter[i] + (y - 1) * (n + 1)
      to     == passes.padded[i] + (y - 1) * n
      line   == unfilterScanline(SubSeq(scan, from + 2, from + 1 + n),
                                 IF y = 1 THEN <<>> ELSE SubSeq(target, to - n + 1, to),
                                 (bits + 7) \div 8, scan[from + 1])
  IN  IF InPlace(bits) THEN scan' = Put(scan, to, line) /\ UNCHANGED decoded
      ELSE decoded' = Put(decoded, to, line) /\ UNCHANGED scan

unfilter ==
  /\ pc = "unfilter" /\ png_error = 0
  /\ \E bits \in {lodepng_get_bpp(info)} : \E passes \in {Passes(ih.interlace, bits)} :
       /\ at[1] <= Len(passes.size) /\ at[2] <= passes.size[at[1]][2]
       /\ IF scan[passes.filter[at[1]] + (at[2] - 1) * (linebytes(passes.size[at[1]][1], bits) + 1) + 1] > 4
            THEN png_error' = 36 /\ UNCHANGED <<scan, decoded>>
            ELSE /\ unfilterLine(at[1], at[2], linebytes(passes.size[at[1]][1], bits), passes, bits)
                 /\ UNCHANGED png_error
  /\ at' = <<at[1], at[2] + 1>>
  /\ UNCHANGED <<frame, pc, stats, color, buffer, file, info>>

\* The bits of the lines of a pass, without their padding.
withoutPadding(bytes, pw, ph, bits) ==
  LET n == 8 * linebytes(pw, bits)
      all == BitsOf(bytes)
  IN  FlattenSeq([y \in 1 .. ph |-> SubSeq(all, (y - 1) * n + 1, (y - 1) * n + pw * bits)])

\* A pass is unfiltered: its lines move together, to the start of the pass
\* or, if there is only one, to the output.
removePaddingBits ==
  /\ pc = "unfilter" /\ png_error = 0
  /\ \E bits \in {lodepng_get_bpp(info)} : \E passes \in {Passes(ih.interlace, bits)} :
     \E i \in {at[1]} :
       /\ i <= Len(passes.size) /\ at[2] > passes.size[i][2]
       /\ IF bits < 8 /\ InPlace(bits)
            THEN \E packed \in {BytesOf(withoutPadding(
                       SubSeq(scan, passes.padded[i] + 1, passes.padded[i + 1]),
                       passes.size[i][1], passes.size[i][2], bits))} :
                   IF ih.interlace = 1
                     THEN scan' = Put(scan, passes.packed[i], packed) /\ UNCHANGED decoded
                     ELSE decoded' = packed /\ UNCHANGED scan
            ELSE UNCHANGED <<scan, decoded>>
       /\ pc' = IF i = Len(passes.size) THEN "deinterlace" ELSE pc
       /\ at' = <<i + 1, 1>>
  /\ UNCHANGED <<frame, stats, color, buffer, file, info, png_error>>

\* The pass that writes pixel q last, and which of its pixels it is.
passOf(q) ==
  LET x == q % w
      y == q \div w
  IN  Max({i \in 1 .. 7 : /\ x >= ADAM7_IX[i] /\ (x - ADAM7_IX[i]) % ADAM7_DX[i] = 0
                          /\ y >= ADAM7_IY[i] /\ (y - ADAM7_IY[i]) % ADAM7_DY[i] = 0})

indexInPass(i, pw, q) ==
  (((q \div w) - ADAM7_IY[i]) \div ADAM7_DY[i]) * pw + ((q % w) - ADAM7_IX[i]) \div ADAM7_DX[i]

pixelFromPass(passes, i, q, bits) ==
  Pixels(Units(SubSeq(scan, passes.packed[i] + 1, passes.packed[i + 1]), bits),
         indexInPass(i, passes.size[i][1], q), 1, bits)

Adam7_deinterlace ==
  /\ pc = "deinterlace"
  /\ \E bits \in {lodepng_get_bpp(info)} : \E passes \in {Passes(ih.interlace, bits)} :
       decoded' = IF ih.interlace = 0 THEN decoded
              ELSE Bytes(FlattenSeq([k \in 1 .. w * h |->
                           pixelFromPass(passes, passOf(k - 1), k - 1, bits)]), bits)
  /\ pc' = "decode"
  /\ UNCHANGED <<frame, stats, color, buffer, file, info, scan, at, png_error>>

\* lodepng_convert to RGBA of 8 bits.
getPixelColorsRGBA8 ==
  /\ pc = "decode"
  /\ \E bits \in {lodepng_get_bpp(info)} : \E units \in {Units(decoded, bits)} :
       decoded' = [k \in 1 .. w * h |-> getPixelColorRGBA8(info, Pixels(units, k - 1, 1, bits))]
  /\ pc' = "decoded"
  /\ UNCHANGED <<frame, stats, color, buffer, file, info, scan, at, png_error>>

(* --- the specification ------------------------------------------------- *)

PngStart ==
  /\ pc = "stats" /\ stats = lodepng_color_stats_init
  /\ color = lodepng_color_mode_init /\ buffer = <<>>
  /\ file = [chunks |-> <<>>, rest |-> "none"]
  /\ info = lodepng_color_mode_init /\ scan = <<>> /\ decoded = <<>> /\ at = <<>> /\ png_error = 0

PngInit == frame \in Frames /\ PngStart

PngStopped == (pc = "decoded" \/ png_error # 0) /\ UNCHANGED pngVars

PngNext ==
  \/ ComputeStats \/ ChooseColor \/ lodepng_convert \/ preProcessScanlines \/ lodepng_save_file
  \/ lodepng_inspect \/ ReadChunk \/ Inflate \/ unfilter \/ removePaddingBits
  \/ Adam7_deinterlace \/ getPixelColorsRGBA8
  \/ PngStopped

PngSpec == PngInit /\ [][PngNext]_pngVars

(* --- properties -------------------------------------------------------- *)

Complete == file.chunks # <<>> /\ file.chunks[Len(file.chunks)].type = "IEND"

\* Whatever mix of grey, coloured, translucent and transparent pixels a frame
\* has, in whatever order, the colour mode chosen for it loses nothing: a
\* file that decodes holds the rendered frame, pixel for pixel.
DecodedIsRendered == pc = "decoded" => decoded = frame.image

\* The encoder fails only when the file cannot be opened, and a file written
\* to the end is never refused.
CompleteFileDecodes ==
  /\ png_error \in {0, 79} \/ pc \notin {"stats", "choose", "convert", "scanlines", "save"}
  /\ Complete => png_error = 0

\* A file cut short, which lodepng_save_file reports as saved, is refused by
\* the decoder: it is never taken for a frame.
CutFileIsRefused == pc \in {"inflate", "unfilter", "deinterlace", "decode", "decoded"} => Complete

\* Unfiltering and compacting in place never overwrites a scanline still to
\* be read.
UnreadScanlinesIntact ==
  pc = "unfilter" /\ png_error = 0 =>
    LET passes == Passes(ih.interlace, lodepng_get_bpp(info))
        next   == IF at[1] > Len(passes.size) THEN Len(scan)
                  ELSE passes.filter[at[1]]
                         + (at[2] - 1) * (linebytes(passes.size[at[1]][1], lodepng_get_bpp(info)) + 1)
    IN  SubSeq(scan, next + 1, Len(scan)) = SubSeq(buffer, next + 1, Len(buffer))
=============================================================================
