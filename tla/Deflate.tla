------------------------------ MODULE Deflate ------------------------------
(***************************************************************************)
(* The compressor every worker of the renderer runs on the scanlines of a   *)
(* frame (lodepng.cpp 1447-2333), one step per turn of encodeLZ77's loop    *)
(* and one per block.  The hash chains live in circular buffers, survive    *)
(* from block to block and are read through a lazy match that steps back    *)
(* one position; the decompressor of the same library is the reference.     *)
(* Constants that are literals in the code keep their value in the comment. *)
(***************************************************************************)
EXTENDS Huffman, Bitwise

CONSTANTS
  MAX_SUPPORTED_DEFLATE_LENGTH,   \* longest match: 258
  MinBlock, MaxBlock,             \* least and largest blocksize: 65536, 262144
  MaxStored,                      \* longest stored block: 65535
  Inputs,                         \* the byte strings to compress
  Settings                        \* the LodePNGCompressSettings to try

VARIABLES
  data,       \* in: what is compressed
  settings,   \* LodePNGCompressSettings
  hash,       \* struct Hash
  start,      \* start of the block being compressed
  pos,        \* encodeLZ77's position in data, from 0
  numzeros,   \* zeros counted from pos - 1, as far as the code keeps track
  lazy,       \* the postponed match: <<>> or <<length, offset>>
  lz,         \* lz77_encoded: literals and length/distance quadruples
  bits,       \* the bits written so far; at the end the whole zlib stream
  phase,      \* "encode" while blocks are written, "zlib", "open", "inflate", "read"
  error,
  out,        \* the decompressor's output
  bp          \* and its position in bits

enc == <<hash, start, pos, numzeros, lazy, lz>>
dec == <<out, bp>>
deflateVars == <<data, settings, enc, bits, phase, error, dec>>

LENGTHBASE == <<3, 4, 5, 6, 7, 8, 9, 10, 11, 13, 15, 17, 19, 23, 27, 31, 35, 43, 51, 59,
                67, 83, 99, 115, 131, 163, 195, 227, 258>>
LENGTHEXTRA == <<0, 0, 0, 0, 0, 0, 0, 0, 1, 1, 1, 1, 2, 2, 2, 2, 3, 3, 3, 3,
                 4, 4, 4, 4, 5, 5, 5, 5, 0>>
DISTANCEBASE == <<1, 2, 3, 4, 5, 7, 9, 13, 17, 25, 33, 49, 65, 97, 129, 193, 257, 385, 513,
                  769, 1025, 1537, 2049, 3073, 4097, 6145, 8193, 12289, 16385, 24577>>
DISTANCEEXTRA == <<0, 0, 0, 0, 1, 1, 2, 2, 3, 3, 4, 4, 5, 5, 6, 6, 7, 7, 8,
                   8, 9, 9, 10, 10, 11, 11, 12, 12, 13, 13>>
CLCL_ORDER == <<16, 17, 18, 0, 8, 7, 9, 6, 10, 5, 11, 4, 12, 3, 13, 2, 14, 1, 15>>

In(i) == data[i + 1]
W == settings.windowsize
maxchainlength == IF W >= 8192 THEN W ELSE W \div 8
maxlazymatch == IF W >= 8192 THEN MAX_SUPPORTED_DEFLATE_LENGTH ELSE 64
nicematch == Min({settings.nicematch, MAX_SUPPORTED_DEFLATE_LENGTH})

\* One block of all data with fixed trees, blocks of a clamped size otherwise.
blocksize ==
  IF settings.btype = 1 THEN Len(data)
  ELSE Min({MaxBlock, Max({MinBlock, Len(data) \div 8 + 8})})

dataend == Min({start + blocksize, Len(data)})

(* --- hash chains ------------------------------------------------------- *)

\* An index of its own in chain and chainz means: no earlier position.
hash_init(windowsize) ==
  LET own == [w \in 0 .. windowsize - 1 |-> w]
      no  == [w \in 0 .. windowsize - 1 |-> -1]
  IN  [head |-> <<>>, chain |-> own, val |-> no, headz |-> <<>>, chainz |-> own, zeros |-> no]

HeadOf(f, k) == IF k \in DOMAIN f THEN f[k] ELSE -1

\* Bytes behind the end of the block are no part of the hash.
getHash(p) ==
  (IF p + 2 < dataend THEN In(p) ^^ ((In(p + 1) * 16) ^^ (In(p + 2) * 256))
   ELSE IF p + 1 < dataend THEN In(p) + In(p + 1) * 256
   ELSE In(p)) % 65536

countZeros(p) ==
  LET end == Min({p + MAX_SUPPORTED_DEFLATE_LENGTH, dataend})
  IN  Max({k \in 0 .. end - p : \A i \in p .. p + k - 1 : In(i) = 0})

\* Mutant: the count is not lowered at the end of the zeros.
nextZerosKept(p, n) == IF getHash(p) # 0 THEN 0 ELSE IF n = 0 THEN countZeros(p) ELSE n

\* numzeros at p, from its value at the position before.
nextZeros(p, n) ==
  IF getHash(p) # 0 THEN 0
  ELSE IF n = 0 THEN countZeros(p)
  ELSE IF p + n > dataend \/ In(p + n - 1) # 0 THEN n - 1
  ELSE n

updateHashChain(h, wpos, hashval, n) ==
  LET Link(head, chain, k) == IF HeadOf(head, k) # -1
                                THEN [chain EXCEPT ![wpos] = HeadOf(head, k)] ELSE chain
  IN  [head   |-> (hashval :> wpos) @@ h.head,
       chain  |-> Link(h.head, h.chain, hashval),
       val    |-> [h.val EXCEPT ![wpos] = hashval],
       headz  |-> (n :> wpos) @@ h.headz,
       chainz |-> Link(h.headz, h.chainz, n),
       zeros  |-> [h.zeros EXCEPT ![wpos] = n]]

(* --- encodeLZ77 -------------------------------------------------------- *)

\* Bytes that agree at p and offset bytes before, the first skip untested.
matchLength(p, offset, skip) ==
  LET last == Min({dataend, p + MAX_SUPPORTED_DEFLATE_LENGTH})
  IN  Max({skip} \union {k \in skip .. last - p : \A i \in p + skip .. p + k - 1 : In(i) = In(i - offset)})

\* Mutant: one byte too many is skipped.
zeroSkipOne(h, hashpos, n) == IF n >= 3 THEN Min({h.zeros[hashpos] + 1, n}) ELSE 0

\* The zeros both here and at the candidate need no comparison.
zeroSkip(h, hashpos, n) == IF n >= 3 THEN Min({h.zeros[hashpos], n}) ELSE 0

\* The search for the longest match at p: s is where in the chain it stands
\* and the best match so far.
RECURSIVE searchChain(_, _, _, _)
searchChain(h, p, n, s) ==
  LET offset == ((p % W) - s.hashpos) % W
      skip   == zeroSkip(h, s.hashpos, n)
      len    == IF offset > 0 THEN matchLength(p, offset, skip) ELSE 0
      best   == IF len > s.length THEN <<len, offset>> ELSE <<s.length, s.offset>>
      byZeros == n >= 3 /\ best[1] > n
      next   == IF byZeros THEN h.chainz[s.hashpos] ELSE h.chain[s.hashpos]
      stale  == IF byZeros THEN h.zeros[next] # n ELSE h.val[next] # getHash(p)
  IN  IF s.chainlength >= maxchainlength \/ offset < s.prev THEN <<s.length, s.offset>>
      ELSE IF \/ len > s.length /\ len >= nicematch
              \/ s.hashpos = h.chain[s.hashpos]
              \/ stale
        THEN best
        ELSE searchChain(h, p, n, [hashpos |-> next, chainlength |-> s.chainlength + 1,
                                   prev |-> offset, length |-> best[1], offset |-> best[2]])

longestMatch(h, p, n) ==
  searchChain(h, p, n, [hashpos |-> h.chain[p % W], chainlength |-> 0, prev |-> 0,
                        length |-> 0, offset |-> 0])

\* The largest index (from 0) whose base is not above the value.
searchCodeIndex(array, value) == Max({i \in DOMAIN array : array[i] <= value}) - 1

addLengthDistance(length, distance) ==
  LET l == searchCodeIndex(LENGTHBASE, length)
      d == searchCodeIndex(DISTANCEBASE, distance)
  IN  <<l + 257, length - LENGTHBASE[l + 1], d, distance - DISTANCEBASE[d + 1]>>

\* Hash and zero count after the positions p .. end - 1 have been entered.
RECURSIVE enterPositions(_, _, _, _)
enterPositions(h, n, p, end) ==
  LET n2 == nextZeros(p, n)
  IN  IF p >= end THEN <<h, n>>
      ELSE enterPositions(updateHashChain(h, p % W, getHash(p), n2), n2, p + 1, end)

\* A literal or a match goes out at p; the positions the match covers are
\* entered in the hash.
Emit(h, n, p, length, offset, before) ==
  IF length >= 3 /\ offset > W
    THEN error' = 86 /\ UNCHANGED <<lz, hash, numzeros, pos>>
  ELSE IF length < 3 \/ length < settings.minmatch \/ (length = 3 /\ offset > 4096)
    THEN /\ lz' = lz \o before \o <<In(p)>>
         /\ hash' = h /\ numzeros' = n /\ pos' = p + 1
         /\ UNCHANGED error
    ELSE LET after == enterPositions(h, n, p + 1, p + length)
         IN  /\ lz' = lz \o before \o addLengthDistance(length, offset)
             /\ hash' = after[1] /\ numzeros' = after[2] /\ pos' = p + length
             /\ UNCHANGED error

\* One turn of the loop.  A match is postponed once, to see whether the next
\* position has a longer one; if it has none, the loop steps back, and the
\* heads are cleared because the same position is entered again.  (Error 81,
\* a postponed match at position 0, cannot arise: pos has moved on by then.)
encodeLZ77 ==
  /\ phase = "encode" /\ settings.btype # 0 /\ settings.use_lz77
  /\ error = 0 /\ pos < dataend
  /\ \E v \in {getHash(pos)}, n \in {nextZeros(pos, numzeros)} :
     \E h \in {updateHashChain(hash, pos % W, v, n)} :
     \E m \in {longestMatch(h, pos, n)} :
       \/ /\ settings.lazymatching /\ lazy = <<>>
          /\ m[1] >= 3 /\ m[1] <= maxlazymatch /\ m[1] < MAX_SUPPORTED_DEFLATE_LENGTH
          /\ lazy' = m /\ hash' = h /\ numzeros' = n /\ pos' = pos + 1
          /\ UNCHANGED <<lz, error>>
       \/ /\ lazy # <<>> /\ m[1] > lazy[1] + 1
          /\ lazy' = <<>>
          /\ Emit(h, n, pos, m[1], m[2], <<In(pos - 1)>>)
       \/ /\ lazy # <<>> /\ m[1] <= lazy[1] + 1
          /\ lazy' = <<>>
          /\ Emit([h EXCEPT !.head = (v :> -1) @@ @, !.headz = (n :> -1) @@ @], n,
                  pos - 1, lazy[1], lazy[2], <<>>)
       \/ /\ lazy = <<>>
          /\ ~settings.lazymatching \/ m[1] < 3 \/ m[1] > maxlazymatch
               \/ m[1] >= MAX_SUPPORTED_DEFLATE_LENGTH
          /\ lazy' = <<>>
          /\ Emit(h, n, pos, m[1], m[2], <<>>)
  /\ UNCHANGED <<data, settings, start, bits, phase, dec>>

\* use_lz77 off: every byte of the block is a literal.
CopyLiterals ==
  /\ phase = "encode" /\ settings.btype # 0 /\ ~settings.use_lz77 /\ pos < dataend
  /\ lz' = SubSeq(data, start + 1, dataend) /\ pos' = dataend
  /\ UNCHANGED <<data, settings, hash, start, numzeros, lazy, bits, phase, error, dec>>

(* --- blocks ------------------------------------------------------------ *)

\* lz as <<symbol>> for a literal, <<symbol, extra, distance, extra>> for a match.
RECURSIVE codesOf(_)
codesOf(s) == IF s = <<>> THEN <<>>
              ELSE LET k == IF s[1] > 256 THEN 4 ELSE 1
                   IN  <<SubSeq(s, 1, k)>> \o codesOf(SubSeq(s, k + 1, Len(s)))

writeLZ77data(codes, ll, d) ==
  FlattenSeq([i \in DOMAIN codes |->
    LET c == codes[i]
    IN  WriteSymbol(ll, c[1])
          \o IF c[1] <= 256 THEN <<>>
             ELSE writeBits(c[2], LENGTHEXTRA[c[1] - 256]) \o WriteSymbol(d, c[3])
                    \o writeBits(c[4], DISTANCEEXTRA[c[3] + 1])])

\* Mutant: 18 stands for up to 140 zeros.
maxZeroRunLong(run) == Min({run, 140})

\* The zeros one code 18 stands for.
maxZeroRun(run) == Min({run, 138})

\* Code lengths with repeat codes: 16 repeats the last one 3-6 times, 17 and
\* 18 stand for 3-10 and 11-138 zeros.  The result holds <<code>> or
\* <<code, extra>>.
RECURSIVE runLengths(_)
runLengths(s) ==
  IF s = <<>> THEN <<>>
  ELSE LET v   == s[1]
           run == Max({k \in 1 .. Len(s) : \A i \in 1 .. k : s[i] = v})
           j   == run - 1
           tail == IF j % 6 >= 3 THEN <<<<16, (j % 6) - 3>>>> ELSE <<>>
           used == IF j % 6 >= 3 THEN run ELSE run - (j % 6)
           Rest(k) == runLengths(SubSeq(s, k + 1, Len(s)))
       IN  CASE v = 0 /\ run >= 3 /\ run <= 10 -> <<<<17, run - 3>>>> \o Rest(run)
             [] v = 0 /\ run > 10 ->
                  LET z == maxZeroRun(run) IN <<<<18, z - 11>>>> \o Rest(z)
             [] v # 0 /\ j >= 3 ->
                  <<<<v>>>> \o [k \in 1 .. j \div 6 |-> <<16, 3>>] \o tail \o Rest(used)
             [] OTHER -> <<<<v>>>> \o Rest(1)

REPEAT_BITS == (16 :> 2) @@ (17 :> 3) @@ (18 :> 7)
RepeatBits(e) == IF e[1] < 16 THEN <<>> ELSE writeBits(e[2], REPEAT_BITS[e[1]])

Counts(domain, s) == [x \in domain |-> Cardinality({i \in DOMAIN s : s[i] = x})]
Lengths(tree) == [i \in 1 .. Cardinality(DOMAIN tree.lengths) |-> tree.lengths[i - 1]]

\* The end of a block: the next one starts with the hash as it stands, no
\* postponed match and no zeros counted.
EndBlock(blockBits, blockError) ==
  /\ bits' = bits \o blockBits
  /\ error' = blockError
  /\ phase' = IF dataend = Len(data) \/ blockError # 0 THEN "zlib" ELSE "encode"
  /\ start' = dataend /\ pos' = dataend
  /\ lz' = <<>> /\ lazy' = <<>> /\ numzeros' = 0
  /\ UNCHANGED <<data, settings, hash, dec>>

BlockReady(btype) == phase = "encode" /\ settings.btype = btype /\ error = 0 /\ pos >= dataend
BFINAL == IF dataend = Len(data) THEN 1 ELSE 0

\* Trees of the symbols that occur; their lengths, run-length encoded, are
\* written with a third tree, whose lengths stand in CLCL_ORDER.
deflateDynamic ==
  /\ BlockReady(2)
  /\ \E codes \in {codesOf(lz)} :
     \E ll \in {HuffmanTree_makeFromFrequencies(
                  [Counts(0 .. 285, [i \in DOMAIN codes |-> codes[i][1]]) EXCEPT ![256] = 1], 257, 15)},
        d \in {HuffmanTree_makeFromFrequencies(
                  Counts(0 .. 29, LET dists == SelectSeq(codes, LAMBDA c : c[1] > 256)
                                  IN  [i \in DOMAIN dists |-> dists[i][3]]), 2, 15)} :
     \E lld \in {runLengths(Lengths(ll) \o Lengths(d))} :
     \E cl \in {HuffmanTree_makeFromFrequencies(
                  Counts(0 .. 18, [i \in DOMAIN lld |-> lld[i][1]]), 19, 7)} :
     \E numcodes_cl \in {Max({4} \union {i \in 1 .. 19 : cl.lengths[CLCL_ORDER[i]] # 0})} :
       EndBlock(writeBits(BFINAL, 1) \o writeBits(2, 2)
                  \o writeBits(Len(Lengths(ll)) - 257, 5) \o writeBits(Len(Lengths(d)) - 1, 5)
                  \o writeBits(numcodes_cl - 4, 4)
                  \o FlattenSeq([i \in 1 .. numcodes_cl |-> writeBits(cl.lengths[CLCL_ORDER[i]], 3)])
                  \o FlattenSeq([i \in DOMAIN lld |-> WriteSymbol(cl, lld[i][1]) \o RepeatBits(lld[i])])
                  \o writeLZ77data(codes, ll, d) \o WriteSymbol(ll, 256),
                Max({ll.table.error, d.table.error, cl.table.error}))

deflateFixed ==
  /\ BlockReady(1)
  /\ EndBlock(writeBits(BFINAL, 1) \o writeBits(1, 2)
                \o writeLZ77data(codesOf(lz), generateFixedLitLenTree, generateFixedDistanceTree)
                \o WriteSymbol(generateFixedLitLenTree, 256), 0)

WriteBytes(s) == FlattenSeq([i \in DOMAIN s |-> writeBits(s[i], 8)])

\* Stored blocks: no hash, no codes, each block starts at a byte.
deflateNoCompression ==
  /\ phase = "encode" /\ settings.btype = 0
  /\ LET n == (Len(data) + MaxStored - 1) \div MaxStored
         Block(i) == LET at == (i - 1) * MaxStored
                         LEN == Min({MaxStored, Len(data) - at})
                         NLEN == 65535 - LEN
                     IN  <<IF i = n THEN 1 ELSE 0, LEN % 256, LEN \div 256, NLEN % 256, NLEN \div 256>>
                           \o SubSeq(data, at + 1, at + LEN)
     IN  bits' = FlattenSeq([i \in 1 .. n |-> WriteBytes(Block(i))])
  /\ phase' = "zlib" /\ pos' = Len(data) /\ start' = Len(data)
  /\ UNCHANGED <<data, settings, hash, numzeros, lazy, lz, error, dec>>

\* <<s2, s1>>, the halves of the checksum
RECURSIVE update_adler32(_, _)
update_adler32(adler, s) ==
  IF s = <<>> THEN adler
  ELSE LET s1 == (adler[2] + Head(s)) % 65521
       IN  update_adler32(<<(adler[1] + s1) % 65521, s1>>, Tail(s))

adler32(s) == LET a == update_adler32(<<0, 1>>, s)
              IN  <<a[1] \div 256, a[1] % 256, a[2] \div 256, a[2] % 256>>

\* Header, the deflated bytes (the last one filled up with zeros), checksum.
lodepng_zlib_compress ==
  /\ phase = "zlib" /\ error = 0
  /\ LET CMFFLG == 256 * 120
         FCHECK == 31 - (CMFFLG % 31)
     IN  bits' = WriteBytes(<<120, FCHECK>>) \o bits
                   \o [i \in 1 .. (8 - (Len(bits) % 8)) % 8 |-> 0] \o WriteBytes(adler32(data))
  /\ phase' = "open"
  /\ UNCHANGED <<data, settings, enc, error, dec>>

(* --- the decompressor, the reference ----------------------------------- *)

RECURSIVE copyBack(_, _, _)
copyBack(o, length, distance) ==
  IF length = 0 THEN o
  ELSE copyBack(Append(o, o[Len(o) - distance + 1]), length - 1, distance)

\* A block's symbols up to its end code, from bit p on.
RECURSIVE inflateSymbols(_, _, _, _, _)
inflateSymbols(o, s, p, ll, d) ==
  LET c    == huffmanDecodeSymbol(s, p, ll)
      x    == IF c.value \in 257 .. 285 THEN LENGTHEXTRA[c.value - 256] ELSE 0
      len  == LENGTHBASE[c.value - 256] + peekBits(s, c.bp, x)
      dc   == huffmanDecodeSymbol(s, c.bp + x, d)
      y    == DISTANCEEXTRA[dc.value + 1]
      dist == DISTANCEBASE[dc.value + 1] + peekBits(s, dc.bp, y)
      Fail(e) == [out |-> o, bp |-> p, error |-> e]
      Go(o2, p2) == IF p2 > Len(s) THEN Fail(51) ELSE inflateSymbols(o2, s, p2, ll, d)
  IN  CASE c.value <= 255 -> Go(Append(o, c.value), c.bp)
        [] c.value = 256  -> [out |-> o, bp |-> c.bp, error |-> 0]
        [] c.value \in 257 .. 285 ->
             IF dc.value > 29 THEN Fail(IF dc.value <= 31 THEN 18 ELSE 16)
             ELSE IF dist > Len(o) THEN Fail(52)
             ELSE Go(copyBack(o, len, dist), dc.bp + y)
        [] OTHER -> Fail(16)

RECURSIVE readCodeLengths(_, _, _, _, _)
readCodeLengths(lens, s, p, cl, total) ==
  LET c   == huffmanDecodeSymbol(s, p, cl)
      rep == peekBits(s, c.bp, REPEAT_BITS[c.value]) + IF c.value = 18 THEN 11 ELSE 3
      v   == IF c.value = 16 THEN lens[Len(lens)] ELSE 0
      Fail(e) == [lens |-> lens, bp |-> p, error |-> e]
      Go(more, p2) == IF p2 > Len(s) THEN Fail(50)
                      ELSE readCodeLengths(lens \o more, s, p2, cl, total)
  IN  IF Len(lens) >= total THEN Fail(0)
      ELSE CASE c.value <= 15 -> Go(<<c.value>>, c.bp)
             [] c.value \in 16 .. 18 ->
                  IF c.value = 16 /\ lens = <<>> THEN Fail(54)
                  ELSE IF Len(lens) + rep > total THEN Fail(c.value - 3)
                  ELSE Go([i \in 1 .. rep |-> v], c.bp + REPEAT_BITS[c.value])
             [] OTHER -> Fail(16)

Padded(lens, n) == [i \in 0 .. n - 1 |-> IF i < Len(lens) THEN lens[i + 1] ELSE 0]

\* The code length code lengths at bit p, HCLEN of them.
bitlen_cl(p, HCLEN) ==
  [c \in 0 .. 18 |-> LET i == CHOOSE k \in 1 .. 19 : CLCL_ORDER[k] = c
                     IN  IF i <= HCLEN THEN peekBits(bits, p + 3 * (i - 1), 3) ELSE 0]

\* After a block: the next one, or the checksum when it was the final one.
BlockRead(r) ==
  /\ out' = r.out /\ bp' = r.bp /\ error' = r.error
  /\ phase' = IF peekBits(bits, bp, 1) = 1 THEN "check" ELSE "inflate"
  /\ UNCHANGED <<data, settings, enc, bits>>

InflateError(e) == BlockRead([out |-> out, bp |-> bp, error |-> e])

inflateNoCompression ==
  \E at \in {8 * ((bp + 10) \div 8)} :
  LET Byte(k) == peekBits(bits, at + 8 * k, 8)
      LEN  == Byte(0) + 256 * Byte(1)
      NLEN == Byte(2) + 256 * Byte(3)
  IN  IF at + 32 >= Len(bits) THEN InflateError(52)
      ELSE IF LEN + NLEN # 65535 THEN InflateError(21)
      ELSE IF at + 32 + 8 * LEN > Len(bits) THEN InflateError(23)
      ELSE BlockRead([out |-> out \o [k \in 1 .. LEN |-> Byte(k + 3)],
                      bp |-> at + 32 + 8 * LEN, error |-> 0])

inflateFixed ==
  BlockRead(inflateSymbols(out, bits, bp + 3, generateFixedLitLenTree, generateFixedDistanceTree))

inflateDynamic ==
  \E HLIT  \in {peekBits(bits, bp + 3, 5) + 257},
     HDIST \in {peekBits(bits, bp + 8, 5) + 1},
     HCLEN \in {peekBits(bits, bp + 13, 4) + 4} :
  IF bp + 17 > Len(bits) THEN InflateError(49)
  ELSE IF bp + 17 + 3 * HCLEN > Len(bits) THEN InflateError(50)
  ELSE \E cl \in {HuffmanTree_makeFromLengths(bitlen_cl(bp + 17, HCLEN), 7)} :
       IF cl.table.error # 0 THEN InflateError(cl.table.error)
       ELSE \E r \in {readCodeLengths(<<>>, bits, bp + 17 + 3 * HCLEN, cl, HLIT + HDIST)} :
            IF r.error # 0 THEN InflateError(r.error)
            ELSE IF r.lens[257] = 0 THEN InflateError(64)
            ELSE \E ll \in {HuffmanTree_makeFromLengths(Padded(SubSeq(r.lens, 1, HLIT), 288), 15)},
                    d \in {HuffmanTree_makeFromLengths(
                             Padded(SubSeq(r.lens, HLIT + 1, HLIT + HDIST), 32), 15)} :
                 IF ll.table.error # 0 \/ d.table.error # 0 THEN InflateError(55)
                 ELSE BlockRead(inflateSymbols(out, bits, r.bp, ll, d))

\* One block: three bits say whether it is the last and of which kind.
lodepng_inflatev ==
  /\ phase = "inflate" /\ error = 0
  /\ IF bp + 3 > Len(bits) THEN InflateError(52)
     ELSE CASE peekBits(bits, bp + 1, 2) = 0 -> inflateNoCompression
            [] peekBits(bits, bp + 1, 2) = 1 -> inflateFixed
            [] peekBits(bits, bp + 1, 2) = 2 -> inflateDynamic
            [] OTHER -> InflateError(20)

\* Header and checksum of lodepng_zlib_decompressv.
OpenStream ==
  /\ phase = "open"
  /\ \E CMF \in {peekBits(bits, 0, 8)}, FLG \in {peekBits(bits, 8, 8)} :
       error' = IF Len(bits) < 16 THEN 53
                ELSE IF (CMF * 256 + FLG) % 31 # 0 THEN 24
                ELSE IF CMF % 16 # 8 \/ CMF \div 16 > 7 THEN 25
                ELSE IF (FLG \div 32) % 2 # 0 THEN 26 ELSE 0
  /\ phase' = "inflate" /\ bp' = 16
  /\ UNCHANGED <<data, settings, enc, bits, out>>

CheckAdler ==
  /\ phase = "check" /\ error = 0
  /\ error' = IF SubSeq(bits, Len(bits) - 31, Len(bits)) # WriteBytes(adler32(out)) THEN 58 ELSE 0
  /\ phase' = "read"
  /\ UNCHANGED <<data, settings, enc, bits, dec>>

(* --- the specification ------------------------------------------------- *)

DeflateStart ==
  /\ hash = hash_init(settings.windowsize)
  /\ start = 0 /\ pos = 0 /\ numzeros = 0 /\ lazy = <<>>
  /\ lz = <<>> /\ bits = <<>> /\ phase = "encode" /\ error = 0
  /\ out = <<>> /\ bp = 0

DeflateInit == data \in Inputs /\ settings \in Settings /\ DeflateStart

DeflateStopped == (phase = "read" \/ error # 0) /\ UNCHANGED deflateVars

DeflateNext ==
  \/ encodeLZ77 \/ CopyLiterals \/ deflateDynamic \/ deflateFixed \/ deflateNoCompression
  \/ lodepng_zlib_compress
  \/ OpenStream \/ lodepng_inflatev \/ CheckAdler
  \/ DeflateStopped

DeflateSpec == DeflateInit /\ [][DeflateNext]_deflateVars

(* --- properties -------------------------------------------------------- *)

\* What a decoder makes of literals and matches, after the bytes in o.
RECURSIVE expand(_, _)
expand(o, codes) ==
  IF codes = <<>> THEN o
  ELSE LET c == Head(codes)
       IN  expand(IF c[1] <= 255 THEN Append(o, c[1])
                  ELSE copyBack(o, LENGTHBASE[c[1] - 256] + c[2], DISTANCEBASE[c[3] + 1] + c[4]),
                  Tail(codes))

\* At every turn of encodeLZ77's loop the literals and matches written so far
\* expand to exactly the bytes passed, but for the one byte of a postponed
\* match, whichever mix of lazy matches, steps back, stale hash chains, zero
\* skips and blocks led there (lodepng.cpp 1589-1740).
EncodedIsExact ==
  settings.btype # 0 /\ phase = "encode" =>
    expand(SubSeq(data, 1, start), codesOf(lz))
      = SubSeq(data, 1, pos - IF lazy = <<>> THEN 0 ELSE 1)

\* The zero counts in the hash, which let the search skip bytes without
\* comparing them, never promise more zeros than there are at any position
\* still in the window (lodepng.cpp 1621-1624, 1653-1658).
ZeroCountsHold ==
  \A p \in Max({0, pos - W}) .. pos - 1 :
    hash.zeros[p % W] > 0 => \A i \in p .. p + hash.zeros[p % W] - 1 : i < Len(data) /\ In(i) = 0

\* No step of the compressor fails, and once the stream is complete the
\* decompressor, checks of header, codes and Adler-32 included, returns the
\* bytes that went in.
RoundTrip ==
  /\ error = 0
  /\ phase = "read" => out = data

\* Package merge on the byte frequencies gives, for every length limit, a
\* complete code of least cost (lodepng.cpp 946-1029).
CodeLengthsOptimal ==
  phase = "read" /\ Cardinality(Range(data)) >= 2 =>
    LET frequencies == Counts(Range(data), data)
    IN  \A limit \in 1 .. 4 :
          2^limit >= Cardinality(Range(data)) =>
            OptimalLengths(frequencies, lodepng_huffman_code_lengths(frequencies, limit), limit)
=============================================================================
