------------------------------ MODULE Scanline ------------------------------
(***************************************************************************)
(* The filters a PNG applies to a scanline before it is compressed, and    *)
(* their inverse (lodepng.cpp 3974-3982, 4107-4203, 5380-5597).  A line is *)
(* a sequence of bytes; prev is the line above, <<>> for the first one.    *)
(***************************************************************************)
EXTENDS Integers, Sequences, FiniteSetsExt

Byte == 0 .. 255

Distance(x, y) == IF x < y THEN y - x ELSE x - y

\* The one of left, up and up-left nearest to left + up - upleft.
paethPredictor(a, b, c) ==
  LET pa == Distance(b, c)
      pb == Distance(a, c)
      pc == Distance(a + b, c + c)
      nearer == IF pb < pa THEN pb ELSE pa
  IN  IF pc < nearer THEN c ELSE IF pb < pa THEN b ELSE a

\* What a filter of this type subtracts from a byte.
Predict(type, left, up, upleft) ==
  CASE type = 1 -> left
    [] type = 2 -> up
    [] type = 3 -> (left + up) \div 2
    [] type = 4 -> paethPredictor(left, up, upleft)
    [] OTHER    -> 0

\* A byte outside the image counts as zero: the loops over the first
\* bytewidth bytes and the branches without a previous line.
At(s, i) == IF i >= 1 /\ i <= Len(s) THEN s[i] ELSE 0

filterScanline(line, prev, bytewidth, type) ==
  [i \in 1 .. Len(line) |->
     (line[i] - Predict(type, At(line, i - bytewidth), At(prev, i), At(prev, i - bytewidth))) % 256]

\* The bytes to the left are those already reconstructed.
unfilterScanline(scanline, prev, bytewidth, type) ==
  LET recon[i \in 1 .. Len(scanline)] ==
        (scanline[i] + Predict(type, IF i > bytewidth THEN recon[i - bytewidth] ELSE 0,
                               At(prev, i), At(prev, i - bytewidth))) % 256
  IN  recon

(* --- which filter ------------------------------------------------------ *)

\* The sum of weight(b) over the bytes.
Total(weight(_), bytes) ==
  LET sum[i \in 0 .. Len(bytes)] == IF i = 0 THEN 0 ELSE sum[i - 1] + weight(bytes[i])
  IN  sum[Len(bytes)]

\* LFS_MINSUM weighs the bytes of a difference as signed numbers.
minsum(type, bytes) ==
  Total(LAMBDA b : IF type = 0 \/ b < 128 THEN b ELSE 255 - b, bytes)

ilog2(i) == Max({l \in 0 .. 30 : 2^l <= i})
ilog2i(i) == IF i = 0 THEN 0 ELSE i * ilog2(i) + 2 * (i - 2^ilog2(i))

\* LFS_ENTROPY weighs how often each value occurs, the type byte included.
entropy(type, bytes) ==
  SumFunction([v \in Range(bytes) \union {type} |->
    ilog2i(Cardinality({i \in DOMAIN bytes : bytes[i] = v}) + IF v = type THEN 1 ELSE 0)])

\* Of the five attempts at a line, the first with the least sum or, for
\* LFS_ENTROPY, the greatest; the other strategies fix the type.
bestType(strategy, attempt) ==
  CASE strategy = "MINSUM" ->
         Min({t \in 0 .. 4 : \A u \in 0 .. 4 : minsum(t, attempt[t]) <= minsum(u, attempt[u])})
    [] strategy = "ENTROPY" ->
         Min({t \in 0 .. 4 : \A u \in 0 .. 4 : entropy(t, attempt[t]) >= entropy(u, attempt[u])})
    [] OTHER -> [ZERO |-> 0, ONE |-> 1, TWO |-> 2, THREE |-> 3, FOUR |-> 4][strategy]

\* The scanlines with their type bytes.  Every line is predicted from the
\* lines as they were before filtering.
filter(lines, bytewidth, strategy) ==
  LET Prev(y) == IF y = 1 THEN <<>> ELSE lines[y - 1]
      Attempts(y) == [t \in 0 .. 4 |-> filterScanline(lines[y], Prev(y), bytewidth, t)]
      Chosen(type, attempt) == <<type>> \o attempt[type]
      Filtered(attempt) == Chosen(bestType(strategy, attempt), attempt)
  IN  [y \in DOMAIN lines |-> Filtered(Attempts(y))]
=============================================================================
