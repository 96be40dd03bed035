--------------------------- MODULE ScanlineProofs ---------------------------
(***************************************************************************)
(* For every line, every line above it, every pixel width and every filter *)
(* type, unfiltering undoes filtering.                                     *)
(***************************************************************************)
EXTENDS Scanline, WellFoundedInduction, TLAPS

\* Byte arithmetic: what is subtracted modulo 256 can be added again.
LEMMA ByteInverse ==
  ASSUME NEW b \in Byte, NEW p \in Int
  PROVE  (((b - p) % 256) + p) % 256 = b
BY SMT DEF Byte

\* paethPredictor returns one of its arguments, so it is a byte.
LEMMA PaethByte ==
  ASSUME NEW a \in Byte, NEW b \in Byte, NEW c \in Byte
  PROVE  paethPredictor(a, b, c) \in {a, b, c}
BY SMT DEF paethPredictor, Byte

\* Whatever the filter predicts is a byte.
LEMMA PredictByte ==
  ASSUME NEW type \in 0 .. 4, NEW a \in Byte, NEW b \in Byte, NEW c \in Byte
  PROVE  Predict(type, a, b, c) \in Byte
<1>1. paethPredictor(a, b, c) \in Byte
  BY PaethByte
<1>2. (a + b) \div 2 \in Byte
  BY SMT DEF Byte
<1> QED
  BY <1>1, <1>2, SMT DEF Predict, Byte

\* A byte read beside the line is a byte too.
LEMMA AtByte ==
  ASSUME NEW s \in Seq(Byte), NEW i \in Int
  PROVE  At(s, i) \in Byte
<1>1. \A k \in 1 .. Len(s) : s[k] \in Byte
  OBVIOUS
<1>2. Len(s) \in Nat /\ 0 \in Byte
  BY SMT DEF Byte
<1>3. i >= 1 /\ i <= Len(s) => i \in 1 .. Len(s)
  BY <1>2, SMT
<1> QED
  BY <1>1, <1>2, <1>3 DEF At

\* The branches of unfilterScanline without a line above, and its first
\* bytes, agree with the general formula: the predictor of the Paeth filter
\* is then the one neighbour there is (lodepng.cpp 4142, 4188, 5404, 5411).
THEOREM PaethAtTheEdge ==
  ASSUME NEW b \in Byte
  PROVE  paethPredictor(0, b, 0) = b /\ paethPredictor(b, 0, 0) = b
BY SMT DEF paethPredictor, Distance, Byte

\* Unfiltering a filtered line gives the line back, byte by byte from the
\* left, for lines of every length (lodepng.cpp 4107-4203, 5380-5421).
THEOREM UnfilterInvertsFilter ==
  ASSUME NEW line \in Seq(Byte), NEW prev \in Seq(Byte), NEW bytewidth \in Nat \ {0},
         NEW type \in 0 .. 4
  PROVE  unfilterScanline(filterScanline(line, prev, bytewidth, type), prev, bytewidth, type) = line
<1> DEFINE scanline == filterScanline(line, prev, bytewidth, type)
           P(i, left) == Predict(type, left, At(prev, i), At(prev, i - bytewidth))
           N == 1 .. Len(line)
           Step(f, i) == (scanline[i] + P(i, IF i > bytewidth THEN f[i - bytewidth] ELSE 0)) % 256
<1>1. line = [i \in N |-> line[i]] /\ Len(line) \in Nat /\ \A i \in N : line[i] \in Byte
  BY SMT
<1>2. \A i \in N : scanline[i] = (line[i] - P(i, At(line, i - bytewidth))) % 256
  BY SMT DEF filterScanline
<1>3. Len(scanline) = Len(line)
  BY <1>1, SMT DEF filterScanline
<1>4. ASSUME NEW i \in N
      PROVE  Step(line, i) = line[i]
  <2>1. At(line, i - bytewidth) = IF i > bytewidth THEN line[i - bytewidth] ELSE 0
    BY <1>1, SMT DEF At
  <2>2. P(i, At(line, i - bytewidth)) \in Int
    <3>1. At(line, i - bytewidth) \in Byte /\ At(prev, i) \in Byte /\ At(prev, i - bytewidth) \in Byte
      <4>1. i \in Int /\ i - bytewidth \in Int
        BY <1>1, SMT
      <4> QED
        BY <4>1, AtByte
    <3>2. P(i, At(line, i - bytewidth)) \in Byte
      BY <3>1, PredictByte, Zenon
    <3>3. Byte \subseteq Int
      BY SMT DEF Byte
    <3> QED
      BY <3>2, <3>3, Zenon
  <2>3. line[i] \in Byte
    BY <1>1
  <2> DEFINE p == P(i, At(line, i - bytewidth))
  <2>4. Step(line, i) = (((line[i] - p) % 256) + p) % 256
    BY <1>2, <2>1
  <2> HIDE DEF p
  <2> QED
    BY <2>2, <2>3, <2>4, ByteInverse DEF p
<1>5. line = [i \in N |-> Step(line, i)]
  BY <1>1, <1>4
<1>6. PICK recon : /\ recon = unfilterScanline(scanline, prev, bytewidth, type)
                   /\ recon = [i \in N |-> Step(recon, i)]
  <2> DEFINE Recon == CHOOSE f : f = [i \in N |-> Step(f, i)]
  <2>1. Recon = [i \in N |-> Step(Recon, i)]
    BY <1>5
  <2>2. unfilterScanline(scanline, prev, bytewidth, type) = Recon
    BY <1>3 DEF unfilterScanline
  <2> QED
    BY <2>1, <2>2
<1>7. \A i \in N : recon[i] = line[i]
  <2> DEFINE T == {i \in N : recon[i] # line[i]}
  <2> SUFFICES ASSUME T # {} PROVE FALSE
    OBVIOUS
  <2>1. T \subseteq Nat
    BY <1>1
  <2>2. PICK i \in T : \A j \in T : ~ <<j, i>> \in OpToRel(<, Nat)
    BY <2>1, WFMin, NatLessThanWellFounded
  <2>3. \A j \in T : ~ j < i
    BY <2>1, <2>2 DEF OpToRel
  <2>4. i > bytewidth => recon[i - bytewidth] = line[i - bytewidth]
    <3> SUFFICES ASSUME i > bytewidth PROVE recon[i - bytewidth] = line[i - bytewidth]
      OBVIOUS
    <3>1. i - bytewidth \in N /\ i - bytewidth < i
      BY <1>1, SMT
    <3> QED
      BY <2>3, <3>1
  <2>5. Step(recon, i) = Step(line, i)
    BY <2>4
  <2>6. recon[i] = Step(recon, i)
    BY <1>6
  <2> QED
    BY <1>4, <2>5, <2>6
<1> QED
  BY <1>1, <1>6, <1>7
=============================================================================
