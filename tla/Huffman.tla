------------------------------ MODULE Huffman ------------------------------
(***************************************************************************)
(* The bit stream and the Huffman codes of lodepng, the library with which  *)
(* the render client writes its frames (lodepng.cpp 408-1115): writing and  *)
(* reading bits, code lengths by boundary package merge, canonical codes    *)
(* and the two-level table the decoder looks symbols up in.  A stream is a  *)
(* sequence of bits in the order in which the bit writer fills its bytes;   *)
(* symbols and positions count from 0, as in the code.                      *)
(***************************************************************************)
EXTENDS Integers, Sequences, FiniteSets, FiniteSetsExt, SequencesExt, TLC

CONSTANT FIRSTBITS      \* bits of the first table lookup: 9 in the code

INVALIDSYMBOL == 65535

Kinds(f) == {s \in DOMAIN f : f[s] > 0}

(* --- the bit writer and the bit reader --------------------------------- *)

\* LSB first
writeBits(value, n) == [i \in 1 .. n |-> (value \div 2^(i - 1)) % 2]

\* MSB first, for Huffman codes
writeBitsReversed(value, n) == [i \in 1 .. n |-> (value \div 2^(n - i)) % 2]

\* The next n bits as a number; bits past the end of the stream read as 0.
peekBits(bits, bp, n) ==
  SumSet({2^i : i \in {k \in 0 .. n - 1 :
                         bp + k < Len(bits) /\ bits[bp + k + 1] = 1}})

reverseBits(v, n) == peekBits(writeBitsReversed(v, n), 0, n)

(* --- code lengths: boundary package merge ------------------------------ *)

\* A chain is its weight and the leaf counts of its nodes, the head first.
bpmnode_create(weight, index, tail) == [weight |-> weight, index |-> <<index>> \o tail]

\* Mutant: the leaves stay in the order of their symbols.
bpmnode_sortNot(leaves) == SortSeq(leaves, LAMBDA a, b : a.sym < b.sym)

\* By weight; the merge sort is stable, so equal weights stay in symbol order.
bpmnode_sort(leaves) == SortSeq(leaves, LAMBDA a, b : \/ a.weight < b.weight
                                                      \/ a.weight = b.weight /\ a.sym < b.sym)

RECURSIVE boundaryPM(_, _, _, _)
boundaryPM(lists, leaves, c, num) ==
  LET top  == lists[c].c1
      last == Head(top.index)
      sum  == lists[c - 1].c0.weight + lists[c - 1].c1.weight
      Push(node) == [lists EXCEPT ![c] = [c0 |-> top, c1 |-> node]]
      leaf(tail) == Push(bpmnode_create(leaves[last + 1].weight, last + 1, tail))
      fits == last < Len(leaves)
  IN  CASE c = 0 /\ ~fits -> lists
        [] c = 0 /\ fits  -> leaf(<<>>)
        [] c > 0 /\ fits /\ sum > leaves[last + 1].weight -> leaf(Tail(top.index))
        [] OTHER ->
             LET pushed == Push(bpmnode_create(sum, last, lists[c - 1].c1.index))
             IN  IF num + 1 < 2 * Len(leaves) - 2
                   THEN boundaryPM(boundaryPM(pushed, leaves, c - 1, num), leaves, c - 1, num)
                   ELSE pushed

RECURSIVE packageMerge(_, _, _, _)
packageMerge(lists, leaves, maxbitlen, i) ==
  IF i = 2 * Len(leaves) - 2
    THEN lists[maxbitlen - 1].c1.index
    ELSE packageMerge(boundaryPM(lists, leaves, maxbitlen - 1, i), leaves, maxbitlen, i + 1)

leavesOf(frequencies) ==
  bpmnode_sort(SetToSeq({[weight |-> frequencies[s], sym |-> s] : s \in Kinds(frequencies)}))

\* Two chains in every list, then 2n - 4 more in the last one.
mergedChain(leaves, maxbitlen) ==
  packageMerge([c \in 0 .. maxbitlen - 1 |->
                  [c0 |-> bpmnode_create(leaves[1].weight, 1, <<>>),
                   c1 |-> bpmnode_create(leaves[2].weight, 2, <<>>)]], leaves, maxbitlen, 2)

\* A symbol's length: the nodes of the chain that count its leaf.
countLengths(symbols, leaves, chain) ==
  [s \in symbols |->
     LET rank == {r \in DOMAIN leaves : leaves[r].sym = s}
     IN  Cardinality({k \in DOMAIN chain : \E r \in rank : r <= chain[k]})]

chainLengths(symbols, leaves, maxbitlen) ==
  countLengths(symbols, leaves, mergedChain(leaves, maxbitlen))

\* The bit length of every symbol; at least two symbols get one.
lodepng_huffman_code_lengths(frequencies, maxbitlen) ==
  LET Ones(some) == [s \in DOMAIN frequencies |-> IF s \in some THEN 1 ELSE 0]
  IN  CASE Cardinality(Kinds(frequencies)) = 0 -> Ones({0, 1})
        [] Cardinality(Kinds(frequencies)) = 1 ->
             Ones(Kinds(frequencies) \union {IF 0 \in Kinds(frequencies) THEN 1 ELSE 0})
        [] OTHER -> chainLengths(DOMAIN frequencies, leavesOf(frequencies), maxbitlen)

(* --- canonical codes and the decoder's table --------------------------- *)

\* The first code of every length up to b.
RECURSIVE nextcodes(_, _)
nextcodes(lengths, b) ==
  IF b = 0 THEN 0 :> 0
  ELSE LET f == nextcodes(lengths, b - 1)
           blcount == Cardinality({s \in DOMAIN lengths : lengths[s] = b - 1})
       IN  (b :> 2 * (f[b - 1] + blcount)) @@ f

\* codes[s] for the present symbols: by length, then by symbol.  Symbols of
\* length 0 are counted too and are masked away again, as in the code.
codesFrom(lengths, nextcode) ==
  [s \in Kinds(lengths) |->
     (nextcode[lengths[s]]
       + Cardinality({t \in DOMAIN lengths : t < s /\ lengths[t] = lengths[s]}))
     % 2^lengths[s]]

HuffmanCodes(lengths, maxbitlen) == codesFrom(lengths, nextcodes(lengths, maxbitlen))

\* The symbols as the bit reader meets them: length and reversed code.
tableEntries(lengths, codes) ==
  {[s |-> s, l |-> lengths[s], r |-> reverseBits(codes[s], lengths[s])] : s \in DOMAIN codes}

\* First table: a symbol, or the longest code with this prefix and a second
\* table; an entry is [len, value].  error 55: two codes collide or, with at
\* least two symbols, some bit pattern is no code.
lookupTable(short, long, prefix) ==
  LET heads    == 0 .. 2^FIRSTBITS - 1
      At(i)    == {e \in short : i % 2^e.l = e.r}
      Under(i) == {e \in long : e.r % 2^FIRSTBITS = i}
      maxlen(es) == Max({e.l : e \in es})
      Tails(es)  == 0 .. 2^(maxlen(es) - FIRSTBITS) - 1
      In2(es, j) == {e \in es : j % 2^(e.l - FIRSTBITS) = e.r \div 2^FIRSTBITS}
      Gap(es)    == \E j \in Tails(es) : In2(es, j) = {}
      Entry(es, none) == IF es = {} THEN [len |-> none, value |-> INVALIDSYMBOL]
                         ELSE LET e == CHOOSE x \in es : \A y \in es : y.s <= x.s
                              IN  [len |-> e.l, value |-> e.s]
      Second(es) == [j \in Tails(es) |-> Entry(In2(es, j), FIRSTBITS + 1)]
      bad      == \/ \E i \in heads : Cardinality(At(i)) > 1 \/ (i \in prefix /\ At(i) # {})
                  \/ /\ Cardinality(short \union long) >= 2
                     /\ \/ \E i \in heads \ prefix : At(i) = {}
                        \/ \E i \in prefix : Gap(Under(i))
  IN  [first  |-> [i \in heads |-> IF i \in prefix THEN [len |-> maxlen(Under(i)), value |-> i]
                                                   ELSE Entry(At(i), 1)],
       second |-> [i \in prefix |-> Second(Under(i))],
       error  |-> IF bad THEN 55 ELSE 0]

HuffmanTree_makeTable(all) ==
  lookupTable({e \in all : e.l <= FIRSTBITS}, {e \in all : e.l > FIRSTBITS},
              {e.r % 2^FIRSTBITS : e \in {x \in all : x.l > FIRSTBITS}})

HuffmanTree_makeFromLengths2(lengths, codes) ==
  [lengths |-> lengths, codes |-> codes, table |-> HuffmanTree_makeTable(tableEntries(lengths, codes))]

HuffmanTree_makeFromLengths(lengths, maxbitlen) ==
  HuffmanTree_makeFromLengths2(lengths, HuffmanCodes(lengths, maxbitlen))

\* Trailing symbols that do not occur are trimmed, down to mincodes.
HuffmanTree_makeFromFrequencies(frequencies, mincodes, maxbitlen) ==
  LET numcodes == Max({mincodes} \union {s + 1 : s \in Kinds(frequencies)})
  IN  HuffmanTree_makeFromLengths(
        lodepng_huffman_code_lengths([s \in 0 .. numcodes - 1 |-> frequencies[s]], maxbitlen),
        maxbitlen)

generateFixedLitLenTree ==
  HuffmanTree_makeFromLengths(
    [s \in 0 .. 287 |-> IF s <= 143 THEN 8 ELSE IF s <= 255 THEN 9 ELSE IF s <= 279 THEN 7 ELSE 8],
    15)

generateFixedDistanceTree == HuffmanTree_makeFromLengths([s \in 0 .. 31 |-> 5], 15)

WriteSymbol(tree, s) == writeBitsReversed(tree.codes[s], tree.lengths[s])

\* The symbol at bit bp and the position behind it.
huffmanDecodeSymbol(bits, bp, tree) ==
  LET e  == tree.table.first[peekBits(bits, bp, FIRSTBITS)]
      e2 == tree.table.second[e.value][peekBits(bits, bp + FIRSTBITS, e.len - FIRSTBITS)]
  IN  IF e.len <= FIRSTBITS THEN [value |-> e.value, bp |-> bp + e.len]
                            ELSE [value |-> e2.value, bp |-> bp + e2.len]

(* --- reference: what code lengths should be ---------------------------- *)

\* Kraft sum of 2^-length, scaled by 2^limit.
Kraft(lengths, limit) ==
  MapThenSumSet(LAMBDA s : 2^(limit - lengths[s]), Kinds(lengths))

Cost(frequencies, lengths) == MapThenSumSet(LAMBDA s : frequencies[s] * lengths[s], DOMAIN lengths)

\* lengths is a complete code of at most limit bits for the symbols that
\* occur, and no other code of at most limit bits is cheaper.
OptimalLengths(frequencies, lengths, limit) ==
  /\ Kinds(lengths) = DOMAIN frequencies
  /\ \A s \in DOMAIN lengths : lengths[s] <= limit
  /\ Kraft(lengths, limit) = 2^limit
  /\ \A other \in [DOMAIN frequencies -> 1 .. limit] :
       Kraft(other, limit) <= 2^limit => Cost(frequencies, lengths) <= Cost(frequencies, other)
=============================================================================
