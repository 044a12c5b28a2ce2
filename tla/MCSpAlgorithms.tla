-------------------------- MODULE MCSpAlgorithms --------------------------
(* The curve y^2 = x^3 - 3x + 37 modulo 59, of prime order 53. *)
EXTENDS SpAlgorithms

MCZs == 1 .. 3
MCHashes == {0, 5, 52, 53, 63}
MCKeys == {1, 7, 52}
MCSigS == {1, 2, 27, 52}
MCBlocks == {-1, 3, 7, 51, 52}
MCWidths == {<<5, 4>>, <<6, 4>>, <<7, 4>>, <<4, 3>>, <<5, 3>>, <<6, 3>>, <<7, 5>>, <<12, 4>>}
MCOperands == {0, 1, 7, 8, 64, 96, 97, 102, 103, 126, 127}
MCModuli == {103, 97, 127}
MCDivisors == {2047, 1973, 1951, 1801, 1705, 1601}
MCFactors ==
  {0, 1, 7, 8, 9, 64, 255, 511, 512, 1023, 1024, 1025, 1448, 1600, 1704, 1800, 1916, 1950,
   1984, 2039, 2045, 2046, 2047}
MCWords == 4 .. 7
MCExpModuli == {513, 667, 967, 1021, 1023}
MCBases == {0, 1, 2, 3, 511, 966, 1022}
MCExponents == {0, 1, 2, 3, 5, 8, 15, 16, 17, 31, 33, 63, 64, 100, 255, 256, 341, 512, 682, 1023}
KeyOf(p, q, e) ==
  LET inverse(a, m) == CHOOSE i \in 1 .. m - 1 : (a * i) % m = 1
  IN [p |-> p, q |-> q, e |-> e, dp |-> inverse(e, p - 1), dq |-> inverse(e, q - 1),
      qi |-> inverse(q % p, p)]
MCRsaKeys == {KeyOf(23, 29, 3), KeyOf(29, 23, 5), KeyOf(17, 31, 7), KeyOf(31, 17, 7)}

\* A permutation of the 256 blocks, keys up to the limit and one beyond, all
\* ciphertexts of two and three semiblocks, and some of four and of odd lengths.
MCEncrypt == [b \in 0 .. 255 |-> (((((b * 77 + 31) % 256) + 1) * 100) % 257) - 1]
MCDecrypt == [b \in 0 .. 255 |-> CHOOSE a \in 0 .. 255 : MCEncrypt[a] = b]
MCWrapKeys ==
  UNION {[1 .. n -> 0 .. 3] : n \in 0 .. 3} \cup UNION {[1 .. n -> {0, 2}] : n \in 4 .. 7}
MCCiphertexts == [1 .. 4 -> 0 .. 3] \cup [1 .. 6 -> 0 .. 3] \cup [1 .. 5 -> {1, 2}]
                   \cup [1 .. 8 -> {1, 2}] \cup [1 .. 3 -> {1, 2}]
===========================================================================
