------------------------------ MODULE KeyWrap ------------------------------
(***************************************************************************)
(* The key wrap with padding (RFC 5649) of compat_shim.c over a block      *)
(* cipher.  A block is two semiblocks, a semiblock is Semi bytes (8 in the *)
(* code) of ByteBits bits; its halves are the mark and the length of the   *)
(* header.  What the code copies between buffers is a sequence of bytes.   *)
(***************************************************************************)
LOCAL INSTANCE Integers
LOCAL INSTANCE Sequences
LOCAL INSTANCE Bitwise

CONSTANTS
  Semi, ByteBits,
  MliBits,      \* bits of the length in the header
  Mark,         \* kPaddedAIV
  PadBuf,       \* bytes of pad_buf
  Encrypt, Decrypt  \* the block cipher, a permutation of the blocks

SemiBits == Semi * ByteBits

\* A block of two semiblocks, and its halves.
Join(a, r) == a * 2^SemiBits + r
High(b) == b \div 2^SemiBits
Low(b) == b % 2^SemiBits

\* Semiblock i of a sequence of bytes, filled with zeros, and the bytes of one.
Semiblock(bytes, i) ==
  LET byte(k) == IF k \in DOMAIN bytes THEN bytes[k] ELSE 0
      v[k \in 0 .. Semi] == IF k = 0 THEN 0
                            ELSE LET before == v[k - 1] IN before * 2^ByteBits + byte((i - 1) * Semi + k)
  IN v[Semi]
Byte(s, k) == (s \div 2^(ByteBits * (Semi - k))) % 2^ByteBits
Bytes(semis) ==
  [k \in 1 .. Semi * Len(semis) |-> Byte(semis[(k - 1) \div Semi + 1], ((k - 1) % Semi) + 1)]
Semiblocks(bytes, n) == [i \in 1 .. n |-> Semiblock(bytes, i)]

Padded(n) == ((n + Semi - 1) \div Semi) * Semi
Aiv(n) == Mark * 2^MliBits + (n % 2^MliBits)

Refused == [ok |-> FALSE, out |-> << >>]
Written(bytes) == [ok |-> TRUE, out |-> bytes]

-----------------------------------------------------------------------------

\* wolfSSL_AES_wrap_key (RFC 3394): six rounds over the semiblocks r.
aes_wrap_key(iv, r) ==
  LET n == Len(r)
      s[t \in 0 .. 6 * n] ==
        IF t = 0 THEN [a |-> iv, r |-> r]
        ELSE LET prev == s[t - 1]
                 i == ((t - 1) % n) + 1
                 b == Encrypt[Join(prev.a, prev.r[i])]
             IN [a |-> High(b) ^^ (t % 2^SemiBits), r |-> [prev.r EXCEPT ![i] = Low(b)]]
  IN Bytes(<<s[6 * n].a>>) \o Bytes(s[6 * n].r)

\* works: the library's wrap of several semiblocks has not failed.
wrap_key_padded(in, maxOut, works) ==
  LET padded == Padded(Len(in))
      single == padded <= Semi
      needed == IF single THEN 2 * Semi ELSE padded + Semi
      r == Semiblocks(in, padded \div Semi)
      aiv == Aiv(Len(in))
      b == Encrypt[Join(aiv, r[1])]
  IN IF Len(in) = 0 \/ maxOut < needed \/ (~single /\ (padded > PadBuf \/ ~works)) THEN Refused
     ELSE Written(IF single THEN Bytes(<<High(b), Low(b)>>) ELSE aes_wrap_key(aiv, r))

\* The caller looks at the size too, before the call.
wrap_with_padding(in, maxOut, works) ==
  IF Padded(Len(in)) > PadBuf THEN Refused ELSE wrap_key_padded(in, maxOut, works)

\* The length is only bounded from above.
UpperBoundOnly(mli, padded) == mli # 0 /\ mli <= padded

\* The length belongs to this number of semiblocks.
MliFits(mli, padded) == mli # 0 /\ mli <= padded /\ mli > padded - Semi

PaddingIsZero(mli, out) == \A k \in mli + 1 .. Len(out) : out[k] = 0

\* The header a and the padding of the recovered bytes.
Checked(a, out) ==
  LET mli == a % 2^MliBits
  IN IF a \div 2^MliBits = Mark /\ MliFits(mli, Len(out)) /\ PaddingIsZero(mli, out)
     THEN Written(SubSeq(out, 1, mli)) ELSE Refused

\* The semiblock of step k: i from n down to 1, in each of the rounds.
Downwards(k, n) == n - ((k - 1) % n)

UnwrapStep(s, k, n) ==
  LET j == 5 - (k - 1) \div n
      i == Downwards(k, n)
      t == n * j + i
      b == Decrypt[Join(s.a ^^ (t % 2^SemiBits), s.r[i])]
  IN [a |-> High(b), r |-> [s.r EXCEPT ![i] = Low(b)]]

unwrap_key_padded_multiblock(in, maxOut) ==
  LET n == Len(in) \div Semi - 1
      all == Semiblocks(in, n + 1)
      s[k \in 0 .. 6 * n] == IF k = 0 THEN [a |-> all[1], r |-> Tail(all)]
                             ELSE LET prev == s[k - 1] IN UnwrapStep(prev, k, n)
  IN IF maxOut < n * Semi THEN Refused ELSE Checked(s[6 * n].a, Bytes(s[6 * n].r))

unwrap_key_padded(in, maxOut) ==
  IF Len(in) < 2 * Semi \/ Len(in) % Semi # 0 THEN Refused
  ELSE IF Len(in) > 2 * Semi THEN unwrap_key_padded_multiblock(in, maxOut)
  ELSE LET b == Decrypt[Join(Semiblock(in, 1), Semiblock(in, 2))]
       IN IF maxOut < Semi THEN Refused ELSE Checked(High(b), Bytes(<<Low(b)>>))
============================================================================
