-------------------------------- MODULE Kdf --------------------------------
(***************************************************************************)
(* The key derivations that compat_shim.c builds from HMAC: KBKDF in       *)
(* counter mode and the one-step SSKDF.  A byte of an HMAC is named by its *)
(* key, what was hashed and its place: no two of them are equal.           *)
(***************************************************************************)
LOCAL INSTANCE Integers
LOCAL INSTANCE Sequences

CONSTANTS
  MdSize,       \* bytes of an HMAC
  CtrModulus    \* 2^32

\* HMAC of a list of parts.
hmac(key, parts) == [k \in 1 .. MdSize |-> <<key, parts, k>>]

\* The counter is cut to its bytes.
Ctr(i) == i % CtrModulus

Failed == [ret |-> 0, out |-> << >>]

ToCopy(remaining) == IF remaining < MdSize THEN remaining ELSE MdSize

\* The parts of block i, as the calls of wolfSSL_HMAC_Update take them.
Updates(i, fixed, info) == <<Ctr(i)>> \o fixed \o (IF info = << >> THEN << >> ELSE <<info>>)

\* The loop: HMAC_Init_ex, the updates and HMAC_Final for each block.  The call
\* of number fails fails (0: none does).
Loop(outLen, key, fixed, info, fails) ==
  LET n == (outLen + MdSize - 1) \div MdSize
      calls == Len(Updates(1, fixed, info)) + 2
      s[i \in 0 .. n] ==
        IF i = 0 THEN << >>
        ELSE LET prev == s[i - 1]
             IN prev \o SubSeq(hmac(key, Updates(i, fixed, info)), 1, ToCopy(outLen - Len(prev)))
  IN IF fails \in 1 .. n * calls THEN Failed ELSE [ret |-> 1, out |-> s[n]]

\* The counter has a value for every block.
CounterFits(outLen) == (outLen + MdSize - 1) \div MdSize <= CtrModulus - 1

\* fails = -1: there is no memory for the context.
KBKDF_ctr_hmac(outLen, key, info, fails) ==
  IF outLen = 0 \/ key = << >> \/ ~CounterFits(outLen) \/ fails = -1 THEN Failed
  ELSE Loop(outLen, key, << >>, info, fails)

\* The salt of a caller who has none: zeros, a block of the digest.
DefaultSalt == <<"zeros">>
SaltOrDefault(salt) == IF salt = << >> THEN DefaultSalt ELSE salt

SSKDF_hmac(outLen, secret, info, salt, fails) ==
  IF outLen = 0 \/ secret = << >> \/ fails = -1 THEN Failed
  ELSE Loop(outLen, SaltOrDefault(salt), <<secret>>, info, fails)
============================================================================
