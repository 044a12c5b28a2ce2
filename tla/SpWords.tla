------------------------------ MODULE SpWords ------------------------------
(***************************************************************************)
(* How the routines of sp_c64.c and sp_c32.c move bits between words of    *)
(* different widths: byte strings, the digits of an mp_int and their own   *)
(* digits, and shifts across digits.  Widths and lengths are the real      *)
(* ones; the number is symbolic.  A word is a set of pairs: <<p, b>> says  *)
(* that bit p of the word is bit b of the number, all other bits are 0.    *)
(*                                                                         *)
(* A routine is a record of its operation and its constants (SpC64 and     *)
(* SpC32 have them all).  Its loop runs one round per step on a record of  *)
(* its local variables; pc = "done" at the end.                            *)
(***************************************************************************)
EXTENDS Integers

\* Bits lo to hi - 1 of the number, as a word.
Slice(lo, hi) == {<<b - lo, b>> : b \in lo .. hi - 1}

\* What an array holds before it is written.
Garbage == {<<0, -1>>}

\* x << s in a type of t bits, x >> s, and the low k bits of x.
Shl(x, s, t) == {<<q[1] + s, q[2]>> : q \in {q \in x : q[1] + s < t}}
Shr(x, s) == {<<q[1] - s, q[2]>> : q \in {q \in x : q[1] >= s}}
Low(x, k) == {q \in x : q[1] < k}

\* The bits of an sp_digit (and of an mp_digit) where digits have w bits.
TypeBits(w) == IF w > 32 THEN 64 ELSE 32

LeastOf(a, b) == IF a < b THEN a ELSE b

\* The digits of a number of `bits` bits, and of one that fills its n digits.
DigitsOf(w, n, bits) == [i \in 0 .. n - 1 |-> Slice(i * w, LeastOf((i + 1) * w, bits))]

\* r from index j on is set to zero.
ZeroFrom(r, j) == [i \in DOMAIN r |-> IF i < j THEN r[i] ELSE {}]

-----------------------------------------------------------------------------
(* sp_N_from_bin: big endian bytes to digits.  x is the number of bytes. *)

FromBin(w, n) == [op |-> "from_bin", w |-> w, n |-> n]

FromBinStart(p, x) ==
  [pc |-> "loop", i |-> x - 1, j |-> 0, s |-> 0,
   r |-> [k \in 0 .. p.n - 1 |-> IF k = 0 THEN {} ELSE Garbage]]

\* The digit is full: the rest of byte a, w - s bits of which fitted, starts the next.
FromBinFull(p, st, a) ==
  IF st.j + 1 >= p.n
  THEN [st EXCEPT !.pc = "fill", !.r[st.j] = Low(@, p.w)]
  ELSE [st EXCEPT !.r[st.j] = Low(@, p.w), !.r[st.j + 1] = Shr(a, p.w - st.s),
                  !.i = @ - 1, !.j = @ + 1, !.s = 8 - (p.w - @)]

FromBinByte(p, st, a) ==
  IF st.s >= p.w - 8
  THEN FromBinFull(p, [st EXCEPT !.r[st.j] = @ \cup Shl(a, st.s, TypeBits(p.w))], a)
  ELSE [st EXCEPT !.r[st.j] = @ \cup Shl(a, st.s, TypeBits(p.w)), !.i = @ - 1, !.s = @ + 8]

\* A wrong variant of FromBinStep: the digits above the last byte are not cleared.
FromBinStepNoFill(p, x, st) ==
  IF st.pc = "loop" /\ st.i >= 0
  THEN FromBinByte(p, st, Slice(8 * (x - 1 - st.i), 8 * (x - st.i)))
  ELSE [st EXCEPT !.pc = "done"]

FromBinStep(p, x, st) ==
  IF st.pc = "loop" /\ st.i >= 0
  THEN FromBinByte(p, st, Slice(8 * (x - 1 - st.i), 8 * (x - st.i)))
  ELSE [st EXCEPT !.pc = "done", !.r = ZeroFrom(@, st.j + 1)]

-----------------------------------------------------------------------------
(* sp_N_from_mp: the digits of an mp_int, of x[1] = DIGIT_BIT bits, to digits; *)
(* x[2] is a->used.  The code has a branch for wider and one for narrower      *)
(* digits than its own (that for equal ones is compiled by no settings).       *)

FromMp(w, n) == [op |-> "from_mp", w |-> w, n |-> n]

FromMpStart(p, x) ==
  [pc |-> "loop", i |-> 0, j |-> 0, s |-> 0,
   r |-> [k \in 0 .. p.n - 1 |-> IF k = 0 THEN {} ELSE Garbage]]

\* Wider digits: the rest of digit d goes to the next digits of r, the first of
\* them at once, the others in the inner loop.
FromMpWide(p, st, d) ==
  IF st.j + 1 >= p.n
  THEN [st EXCEPT !.pc = "fill", !.r[st.j] = Low(@ \cup Shl(d, st.s, TypeBits(p.w)), p.w)]
  ELSE [st EXCEPT !.pc = "inner", !.s = p.w - @, !.j = @ + 1,
                  !.r[st.j] = Low(@ \cup Shl(d, st.s, TypeBits(p.w)), p.w),
                  !.r[st.j + 1] = Shr(d, p.w - st.s)]

FromMpInner(p, x, st, d) ==
  IF st.s + p.w > x[1]
  THEN [st EXCEPT !.pc = "loop", !.s = x[1] - @, !.i = @ + 1]
  ELSE IF st.j + 1 >= p.n
       THEN [st EXCEPT !.pc = "loop", !.s = x[1] - (@ + p.w), !.i = @ + 1, !.r[st.j] = Low(@, p.w)]
       ELSE [st EXCEPT !.s = @ + p.w, !.j = @ + 1, !.r[st.j] = Low(@, p.w),
                       !.r[st.j + 1] = IF st.s + p.w < x[1] THEN Shr(d, st.s + p.w) ELSE {}]

FromMpNarrow(p, x, st, d) ==
  IF st.s + x[1] < p.w
  THEN [st EXCEPT !.r[st.j] = @ \cup Shl(d, st.s, TypeBits(p.w)), !.s = @ + x[1], !.i = @ + 1]
  ELSE IF st.j + 1 >= p.n
       THEN [st EXCEPT !.pc = "fill", !.r[st.j] = Low(@ \cup Shl(d, st.s, TypeBits(p.w)), p.w)]
       ELSE [st EXCEPT !.r[st.j] = Low(@ \cup Shl(d, st.s, TypeBits(p.w)), p.w),
                       !.r[st.j + 1] = IF p.w - st.s = x[1] THEN {} ELSE Shr(d, p.w - st.s),
                       !.s = IF p.w - @ = x[1] THEN 0 ELSE x[1] - (p.w - @),
                       !.j = @ + 1, !.i = @ + 1]

FromMpStep(p, x, st) ==
  IF st.pc = "inner" THEN FromMpInner(p, x, st, Slice(st.i * x[1], (st.i + 1) * x[1]))
  ELSE IF st.pc = "loop" /\ st.i < x[2]
       THEN IF x[1] > p.w THEN FromMpWide(p, st, Slice(st.i * x[1], (st.i + 1) * x[1]))
                          ELSE FromMpNarrow(p, x, st, Slice(st.i * x[1], (st.i + 1) * x[1]))
       ELSE [st EXCEPT !.pc = "done", !.r = ZeroFrom(@, st.j + 1)]

-----------------------------------------------------------------------------
(* sp_N_to_mp: digits of a number below 2^bits to mp_digits of x bits.  mp_grow *)
(* is asked for the digits that `bits` bits need; one more may be written.      *)

ToMp(w, n, bits) == [op |-> "to_mp", w |-> w, n |-> n, bits |-> bits]

Grown(p, x) == (p.bits + x - 1) \div x

ToMpStart(p, x) ==
  [pc |-> "loop", i |-> 0, j |-> 0, s |-> 0,
   dp |-> [k \in 0 .. Grown(p, x) |-> IF k = 0 THEN {} ELSE Garbage]]

ToMpNarrow(p, x, st, a) ==
  [st EXCEPT !.pc = "inner", !.s = x - @, !.j = @ + 1,
             !.dp[st.j] = Low(@ \cup Shl(a, st.s, TypeBits(p.w)), x),
             !.dp[st.j + 1] = Shr(a, x - st.s)]

ToMpInner(p, x, st, a) ==
  IF st.s + x > p.w THEN [st EXCEPT !.pc = "loop", !.s = p.w - @, !.i = @ + 1]
  ELSE [st EXCEPT !.s = @ + x, !.j = @ + 1, !.dp[st.j] = Low(@, x),
                  !.dp[st.j + 1] = IF st.s + x = TypeBits(p.w) THEN {} ELSE Shr(a, st.s + x)]

ToMpWide(p, x, st, a) ==
  IF st.s + p.w < x THEN [st EXCEPT !.dp[st.j] = @ \cup Shl(a, st.s, x), !.s = @ + p.w, !.i = @ + 1]
  ELSE [st EXCEPT !.dp[st.j] = Low(@ \cup Shl(a, st.s, TypeBits(p.w)), x),
                  !.dp[st.j + 1] = Shr(a, x - st.s),
                  !.s = p.w - (x - @), !.j = @ + 1, !.i = @ + 1]

ToMpStep(p, x, st) ==
  IF st.pc = "inner" THEN ToMpInner(p, x, st, DigitsOf(p.w, p.n, p.bits)[st.i])
  ELSE IF st.i < p.n
       THEN IF x < p.w THEN ToMpNarrow(p, x, st, DigitsOf(p.w, p.n, p.bits)[st.i])
                       ELSE ToMpWide(p, x, st, DigitsOf(p.w, p.n, p.bits)[st.i])
       ELSE [st EXCEPT !.pc = "done"]

-----------------------------------------------------------------------------
(* sp_N_to_bin_n: digits to (bits + 7) / 8 bytes, big endian. *)

ToBin(w, n, bits) == [op |-> "to_bin", w |-> w, n |-> n, bits |-> bits]

ToBinStart(p) ==
  [pc |-> "loop", i |-> 0, j |-> (p.bits + 7) \div 8 - 1, s |-> 0, b |-> 0,
   a |-> [k \in 0 .. (p.bits + 7) \div 8 - 1 |-> IF k = (p.bits + 7) \div 8 - 1 THEN {} ELSE Garbage]]

\* The first byte of a digit completes the one that the digit before began.
ToBinFirst(st, d) ==
  [st EXCEPT !.a[st.j] = @ \cup Shl(d, st.s, 8), !.j = @ - 1, !.b = 8 - st.s,
             !.pc = IF st.j = 0 THEN "done" ELSE "inner"]

ToBinByte(st, d) == [st EXCEPT !.a[st.j] = Low(Shr(d, st.b), 8), !.j = @ - 1, !.b = @ + 8]

\* The digit is used up, s bits of its last byte; or no byte is left.
ToBinNext(st, s) ==
  [st EXCEPT !.pc = "loop", !.i = @ + 1, !.s = s, !.j = IF s # 0 THEN @ + 1 ELSE @,
             !.a = [k \in DOMAIN @ |-> IF k = st.j THEN {} ELSE @[k]]]

ToBinStep(p, st) ==
  CASE st.pc = "loop" /\ st.i < p.n /\ st.j >= 0 -> ToBinFirst(st, DigitsOf(p.w, p.n, p.bits)[st.i])
    [] st.pc = "inner" /\ st.b < p.w /\ st.j >= 0 -> ToBinByte(st, DigitsOf(p.w, p.n, p.bits)[st.i])
    [] st.pc = "inner" /\ ~(st.b < p.w /\ st.j >= 0) -> ToBinNext(st, 8 - (st.b - p.w))
    [] OTHER -> [st EXCEPT !.pc = "done"]

-----------------------------------------------------------------------------
(* The shifts by x bits, digit by digit and in place: sp_N_rshift_n upwards, *)
(* sp_N_lshift_n downwards into one more digit.                              *)

RShift(w, n) == [op |-> "rshift", w |-> w, n |-> n]
LShift(w, n) == [op |-> "lshift", w |-> w, n |-> n]

RShiftStart(p) == [pc |-> "loop", i |-> 0, r |-> DigitsOf(p.w, p.n, p.w * p.n)]

RShiftStep(p, x, st) ==
  IF st.i < p.n - 1
  THEN [st EXCEPT !.i = @ + 1,
                  !.r[st.i] = Low(Shr(@, x) \cup Shl(st.r[st.i + 1], p.w - x, TypeBits(p.w)), p.w)]
  ELSE [st EXCEPT !.pc = "done", !.r[st.i] = Shr(@, x)]

LShiftStart(p) ==
  [pc |-> "top", i |-> p.n - 1,
   r |-> [i \in 0 .. p.n |-> IF i = p.n THEN Garbage ELSE Slice(i * p.w, (i + 1) * p.w)]]

LShiftStep(p, x, st) ==
  CASE st.pc = "top" -> [st EXCEPT !.pc = "loop", !.r[p.n] = Shr(st.r[p.n - 1], p.w - x)]
    [] st.pc = "loop" /\ st.i > 0 ->
         [st EXCEPT !.i = @ - 1,
                    !.r[st.i] = Low(Shl(@, x, TypeBits(p.w)) \cup Shr(st.r[st.i - 1], p.w - x), p.w)]
    [] OTHER -> [st EXCEPT !.pc = "done", !.r[0] = Low(Shl(@, x, TypeBits(p.w)), p.w)]

-----------------------------------------------------------------------------
(* sp_N_mont_shift_n: the quotient of 2n digits by 2^bits, in place, through an *)
(* accumulator of t bits that starts with the digit at which the quotient does; *)
(* `used` digits are written and as many cleared.                               *)

MontShift(w, n, bits, used, t) ==
  [op |-> "mont_shift", w |-> w, n |-> n, bits |-> bits, used |-> used, t |-> t]

MontShiftStart(p) ==
  [pc |-> "loop", i |-> 0, r |-> DigitsOf(p.w, 2 * p.n, 2 * p.w * p.n),
   acc |-> Shr(Slice((p.used - 1) * p.w, p.used * p.w), p.bits - (p.used - 1) * p.w)]

MontShiftAcc(p, st) ==
  st.acc \cup Shl(st.r[p.used + st.i], p.used * p.w - p.bits, p.t)

MontShiftStep(p, st) ==
  IF st.i < p.used - 1
  THEN [st EXCEPT !.i = @ + 1, !.r[st.i] = Low(MontShiftAcc(p, st), p.w), !.acc = Shr(MontShiftAcc(p, st), p.w)]
  ELSE [st EXCEPT !.pc = "done", !.acc = {},
                  !.r = [i \in DOMAIN @ |-> CASE i < st.i -> @[i]
                                              [] i = st.i -> MontShiftAcc(p, st)
                                              [] i > st.i /\ i < 2 * p.used -> {}
                                              [] OTHER -> @[i]]]
=============================================================================
