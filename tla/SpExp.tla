------------------------------- MODULE SpExp -------------------------------
(***************************************************************************)
(* Modular exponentiation, RSA and Diffie-Hellman: sp_c64.c, the section   *)
(* for 2048 bits.  A number is its residue, as in SpField; the exponent is *)
(* read digit by digit.  n is the number of bits of a modulus: ModBits for *)
(* RSA and DH, half of them for a prime of an RSA key.                     *)
(***************************************************************************)
EXTENDS Integers, Sequences

CONSTANTS
  ModBits,      \* bits of a modulus: 2048 in the code
  DigitBits,    \* bits of a digit: 57 in the code
  Window,       \* bits of a window of an exponent
  ShiftWindow,  \* bits of a window of an exponent of 2: 5 in the code
  ByteBits      \* bits of a byte: 8 in the code

OKAY == "MP_OKAY"
MP_READ_E == "MP_READ_E"
VAL == "MP_VAL"
MP_TO_E == "MP_TO_E"
MP_EXPTMOD_E == "MP_EXPTMOD_E"

Ok(r) == [err |-> OKAY, r |-> r]
Failed(e) == [err |-> e]

CountBits(a) == CHOOSE l \in 0 .. 30 : 2^l > a /\ (l = 0 \/ 2^(l - 1) <= a)

\* -1 / m modulo 2^n: each step doubles the number of bits that are right, from
\* three to twelve.
NegInverse(m, n) ==
  LET step(x) == (x * ((2 - m * x) % 2^n)) % 2^n IN 2^n - step(step(m % 2^n))

\* a / 2^n modulo an odd m, which is at least 2^(n-1).
Redc(a, m, n) == ((a + (((a % 2^n) * NegInverse(m, n)) % 2^n) * m) \div 2^n) % m
Mont(a, b, m, n) == Redc((a % m) * (b % m), m, n)
MontNorm(m, n) == 2^n - m

-----------------------------------------------------------------------------
(* Exponentiation.                                                         *)

ExpDigit(e, i) == (e \div 2^(DigitBits * i)) % 2^DigitBits
ExpDigits(n) == (n + DigitBits - 1) \div DigitBits

\* A ladder over the bits of the exponent: t[1] / t[0] = a.
LadderBits(t, y, m, n) ==
  IF y = 1 THEN <<Mont(t[1], t[2], m, n), Mont(t[2], t[2], m, n)>>
  ELSE <<Mont(t[1], t[1], m, n), Mont(t[1], t[2], m, n)>>

mod_exp_ladder(a, e, bits, m, n) ==
  LET t[i \in 0 .. bits] ==
        IF i = bits THEN <<MontNorm(m, n) % m, (a * MontNorm(m, n)) % m>>
        ELSE LET u == t[i + 1] IN LadderBits(u, (e \div 2^i) % 2, m, n)
  IN IF bits = 0 THEN Failed(VAL) ELSE Ok(Redc(t[0][1], m, n))

\* The windows of an exponent from the top: c bits of the digits above i are
\* left in reg.
FirstBits(e, bits, w, n) ==
  LET round == ((bits + w - 1) \div w) * w
      i == ((round + DigitBits - 1) \div DigitBits) - 1
      c == IF round % DigitBits = 0 THEN DigitBits ELSE round % DigitBits
      reg == IF i < ExpDigits(n) THEN ExpDigit(e, i) % 2^c ELSE 0
  IN IF c < w
     THEN [i |-> i - 2, c |-> c + DigitBits, reg |-> reg * 2^DigitBits + ExpDigit(e, i - 1)]
     ELSE [i |-> i - 1, c |-> c, reg |-> reg]

\* The bits left in the register are lost when the next digit is read.
DropsBits(e, w, s) ==
  LET d == ExpDigit(e, s.i)
  IN IF s.c >= w
     THEN [i |-> s.i, c |-> s.c - w, y |-> s.reg \div 2^(s.c - w), reg |-> s.reg % 2^(s.c - w)]
     ELSE [i |-> s.i - 1, c |-> DigitBits - w, y |-> d \div 2^(DigitBits - w),
           reg |-> d % 2^(DigitBits - w)]

\* Of three cases the last one joins two digits.
NextWindow(e, w, s) ==
  LET d == ExpDigit(e, s.i)
      take(c) == [i |-> s.i - 1, c |-> DigitBits - c, reg |-> d % 2^(DigitBits - c),
                  y |-> s.reg * 2^c + (d \div 2^(DigitBits - c))]
  IN CASE s.c >= w ->
            [i |-> s.i, c |-> s.c - w, y |-> s.reg \div 2^(s.c - w), reg |-> s.reg % 2^(s.c - w)]
       [] s.c = 0 -> take(w)
       [] s.c > 0 /\ s.c < w -> take(w - s.c)

\* step(r, y) takes the next window, first(y) the first one.
OverWindows(e, bits, w, n, first(_), step(_, _)) ==
  LET start == FirstBits(e, bits, w, n)
      top == NextWindow(e, w, start)
      s[k \in 0 .. bits] ==
        IF k = 0 THEN [w |-> top, r |-> first(top.y)]
        ELSE LET u == s[k - 1]
                 v == NextWindow(e, w, u.w)
             IN IF u.w.i >= 0 \/ u.w.c >= w THEN [w |-> v, r |-> step(u.r, v.y)] ELSE u
  IN s[bits].r

\* Squared w times.
Squares(r, w, m, n) ==
  LET s[i \in 0 .. w] == IF i = 0 THEN r ELSE LET u == s[i - 1] IN Mont(u, u, m, n)
  IN s[w]

\* The powers of a below 2^w; an even one is a square, an odd one the product of
\* its neighbouring halves.
PowerTable(a, w, m, n) ==
  LET t[i \in 0 .. 2^w - 1] ==
        CASE i = 0 -> MontNorm(m, n) % m
          [] i = 1 -> (a * MontNorm(m, n)) % m
          [] i > 1 /\ i % 2 = 0 -> LET u == t[i \div 2] IN Mont(u, u, m, n)
          [] i > 1 /\ i % 2 = 1 -> Mont(t[(i \div 2) + 1], t[i \div 2], m, n)
  IN [i \in 0 .. 2^w - 1 |-> t[i]]

mod_exp_window(a, e, bits, m, n, w) ==
  LET t == PowerTable(a, w, m, n)
      step(r, y) == Mont(Squares(r, w, m, n), t[y], m, n)
      first(y) == t[y]
  IN IF bits = 0 THEN Failed(VAL) ELSE Ok(Redc(OverWindows(e, bits, w, n, first, step), m, n))

\* 2^e: a window is a shift.  The bits above n come back as multiples of the
\* norm, which is small, and one subtraction is enough.
ShiftIn(r, y, m, n) ==
  LET s == Squares(r, ShiftWindow, m, n) * 2^y
      sum == (s % 2^n) + (s \div 2^n) * MontNorm(m, n)
  IN IF sum >= m THEN sum - m ELSE sum
mod_exp_2(e, bits, m, n) ==
  LET step(r, y) == ShiftIn(r, y, m, n)
      first(y) == MontNorm(m, n) * 2^y
  IN IF bits = 0 THEN Failed(VAL)
     ELSE Ok(Redc(OverWindows(e, bits, ShiftWindow, n, first, step), m, n))

\* Constant time: the ladder.  The window is the build without it.
mod_exp(a, e, bits, m, n, ct) ==
  IF ct THEN mod_exp_ladder(a, e, bits, m, n) ELSE mod_exp_window(a, e, bits, m, n, Window)

-----------------------------------------------------------------------------
(* RSA.                                                                    *)

\* Left to right from the bit below the top one; three is a square and a product.
PublicPower(a, e, m) ==
  LET am == (a * MontNorm(m, ModBits)) % m
      top == CountBits(e) - 1
      r[i \in 0 .. top] ==
        IF i = top THEN am
        ELSE LET u == r[i + 1]
                 s == Mont(u, u, m, ModBits)
             IN IF (e \div 2^i) % 2 = 1 THEN Mont(s, am, m, ModBits) ELSE s
  IN IF e = 3 THEN (a * ((a * a) % m)) % m ELSE Redc(r[0], m, ModBits)

\* a came in inLen bytes; outLen is the room for the result.
RsaPublic(a, inLen, e, m, outLen) ==
  CASE outLen * ByteBits < ModBits -> Failed(MP_TO_E)
    [] outLen * ByteBits >= ModBits /\ inLen * ByteBits > ModBits -> Failed(MP_READ_E)
    [] outLen * ByteBits >= ModBits /\ inLen * ByteBits <= ModBits ->
         IF CountBits(m) # ModBits THEN Failed(MP_READ_E)
         ELSE IF m % 2 = 0 THEN Failed(VAL)
         ELSE IF e = 0 THEN Failed(MP_EXPTMOD_E)
         ELSE Ok(PublicPower(a, e, m))

\* A negative difference is made positive by adding the prime up to twice.
AddTwice(d, p) == LET once == IF d < 0 THEN d + p ELSE d IN IF once < 0 THEN once + p ELSE once

\* The division is one of numbers that are not negative: the sign of another one
\* is lost, and what comes out is not its residue.
mod(a, m) == IF a >= 0 THEN a % m ELSE (-a) % m

\* By the remainders modulo p and q, with key = [p, q, dp, dq, qi].
RsaPrivate(a, inLen, key, m, outLen, ct) ==
  LET half == ModBits \div 2
      tmpa == mod_exp(a % key.p, key.dp, half, key.p, half, ct)
      tmpb == mod_exp(a % key.q, key.dq, half, key.q, half, ct)
      h == mod(AddTwice(tmpa.r - tmpb.r, key.p) * key.qi, key.p)
  IN CASE outLen * ByteBits < ModBits -> Failed(MP_TO_E)
       [] outLen * ByteBits >= ModBits /\ inLen * ByteBits > ModBits -> Failed(MP_READ_E)
       [] outLen * ByteBits >= ModBits /\ inLen * ByteBits <= ModBits ->
            IF CountBits(m) # ModBits THEN Failed(MP_READ_E)
            ELSE IF m % 2 = 0 \/ key.p % 2 = 0 \/ key.q % 2 = 0 THEN Failed(VAL)
            ELSE Ok(tmpb.r + h * key.q)

-----------------------------------------------------------------------------
(* Diffie-Hellman.                                                         *)

ModExp(b, e, m, ct) ==
  IF CountBits(b) > ModBits \/ CountBits(e) > ModBits \/ CountBits(m) # ModBits
  THEN Failed(MP_READ_E)
  ELSE IF m % 2 = 0 THEN Failed(VAL)
  ELSE mod_exp(b, e, CountBits(e), m, ModBits, ct)

\* The top 2^ShiftWindow bits of the modulus are ones.
ShiftModulus(m) == m \div 2^(ModBits - 2^ShiftWindow) = 2^(2^ShiftWindow) - 1

\* The result has no leading zero bytes.
DhExp(b, e, expLen, m, ct) ==
  LET bits == expLen * ByteBits
      r == IF b = 2 /\ ShiftModulus(m) THEN mod_exp_2(e, bits, m, ModBits)
           ELSE mod_exp(b, e, bits, m, ModBits, ct)
  IN IF CountBits(b) > ModBits \/ bits > ModBits \/ CountBits(m) # ModBits THEN Failed(MP_READ_E)
     ELSE IF m % 2 = 0 THEN Failed(VAL)
     ELSE IF r.err # OKAY THEN r
     ELSE [err |-> OKAY, r |-> r.r, outLen |-> (CountBits(r.r) + ByteBits - 1) \div ByteBits]
=============================================================================
