------------------------------ MODULE SpDigits ------------------------------
(***************************************************************************)
(* The digits below SpField: a number is an array of signed words of which *)
(* Width bits are used, the last one Top bits, and carries are kept in the *)
(* unused bits until they are normalised.  sp_c64.c, the P-256 section:    *)
(* 5 digits of 52 bits, 48 bits of the last one.  small is the build with  *)
(* WOLFSSL_SP_SMALL.  >> of a negative number rounds down, as \div does.   *)
(***************************************************************************)
EXTENDS Integers, Functions

CONSTANTS
  Bits,         \* the bits of a number
  Width,        \* the bits of a digit
  ByteBits      \* the bits of a byte

Radix == 2^Width
N == (Bits + Width - 1) \div Width
Top == Bits - Width * (N - 1)

\* The number of an array, and the array of a number; a product has 2 * N digits.
NumberOf(a) == SumFunction([i \in DOMAIN a |-> a[i] * 2^(Width * i)])
Array(v) == [i \in 0 .. 2 * N - 1 |-> (v \div 2^(Width * i)) % Radix]

\* m & mask, for the masks that an overflow of -1, 0, 1 and 2 gives.
And(m, mask) ==
  CASE mask = -1 -> m
    [] mask = 0 -> 0
    [] mask = 1 -> m % 2
    [] mask = -2 -> m - (m % 2)

-----------------------------------------------------------------------------
(* Sums, differences and comparison.                                       *)

\* Carries out of the digits o .. o + N - 2.
norm(a, o) ==
  LET c[i \in o .. o + N - 1] == IF i = o THEN a[i] ELSE a[i] + (c[i - 1] \div Radix)
  IN [i \in DOMAIN a |->
        CASE i \notin o .. o + N - 1 -> a[i]
          [] i \in o .. o + N - 2 -> c[i] % Radix
          [] i = o + N - 1 -> c[i]]

add(a, b) == [i \in 0 .. 2 * N - 1 |-> IF i < N THEN a[i] + b[i] ELSE 0]
sub(a, b) == [i \in 0 .. 2 * N - 1 |-> IF i < N THEN a[i] - b[i] ELSE 0]
cond_add(a, b, mask) == [i \in DOMAIN a |-> IF i < N THEN a[i] + And(b[i], mask) ELSE a[i]]
cond_sub(a, b, mask) == [i \in DOMAIN a |-> IF i < N THEN a[i] - And(b[i], mask) ELSE a[i]]
add_one(a) == norm([a EXCEPT ![0] = @ + 1], 0)

\* Only the sign counts: the first digits that differ decide it.
cmp(a, b) ==
  LET r[i \in 0 .. N] ==
        IF i = N THEN 0
        ELSE LET above == r[i + 1] IN IF above # 0 THEN above ELSE a[i] - b[i]
  IN r[0]

rshift1(a) ==
  [i \in DOMAIN a |->
     CASE i < N - 1 -> (a[i] \div 2) + ((a[i + 1] * 2^(Width - 1)) % Radix)
       [] i = N - 1 -> a[i] \div 2
       [] i > N - 1 -> a[i]]

-----------------------------------------------------------------------------
(* Products.                                                               *)

Column(a, b, k) ==
  SumFunction([i \in {j \in 0 .. N - 1 : k - j \in 0 .. N - 1} |-> a[i] * b[k - i]])

\* All columns, then the carries from the bottom.
MulByColumns(a, b) ==
  LET t[k \in 0 .. 2 * N - 2] ==
        Column(a, b, k) + (IF k = 0 THEN 0 ELSE t[k - 1] \div Radix)
  IN [k \in 0 .. 2 * N - 1 |->
        IF k = 2 * N - 1 THEN t[k - 1] \div Radix ELSE t[k] % Radix]

\* Column by column from the top: c is the low part of the column above.
MulStep(s, column, k) ==
  LET c == s.c + (column \div Radix)
  IN [r |-> [s.r EXCEPT ![k + 2] = @ + (c \div Radix), ![k + 1] = c % Radix],
      c |-> column % Radix]
MulFromTop(a, b) ==
  LET first == a[N - 1] * b[N - 1]
      s[k \in 0 .. 2 * N - 2] ==
        IF k = 2 * N - 2
        THEN [r |-> [i \in 0 .. 2 * N - 1 |-> IF i = 2 * N - 1 THEN first \div Radix ELSE 0],
              c |-> first % Radix]
        ELSE LET above == s[k + 1] IN MulStep(above, Column(a, b, k), k)
  IN [s[0].r EXCEPT ![0] = s[0].c]

mul(a, b, small) == IF small THEN MulFromTop(a, b) ELSE MulByColumns(a, b)

\* Columns of a square: each pair of digits once, doubled.
SqrColumn(a, k) ==
  LET pairs == {i \in 0 .. N - 1 : k - i \in 0 .. N - 1 /\ 2 * i > k}
      cross == SumFunction([i \in pairs |-> a[i] * a[k - i]])
  IN 2 * cross + (IF k % 2 = 0 THEN a[k \div 2] * a[k \div 2] ELSE 0)

SqrByColumns(a) ==
  LET t[k \in 0 .. 2 * N - 2] == SqrColumn(a, k) + (IF k = 0 THEN 0 ELSE t[k - 1] \div Radix)
  IN [k \in 0 .. 2 * N - 1 |->
        IF k = 2 * N - 1 THEN t[k - 1] \div Radix ELSE t[k] % Radix]

\* c holds the low part of the column above, one digit up.
SqrStep(s, column, k) ==
  LET c == s.c * Radix + column
  IN [r |-> [s.r EXCEPT ![k + 2] = @ + (c \div (Radix * Radix)), ![k + 1] = (c \div Radix) % Radix],
      c |-> c % Radix]
SqrFromTop(a) ==
  LET first == a[N - 1] * a[N - 1]
      s[k \in 0 .. 2 * N - 2] ==
        IF k = 2 * N - 2
        THEN [r |-> [i \in 0 .. 2 * N - 1 |-> IF i = 2 * N - 1 THEN first \div Radix ELSE 0],
              c |-> first % Radix]
        ELSE LET above == s[k + 1] IN SqrStep(above, SqrColumn(a, k), k)
  IN [s[0].r EXCEPT ![0] = s[0].c]

sqr(a, small) == IF small THEN SqrFromTop(a) ELSE SqrByColumns(a)

\* Products of numbers of 2 * N digits from three of N digits (2048 bits and
\* more): z1 = (a0 + a1) * (b0 + b1) - z0 - z2 is added in the middle, and neither
\* the sums nor the result are normalised.
Half(a, h) == [i \in 0 .. 2 * N - 1 |-> IF i < N THEN a[N * h + i] ELSE 0]
Assemble(z0, z1, z2) ==
  [i \in 0 .. 4 * N - 1 |->
     (IF i < 2 * N THEN z0[i] ELSE z2[i - 2 * N])
       + (IF i \in N .. 3 * N - 1 THEN z1[i - N] - z2[i - N] - z0[i - N] ELSE 0)]
mul_halves(a, b) ==
  Assemble(mul(Half(a, 0), Half(b, 0), FALSE),
           mul(add(Half(a, 0), Half(a, 1)), add(Half(b, 0), Half(b, 1)), FALSE),
           mul(Half(a, 1), Half(b, 1), FALSE))
sqr_halves(a) ==
  Assemble(sqr(Half(a, 0), FALSE), sqr(add(Half(a, 0), Half(a, 1)), FALSE),
           sqr(Half(a, 1), FALSE))

-----------------------------------------------------------------------------
(* Montgomery reduction: multiples of the modulus clear the low digits.    *)

\* a + m * mu, from digit o; the small build normalises on the way.
mul_add(a, o, m, mu, small) ==
  LET t(i) == mu * m[i]
      c[i \in 0 .. N - 1] == t(i) + a[o + i] + (IF i = 0 THEN 0 ELSE c[i - 1] \div Radix)
      at(i) == CASE i = 0 -> a[o] + (t(0) % Radix)
                 [] i \in 1 .. N - 1 -> a[o + i] + (t(i - 1) \div Radix) + (t(i) % Radix)
                 [] i = N -> a[o + N] + (t(N - 1) \div Radix)
      small_at(i) == IF i = N THEN a[o + N] + (c[N - 1] \div Radix) ELSE c[i] % Radix
  IN [j \in DOMAIN a |-> IF j \notin o .. o + N THEN a[j]
                         ELSE IF small THEN small_at(j - o) ELSE at(j - o)]

\* The bits above Bits move down.
mont_shift(a) ==
  LET n[i \in 0 .. N - 1] ==
        (IF i = 0 THEN a[N - 1] \div 2^Top ELSE n[i - 1] \div Radix) + a[N + i] * 2^(Width - Top)
  IN [i \in DOMAIN a |-> CASE i < N - 1 -> n[i] % Radix
                           [] i = N - 1 -> n[i]
                           [] i > N - 1 -> 0]

\* The bits of the last multiplier are not cut to those of the last digit.
WideLast(i) == Radix

\* The multiplier has the bits of the digit that it clears.
MuModulus(i) == IF i = N - 1 THEN 2^Top ELSE Radix

CarryFrom(a, i) == [a EXCEPT ![i + 1] = @ + (a[i] \div Radix)]

\* Subtracted once if the number has more than Bits bits.
Over(a) == IF a[N - 1] \div 2^Top >= 1 THEN -1 ELSE 0
SubtractOver(a, m) == norm(cond_sub(a, m, Over(a)), 0)

\* A multiple of m clears digit i, and its carry goes to the next one.
ClearDigit(b, i, m, mp, small) ==
  CarryFrom(mul_add(b, i, m, (b[i] * mp) % MuModulus(i), small), i)

mont_reduce_order(a, m, mp, small) ==
  LET s[i \in -1 .. N - 1] ==
        IF i = -1 THEN norm(a, N)
        ELSE ClearDigit(s[i - 1], i, m, mp, small)
  IN SubtractOver(mont_shift([s[N - 1] EXCEPT ![N - 1] = @ % Radix]), m)

\* For a modulus with a lowest digit of ones the multiplier is the digit, and
\* am * (m + 1) is added digit by digit; the lowest one is left.
ReduceDigit(a, i, m, am) ==
  LET m1 == Array(NumberOf(m) + 1)
  IN [j \in DOMAIN a |->
        a[j] + (IF j - i \in 1 .. N - 1 THEN (am * m1[j - i]) % Radix ELSE 0)
             + (IF j - i - 1 \in 1 .. N - 1 THEN (am * m1[j - i - 1]) \div Radix ELSE 0)]

\* The digits above Bits, moved down.
ShiftDown(b) ==
  LET low(i) == b[N - 1 + i] \div 2^Top
      high(i) == b[N + i] * 2^(Width - Top)
  IN norm([i \in DOMAIN b |-> CASE i < N - 1 -> low(i) + (high(i) % Radix)
                                [] i = N - 1 -> low(i) + high(i)
                                [] i > N - 1 -> 0], 0)
SubtractCarry(a, m) == norm(cond_sub(a, m, -(a[N - 1] \div 2^Top)), 0)

mont_reduce(a, m) ==
  LET clear(b, i) == CarryFrom(ReduceDigit(b, i, m, b[i] % Radix), i)
      last(b) == ReduceDigit(b, N - 1, m, b[N - 1] % 2^Top)
      s[i \in -1 .. N - 2] == IF i = -1 THEN a ELSE clear(s[i - 1], i)
  IN SubtractCarry(ShiftDown(last(s[N - 2])), m)

\* For the modulus 2^Bits - 1 (P-521) the bits above Bits are added to the ones
\* below, and the carry of that sum to the lowest digit, which may keep one.
mont_reduce_521(a) ==
  LET above(i) == (a[N - 1 + i] \div 2^Top + a[N + i] * 2^(Width - Top)) % Radix
      round(b) == [b EXCEPT ![0] = @ + (b[N - 1] \div 2^Top), ![N - 1] = @ % 2^Top]
  IN round(norm([i \in DOMAIN a |->
             CASE i < N - 1 -> a[i] + above(i)
               [] i = N - 1 -> (a[i] % 2^Top) + above(i)
               [] i > N - 1 -> a[i]], 0))

-----------------------------------------------------------------------------
(* Modular arithmetic.                                                     *)

mont_mul(a, b, m, small) == mont_reduce(mul(a, b, small), m)
mont_sqr(a, m, small) == mont_reduce(sqr(a, small), m)
mont_mul_order(a, b, m, mp, small) == mont_reduce_order(mul(a, b, small), m, mp, small)
mont_sqr_order(a, m, mp, small) == mont_reduce_order(sqr(a, small), m, mp, small)

mont_add(a, b, m) == SubtractOver(norm(add(a, b), 0), m)
mont_dbl(a, m) == SubtractOver(norm(add(a, a), 0), m)
mont_tpl(a, m) == SubtractOver(norm(add(mont_dbl(a, m), a), 0), m)
mont_sub(a, b, m) ==
  LET fix(r) == norm(cond_add(r, m, r[N - 1] \div 2^Top), 0) IN fix(norm(sub(a, b), 0))
mont_div2(a, m) == rshift1(norm(cond_add(a, m, -(a[0] % 2)), 0))

-----------------------------------------------------------------------------
(* Division, for the moduli of RSA and DH, whose top bit is set.           *)

\* -1 / m modulo the radix: an inverse modulo 16, and its bits doubled.
mont_setup(m) ==
  LET b == m[0]
      x[i \in 0 .. 4] ==
        IF i = 0 THEN (((b + 2) \div 4) % 2) * 8 + b
        ELSE LET y == x[i - 1] IN (y * (2 - b * y)) % Radix
  IN Radix - (x[4] % Radix)

\* 2^Bits mod m.
mont_norm(m) ==
  [i \in DOMAIN m |->
     CASE i = 0 -> Radix - m[0]
       [] i \in 1 .. N - 2 -> Radix - 1 - m[i]
       [] i = N - 1 -> 2^Top - 1 - m[i]
       [] i >= N -> 0]

\* Subtracted if the top digit is above that of the modulus.
SubtractAbove(a, m) == norm(cond_sub(a, m, IF a[N - 1] > m[N - 1] THEN -1 ELSE 0), 0)
mont_reduce_top(a, m, mp, small) ==
  LET s[i \in -1 .. N - 1] ==
        IF i = -1 THEN norm(a, N)
        ELSE ClearDigit(s[i - 1], i, m, mp, small)
  IN SubtractAbove(mont_shift([s[N - 1] EXCEPT ![N - 1] = @ % Radix]), m)

\* The first n digits of a, times b.
mul_d(a, b, n) ==
  LET t[i \in 0 .. n - 1] == b * a[i] + (IF i = 0 THEN 0 ELSE t[i - 1] \div Radix)
  IN [i \in 0 .. n |-> IF i = n THEN (t[n - 1] \div Radix) % Radix ELSE t[i] % Radix]

rshift(a, n) ==
  [i \in DOMAIN a |->
     CASE i < N - 1 -> (a[i] \div 2^n) + ((a[i + 1] * 2^(Width - n)) % Radix)
       [] i = N - 1 -> a[i] \div 2^n
       [] i > N - 1 -> a[i]]

\* / rounds towards zero.
Quotient(d, div) == IF d >= 0 THEN d \div div ELSE -((-d) \div div)
div_word(d1, d0, div) == Quotient(d1 * Radix + d0, div)

PlusAt(t, i, sign, u) ==
  [j \in DOMAIN t |-> IF j \in i .. i + N - 1 THEN t[j] + sign * u[j - i] ELSE t[j]]
CarryUp(t, j) == [t EXCEPT ![j] = @ + (t[j - 1] \div Radix), ![j - 1] = @ % Radix]

\* A digit of the quotient is estimated and sd times it subtracted.
DivEstimate(t1, sd, i) ==
  LET t2 == mul_d(sd, div_word(t1[N + i], t1[N + i - 1], sd[N - 1]), N)
      u == norm(PlusAt(t1, i, -1, t2), i)
  IN CarryUp([u EXCEPT ![N + i] = @ - t2[N]], N + i)

\* What the estimate was too large by is estimated too, times sd.
DivBack(v, sd, i) ==
  mul_d(sd, div_word(-v[N + i], -v[N + i - 1], sd[N - 1]) - v[N + i], N)

\* It is added back, without its top digit.
DivStep(t1, sd, i) ==
  LET back(v) == CarryUp(PlusAt(v, i, 1, DivBack(v, sd, i)), N + i)
  IN back(DivEstimate(t1, sd, i))

\* The steps from the top: both numbers are shifted so that the top digit of d is full.
Shifted(d) == mul_d(d, 2^(Width - Top), N)
DivSteps(a, d) ==
  LET sd == Shifted(d)
      t[i \in 0 .. N + 1] ==
        IF i = N + 1 THEN CarryUp(mul_d(a, 2^(Width - Top), 2 * N), 2 * N)
        ELSE LET u == t[i + 1] IN DivStep(u, sd, i)
  IN [i \in 0 .. N + 1 |-> t[i]]

\* The remainder of a, which has 2 * N digits, by d; above it, what the steps left there.
div(a, d) ==
  LET sd == Shifted(d)
      last(u) == norm(PlusAt(u, 0, -1, mul_d(sd, Quotient(u[N - 1], sd[N - 1]), N)), 0)
      fix(v) == norm(cond_add(v, sd, IF v[N - 1] < 0 THEN -1 ELSE 0), 0)
      low(w) == [i \in 0 .. 2 * N - 1 |-> IF i < N THEN rshift(w, Width - Top)[i] ELSE w[i]]
  IN low(fix(last(CarryUp(DivSteps(a, d)[0], N - 1))))

-----------------------------------------------------------------------------
(* The short division of the curves: the top digit of d, shifted, is so    *)
(* near to the radix that the top digit of a estimates the quotient.       *)

\* The normal build leaves the carries where they are.
mul_d_curve(a, b, small) ==
  LET t(i) == b * a[i]
      c[i \in 0 .. N - 1] == t(i) + (IF i = 0 THEN 0 ELSE c[i - 1] \div Radix)
      at(i) == CASE i = 0 -> t(0) % Radix
                 [] i \in 1 .. N - 1 -> (t(i - 1) \div Radix) + (t(i) % Radix)
                 [] i = N -> t(N - 1) \div Radix
      small_at(i) == IF i = N THEN c[N - 1] \div Radix ELSE c[i] % Radix
  IN [i \in 0 .. N |-> IF small THEN small_at(i) ELSE at(i)]

lshift(a, n) ==
  [i \in 0 .. 2 * N |->
     CASE i = 0 -> (a[0] * 2^n) % Radix
       [] i \in 1 .. 2 * N - 1 -> (a[i] * 2^n + (a[i - 1] \div 2^(Width - n))) % Radix
       [] i = 2 * N -> a[2 * N - 1] \div 2^(Width - n)]

\* The carries are taken out of the digits above i, not out of i itself.
TakeTop(t, sd, i, small) ==
  LET t2 == mul_d_curve(sd, t[N + i], small)
  IN norm([PlusAt(t, i, -1, t2) EXCEPT ![N + i] = @ - t2[N]], i + 1)

SubtractTop(t, sd, i) == norm(IF t[N + i] >= 1 THEN PlusAt(t, i, -1, sd) ELSE t, i + 1)

\* The borrow of the last digit, which no step of the loop has seen.
Correction(t, sd) == norm(IF t[N - 1] < 0 THEN PlusAt(t, 0, 1, sd) ELSE t, 0)

\* P-256 takes the top digit twice, the others once; P-521 is corrected.
div_curve(a, d, twice, corrected, small) ==
  LET sd == mul_d_curve(d, 2^(Width - Top), small)
      again(u, i) == IF twice THEN TakeTop(u, sd, i, small) ELSE u
      t[i \in 0 .. N] ==
        IF i = N THEN CarryUp(lshift(a, Width - Top), 2 * N)
        ELSE SubtractTop(again(TakeTop(t[i + 1], sd, i, small), i), sd, i)
      r == norm(t[0], 0)
      v == rshift(IF corrected THEN Correction(r, sd) ELSE r, Width - Top)
  IN [i \in 0 .. 2 * N - 1 |-> IF i < N THEN v[i] ELSE 0]

-----------------------------------------------------------------------------
(* Conversions.                                                            *)

\* From n bytes, the last one first: s is the offset in digit j.
FromBinStep(st, byte, size) ==
  LET or == st.r[st.j] + byte * 2^st.s
      s == Width - st.s
  IN IF st.s >= Width - ByteBits
     THEN IF st.j + 1 >= size
          THEN [st EXCEPT !.r[st.j] = or % Radix, !.s = s, !.stop = TRUE]
          ELSE [st EXCEPT !.r = [@ EXCEPT ![st.j] = or % Radix, ![st.j + 1] = byte \div 2^s],
                          !.j = @ + 1, !.s = ByteBits - s]
     ELSE [st EXCEPT !.r[st.j] = or, !.s = @ + ByteBits]

from_bin(size, a, n) ==
  LET st[i \in 0 .. n] ==
        IF i = n THEN [r |-> [k \in 0 .. 2 * N - 1 |-> 0], j |-> 0, s |-> 0, stop |-> FALSE]
        ELSE LET t == st[i + 1] IN IF t.stop THEN t ELSE FromBinStep(t, a[i], size)
  IN st[0].r

\* To bytes, the last one first.  A digit finishes the byte that the one before
\* has begun, fills whole bytes while it has bits, and begins the next one.
ByteRadix == 2^ByteBits
Bytes == (Bits + ByteBits - 1) \div ByteBits

FillBytes(st, digit) ==
  LET w[k \in 0 .. Width] ==
        IF k = 0 THEN st
        ELSE LET t == w[k - 1]
             IN IF t.b < Width /\ t.j >= 0
                THEN [a |-> [t.a EXCEPT ![t.j] = (digit \div 2^t.b) % ByteRadix],
                      b |-> t.b + ByteBits, j |-> t.j - 1]
                ELSE t
  IN w[Width]

ToBinDigit(st, digit) ==
  LET begun == [a |-> [st.a EXCEPT ![st.j] = @ + ((digit * 2^st.s) % ByteRadix)],
                b |-> ByteBits - st.s, j |-> st.j - 1]
      t == FillBytes(begun, digit)
      s == ByteBits - (t.b - Width)
  IN IF begun.j < 0 THEN [a |-> begun.a, j |-> begun.j, s |-> st.s]
     ELSE [a |-> IF t.j >= 0 THEN [t.a EXCEPT ![t.j] = 0] ELSE t.a,
           j |-> IF s # 0 THEN t.j + 1 ELSE t.j, s |-> s]

to_bin(r) ==
  LET digits == norm(r, 0)
      st[i \in -1 .. N - 1] ==
        IF i = -1 THEN [a |-> [k \in 0 .. Bytes - 1 |-> 0], j |-> Bytes - 1, s |-> 0]
        ELSE LET t == st[i - 1] IN IF t.j >= 0 THEN ToBinDigit(t, digits[i]) ELSE t
  IN st[N - 1].a

\* From the digits of an mp_int, of word > Width bits: one of them gives several.
FromMpFill(st, dp, size, word) ==
  LET w[k \in 0 .. word] ==
        IF k = 0 THEN st
        ELSE LET t == w[k - 1]
                 s == t.s + Width
                 r == [t.r EXCEPT ![t.j] = @ % Radix]
             IN IF t.stop \/ s > word THEN t
                ELSE IF t.j + 1 >= size THEN [t EXCEPT !.r = r, !.s = s, !.stop = TRUE]
                ELSE [t EXCEPT !.r = [r EXCEPT ![t.j + 1] = IF s < word THEN dp \div 2^s ELSE 0],
                               !.s = s, !.j = @ + 1]
  IN [w[word] EXCEPT !.s = word - @, !.stop = FALSE]

FromMpDigit(st, dp, size, word) ==
  LET r == [st.r EXCEPT ![st.j] = (@ + dp * 2^st.s) % Radix]
      s == Width - st.s
  IN IF st.j + 1 >= size THEN [st EXCEPT !.r = r, !.s = s, !.stop = TRUE]
     ELSE FromMpFill([st EXCEPT !.r = [r EXCEPT ![st.j + 1] = dp \div 2^s], !.s = s, !.j = @ + 1],
                     dp, size, word)

from_mp(size, a, used, word) ==
  LET st[i \in -1 .. used - 1] ==
        IF i = -1 THEN [r |-> [k \in 0 .. 2 * N - 1 |-> 0], j |-> 0, s |-> 0, stop |-> FALSE]
        ELSE LET t == st[i - 1] IN IF t.stop THEN t ELSE FromMpDigit(t, a[i], size, word)
      end == st[used - 1]
  IN [k \in 0 .. 2 * N - 1 |-> IF k <= end.j THEN end.r[k] ELSE 0]

ToMpDigit(st, digit, word) ==
  LET dp == [st.dp EXCEPT ![st.j] = (@ + digit * 2^st.s) % 2^word]
      s == word - st.s
  IN IF st.s + Width >= word
     THEN [dp |-> [dp EXCEPT ![st.j + 1] = digit \div 2^s], j |-> st.j + 1, s |-> Width - s]
     ELSE [dp |-> dp, j |-> st.j, s |-> st.s + Width]

to_mp(a, word) ==
  LET st[i \in -1 .. N - 1] ==
        IF i = -1 THEN [dp |-> [k \in 0 .. N |-> 0], j |-> 0, s |-> 0]
        ELSE ToMpDigit(st[i - 1], a[i], word)
      used == (Bits + word - 1) \div word
  IN [k \in 0 .. used - 1 |-> st[N - 1].dp[k]]
=============================================================================
