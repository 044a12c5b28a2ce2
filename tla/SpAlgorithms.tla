---------------------------- MODULE SpAlgorithms ----------------------------
(***************************************************************************)
(* The pure functions, input by input: those of SP compared with EcGroup   *)
(* and with arithmetic, the key wrap and the key derivations of            *)
(* compat_shim.c with what they promise.  A behaviour picks a function and *)
(* then its arguments; a routine at its real size (SpRoutines) is picked   *)
(* with its arguments and then run step by step.                           *)
(***************************************************************************)
EXTENDS SpEcdsa, EcGroup
LOCAL INSTANCE SequencesExt

CONSTANTS
  Zs,           \* scales of the projective coordinates
  Hashes,       \* hashes, as numbers
  Keys,         \* private keys
  SigS,         \* second parts of the signatures that are verified
  Blocks,       \* what the random number generator returns
  Widths,       \* pairs of a digit width and a window, for the recoding
  DigitsBits, Width, ByteBits,  \* the parameters of SpDigits
  Moduli,       \* moduli of that many bits
  Operands,     \* second operands
  Words,        \* bits of a digit of an mp_int
  ShortBits, ShortWidth,        \* the same for the short division
  Divisors, Factors,            \* its arguments: a divisor, and a product
  ModBits, ShiftWindow,         \* parameters of SpExp
  ExpModuli, Exponents, Bases,  \* its arguments
  RsaKeys,      \* RSA keys: the primes and the exponents
  Semi, SemiByteBits, MliBits, Mark, PadBuf, Encrypt, Decrypt,  \* of KeyWrap
  WrapKeys, Ciphertexts,        \* what is wrapped and unwrapped
  MdSize, CtrModulus, MaxOut    \* the parameters of Kdf, the longest output

ASSUME DigitsAssumption ==
  /\ DigitsBits \in Nat /\ Width \in Nat /\ Width > 1 /\ DigitsBits > Width
  /\ ByteBits \in Nat /\ ByteBits > 0 /\ ByteBits < Width
  /\ ShortBits \in Nat /\ ShortWidth \in Nat /\ ShortWidth > 1 /\ ShortBits > ShortWidth

ASSUME CipherAssumption ==
  /\ DOMAIN Encrypt = 0 .. 2^(2 * Semi * SemiByteBits) - 1
  /\ \A b \in DOMAIN Encrypt : Encrypt[b] \in DOMAIN Encrypt /\ Decrypt[Encrypt[b]] = b

D == INSTANCE SpDigits WITH Bits <- DigitsBits
S == INSTANCE SpDigits WITH Bits <- ShortBits, Width <- ShortWidth
X(d, w) == INSTANCE SpExp WITH DigitBits <- d, Window <- w
W == INSTANCE KeyWrap WITH ByteBits <- SemiByteBits
K == INSTANCE Kdf
R == INSTANCE SpRoutines

VARIABLE input

\* Point k * Base with scale z, in Montgomery form; the neutral element has
\* three forms.
Rep(k, z) ==
  LET p == Mult(k)
      m(a) == mod_mul_norm(a % P)
  IN IF p = O THEN CASE z = 1 -> Infinity
                     [] z = 2 -> [Infinity EXCEPT !.z = norm_mod]
                     [] OTHER -> DblInPlace([Infinity EXCEPT !.z = norm_mod])
     ELSE Point(m(p[1] * z * z), m(((p[2] * z * z) % P) * z), m(z), 0)

\* The affine point that a projective one stands for.
Affine(p) ==
  IF p.inf = 1 \/ p.z = 0 THEN O
  ELSE LET q == map(p) IN <<q.x, q.y>>

\* A mapped result, where the neutral element is (0, 0).
Mapped(p) == IF p.x = 0 /\ p.y = 0 THEN O ELSE <<p.x, p.y>>

\* A point as an ecc_point has it.
Plain(k) == Point(Mult(k)[1], Mult(k)[2], 1, 0)

-----------------------------------------------------------------------------

SpInit == input = [f |-> "none"]

Pick(f, rest) == input.f = "none" /\ \E a \in rest : input' = [f |-> f, a |-> a]
Fill(f, rest) ==
  input.f = f /\ "b" \notin DOMAIN input /\ \E b \in rest : input' = [f |-> f, a |-> input.a, b |-> b]

PickPoint == Pick("point", 0 .. Q - 1)
FillPoint == Fill("point", (0 .. Q - 1) \X Zs \X Zs)
PickScalar == Pick("scalar", 0 .. 2^Bits - 1)
FillScalar == Fill("scalar", Keys)
PickRecode == Pick("recode", Widths)
FillRecode == Fill("recode", 0 .. 2^Bits - 1)
PickVerify == Pick("verify", Hashes \X Keys)
FillVerify == Fill("verify", (1 .. Q - 1) \X SigS)
PickSign == Pick("sign", Hashes \X Keys)
FillSign == Fill("sign", ({0} \cup Keys) \X UNION {[1 .. n -> Blocks] : n \in 0 .. MaxSigGen + 1})
PickKey == Pick("key", 0 .. 2^Bits)
PickDigits == Pick("digits", 0 .. 2^DigitsBits - 1)
FillDigits == Fill("digits", Operands)
PickDivision == Pick("division", Divisors)
FillDivision == Fill("division", {f \in Factors \X Factors : f[1] <= f[2]})
PickExp == Pick("exp", ExpModuli)
FillExp == Fill("exp", Bases \X Exponents)
PickRsa == Pick("rsa", RsaKeys)
FillRsa == Fill("rsa", 0 .. 2^ModBits - 1)
PickWrap == Pick("wrap", WrapKeys)
FillWrap == Fill("wrap", (0 .. PadBuf + 2 * Semi) \X BOOLEAN)
PickUnwrap == Pick("unwrap", Ciphertexts)
FillUnwrap == Fill("unwrap", {Semi, PadBuf})
PickKdf == Pick("kdf", 0 .. MaxOut)
FillKdf == Fill("kdf", {<< >>, <<"key">>} \X {<< >>, <<"info">>} \X {<< >>, <<"salt">>}
                         \X ((-1) .. 6 * MaxOut))
FillKey == Fill("key", (0 .. 2^Bits) \X ({NoKey} \cup Keys))

\* a is the routine with its arguments, b the state of its loop.
PickRoutine ==
  /\ input.f = "none"
  /\ \E p \in R!Routines : \E x \in R!Args(p) :
       input' = [f |-> "routine", a |-> <<p, x>>, b |-> R!Start(p, x)]
StepRoutine ==
  /\ input.f = "routine" /\ ~R!Ended(input.b)
  /\ input' = [input EXCEPT !.b = R!Go(input.a[1], input.a[2], @)]

SpNext ==
  \/ PickRoutine \/ StepRoutine
  \/ PickPoint \/ FillPoint \/ PickScalar \/ FillScalar \/ PickRecode \/ FillRecode
  \/ PickVerify \/ FillVerify \/ PickSign \/ FillSign \/ PickKey \/ FillKey
  \/ PickDigits \/ FillDigits \/ PickDivision \/ FillDivision
  \/ PickExp \/ FillExp \/ PickRsa \/ FillRsa
  \/ PickWrap \/ FillWrap \/ PickUnwrap \/ FillUnwrap \/ PickKdf \/ FillKdf

SpSpec == SpInit /\ [][SpNext]_input

\* The arguments of function f are all there.
Given(f) == input.f = f /\ "b" \in DOMAIN input

-----------------------------------------------------------------------------

\* -1 / m modulo the radix.
Mp(m) == CHOOSE i \in 0 .. D!Radix - 1 : (i * m + 1) % D!Radix = 0

\* Every digit but the last one is normalised.
Normalised(r) == \A i \in 0 .. D!N - 2 : r[i] \in 0 .. D!Radix - 1

\* The digits of r are normalised and it is v modulo m; if the operands were
\* reduced (below) it has no more than its bits.
Stands(r, v, m, below) ==
  LET n == D!NumberOf(r)
  IN Normalised(r) /\ (n - v) % m = 0 /\ (below => n \in 0 .. 2^DigitsBits - 1)

\* What SpField takes for granted: whatever the carries, the code's digits stand
\* for the residue that the operation is named after, in both builds.  Operands
\* may have any value of their bits, not only those below the modulus; a product
\* always has no more than its bits again (with the modulus of P-521 it may be one
\* more), a sum or a difference only if the operands were below the modulus.
DigitsAreExact ==
  Given("digits") =>
    LET x == input.a
        y == input.b
        a == D!Array(x)
        b == D!Array(y)
        r == 2^DigitsBits
    IN /\ LET c == D!cmp(a, b) IN (c < 0 <=> x < y) /\ (c = 0 <=> x = y)
       /\ \A small \in BOOLEAN :
            /\ D!NumberOf(D!mul(a, b, small)) = x * y
            /\ D!NumberOf(D!sqr(a, small)) = x * x
       /\ LET long(u, v) == u + v * D!Radix^D!N
              la == long(x, y)
              lb == long(y, x % D!Radix)
              digits(v) == [i \in 0 .. 2 * D!N - 1 |-> (v \div D!Radix^i) % D!Radix]
              half(p, o) == D!NumberOf([i \in 0 .. 2 * D!N - 1 |-> p[o + i]])
              is(p, v) == half(p, 0) + half(p, 2 * D!N) * D!Radix^(2 * D!N) = v
          IN /\ is(D!mul_halves(digits(la), digits(lb)), la * lb)
             /\ is(D!sqr_halves(digits(lb)), lb * lb)
       /\ LET folds(p) ==
                LET low == [i \in 0 .. D!N - 1 |-> p[i]]
                IN /\ (D!NumberOf(low) - x * y) % (r - 1) = 0 /\ D!NumberOf(low) \in 0 .. r
                   /\ \A i \in 1 .. D!N - 1 : low[i] \in 0 .. D!Radix - 1
                   /\ low[0] \in 0 .. D!Radix
          IN folds(D!mont_reduce_521(D!mul(a, b, FALSE)))
       /\ \A n \in Moduli :
            LET m == D!Array(n)
                below == x < n /\ y < n
                product(p, v) == /\ Normalised(p) /\ D!NumberOf(p) \in 0 .. r - 1
                                 /\ (D!NumberOf(p) * r - v) % n = 0
                halved(h) == Normalised(h) /\ (2 * D!NumberOf(h) - x) % n = 0
            IN /\ Stands(D!mont_add(a, b, m), x + y, n, below)
               /\ Stands(D!mont_sub(a, b, m), x - y, n, below)
               /\ Stands(D!mont_dbl(a, m), 2 * x, n, below)
               /\ Stands(D!mont_tpl(a, m), 3 * x, n, below)
               /\ halved(D!mont_div2(a, m))
               /\ \A small \in BOOLEAN :
                    /\ product(D!mont_mul_order(a, b, m, Mp(n), small), x * y)
                    /\ product(D!mont_sqr_order(a, m, Mp(n), small), x * x)
               /\ Mp(n) = 1 => \A small \in BOOLEAN :
                    /\ product(D!mont_mul(a, b, m, small), x * y)
                    /\ product(D!mont_sqr(a, m, small), x * x)

\* The Montgomery parameters of a modulus whose top bit is set, and the reduction
\* that decides by its top digit alone whether to subtract it.
SetupIsExact ==
  Given("digits") =>
    \A n \in {i \in Moduli : i >= 2^(DigitsBits - 1)}, small \in BOOLEAN :
      LET m == D!Array(n)
          product == D!mul(D!Array(input.a), D!Array(input.b), small)
          reduced(p) == /\ Normalised(p) /\ D!NumberOf(p) \in 0 .. 2^DigitsBits - 1
                        /\ (D!NumberOf(p) * 2^DigitsBits - input.a * input.b) % n = 0
      IN /\ D!mont_setup(m) = Mp(n)
         /\ D!NumberOf(D!mont_norm(m)) = 2^DigitsBits % n
         /\ reduced(D!mont_reduce_top(product, m, D!mont_setup(m), small))

\* A step of the division adds back a product that has a top digit, which is lost.
DropsDigit(a, d) ==
  LET t == D!DivSteps(a, d)
      sd == D!Shifted(d)
  IN \E i \in 0 .. D!N : D!DivBack(D!DivEstimate(t[i + 1], sd, i), sd, i)[D!N] # 0

\* What a step leaves would, with that digit, be negative or have a digit that the next step
\* does not look at.
LeavesTooMuch(a, d) ==
  LET t == D!DivSteps(a, d)
      sd == D!Shifted(d)
      n == D!N
      left(i) == LET v == D!DivEstimate(t[i + 1], sd, i)
                     r1 == D!div_word(-v[n + i], -v[n + i - 1], sd[n - 1]) - v[n + i]
                 IN D!NumberOf([k \in 0 .. n |-> v[i + k] + (IF k < n THEN r1 * sd[k] ELSE 0)])
  IN \E i \in 0 .. n : left(i) \notin 0 .. 2^(Width * n) - 1

\* The digits of the remainder of the product of a and b, which is what a caller uses of r.
Remainder(r, n) == \A i \in 0 .. D!N - 1 : r[i] = D!Array((input.a * input.b) % n)[i]

\* The remainder of every product by a modulus whose top bit is set: it is exact if and only
\* if no step leaves more than the next one looks at, and nothing is left above it unless the
\* product that a step adds back has a digit more than the step adds.
LongDivisionIsExact ==
  Given("digits") =>
    \A n \in {i \in Moduli : i >= 2^(DigitsBits - 1)} :
      LET a == D!mul(D!Array(input.a), D!Array(input.b), FALSE)
          d == D!Array(n)
          r == D!div(a, d)
      IN /\ Remainder(r, n) <=> ~LeavesTooMuch(a, d)
         /\ r = D!Array((input.a * input.b) % n) \/ DropsDigit(a, d)

\* The comment of sp_2048_div_36 and its kind, m*d + r = a, for every modulus whose top
\* bit is set.
LongRemaindersAreExact ==
  Given("digits") =>
    \A n \in {i \in Moduli : i >= 2^(DigitsBits - 1)} :
      Remainder(D!div(D!mul(D!Array(input.a), D!Array(input.b), FALSE), D!Array(n)), n)

\* The short division, which no step but the last one normalises completely, gives
\* a number of no more than its bits with the right residue, for a divisor as the
\* primes and orders are: further from the power of two than two digits, the top
\* digit all ones (P-384, P-521) or taken twice (P-256).
Short(n, small, corrected) ==
  LET x == input.b[1] * input.b[2]
      full == n \div 2^(ShortBits - ShortWidth) = S!Radix - 1
      r == S!div_curve(S!Array(x), S!Array(n), ~full, corrected, small)
  IN /\ \A i \in 0 .. S!N - 1 : r[i] \in 0 .. S!Radix - 1
     /\ (S!NumberOf(r) - x) % n = 0 /\ S!NumberOf(r) < 2^ShortBits
ShortDivisionIsRight ==
  Given("division") /\ 2^ShortBits - input.a >= S!Radix * S!Radix =>
    \A small \in BOOLEAN, corrected \in BOOLEAN : Short(input.a, small, corrected)

\* The comment of sp_521_div_9, whose last step is corrected, for the prime of the
\* curve, the power of two less one: m*d + r = a.
RemaindersAreExact ==
  Given("division") /\ input.a = 2^ShortBits - 1 =>
    \A small \in BOOLEAN : Short(input.a, small, TRUE)

\* a^e modulo m: a^i = (a^j)^2 * a^(i - 2j) with j = i \div 2.
Power(a, e, m) ==
  LET p[i \in 0 .. 2^ModBits] ==
        IF i = 0 THEN 1
        ELSE LET q == p[i \div 2] IN (((q * q) % m) * (IF i % 2 = 1 THEN a % m ELSE 1)) % m
  IN p[e] % m

\* A power, and one without leading zero bytes.
IsPower(u, e, power) == IF e = 0 THEN u.err = "MP_VAL" ELSE u = [err |-> "MP_OKAY", r |-> power]
IsShortest(u, power) ==
  /\ u.err = "MP_OKAY" /\ u.r = power /\ u.r < 2^(ByteBits * u.outLen)
  /\ u.outLen > 0 => u.r >= 2^(ByteBits * (u.outLen - 1))

\* The ladder, the windows and the shifts of powers of two compute the power,
\* however the windows lie on the digits of the exponent, zero included; only an
\* exponent of no bits is refused.
ExponentsAreRight ==
  Given("exp") =>
    LET m == input.a
        b == input.b[1]
        e == input.b[2]
        bytes == (ModBits + ByteBits - 1) \div ByteBits
    IN \A dw \in Widths, ct \in BOOLEAN :
         /\ IsPower(X(dw[1], dw[2])!ModExp(b, e, m, ct), e, Power(b, e, m))
         /\ IsShortest(X(dw[1], dw[2])!DhExp(b, e, bytes, m, ct), Power(b, e, m))

\* The private operation undoes the public one, with the primes in either order
\* and one of them up to twice the other, and the public one is the power.
RsaIsInverse ==
  Given("rsa") =>
    LET key == input.a
        a == input.b
        m == key.p * key.q
        room == (ModBits + ByteBits - 1) \div ByteBits
        c == X(DigitBits, Window)!RsaPublic(a, room, key.e, m, room)
    IN a < m =>
         /\ c.err = "MP_OKAY" /\ c.r = Power(a, key.e, m)
         /\ \A ct \in BOOLEAN :
              X(DigitBits, Window)!RsaPrivate(c.r, room, key, m, room, ct)
                = [err |-> "MP_OKAY", r |-> a]

\* Numbers survive the way through bytes and through the digits of an mp_int,
\* whatever the widths, and a number that is read in full is not cut.
ConversionsAreExact ==
  Given("digits") /\ input.b < D!Radix =>
    LET x == input.a
        a == D!Array(x)
        bytes == [i \in 0 .. D!Bytes - 1 |-> (x \div 2^(ByteBits * (D!Bytes - 1 - i))) % 2^ByteBits]
    IN /\ D!to_bin(a) = bytes
       /\ D!from_bin(D!N, bytes, D!Bytes) = a
       /\ x + input.b < 2^DigitsBits =>
            D!to_bin([a EXCEPT ![0] = @ + input.b]) = D!to_bin(D!Array(x + input.b))
       /\ D!NumberOf(D!add_one(a)) = x + 1
       /\ \A w \in Words :
            LET used == (DigitsBits + w - 1) \div w
                dp == [i \in 0 .. used - 1 |-> (x \div 2^(w * i)) % 2^w]
            IN D!from_mp(D!N, dp, used, w) = a /\ D!to_mp(a, w) = dp

\* Every way of adding and doubling points that the code has gives the group's
\* sum, whatever the scale of the operands, for equal, opposite and infinite
\* ones, and with the result in place of an operand.
PointsAreRight ==
  Given("point") =>
    LET p == Rep(input.a, input.b[2])
        q == Rep(input.b[1], input.b[3])
        sum == Sum(Mult(input.a), Mult(input.b[1]))
    IN /\ Affine(Add(p, q)) = sum
       /\ Affine(AddInto(p, q)) = sum
       /\ Affine(proj_point_add([a |-> p, b |-> q, t |-> NoTemps],
                                [r |-> "b", p |-> "a", q |-> "b"]).b) = sum
       /\ input.b[3] = 1 /\ q.inf = 0 => Affine(proj_point_add_qz1(p, q)) = sum

\* Repeated doubling, and the pair of a sum and a difference.
SeveralAtOnceAreRight ==
  Given("point") =>
    LET p == Rep(input.a, input.b[2])
        q == Rep(input.b[1], input.b[3])
        a == input.a
        b == input.b[1]
    IN /\ input.b[1] = 0 =>
            /\ \A n \in 1 .. Window : Affine(proj_point_dbl_n(p, n)) = Mult(a * 2^n)
            /\ a # 0 => \A n \in 1 .. Window - 1 :
                          Affine(proj_point_dbl_n_store(p, Window - 1)[n]) = Mult(a * 2^n)
       /\ a # 0 /\ b # 0 /\ a # b /\ a + b # Q =>
            LET u == proj_point_add_sub(p, q)
            IN Affine(u.sum) = Mult(a + b) /\ Affine(u.diff) = Mult(a + Q - b)

\* The ladder of the small build, the signed window in constant time or not,
\* and the stripe table of the base point compute the same multiple, for every
\* scalar of the width, zero and the order included.
MultiplesAreRight ==
  Given("scalar") =>
    LET k == input.a
        d == input.b
    IN /\ \A ct \in BOOLEAN, small \in BOOLEAN :
            Mapped(mulmod(Plain(d), k, TRUE, ct, small)) = Mult(k * d)
       /\ \A small \in BOOLEAN :
            /\ Mapped(mulmod_base(k, TRUE, small)) = Mult(k)
            /\ k % Q # 0 =>
                 /\ Mapped(mulmod_base_add(k, Plain(d), FALSE, TRUE, small)) = Mult(k + d)
                 /\ Mapped(mulmod_add(k, Plain(d), Norm(base), TRUE, TRUE, small)) = Mult(k * d + 1)

\* The ladder keeps t[1] - t[0] = g.
LadderStaysInStep ==
  Given("scalar") =>
    LET m == Ladder(Plain(input.b), input.a)
    IN \A i \in 0 .. Bits :
         Affine(m[i].t1) = Sum(Affine(m[i].t0), Mult(input.b))

\* The windows of a recoded scalar add up to it, the top one is not negative,
\* and no index is beyond the table.
RecodingIsExact ==
  Given("recode") =>
    LET d == input.a[1]
        w == input.a[2]
        n == (Bits + 1 + w) \div w
        v == ecc_recode(Digits(input.b, d), d, w, n)
    IN /\ SumFunction([i \in 0 .. n - 1 |->
             (IF v[i].neg = 1 THEN -v[i].i ELSE v[i].i) * 2^(w * i)]) = input.b
       /\ v[n - 1].neg = 0
       /\ \A i \in 0 .. n - 1 : v[i].i <= 2^(w - 1)

\* A signature is accepted exactly if it is valid, in both builds, also when the
\* point is at infinity and when its abscissa is not below the order.
VerifyIsExact ==
  Given("verify") =>
    \A small \in BOOLEAN :
      ecc_verify(input.a[1], Plain(input.a[2]), input.b[1], input.b[2], small)
        <=> Valid(input.a[1], input.a[2], input.b[1], input.b[2])

\* The scalars that a call of ecc_sign can draw: the given one, and the blocks in
\* range up to a failure of the generator.
Drawn(km, rng) ==
  LET before == SelectInSeq(rng, LAMBDA block : block = FAIL)
      blocks == IF before = 0 THEN rng ELSE SubSeq(rng, 1, before - 1)
      accepted == SelectSeq(blocks, LAMBDA block : block + 1 < Q)
  IN (IF km = 0 THEN << >> ELSE <<km>>) \o [i \in DOMAIN accepted |-> accepted[i] + 1]

\* The signature that scalar k gives by the standard.
Signature(e, d, k) ==
  LET r == Mult(k)[1] % Q IN <<r, (InvMod(k, Q) * (e + r * d)) % Q>>

\* sig is the signature with the first usable one of the drawn scalars.
IsFirstOf(sig, drawn, first, e, d) ==
  IF first \in 1 .. MaxSigGen
  THEN /\ sig.err = MP_OKAY
       /\ <<sig.r, sig.s>> = Signature(e, d, drawn[first])
       /\ Valid(e, d, sig.r, sig.s)
  ELSE sig.err # MP_OKAY

\* ecc_sign returns the standard's signature for the first scalar that gives
\* neither a zero r nor a zero s, and it is valid; it fails exactly if there is
\* no such scalar among the first MaxSigGen.
SignaturesAreValid ==
  Given("sign") =>
    LET e == input.a[1]
        d == input.a[2]
        drawn == Drawn(input.b[1], input.b[2])
        usable(k) == 0 \notin {Signature(e, d, k)[1], Signature(e, d, k)[2]}
    IN \A small \in BOOLEAN :
         IsFirstOf(ecc_sign(e, d, input.b[1], input.b[2], small), drawn,
                   SelectInSeq(drawn, usable), e, d)

\* A key pair passes exactly if the point is on the curve, in range and the one
\* the private key generates, and an abscissa leads back to both ordinates.
KeyCheckIsExact ==
  Given("key") =>
    LET x == input.a
        y == input.b[1]
        d == input.b[2]
    IN /\ \A small \in BOOLEAN :
            check_key(x, y, d, small) = MP_OKAY
              <=> OnCurve(x, y) /\ (d # NoKey => Mult(d) = <<x, y>>)
       /\ OnCurve(x, y) => uncompress(x, y % 2) = y

Agree(mine, theirs, one, other, secret) ==
  /\ mine.err = MP_OKAY /\ theirs.err = MP_OKAY
  /\ check_key(mine.pub.x, mine.pub.y, mine.priv, other) = MP_OKAY
  /\ secret_gen(mine.priv, theirs.pub, TRUE, one) = secret
  /\ secret_gen(theirs.priv, mine.pub, TRUE, other) = secret

\* Two parties whose keys were made by either build and pass the check compute
\* the same secret, the abscissa of the product.
AgreementIsMutual ==
  Given("scalar") /\ input.a \in 1 .. Q - 1 =>
    \A one \in BOOLEAN, other \in BOOLEAN :
      Agree(make_key(<<input.a - 1>>, one), make_key(<<Q - 1, input.b - 1>>, other), one, other,
            [err |-> MP_OKAY, out |-> Mult(input.a * input.b)[1]])

\* Inverses modulo the order and the prime.
InversesAreRight ==
  Given("scalar") /\ input.a \in 1 .. Q - 1 =>
    /\ (mod_inv(input.a, Q) * input.a) % Q = 1
    /\ mont_mul_order(mont_inv_order(input.a), input.a) = norm_order
    /\ mont_mul(mont_inv(input.a), input.a) = norm_mod

\* A key is wrapped if there is room for it, and unwrapping gives it back, of its
\* length, whenever there is room for the padded one.
KeyIsRecovered ==
  Given("wrap") =>
    LET n == Len(input.a)
        padded == W!Padded(n)
        maxOut == input.b[1]
        works == input.b[2]
        c == W!wrap_with_padding(input.a, maxOut, works)
    IN /\ c.ok <=> n \in 1 .. PadBuf /\ maxOut >= padded + Semi /\ (works \/ padded = Semi)
       /\ c.ok => /\ Len(c.out) = padded + Semi
                  /\ \A room \in 0 .. PadBuf :
                       W!unwrap_key_padded(c.out, room)
                         = IF room < padded THEN W!Refused ELSE W!Written(input.a)

\* Only the wrapping of a key is accepted: what unwraps to a key is, byte for
\* byte, what wrapping that key gives.
AcceptedIsWrapped ==
  Given("unwrap") =>
    LET u == W!unwrap_key_padded(input.a, input.b)
    IN u.ok => W!wrap_with_padding(u.out, PadBuf + Semi, TRUE) = W!Written(input.a)

\* Each byte of a derived key is the byte of its block, no block is used twice and
\* the last one is cut; the output is given only if no call has failed.  The
\* one-step derivation has no limit of its own: its caller's, which is lower than
\* the counter's.
DerivedIsExact ==
  Given("kdf") =>
    LET key == input.b[1]
        info == input.b[2]
        salt == input.b[3]
        fails == input.b[4]
        block(b) == (b - 1) \div MdSize + 1
        place(b) == ((b - 1) % MdSize) + 1
        infos == IF info = << >> THEN << >> ELSE <<info>>
        exact(r, k, fixed) == r.ret = 1 =>
          r.out = [b \in 1 .. input.a |-> <<k, <<block(b)>> \o fixed \o infos, place(b)>>]
        kb == K!KBKDF_ctr_hmac(input.a, key, info, fails)
        ss == K!SSKDF_hmac(input.a, key, info, salt, fails)
        fits == input.a <= (CtrModulus - 1) * MdSize
    IN /\ exact(kb, key, << >>)
       /\ fails = 0 => (kb.ret = 1 <=> input.a > 0 /\ key # << >> /\ fits)
       /\ fits => exact(ss, IF salt = << >> THEN K!DefaultSalt ELSE salt, <<key>>)
       /\ fails = 0 => (ss.ret = 1 <=> input.a > 0 /\ key # << >>)
       /\ fails = -1 => kb.ret = 0 /\ ss.ret = 0

-----------------------------------------------------------------------------
(* The invariants, one for each part of the code.                          *)

\* The digits: sums, products, reductions, both divisions and conversions, and at the
\* real sizes the sums, products and reductions of whole numbers, in place or not, are
\* exact.  A reduction whose digits have not room for all parts is exact if and only if
\* they gather no more than they have room for, and a long division if and only if no step
\* leaves more than the next one looks at; that the code's comments promise more is shown
\* by ReductionsAreExact and LongRemaindersAreExact, which do not hold.
ArithmeticIsExact ==
  /\ DigitsAreExact /\ SetupIsExact /\ ConversionsAreExact
  /\ LongDivisionIsExact /\ ShortDivisionIsRight
  /\ Given("routine") => R!SumsRight(input.a[1], input.a[2], input.b)

\* The comments of sp_3072_mont_reduce_54 and sp_2048_mont_reduce_36, "Reduce the number
\* back to 3072 bits using Montgomery reduction", for every modulus and number.
ReductionsAreExact == Given("routine") => R!ReductionRight(input.a[1], input.a[2], input.b)

\* The conversions, shifts and sweeps at their real sizes: whatever the widths of the
\* digits on both sides and wherever the unrolled part of a loop ends, every bit and
\* every digit gets where it belongs, once, and what is not written is cleared.
BitsArePlaced == Given("routine") => R!PlacedRight(input.a[1], input.a[2], input.b)

\* The exponentiations at their real sizes: across the edges of digits and of windows
\* the bits of the exponent are read in order, each once and to the last, and the
\* power at the end is that of exactly these bits.
ExponentIsRead == Given("routine") => R!PowerRight(input.a[1], input.a[2], input.b)

\* RSA and Diffie-Hellman lay their numbers out in one buffer and reuse parts of it: no
\* number is overwritten while it is needed, so that the result is the power (that of the
\* public exponent 1 if and only if the division leaves nothing above the remainder); it
\* is given out only if no call failed, and the secrets are wiped whatever failed.
BuffersAreKept == Given("routine") => R!DriverRight(input.a[1], input.a[2], input.b)

\* Points and scalars: every way of adding, doubling and multiplying agrees with
\* the group, and the recoded scalars and inverses they use are right.
GroupIsRight ==
  /\ PointsAreRight /\ SeveralAtOnceAreRight /\ LadderStaysInStep /\ MultiplesAreRight
  /\ RecodingIsExact /\ InversesAreRight

\* ECDSA, ECDH and the checks of keys.
EcdsaIsRight ==
  VerifyIsExact /\ SignaturesAreValid /\ KeyCheckIsExact /\ AgreementIsMutual

\* Exponentiation, RSA and Diffie-Hellman.
RsaIsRight == ExponentsAreRight /\ RsaIsInverse

\* The key wrap and the key derivations of compat_shim.c.
ShimKeysAreRight == KeyIsRecovered /\ AcceptedIsWrapped /\ DerivedIsExact
=============================================================================
