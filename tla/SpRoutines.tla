----------------------------- MODULE SpRoutines -----------------------------
(***************************************************************************)
(* The routines of sp_c64.c and sp_c32.c at their real sizes, of all       *)
(* kinds: what they are called with, their steps, and what they have to    *)
(* make of it.                                                             *)
(***************************************************************************)
EXTENDS SpC64, SpC32

WordOps == {"from_bin", "from_mp", "to_mp", "to_bin", "rshift", "lshift", "mont_shift"}
Powers == {"ladder", "window", "base2"}
Drivers == {"rsa_public_small", "rsa_public", "rsa_d", "rsa_crt_small", "rsa_crt", "dh_exp", "mod_exp", "mod_exp_half"}
Products == {"columns", "parts"}
Sweeps == {"add", "sub", "cond_add", "cond_sub", "cond_copy", "norm", "cmp"} \cup Muls

Routines == C64Routines \cup C32Routines

-----------------------------------------------------------------------------
(* The arguments.                                                            *)

\* Digits of an mp_int of another width than the routine's own.
MpWidths(w) == (IF w > 32 THEN {60, 64} ELSE {28, 32}) \ {w}

\* Too few, enough and too many bytes or digits; shifts by nothing, some bits and the most.
WordArgs(p) ==
  CASE p.op = "from_bin" -> {0, 3, (p.n * p.w) \div 8 + 1}
    [] p.op = "from_mp" -> {<<d, u>> \in MpWidths(p.w) \X (0 .. p.n * 3) : u \in {0, (p.n * p.w) \div d}}
    [] p.op = "to_mp" -> MpWidths(p.w)
    [] p.op \in {"rshift", "lshift"} -> {0, 5, p.w - 1}
    [] p.op \in {"to_bin", "mont_shift"} -> {0}

\* The bits of an exponent: none, one digit, the edge of a digit, all.
PowerArgs(p) == {0, p.w, p.bits - 3, p.bits}

\* What the callers may give: lengths and bits that are right, each of them wrong, and even
\* moduli; keys of small numbers; what the memory holds; the call that fails, 0 for none.
Sizes(p) ==
  LET z == [outLen |-> p.N \div 8, inLen |-> p.N \div 8, mBits |-> p.N, eBits |-> 8, bBits |-> p.N, even |-> "none"]
  IN {z, [z EXCEPT !.outLen = @ - 1], [z EXCEPT !.inLen = @ + 1], [z EXCEPT !.mBits = @ - 1],
      [z EXCEPT !.mBits = @ + 1, !.even = "m"], [z EXCEPT !.eBits = p.N + 8], [z EXCEPT !.eBits = 0],
      [z EXCEPT !.bBits = p.N + 1]} \cup {[z EXCEPT !.even = o] : o \in {"m", "p", "q"}}
Accepted(p, z) == First(Checks(p, z)) = "MP_OKAY"

CrtKey(pr, q, c) ==
  [c |-> c, m |-> pr * q, e |-> 0, p |-> pr, q |-> q, dp |-> 3, dq |-> 5,
   qi |-> CHOOSE i \in 0 .. pr - 1 : (i * q) % pr = 1, top |-> FALSE]
KeysOf(p) ==
  IF p.crt THEN {CrtKey(13, 11, c) : c \in {0, 57, 142}} \cup {CrtKey(7, 13, c) : c \in {12, 90}}
  ELSE {[c |-> c, m |-> 143, e |-> e, top |-> t] : c \in {2, 142}, e \in {0, 1, 3, 6, 7}, t \in BOOLEAN}

FaultsOf(p, v) ==
  LET calls == Calls(p, [v |-> v, z |-> [eBits |-> 8]])
  IN {k \in DOMAIN calls : calls[k].call \in Fallible}

\* 8 bits stand for any number of them up to the limit; an exponent without bits is 0.
Sizeable(v, z) == z.eBits = 0 => v.e = 0

DriverArgs(p) ==
  {x \in [v : KeysOf(p), z : Sizes(p), g : {0, 9}, fault : {0}] :
     Sizeable(x.v, x.z) /\ (Accepted(p, x.z) \/ x.v.c \in {2, 57})}
  \cup UNION {[v : {v}, z : {z \in Sizes(p) : Accepted(p, z) /\ Sizeable(v, z)}, g : {9}, fault : FaultsOf(p, v)] :
              v \in {u \in KeysOf(p) : u.c \in {2, 57}}}

\* Numbers: all ones, something in every digit, nothing, digits that have most of what their
\* type holds, and negative ones.
Number(o, w, n) ==
  [i \in 0 .. n - 1 |->
     CASE o = "ones" -> DigitBase - 1
       [] o = "mixed" -> 1 + ((37 * i + 11) % (DigitBase - 2))
       [] o = "zero" -> 0
       [] o = "wide" -> 2^(WordBits(w) - 2) - 1 - ((5 * i) % 7)
       [] o = "borrow" -> IF i = n - 1 THEN 1 ELSE -1 - (i % 3)]

\* Two numbers that are the same above digit k, where they are u and v; below it is the
\* other way round.
Near(p, k, u, v) == [i \in 0 .. p.n - 1 |-> IF i > k THEN Number("mixed", p.w, p.n)[i] ELSE IF i = k THEN u ELSE v]

Called(p, b, to, m, d, a, c) ==
  [build |-> b, to |-> to, m |-> m, d |-> d, a |-> a, b |-> c,
   r |-> [i \in 0 .. IF p.op \in Muls THEN p.n ELSE p.n - 1 |-> (i * 91) % DigitBase]]

SweepArgs(p) ==
  LET num(o) == Number(o, p.w, p.n)
  IN CASE p.op = "cmp" ->
            {Called(p, b, "r", 0, 0, Near(p, k, e[1], e[2]), Near(p, k, e[2], e[1])) :
               b \in p.builds, k \in {0, p.n \div 2, p.n - 1},
               e \in {<<1, 0>>, <<0, 1>>, <<DigitBase - 1, 0>>, <<0, DigitBase - 1>>, <<9, 9>>}}
       [] p.op = "norm" -> {Called(p, b, "a", 0, 0, num(o), num(o)) : b \in p.builds, o \in {"ones", "wide", "borrow"}}
       [] p.op \in {"add", "sub"} ->
            {Called(p, b, to, 0, 0, num(o), num("ones")) :
               b \in p.builds, to \in {"r", "a", "b"}, o \in {"mixed", "wide"}}
       [] p.op \in {"cond_add", "cond_sub"} ->
            {Called(p, b, to, m, 0, num(o), num("ones")) :
               b \in p.builds, to \in {"r", "a"}, m \in {0, -1}, o \in {"mixed", "wide"}}
       [] p.op = "cond_copy" -> {Called(p, b, "r", m, 0, num("mixed"), num("zero")) : b \in p.builds, m \in {0, -1}}
       [] p.op \in Muls ->
            {Called(p, b, "r", 0, d, num(o), num("zero")) :
               b \in p.builds, d \in {0, 1, 100, DigitBase - 1}, o \in {"ones", "mixed"}}

\* The numbers of 2048 bits have 71 digits of 29 bits.  With 72 the two routines' sums of the
\* halves would be more than the accumulators of the products have room for.
Crowded(p) == p.op = "parts" /\ p.w = 29 /\ p.n = 72
InBits(p, u) == IF Crowded(p) THEN [u EXCEPT ![71] = 0, ![70] = @ % 2^ScaledBits(29, 18)] ELSE u

\* Both operands are one array in a square, and may be in a product.
ProductArgs(p) ==
  LET num(o) == InBits(p, Number(o, p.w, p.n))
  IN {[to |-> to, a |-> num(o), b |-> num(o)] : to \in {"none", "both"}, o \in {"ones", "mixed", "zero"}}
     \cup (IF p.sqr THEN {} ELSE {[to |-> to, a |-> num("mixed"), b |-> num("ones")] : to \in {"none", "a", "b"}})

\* Moduli of all their bits: the largest, something in every digit, the least that is odd,
\* and digits whose products have large lower and upper parts.  The numbers to reduce are
\* products of residues, carried or, as a product of parts leaves them, with a digit
\* borrowed from the next.
Modulus(p, o) ==
  [i \in 0 .. p.n - 1 |->
     LET d == CASE o = "ones" -> DigitBase - 1
                [] o = "mixed" -> 1 + ((37 * i + 10) % (DigitBase - 2))
                [] o = "least" -> IF i = 0 THEN 1 ELSE 0
                [] o = "parts" -> DigitBase - 15
         last == ScaledBits(p.w, p.last)
     IN IF i >= p.used THEN 0 ELSE IF i = p.used - 1 THEN 2^(last - 1) + (d % 2^(last - 1)) ELSE d]
Residue(p, m, f) == [i \in 0 .. p.n - 1 |-> IF i = 0 THEN m[0] - 1 ELSE IF f = "largest" THEN m[i] ELSE m[i] \div 3]
Spread(a, n) ==
  [i \in 0 .. 2 * n - 1 |-> a[i] + (IF i < 2 * n - 1 THEN DigitBase ELSE 0) - (IF i > 0 THEN 1 ELSE 0)]

\* The digit of a multiple that makes both parts of its product with a digit of the modulus
\* "parts" large, and the residue that needs nothing but such multiples.
Fullest ==
  LET parts(d) == Lo(d * (DigitBase - 15)) + Hi(d * (DigitBase - 15))
  IN CHOOSE d \in 0 .. DigitBase - 1 : \A e \in 0 .. DigitBase - 1 : parts(e) <= parts(d)
Gathering(p, m) ==
  LET last == ScaledBits(p.w, p.last)
      mu == [i \in 0 .. p.rounds |-> IF i < p.rounds THEN Fullest ELSE Fullest % 2^(last - 1)]
      t[k \in 0 .. p.rounds] ==
        Dot(mu, m, k, 0, k) + (IF k = 0 THEN 0 ELSE (t[k - 1] + DigitBase - 1) \div DigitBase)
  IN [k \in 0 .. 2 * p.n - 1 |->
        IF k < p.rounds THEN (-t[k]) % DigitBase ELSE IF k = p.rounds THEN (-t[k]) % 2^last ELSE 0]

\* The orders of the curves and the prime of 1024 bits, for which the moduli only stand.
FixedModulus(p) == p.shift.bits < 1024 \/ p.w = 25

\* From this number of digits on there are two of the five cases only, for time.
LargeReduction == 100

ReduceCases(p) ==
  {<<"ones", "largest", "product">>, <<"mixed", "other", "spread">>}
    \cup (IF p.n > LargeReduction THEN {} ELSE {<<"least", "largest", "spread">>, <<"parts", "other", "product">>})
    \cup (IF p.n > LargeReduction \/ FixedModulus(p) THEN {} ELSE {<<"parts", "other", "gathering">>})

ReduceArgs(p) ==
  UNION {LET m == Modulus(p, c[1])
             mp == CHOOSE d \in 0 .. DigitBase - 1 : (d * m[0] + 1) % DigitBase = 0
             u == Residue(p, m, c[2])
             product == WideColumns(MulWide(10, p.n, 64), "none", u, u)
             a == CASE c[3] = "product" -> product
                    [] c[3] = "spread" -> Spread(product, p.n)
                    [] c[3] = "gathering" -> Gathering(p, m)
         IN {[build |-> b, m |-> m, mp |-> mp, a |-> a] : b \in p.builds} : c \in ReduceCases(p)}

Args(p) ==
  CASE p.op \in WordOps -> WordArgs(p)
    [] p.op \in Powers -> PowerArgs(p)
    [] p.op \in Drivers -> DriverArgs(p)
    [] p.op \in Products -> ProductArgs(p)
    [] p.op \in Sweeps -> SweepArgs(p)
    [] p.op = "mont_reduce" -> ReduceArgs(p)

-----------------------------------------------------------------------------
(* The steps.                                                                *)

Start(p, x) ==
  CASE p.op = "from_bin" -> FromBinStart(p, x)
    [] p.op = "from_mp" -> FromMpStart(p, x)
    [] p.op = "to_mp" -> ToMpStart(p, x)
    [] p.op = "to_bin" -> ToBinStart(p)
    [] p.op = "rshift" -> RShiftStart(p)
    [] p.op = "lshift" -> LShiftStart(p)
    [] p.op = "mont_shift" -> MontShiftStart(p)
    [] p.op = "ladder" -> LadderStart(p, x)
    [] p.op \in {"window", "base2"} -> WindowStart(p, x)
    [] p.op \in Drivers -> DriverStart(p, x)
    [] OTHER -> [pc |-> "call"]

Go(p, x, st) ==
  CASE p.op = "from_bin" -> FromBinStep(p, x, st)
    [] p.op = "from_mp" -> FromMpStep(p, x, st)
    [] p.op = "to_mp" -> ToMpStep(p, x, st)
    [] p.op = "to_bin" -> ToBinStep(p, st)
    [] p.op = "rshift" -> RShiftStep(p, x, st)
    [] p.op = "lshift" -> LShiftStep(p, x, st)
    [] p.op = "mont_shift" -> MontShiftStep(p, st)
    [] p.op = "ladder" -> LadderStep(p, x, st)
    [] p.op \in {"window", "base2"} -> WindowStep(p, x, st)
    [] p.op \in Drivers -> DriverStep(p, x, st)
    [] p.op \in Products -> [pc |-> "done", out |-> Product(p, x.to, x.a, x.b)]
    [] p.op \in Sweeps -> [pc |-> "done", out |-> Swept(p, x.build, x)]
    [] p.op = "mont_reduce" -> [pc |-> "done", out |-> MontReduced(p, x)]

\* C leaves open what an undefined shift does.
Ended(st) == st.pc \in {"done", "undefined"}

-----------------------------------------------------------------------------
(* What they have to make of it.                                             *)

\* Bits lo to lo + k - 1 of a number that has none from `bits` on.
Part(lo, k, bits) == Slice(lo, LeastOf(lo + k, bits))

\* mont_shift: the lower half is the number shifted, the upper half cleared, and the digits
\* beyond `used` are left alone.
ShiftedAt(p, i) ==
  IF i < p.used - 1 THEN Slice(p.bits + i * p.w, p.bits + (i + 1) * p.w)
  ELSE IF i = p.used - 1 THEN {q \in Slice(p.bits + i * p.w, p.bits + (i + 2) * p.w) : q[2] < 2 * p.used * p.w}
  ELSE IF i < 2 * p.used THEN {} ELSE Slice(i * p.w, (i + 1) * p.w)

WordsRight(p, x, st) ==
  CASE p.op = "from_bin" -> \A i \in 0 .. p.n - 1 : st.r[i] = Part(i * p.w, p.w, 8 * x)
    [] p.op = "from_mp" -> \A i \in 0 .. p.n - 1 : st.r[i] = Part(i * p.w, p.w, x[1] * x[2])
    [] p.op = "to_mp" -> \A i \in 0 .. Grown(p, x) - 1 : st.dp[i] = Part(i * x, x, p.bits)
    [] p.op = "to_bin" -> \A i \in DOMAIN st.a : st.a[i] = Part(8 * ((p.bits + 7) \div 8 - 1 - i), 8, p.bits)
    [] p.op = "rshift" -> \A i \in 0 .. p.n - 1 : st.r[i] = Part(i * p.w + x, p.w, p.n * p.w)
    [] p.op = "lshift" -> \A i \in 0 .. p.n :
         st.r[i] = {q \in {<<k, i * p.w + k - x>> : k \in 0 .. p.w - 1} : q[2] \in 0 .. p.w * p.n - 1}
    [] p.op = "mont_shift" -> \A i \in 0 .. 2 * p.n - 1 : st.r[i] = ShiftedAt(p, i)

\* Every bit, and every digit, has got where it belongs.  to_mp writes at most one digit
\* more than it asked room for, and only a zero.
PlacedRight(p, x, st) ==
  /\ p.op = "to_mp" => st.j <= Grown(p, x) /\ st.dp[Grown(p, x)] \in {{}, Garbage}
  /\ st.pc = "done" =>
       /\ p.op \in WordOps => WordsRight(p, x, st)
       /\ p.op \in Sweeps => SweptRight(p, x, st.out)

\* The table of the windows, and the fold of the powers of two.
TableRight(p) ==
  /\ p.op = "window" => \A y \in 0 .. 2^p.g - 1 : Table(p.g)[y] = <<y, 1>> /\ WindowRound(p, One, y) = One
  /\ p.op = "base2" =>
       LET r == DigitsOf(p.w, p.n + 1, p.bits + 2^p.g - 1)
       IN Overflow(p, r) = Slice(p.bits, p.bits + 2^p.g - 1) /\ Kept(p, r) = DigitsOf(p.w, p.n + 1, p.bits)

\* The bits of the exponent are read in order, none is left, and the power is the one that
\* they make up.  Shifts are undefined only for exponents of other sizes than the modulus.
PowerRight(p, x, st) ==
  p.op \in Powers =>
    /\ st.ok
    /\ st.pc = "undefined" => x # p.bits
    /\ st.pc = "done" => TableRight(p)
    /\ st.pc = "done" /\ x # 0 => st.read = 0 /\ (IF p.op = "ladder" THEN st.t[1] ELSE st.t) = <<0, 0>>

\* The power, or what the remainder theorem gives.
Result(p, v) ==
  IF p.crt THEN CHOOSE r \in 0 .. v.m - 1 : r % v.p = PowerMod(v.c, v.dp, v.p) /\ r % v.q = PowerMod(v.c, v.dq, v.q)
  ELSE PowerMod(v.c, v.e, v.m)

\* The public operation with the exponent 1 reduces a remainder with what the division has
\* left above it.
HalfCopied(p, v) == p.op \in {"rsa_public", "rsa_public_small"} /\ v.e = 1

\* The secret numbers of a driver.
SecretsWiped(p, st) ==
  CASE p.crt -> \A a \in AllBlocks(p) : st.mem[a] = 0
    [] p.op \in {"dh_exp", "mod_exp", "mod_exp_half"} -> st.mem[p.n * 2] = 0
    [] OTHER -> TRUE

\* No number overlaps another while it is needed: the result is the power (with the exponent
\* 1 exactly if the division leaves nothing above the remainder), it is given out only if
\* nothing failed, and the secrets are wiped in either case.
DriverRight(p, x, st) ==
  p.op \in Drivers =>
    /\ st.ok
    /\ st.pc = "done" /\ st.err = "MP_OKAY" => (st.out = Result(p, x.v) <=> (HalfCopied(p, x.v) => x.g = 0))
    /\ st.err # "MP_OKAY" => st.out = -1
    /\ st.pc = "done" /\ st.i > 1 => SecretsWiped(p, st)

\* Every product of digits is in its column once, and every sum fits: the result is the
\* product, or the number reduced.  Where a digit has not room for all parts that it may
\* gather, this is so exactly if it has for those that it does gather.
SumsRight(p, x, st) ==
  st.pc = "done" =>
    /\ p.op \in Products => ProductRight(p, x, st.out)
    /\ p.op = "mont_reduce" => (ReducedRight(p, x, st.out) <=> HasRoom(p, x) \/ Fits(p, x, st.out.mu))

\* The number is reduced, whatever the digits gather.
ReductionRight(p, x, st) == p.op = "mont_reduce" /\ st.pc = "done" => ReducedRight(p, x, st.out)
=============================================================================
