----------------------------- MODULE SpDrivers -----------------------------
(***************************************************************************)
(* The operations on RSA and Diffie-Hellman keys of sp_c64.c and sp_c32.c  *)
(* and the one buffer each of them cuts into its numbers.  The sizes, the  *)
(* offsets and the limits are the real ones, in digits, bytes and bits.    *)
(* The numbers are small: a block of p.s digits holds one below Radix(p),  *)
(* and the number at a pointer is made up of the blocks from it on.  What  *)
(* was never written is x.g, and so is what a division leaves above the    *)
(* remainder: t1's upper digits, which may be 0 or not.  A routine is a    *)
(* list of the calls it makes, done one at a time.                         *)
(***************************************************************************)
EXTENDS SpPowers, Sequences

Radix(p) == IF p.crt THEN 16 ELSE 256

Driver(op, N, n, s, size) ==
  [op |-> op, N |-> N, n |-> n, s |-> s, size |-> size, crt |-> op \in {"rsa_crt_small", "rsa_crt"}]

RsaPublicSmall(N, n) == Driver("rsa_public_small", N, n, n, n * 5)
RsaPublic(N, n) == Driver("rsa_public", N, n, n, n * 5)
RsaPrivateD(N, n) == Driver("rsa_d", N, n, n, n * 4)
RsaPrivateCrtSmall(N, h) == Driver("rsa_crt_small", N, 2 * h, h, h * 8)
RsaPrivateCrt(N, h) == Driver("rsa_crt", N, 2 * h, h, h * 13)
DhExp(N, n, w, top) ==
  [op |-> "dh_exp", N |-> N, n |-> n, s |-> n, size |-> n * 4, crt |-> FALSE, w |-> w, top |-> top]
ModExp(N, n) == Driver("mod_exp", N, n, n, n * 4)
ModExpHalf(N, n) == Driver("mod_exp_half", N, n, n, n * 4)

-----------------------------------------------------------------------------
(* What is checked first, on the sizes z of what the caller gave.            *)

\* The first of the conditions that holds decides.
First(checks) ==
  IF \E k \in DOMAIN checks : checks[k][1]
  THEN checks[CHOOSE k \in DOMAIN checks : checks[k][1] /\ \A j \in 1 .. k - 1 : ~checks[j][1]][2]
  ELSE "MP_OKAY"

Checks(p, z) ==
  CASE p.op \in {"rsa_public_small", "rsa_public"} ->
         <<<<z.outLen < p.N \div 8, "MP_TO_E">>, <<z.eBits > 64, "MP_READ_E">>, <<z.inLen > p.N \div 8, "MP_READ_E">>,
           <<z.mBits # p.N, "MP_READ_E">>, <<z.even = "m", "MP_VAL">>>>
    [] p.op = "rsa_d" ->
         <<<<z.outLen < p.N \div 8, "MP_TO_E">>, <<z.eBits > p.N, "MP_READ_E">>, <<z.inLen > p.N \div 8, "MP_READ_E">>,
           <<z.mBits # p.N, "MP_READ_E">>, <<z.even = "m", "MP_VAL">>>>
    [] p.op \in {"rsa_crt_small", "rsa_crt"} ->
         <<<<z.outLen < p.N \div 8, "MP_TO_E">>, <<z.inLen > p.N \div 8, "MP_READ_E">>, <<z.mBits # p.N, "MP_READ_E">>,
           <<z.even = "m", "MP_VAL">>, <<z.even = "p", "MP_VAL">>, <<z.even = "q", "MP_VAL">>>>
    [] p.op \in {"dh_exp", "mod_exp", "mod_exp_half"} ->
         <<<<z.bBits > p.N, "MP_READ_E">>, <<z.eBits > p.N, "MP_READ_E">>, <<z.mBits # p.N, "MP_READ_E">>,
           <<z.even = "m", "MP_VAL">>>>

-----------------------------------------------------------------------------
(* The calls.                                                                *)

\* from_bin and from_mp: the number v into k blocks at r.
Load(r, k, v) == [call |-> "load", r |-> r, k |-> k, v |-> v]
Mul(r, a, b) == [call |-> "mul", r |-> r, a |-> a, b |-> b]
Mod(r, a, m) == [call |-> "mod", r |-> r, a |-> a, m |-> m]
Norm(r, m) == [call |-> "mont_norm", r |-> r, m |-> m]
MontMul(r, a, b, m) == [call |-> "mont_mul", r |-> r, a |-> a, b |-> b, m |-> m]
Reduce(r, m) == [call |-> "mont_reduce", r |-> r, m |-> m]
CondSub(r, m) == [call |-> "cond_sub", r |-> r, m |-> m]
Copy(r, a) == [call |-> "copy", r |-> r, a |-> a]
SubNorm(r, a, b) == [call |-> "sub", r |-> r, a |-> a, b |-> b]
AddTwice(r, m) == [call |-> "add_twice", r |-> r, m |-> m]
Add(r, a, b) == [call |-> "add", r |-> r, a |-> a, b |-> b]
Exp(r, a, e, bits, m, reduceA) == [call |-> "mod_exp", r |-> r, a |-> a, e |-> e, bits |-> bits, m |-> m, reduceA |-> reduceA]
Exp2(r, e, bits, m) == [call |-> "mod_exp_2", r |-> r, e |-> e, bits |-> bits, m |-> m]
Zero(r, k) == [call |-> "zero", r |-> r, k |-> k]
Fail(err) == [call |-> "fail", err |-> err]
Out(r, k) == [call |-> "out", r |-> r, k |-> k]

Fallible == {"mod", "mod_exp", "mod_exp_2"}

\* sp_RsaPublic: the rounds for the bits of e below the top one.
BitRounds(a, r, m, e) ==
  LET top == CHOOSE t \in 0 .. e : 2^t <= e /\ e < 2^(t + 1)
      round[i \in -1 .. top] ==
        IF i = -1 THEN <<>>
        ELSE <<MontMul(r, r, r, m)>> \o (IF (e \div 2^i) % 2 = 1 THEN <<MontMul(r, r, a, m)>> ELSE <<>>) \o round[i - 1]
  IN round[top - 1]

Public(a, r, m, v) ==
  IF v.e = 0 THEN <<Load(a, 1, v.c), Fail("MP_EXPTMOD_E")>>
  ELSE <<Load(a, 1, v.c), Load(m, 1, v.m), Norm(r, m), Mul(a, a, r), Mod(a, a, m), Copy(r, a)>>
       \o BitRounds(a, r, m, v.e) \o <<Reduce(r, m), CondSub(r, m), Out(r, 1)>>

\* Cubes are done without Montgomery's form, unless the build is small.
Cube(a, r, m, v) ==
  <<Load(a, 1, v.c), Load(m, 1, v.m), Mul(r, a, a), Mod(r, r, m), Mul(r, a, r), Mod(r, r, m), Out(r, 1)>>

\* p, dp = dq = qi share their blocks: each is loaded when it is needed.
CrtSmall(a, p, e, tmpa, tmpb, v, bits) ==
  <<Load(a, 2, v.c), Load(p, 1, v.p), Load(e, 1, v.dp), Exp(tmpa, a, e, bits, p, TRUE),
    Load(p, 1, v.q), Load(e, 1, v.dq), Exp(tmpb, a, e, bits, p, TRUE),
    Load(p, 1, v.p), SubNorm(tmpa, tmpa, tmpb), AddTwice(tmpa, p), Load(e, 1, v.qi), Mul(tmpa, tmpa, e), Mod(tmpa, tmpa, p),
    Load(p, 1, v.q), Mul(tmpa, p, tmpa), Add(a, tmpb, tmpa), Out(a, 2)>>

\* A wrong variant of Crt: tmpa has the room of a number, not of a product.
CrtTight(a, p, h, v, bits) ==
  LET q == p + h
      dp == q + h
      dq == dp + h
      qi == dq + h
      tmpa == qi + h
      tmpb == tmpa + h
  IN <<Load(a, 2, v.c), Load(p, 1, v.p), Load(q, 1, v.q), Load(dp, 1, v.dp), Load(dq, 1, v.dq), Load(qi, 1, v.qi),
       Exp(tmpa, a, dp, bits, p, TRUE), Exp(tmpb, a, dq, bits, q, TRUE),
       SubNorm(tmpa, tmpa, tmpb), AddTwice(tmpa, p), Mul(tmpa, tmpa, qi), Mod(tmpa, tmpa, p),
       Mul(tmpa, tmpa, q), Add(a, tmpb, tmpa), Out(a, 2)>>

Crt(a, p, h, v, bits) ==
  LET q == p + h
      dp == q + h
      dq == dp + h
      qi == dq + h
      tmpa == qi + h
      tmpb == tmpa + 2 * h
  IN <<Load(a, 2, v.c), Load(p, 1, v.p), Load(q, 1, v.q), Load(dp, 1, v.dp), Load(dq, 1, v.dq), Load(qi, 1, v.qi),
       Exp(tmpa, a, dp, bits, p, TRUE), Exp(tmpb, a, dq, bits, q, TRUE),
       SubNorm(tmpa, tmpa, tmpb), AddTwice(tmpa, p), Mul(tmpa, tmpa, qi), Mod(tmpa, tmpa, p),
       Mul(tmpa, tmpa, q), Add(a, tmpb, tmpa), Out(a, 2)>>

\* The bits of the modulus that sp_DhExp looks at: top is the digit, the shifts of it and
\* of the one below, and the number of ones that it compares them with.
TopBits(p) ==
  IF p.top[2] = 0 THEN Shr(Digit(p, p.N, p.top[1]), p.top[3])
  ELSE Shl(Digit(p, p.N, p.top[1]), p.top[2], TypeBits(p.w)) \cup Shr(Digit(p, p.N, p.top[1] - 1), p.top[3])

\* v.top: those bits are ones.
Dh(p, b, e, m, v, bits) ==
  <<Load(b, 1, v.c), Load(e, 1, v.e), Load(m, 1, v.m),
    IF p.op = "dh_exp" /\ v.c = 2 /\ v.top THEN Exp2(b, e, bits, m) ELSE Exp(b, b, e, bits, m, FALSE)>>
  \o (IF p.op = "mod_exp_half" THEN <<Zero(b + p.n, 1), Out(b, 2)>> ELSE <<Out(b, 1)>>)

Calls(p, x) ==
  CASE p.op = "rsa_public_small" -> Public(0, p.n * 2, p.n * 2 + p.n * 2, x.v)
    [] p.op = "rsa_public" /\ x.v.e = 3 -> Cube(0, p.n * 2, p.n * 2 + p.n * 2, x.v)
    [] p.op = "rsa_public" /\ x.v.e # 3 -> Public(0, p.n * 2, p.n * 2 + p.n * 2, x.v)
    [] p.op = "rsa_d" ->
         <<Load(p.n, 1, x.v.c), Load(0, 1, x.v.e), Load(p.n + 2 * p.n, 1, x.v.m),
           Exp(p.n, p.n, 0, p.N, p.n + 2 * p.n, FALSE), Out(p.n, 1)>>
    [] p.op = "rsa_crt_small" ->
         CrtSmall(0, 2 * p.s, 3 * p.s, 4 * p.s, 4 * p.s + 2 * p.s, x.v, p.N \div 2)
    [] p.op = "rsa_crt" -> Crt(0, p.n * 2, p.s, x.v, p.N \div 2)
    [] p.op \in {"dh_exp", "mod_exp", "mod_exp_half"} -> Dh(p, 0, p.n * 2, p.n * 2 + p.n, x.v, x.z.eBits)

\* What the routine clears at its end, if it came as far as to use the buffer.
Wiped(p) ==
  CASE p.op \in {"rsa_public_small", "rsa_public"} -> {}
    [] p.op = "rsa_d" -> {p.n}
    [] p.op \in {"rsa_crt_small", "rsa_crt"} -> {k * p.s : k \in 0 .. p.size \div p.s - 1}
    [] p.op \in {"dh_exp", "mod_exp"} -> {p.n * 2}
    [] p.op = "mod_exp_half" -> {p.n * 2, p.n * 2 + p.n}

-----------------------------------------------------------------------------
(* Doing a call.                                                             *)

AllBlocks(p) == {k * p.s : k \in 0 .. p.size \div p.s - 1}
Two(p, mem, a) == mem[a] + Radix(p) * mem[a + p.s]
PutOne(mem, a, v) == [mem EXCEPT ![a] = v]
PutTwo(p, mem, a, v) == [mem EXCEPT ![a] = v % Radix(p), ![a + p.s] = v \div Radix(p)]

\* The blocks that a call reads and writes.
Pair(p, a) == {a, a + p.s}
Touched(p, c) ==
  CASE c.call \in {"load", "zero", "out"} -> {c.r + j * p.s : j \in 0 .. c.k - 1}
    [] c.call = "mul" -> Pair(p, c.r) \cup {c.a, c.b}
    [] c.call = "mod" -> Pair(p, c.r) \cup Pair(p, c.a) \cup {c.m}
    [] c.call \in {"mont_norm", "cond_sub", "add_twice"} -> {c.r, c.m}
    [] c.call = "mont_mul" -> Pair(p, c.r) \cup {c.a, c.b, c.m}
    [] c.call = "mont_reduce" -> Pair(p, c.r) \cup {c.m}
    [] c.call = "copy" -> Pair(p, c.r) \cup Pair(p, c.a)
    [] c.call = "sub" -> {c.r, c.a, c.b}
    [] c.call = "add" -> Pair(p, c.r) \cup Pair(p, c.a) \cup Pair(p, c.b)
    [] c.call = "mod_exp" -> Pair(p, c.r) \cup {c.e, c.m} \cup (IF c.reduceA THEN Pair(p, c.a) ELSE {c.a})
    [] c.call = "mod_exp_2" -> Pair(p, c.r) \cup {c.e, c.m}
    [] c.call = "fail" -> {}

PowerMod(b, e, m) == LET f[k \in 0 .. e] == IF k = 0 THEN 1 % m ELSE (f[k - 1] * b) % m IN f[e]

\* v / Radix modulo m; m is odd.
Redc(p, v, m) == CHOOSE u \in 0 .. m - 1 : (u * Radix(p)) % m = v % m

\* The difference is added to without a carry in between: the second test looks at a
\* top digit that the digits below may still add to.  A digit of 2 bits is enough.
TopDigit(v) == v \div 4
AddedTwice(d, m) ==
  IF TopDigit(d) >= 0 THEN d ELSE IF TopDigit(d) + TopDigit(m) >= 0 THEN d + m ELSE d + m + m

\* The buffer after a call.  A division copies its whole working array: above the remainder
\* stands g, which is nothing or what its last corrections have left there.
After(p, c, mem, g) ==
  CASE c.call = "load" /\ c.k = 1 -> PutOne(mem, c.r, c.v)
    [] c.call = "load" /\ c.k = 2 -> PutTwo(p, mem, c.r, c.v)
    [] c.call = "mul" -> PutTwo(p, mem, c.r, mem[c.a] * mem[c.b])
    [] c.call = "mod" -> [mem EXCEPT ![c.r] = Two(p, mem, c.a) % mem[c.m], ![c.r + p.s] = g]
    [] c.call = "mont_norm" -> PutOne(mem, c.r, Radix(p) % mem[c.m])
    [] c.call = "mont_mul" -> PutTwo(p, mem, c.r, Redc(p, mem[c.a] * mem[c.b], mem[c.m]))
    [] c.call = "mont_reduce" -> PutTwo(p, mem, c.r, Redc(p, Two(p, mem, c.r), mem[c.m]))
    [] c.call = "cond_sub" -> PutOne(mem, c.r, IF mem[c.r] < mem[c.m] THEN mem[c.r] ELSE mem[c.r] - mem[c.m])
    [] c.call = "copy" -> PutTwo(p, mem, c.r, Two(p, mem, c.a))
    [] c.call = "sub" -> PutOne(mem, c.r, mem[c.a] - mem[c.b])
    [] c.call = "add_twice" -> PutOne(mem, c.r, AddedTwice(mem[c.r], mem[c.m]))
    [] c.call = "add" -> PutTwo(p, mem, c.r, Two(p, mem, c.a) + Two(p, mem, c.b))
    [] c.call = "mod_exp" ->
         PutTwo(p, mem, c.r, PowerMod(IF c.reduceA THEN Two(p, mem, c.a) ELSE mem[c.a], mem[c.e], mem[c.m]))
    [] c.call = "mod_exp_2" -> PutTwo(p, mem, c.r, PowerMod(2, mem[c.e], mem[c.m]))
    [] c.call = "zero" -> PutOne(mem, c.r, 0)
    [] c.call \in {"fail", "out"} -> mem

DriverStart(p, x) ==
  [pc |-> IF First(Checks(p, x.z)) = "MP_OKAY" THEN "call" ELSE "done", err |-> First(Checks(p, x.z)), i |-> 1,
   mem |-> [a \in AllBlocks(p) |-> x.g], out |-> -1,
   ok |-> p.op = "dh_exp" => TopBits(p) = Slice(p.N - p.top[4], p.N)]

\* The mod_exp of no bits fails, and any call that allocates may: x.fault is its number.
CallError(x, st, c) ==
  IF c.call = "fail" THEN c.err
  ELSE IF c.call \in {"mod_exp", "mod_exp_2"} /\ c.bits = 0 THEN "MP_VAL"
  ELSE IF c.call \in Fallible /\ x.fault = st.i THEN "MEMORY_E"
  ELSE "MP_OKAY"

Wipe(p, st) == [st EXCEPT !.pc = "done", !.mem = [a \in DOMAIN @ |-> IF a \in Wiped(p) THEN 0 ELSE @[a]]]

DoCall(p, x, st, c, err) ==
  IF ~(Touched(p, c) \subseteq AllBlocks(p)) THEN [st EXCEPT !.ok = FALSE, !.pc = "done"]
  ELSE IF err # "MP_OKAY" THEN Wipe(p, [st EXCEPT !.err = err])
  ELSE IF c.call = "out" THEN Wipe(p, [st EXCEPT !.out = IF c.k = 1 THEN st.mem[c.r] ELSE Two(p, st.mem, c.r)])
  ELSE [st EXCEPT !.mem = After(p, c, @, x.g), !.i = @ + 1]

DriverStep(p, x, st) == DoCall(p, x, st, Calls(p, x)[st.i], CallError(x, st, Calls(p, x)[st.i]))
=============================================================================
