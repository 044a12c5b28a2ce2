------------------------------ MODULE SpEcdsa ------------------------------
(***************************************************************************)
(* Keys, signatures and shared secrets on the curve:                       *)
(* wolfssl-src/patches/sp_c64.c, the functions behind ecc.c.  small is the *)
(* build with WOLFSSL_SP_SMALL.  A call of the random number generator     *)
(* takes the next element of rng, a block of bytes read as a number or     *)
(* FAIL; so does one after the last.                                       *)
(***************************************************************************)
EXTENDS SpMulmod

CONSTANT MaxSigGen    \* SP_ECC_MAX_SIG_GEN: 64 in the code

ASSUME SigGenAssumption == MaxSigGen \in Nat /\ MaxSigGen > 0

FAIL == -1
MP_OKAY == "MP_OKAY"
MP_VAL == "MP_VAL"
RNG_ERROR == "RNG_ERROR"              \* whatever wc_RNG_GenerateBlock returned
RNG_FAILURE_E == "RNG_FAILURE_E"
ECC_INF_E == "ECC_INF_E"
ECC_OUT_OF_RANGE_E == "ECC_OUT_OF_RANGE_E"
ECC_PRIV_KEY_E == "ECC_PRIV_KEY_E"
BUFFER_E == "BUFFER_E"

-----------------------------------------------------------------------------
(* Random scalars: blocks above the order less two are thrown away.        *)

AcceptBlock(block) == block <= Q - 2

ecc_gen_k(rng) ==
  LET stops == {i \in DOMAIN rng : rng[i] = FAIL \/ AcceptBlock(rng[i])}
      first == CHOOSE i \in stops : \A j \in stops : i <= j
  IN IF stops = {} THEN [err |-> RNG_ERROR, k |-> 0, rng |-> << >>]
     ELSE [err |-> IF rng[first] = FAIL THEN RNG_ERROR ELSE MP_OKAY,
           k |-> rng[first] + 1,
           rng |-> SubSeq(rng, first + 1, Len(rng))]

-----------------------------------------------------------------------------
(* Keys.                                                                   *)

\* The point times the order is computed and not looked at: the check is made
\* on the public point.
KeyPair(g, pub) ==
  IF g.err # MP_OKAY THEN [err |-> g.err]
  ELSE IF pub.x = 0 \/ pub.y = 0 THEN [err |-> ECC_INF_E]
  ELSE [err |-> MP_OKAY, priv |-> g.k, pub |-> pub]
make_key(rng, small) ==
  LET g == ecc_gen_k(rng) IN KeyPair(g, mulmod_base(g.k, TRUE, small))

is_point(x, y) ==
  LET x3 == (((x * x) % P) * x) % P
      y2 == (y * y) % P
  IN mont_add(mont_add(mont_add(mont_sub(y2, x3), x), x), x) = B

NoKey == -1

\* inf is the public point times the order, p the base times the private key.
KeyError(x, y, priv, inf, p) ==
  IF x >= 2^Bits \/ y >= 2^Bits \/ priv >= 2^Bits THEN ECC_OUT_OF_RANGE_E
  ELSE IF x = 0 /\ y = 0 THEN ECC_INF_E
  ELSE IF x >= P \/ y >= P THEN ECC_OUT_OF_RANGE_E
  ELSE IF ~is_point(x, y) THEN MP_VAL
  ELSE IF inf.x # 0 \/ inf.y # 0 THEN ECC_INF_E
  ELSE IF priv # NoKey /\ (p.x # x \/ p.y # y) THEN ECC_PRIV_KEY_E
  ELSE MP_OKAY
check_key(x, y, priv, small) ==
  KeyError(x, y, priv, mulmod(Point(x, y, 1, 0), Q, TRUE, TRUE, small),
           mulmod_base(priv, TRUE, small))

\* The ordinate of the point with abscissa x, by its parity.
uncompress(x, odd) ==
  LET xm == mod_mul_norm(x)
      x3 == mont_mul(mont_sqr(xm), xm)
      rhs == mont_add(mont_sub(mont_sub(mont_sub(x3, xm), xm), xm), mod_mul_norm(B))
      y == mont_reduce(mont_sqrt(rhs))
  IN IF y % 2 # odd THEN P - y ELSE y

\* The abscissa of priv * pub.
secret_gen(priv, pub, room, small) ==
  IF ~room THEN [err |-> BUFFER_E]
  ELSE [err |-> MP_OKAY, out |-> mulmod(pub, priv, TRUE, TRUE, small).x]

-----------------------------------------------------------------------------
(* Signing.                                                                *)

ModOrder(a) == IF a >= Q THEN a - Q ELSE a

\* (r * x + e) / k.
calc_s(r, k, x, e) ==
  LET kInv == mont_inv_order((k * norm_order) % Q)
  IN mont_mul_order(ModOrder(e + ((x * r) % Q)), kInv)

\* A round: a scalar g, given or drawn, and a signature if it is usable.  The
\* given scalar is good for one round.
Round(s, g, r, sv) ==
  LET usable == r # 0 /\ sv # 0
  IN IF g.err # MP_OKAY THEN [s EXCEPT !.err = g.err, !.rng = g.rng, !.i = @ - 1]
     ELSE [s EXCEPT !.rng = g.rng, !.km = 0, !.r = r, !.s = sv, !.done = usable,
                    !.i = IF usable THEN @ ELSE @ - 1]
RoundAt(s, g, r, e, x) == Round(s, g, r, calc_s(r, g.k, x, e))
RoundWith(s, g, e, x, small) == RoundAt(s, g, ModOrder(mulmod_base(g.k, TRUE, small).x), e, x)
SignRound(s, e, x, small) ==
  RoundWith(s, IF s.km = 0 THEN ecc_gen_k(s.rng)
               ELSE [err |-> MP_OKAY, k |-> s.km, rng |-> s.rng], e, x, small)

SignResult(end) ==
  LET err == IF end.i = 0 THEN RNG_FAILURE_E ELSE end.err
  IN IF err = MP_OKAY THEN [err |-> err, r |-> end.r, s |-> end.s, rng |-> end.rng]
     ELSE [err |-> err]

ecc_sign(e, x, km, rng, small) ==
  LET start == [i |-> MaxSigGen, km |-> km, rng |-> rng, err |-> MP_OKAY,
                r |-> 0, s |-> 0, done |-> FALSE]
      again(t) == IF t.err = MP_OKAY /\ t.i > 0 /\ ~t.done THEN SignRound(t, e, x, small) ELSE t
      s[n \in 0 .. MaxSigGen] == IF n = 0 THEN start ELSE again(s[n - 1])
  IN SignResult(s[MaxSigGen])

-----------------------------------------------------------------------------
(* Inversion modulo the order, not in constant time: ut and vt count the   *)
(* bits of u and v, and b * a = u and d * a = v modulo m.                  *)

\* Halving modulo m.
Half(b, m) == IF b % 2 = 1 THEN (b + m) \div 2 ELSE b \div 2

\* u is halved while even, at least once after a subtraction, and b with it.
HalveOnce(p, m) == [u |-> p.u \div 2, b |-> Half(p.b, m), ut |-> p.ut - 1]
HalveWhileEven(p, m) ==
  LET h[n \in 0 .. Bits] ==
        IF n = 0 THEN p
        ELSE LET q == h[n - 1] IN IF q.ut > 0 /\ q.u % 2 = 0 THEN HalveOnce(q, m) ELSE q
  IN h[Bits]

SubAndHalve(p, q, m) ==
  LET u == p.u - q.u
  IN HalveWhileEven(HalveOnce([u |-> u, b |-> (p.b - q.b) % m, ut |-> BitLength(u)], m), m)

InvStep(s, m) ==
  IF s.p.ut > s.q.ut \/ (s.p.ut = s.q.ut /\ s.p.u >= s.q.u)
  THEN [s EXCEPT !.p = SubAndHalve(s.p, s.q, m)]
  ELSE [s EXCEPT !.q = SubAndHalve(s.q, s.p, m)]

mod_inv(a, m) ==
  LET odd == HalveWhileEven([u |-> a, b |-> 1, ut |-> BitLength(a)], m)
      s[n \in 0 .. 2 * Bits] ==
        IF n = 0 THEN [p |-> [u |-> m, b |-> 0, ut |-> BitLength(m)], q |-> odd]
        ELSE LET t == s[n - 1] IN IF t.p.ut > 1 /\ t.q.ut > 1 THEN InvStep(t, m) ELSE t
      end == s[2 * Bits]
  IN IF end.p.ut = 1 THEN end.p.b ELSE end.q.b

-----------------------------------------------------------------------------
(* Verifying.                                                              *)

\* A sum at infinity gets abscissa 0, which no r matches.
add_points(p1, p2) ==
  LET sum == AddInto(p1, p2)
  IN IF sum.z # 0 THEN sum
     ELSE IF sum.x = 0 /\ sum.y = 0 THEN Dbl(p2)
     ELSE [sum EXCEPT !.x = 0, !.z = norm_mod]

FlagInfinity(p) == IF p.z = 0 THEN [p EXCEPT !.inf = 1] ELSE p

\* (e / s) * base + (r / s) * pub.
calc_vfy_point(pub, s, e, r, small) ==
  LET si == IF small THEN mont_inv_order((s * norm_order) % Q)
            ELSE (mod_inv(s, Q) * norm_order) % Q
      u1 == mont_mul_order(e, si)
      u2 == mont_mul_order(r, si)
  IN add_points(FlagInfinity(mulmod_base(u1, FALSE, small)),
                FlagInfinity(mulmod(pub, u2, FALSE, FALSE, small)))

\* The second comparison left out.
MatchesOnce(p, r) == p.x = mont_mul(mod_mul_norm(r), mont_sqr(p.z))

\* The point stays projective: r * z^2 is compared with x, and (r + order) * z^2
\* if that is below the prime.
Matches(p, r) ==
  LET matches(v) == p.x = mont_mul(mod_mul_norm(v), mont_sqr(p.z))
  IN matches(r) \/ (r + Q < P /\ matches(r + Q))

ecc_verify(e, pub, r, s, small) == Matches(calc_vfy_point(pub, s, e, r, small), r)
=============================================================================
