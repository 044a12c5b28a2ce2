------------------------------ MODULE EcGroup ------------------------------
(***************************************************************************)
(* What the SP functions are to compute: the group of the points of the    *)
(* curve y^2 = x^3 - 3x + B modulo P, by the chord and tangent rule on     *)
(* affine coordinates, and ECDSA on it as FIPS 186 states it.  The base    *)
(* point generates the group, so a point is a multiple of it and the       *)
(* reference computes with these multiples.                                *)
(***************************************************************************)
EXTENDS SpField

O == << >>                \* the neutral element
Base == <<BaseX, BaseY>>

\* 1 / a modulo the prime m.
InvMod(a, m) == CHOOSE i \in 1 .. m - 1 : (a * i) % m = 1

Slope(p, q) ==
  IF p = q THEN ((3 * p[1] * p[1] - 3) * InvMod((2 * p[2]) % P, P)) % P
  ELSE ((q[2] - p[2]) * InvMod((q[1] - p[1]) % P, P)) % P

Sum(p, q) ==
  CASE p = O -> q
    [] p # O /\ q = O -> p
    [] p # O /\ q # O /\ p[1] = q[1] /\ (p[2] + q[2]) % P = 0 -> O
    [] OTHER -> LET l == Slope(p, q)
                    x == (l * l - p[1] - q[1]) % P
                IN <<x, (l * (p[1] - x) - p[2]) % P>>

\* k times the base point.
Multiples ==
  LET m[k \in 0 .. Q - 1] == IF k = 0 THEN O ELSE Sum(m[k - 1], Base)
  IN [k \in 0 .. Q - 1 |-> m[k]]
Mult(k) == Multiples[k % Q]

OnCurve(x, y) == \E k \in 1 .. Q - 1 : Multiples[k] = <<x, y>>

\* ECDSA: the signature (r, s) of e is valid for the public key d * Base.
Valid(e, d, r, s) ==
  LET w == InvMod(s, Q)
      x == Mult(e * w + r * w * d)
  IN x # O /\ x[1] % Q = r
=============================================================================
