------------------------------ MODULE SpField ------------------------------
(***************************************************************************)
(* Arithmetic modulo the prime and modulo the order of a curve, as the SP  *)
(* code uses it: wolfssl-src/patches/sp_c64.c, the P-256 section.          *)
(*                                                                         *)
(* The curve is y^2 = x^3 - 3x + B over the integers mod P, with a base    *)
(* point of prime order Q, whatever these constants are.  A number is its  *)
(* residue; its digits are the subject of SpDigits.  Montgomery form is    *)
(* kept: a is stored as a * 2^Bits.                                        *)
(***************************************************************************)
EXTENDS Integers, Sequences, Folds

CONSTANTS
  P,            \* the prime of the field
  Q,            \* the prime order of the base point
  B,            \* the coefficient b of the curve
  BaseX, BaseY, \* the base point
  Bits          \* the bits of a number: 2^Bits is the Montgomery radix

ASSUME FieldAssumption ==
  /\ P \in Nat /\ P > 3 /\ P % 4 = 3 /\ P < 2^Bits
  /\ Q \in Nat /\ Q > 3 /\ Q % 2 = 1 /\ Q < P /\ P < 2 * Q
  /\ (BaseY * BaseY) % P = (BaseX * BaseX * BaseX - 3 * BaseX + B) % P

\* 1 / 2^Bits, modulo the prime and modulo the order.
RInvP == CHOOSE i \in 1 .. P - 1 : (i * 2^Bits) % P = 1
RInvQ == CHOOSE i \in 1 .. Q - 1 : (i * 2^Bits) % Q = 1

-----------------------------------------------------------------------------
(* The field, in Montgomery form.                                          *)

mont_mul(a, b) == (((a * b) % P) * RInvP) % P
mont_sqr(a) == mont_mul(a, a)
mont_add(a, b) == (a + b) % P
mont_dbl(a) == (a + a) % P
mont_tpl(a) == (a + a + a) % P
mont_sub(a, b) == (a - b) % P

\* An odd number becomes even by adding the modulus.
mont_div2(a) == (IF a % 2 = 1 THEN a + P ELSE a) \div 2

\* Into Montgomery form, and out of it.
mod_mul_norm(a) == (a * 2^Bits) % P
mont_reduce(a) == (a * RInvP) % P
norm_mod == mod_mul_norm(1)

\* Bit i of a number.
Bit(n, i) == (n \div 2^i) % 2

\* The number of bits of n.
BitLength(n) == CHOOSE l \in 0 .. Bits : 2^l > n /\ (l = 0 \/ 2^(l - 1) <= n)

\* Square and multiply along the bits of an exponent, from the one below the
\* top one down.
PowerBy(mul(_, _), a, exponent) ==
  LET top == BitLength(exponent) - 1
      t[i \in 0 .. top] ==
        IF i = top THEN a
        ELSE LET u == t[i + 1]
                 sq == mul(u, u)
             IN IF Bit(exponent, i) = 1 THEN mul(sq, a) ELSE sq
  IN t[0]

\* a^(P - 2), and a^((P + 1) / 4): a square root if there is one and P % 4 = 3.
mont_inv(a) == PowerBy(mont_mul, a, P - 2)
mont_sqrt(a) == PowerBy(mont_mul, a, (P + 1) \div 4)

-----------------------------------------------------------------------------
(* Numbers modulo the order.                                               *)

mont_mul_order(a, b) == (((a * b) % Q) * RInvQ) % Q
mont_sqr_order(a) == mont_mul_order(a, a)
norm_order == 2^Bits % Q
mont_inv_order(a) == PowerBy(mont_mul_order, a, Q - 2)
=============================================================================
