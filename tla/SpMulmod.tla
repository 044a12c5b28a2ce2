------------------------------ MODULE SpMulmod ------------------------------
(***************************************************************************)
(* Scalar multiplication of a point, of wolfssl-src/patches/sp_c64.c: the  *)
(* Montgomery ladder of the small build, and the signed window and the     *)
(* stripe table of the other one.  g has plain affine coordinates, as an   *)
(* ecc_point has; the result is affine if tomap and otherwise projective   *)
(* and in Montgomery form.                                                 *)
(***************************************************************************)
EXTENDS SpPoint, Functions

CONSTANTS
  Window,       \* bits of a window: 6 in the code
  DigitBits,    \* bits of a digit: 52 in the code
  Stripes       \* bits of a table index of the stripe method: 8 in the code

ASSUME MulmodAssumption ==
  /\ Window \in Nat /\ Window >= 3
  /\ DigitBits \in Nat /\ DigitBits >= Window
  /\ Stripes \in Nat /\ Stripes > 0 /\ Bits % Stripes = 0

\* The windows leave two spare bits above the scalar.
Windows == (Bits + 1 + Window) \div Window
Infinity == [Zeros EXCEPT !.inf = 1]

\* A point in Montgomery form.
Norm(g) == Point(mod_mul_norm(g.x), mod_mul_norm(g.y), mod_mul_norm(g.z), 0)

Result(p, tomap) == IF tomap THEN map(p) ELSE p

-----------------------------------------------------------------------------
(* The ladder: t[1] - t[0] = g before and after every bit.                 *)

LadderBind(y) == [r |-> IF y = 1 THEN "t0" ELSE "t1", p |-> "t0", q |-> "t1"]

\* The sum goes to t[y ^ 1], which is one of the operands; t[y] is doubled in
\* a copy.
LadderStep(m, y) ==
  LET u == proj_point_add(m, LadderBind(y))
      ty == IF y = 1 THEN "t1" ELSE "t0"
  IN [u EXCEPT ![ty] = DblInPlace(@)]

Ladder(g, k) ==
  LET m[i \in 0 .. Bits] ==
        IF i = Bits THEN [t0 |-> Infinity, t1 |-> Norm(g), t |-> NoTemps]
        ELSE LadderStep(m[i + 1], Bit(k, i))
  IN m

mulmod_small(g, k, tomap) == Result(Ladder(g, k)[0].t0, tomap)

-----------------------------------------------------------------------------
(* Recoding of a scalar into windows of the values -2^(w-1) .. 2^(w-1).    *)

\* The digits of a number, d bits each.
Digits(k, d) == [j \in 0 .. Bits \div d |-> (k \div 2^(d * j)) % 2^d]

\* The entry of the tables recode_index and recode_neg for y.
RecodeIndex(y, w) == IF y <= 2^(w - 1) THEN y
                     ELSE IF y <= 2^w THEN 2^w - y ELSE y - 2^w
RecodeNeg(y, w) == IF y >= 2^(w - 1) /\ y < 2^w THEN 1 ELSE 0

\* The loop takes w bits from offset o of digit j, whose remaining bits are n,
\* and goes on to the next digit when they are used up.
RecodeTake(k, d, w, s) ==
  LET last == s.j + 1 \notin DOMAIN k
      next == IF last THEN 0 ELSE k[s.j + 1]
  IN CASE s.o + w < d -> [y |-> s.n % 2^w, n |-> s.n \div 2^w, o |-> s.o + w, j |-> s.j]
       [] s.o + w = d -> [y |-> s.n, n |-> next, o |-> 0, j |-> s.j + 1]
       [] s.o + w > d /\ ~last ->
            [y |-> s.n + ((next * 2^(d - s.o)) % 2^w), n |-> next \div 2^(s.o + w - d),
             o |-> s.o + w - d, j |-> s.j + 1]
       [] OTHER -> [y |-> s.n, n |-> s.n, o |-> s.o, j |-> s.j + 1]

\* A carry is left for the next window by a value that was negated or reached
\* 2^w.
RecodeCarry(y, w) == (y \div 2^w) + RecodeNeg(y, w)

RecodeStep(k, d, w, s) ==
  LET u == RecodeTake(k, d, w, s)
      y == u.y + s.carry
  IN [j |-> u.j, n |-> u.n, o |-> u.o, carry |-> RecodeCarry(y, w),
      i |-> RecodeIndex(y, w), neg |-> RecodeNeg(y, w)]

\* The windows 0 .. count - 1 of k, which is given by its digits.
ecc_recode(k, d, w, count) ==
  LET s[i \in -1 .. count - 1] ==
        IF i = -1 THEN [j |-> 0, n |-> k[0], o |-> 0, carry |-> 0]
        ELSE RecodeStep(k, d, w, s[i - 1])
  IN [i \in 0 .. count - 1 |-> [i |-> s[i].i, neg |-> s[i].neg]]

-----------------------------------------------------------------------------
(* The signed window.                                                      *)

\* t[i] = i * g for i up to half of a window: powers of two by repeated
\* doubling, even multiples by doubling, odd ones in pairs around an even one.
WinTable(g) ==
  LET top == 2^(Window - 1)
      one == Norm(g)
      pow == proj_point_dbl_n_store(one, Window - 1)
      log(i) == CHOOSE e \in 0 .. Window - 1 : 2^e = i
      power(i) == \E e \in 1 .. Window - 1 : 2^e = i
      t[i \in 0 .. top] ==
        CASE i = 0 -> Infinity
          [] i = 1 -> one
          [] power(i) -> pow[log(i)]
          [] i = 3 -> Add(t[2], one)
          [] ~power(i) /\ i % 2 = 0 -> Dbl(t[i \div 2])
          [] i > 3 /\ i % 4 = 3 -> proj_point_add_sub(t[i - 1], one).sum
          [] i > 3 /\ i % 4 = 1 -> proj_point_add_sub(t[i + 1], one).diff
  IN t

\* In constant time the entry is gathered from all of them and flagged by its
\* index; otherwise it is copied, and t[0].y is the scratch of the negation.
get_point(t, i, ct, negy) ==
  IF ct THEN [t[i] EXCEPT !.inf = IF i = 0 THEN 1 ELSE 0]
  ELSE IF i = 0 THEN [t[0] EXCEPT !.y = negy] ELSE t[i]

WinStep(t, v, ct, s) ==
  LET p == get_point(t, v.i, ct, s.negy)
      negy == P - p.y
  IN [rt |-> AddInto(proj_point_dbl_n(s.rt, Window),
                     IF v.neg = 1 THEN [p EXCEPT !.y = negy] ELSE p),
      negy |-> negy]

WinMul(t, v, ct) ==
  LET s[i \in 0 .. Windows - 1] ==
        IF i = Windows - 1 THEN [rt |-> get_point(t, v[i].i, ct, 0), negy |-> 0]
        ELSE WinStep(t, v[i], ct, s[i + 1])
  IN s[0].rt

mulmod_win_add_sub(g, k, tomap, ct) ==
  Result(WinMul(WinTable(g), ecc_recode(Digits(k, DigitBits), DigitBits, Window, Windows), ct),
         tomap)

-----------------------------------------------------------------------------
(* The stripe table: entry y is the sum of 2^(j * Distance) * g over the   *)
(* bits j of y.                                                            *)

Distance == Bits \div Stripes

Entry(p) == [x |-> p.x, y |-> p.y]
FromEntry(e, y) == Point(e.x, e.y, norm_mod, IF y = 0 THEN 1 ELSE 0)

gen_stripe_table(a) ==
  LET pow[i \in 0 .. Stripes - 1] ==
        IF i = 0 THEN proj_to_affine(Norm(a))
        ELSE proj_to_affine(proj_point_dbl_n(pow[i - 1], Distance))
      top(j) == BitLength(j) - 1
      t[j \in 0 .. 2^Stripes - 1] ==
        CASE j = 0 -> [x |-> 0, y |-> 0]
          [] j > 0 /\ j = 2^top(j) -> Entry(pow[top(j)])
          [] j > 0 /\ j # 2^top(j) ->
               Entry(proj_to_affine(proj_point_add_qz1(
                 [pow[top(j)] EXCEPT !.z = norm_mod], FromEntry(t[j - 2^top(j)], 1))))
  IN t

\* The bits x, x + Distance, ... of k.
StripeIndex(k, x) ==
  SumFunction([j \in 0 .. Stripes - 1 |-> Bit(k, x + j * Distance) * 2^j])

StripeStep(table, k, x, rt) ==
  LET y == StripeIndex(k, x) IN proj_point_add_qz1(DblInPlace(rt), FromEntry(table[y], y))

mulmod_stripe(table, k, tomap) ==
  LET top == StripeIndex(k, Distance - 1)
      rt[i \in 0 .. Distance - 1] ==
        IF i = Distance - 1 THEN FromEntry(table[top], top)
        ELSE StripeStep(table, k, i, rt[i + 1])
  IN Result(rt[0], tomap)

-----------------------------------------------------------------------------
(* What the two builds use.                                                *)

base == Point(BaseX, BaseY, 1, 0)
p256_table == gen_stripe_table(base)

mulmod(g, k, tomap, ct, small) ==
  IF small THEN mulmod_small(g, k, tomap) ELSE mulmod_win_add_sub(g, k, tomap, ct)

mulmod_base(k, tomap, small) ==
  IF small THEN mulmod_small(base, k, tomap) ELSE mulmod_stripe(p256_table, k, tomap)

\* k * g + a; a is in Montgomery form if inMont.
AddTo(p, a, inMont, tomap) ==
  Result(AddInto(p, IF inMont THEN [a EXCEPT !.inf = 0] ELSE Norm(a)), tomap)
mulmod_add(k, g, a, inMont, tomap, small) ==
  AddTo(mulmod(g, k, FALSE, FALSE, small), a, inMont, tomap)
mulmod_base_add(k, a, inMont, tomap, small) ==
  AddTo(mulmod_base(k, FALSE, small), a, inMont, tomap)
=============================================================================
