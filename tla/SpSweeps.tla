------------------------------ MODULE SpSweeps ------------------------------
(***************************************************************************)
(* The routines of sp_c64.c and sp_c32.c that go through the digits of a   *)
(* number once.  Numbers of digits, and the loops that the generator has   *)
(* unrolled with the rest of the digits written out, are the real ones.    *)
(* Digits are integers of a smaller size: DigitScale bits of the number    *)
(* where the code has w, and above them the spare bits that w leaves in    *)
(* the code's type, so a sum outgrows its type here when it does there.    *)
(* (TLC's integers allow a type 30 bits: a product may have fewer bits to  *)
(* spare here than in the code, never more.)                               *)
(* Arrays start at 0.  A routine's `to` names the array its r is: one of   *)
(* its own or an operand's, wherever the callers work in place.            *)
(***************************************************************************)
EXTENDS SpWords, Sequences, FiniteSets
LOCAL INSTANCE Bitwise

DigitScale == 8
DigitBase == 2^DigitScale

\* >> w and & (2^w - 1) of a number of either sign.
Hi(v) == v \div DigitBase
Lo(v) == v % DigitBase

\* v in a signed type of t bits; the bits of an sp_digit, and of a product of two.
Signed(t, v) == ((v + 2^(t - 1)) % 2^t) - 2^(t - 1)
WordBits(w) == DigitScale + TypeBits(w) - w
ProductBits(w) == LeastOf(30, 2 * WordBits(w))
InWord(w, v) == Signed(WordBits(w), v)

AndW(w, u, v) == InWord(w, (u % 2^WordBits(w)) & (v % 2^WordBits(w)))
OrW(w, u, v) == InWord(w, (u % 2^WordBits(w)) | (v % 2^WordBits(w)))
XorW(w, u, v) == InWord(w, (u % 2^WordBits(w)) ^^ (v % 2^WordBits(w)))

\* n digits of array a from index i on, and a with v written there.
At(a, i, n) == [k \in 0 .. n - 1 |-> a[i + k]]
Put(a, i, v) == [k \in DOMAIN a |-> IF k - i \in DOMAIN v THEN v[k - i] ELSE a[k]]

\* A build of a routine: `step` digits a round up to digit `stop`, those from there on one
\* by one.  Rounds(1, n) is a plain loop and Rounds(1, 0) no loop at all.
Rounds(step, stop) == [step |-> step, stop |-> stop, apart |-> FALSE]

\* The products' carries go through an accumulator, or every digit gets the upper part of
\* one product and the lower part of the next.  The latter do digit 0 first and then the
\* digits i + 1 to i + step in a round.
Chained(step, stop) == Rounds(step, stop)
Apart(step, stop) == [Rounds(step, stop) EXCEPT !.apart = TRUE]

\* end: the number of digits that are gone through.
Sweep(op, w, n, end, builds) == [op |-> op, w |-> w, n |-> n, end |-> end, builds |-> builds]
AddOf(w, n, builds) == Sweep("add", w, n, n, builds)
SubOf(w, n, builds) == Sweep("sub", w, n, n, builds)
CondAddOf(w, n, builds) == Sweep("cond_add", w, n, n, builds)
CondSubOf(w, n, builds) == Sweep("cond_sub", w, n, n, builds)
CondCopyOf(w, n, builds) == Sweep("cond_copy", w, n, n, builds)
NormOf(w, n, builds) == Sweep("norm", w, n, n - 1, builds)
CmpOf(w, n, builds) == Sweep("cmp", w, n, n, builds)
MulDOf(w, n, builds) == Sweep("mul_d", w, n, n, builds)
MulAddOf(w, n, builds) == Sweep("mul_add", w, n, n, builds)

\* The digits in the order of the text: the rounds, then the rest.
Up(lo, hi) == [j \in 1 .. hi - lo + 1 |-> lo + j - 1]
Looped(b) == b.step * ((b.stop + b.step - 1) \div b.step)
Ascending(b, end) ==
  IF b.apart THEN Up(0, Looped(b)) \o Up(b.stop + 1, end - 1)
  ELSE Up(0, Looped(b) - 1) \o Up(b.stop, end - 1)
Descending(b, end) ==
  LET s == Ascending(b, end) IN [j \in DOMAIN s |-> s[Len(s) + 1 - j]]

\* cmp comes from the top; cond_copy goes through its digits twice.
Order(p, b) ==
  CASE p.op = "cmp" -> Descending(b, p.end)
    [] p.op = "cond_copy" -> Ascending(b, p.end) \o Ascending(b, p.end)
    [] OTHER -> Ascending(b, p.end)

-----------------------------------------------------------------------------
(* The statements for a digit.  st has the arrays a, b and r, and t, which is *)
(* the accumulator, the result of cmp or the local array of cond_copy; k      *)
(* counts the statements.  x has the array `to`, the mask m and the digit d.  *)

\* v & m for a mask m of no bits or of all.
Where(m, v) == IF m = 0 THEN 0 ELSE v

PlainDigit(p, x, st, i) ==
  CASE p.op = "add" -> InWord(p.w, st.a[i] + st.b[i])
    [] p.op = "sub" -> InWord(p.w, st.a[i] - st.b[i])
    [] p.op = "cond_add" -> InWord(p.w, st.a[i] + Where(x.m, st.b[i]))
    [] p.op = "cond_sub" -> InWord(p.w, st.a[i] - Where(x.m, st.b[i]))

NormDigit(p, st, i) == [st EXCEPT !.a[i + 1] = InWord(p.w, @ + Hi(st.a[i])), !.a[i] = Lo(@)]

\* r |= (a[i] - b[i]) & ~((0 - r) >> (w - 1)).
CmpDigit(p, st, i) ==
  LET mask == -1 - (InWord(p.w, 0 - st.t) \div 2^(DigitScale - 1))
  IN [st EXCEPT !.t = OrW(p.w, @, AndW(p.w, InWord(p.w, st.a[i] - st.b[i]), mask))]

\* t[i] = r[i] ^ a[i] for all digits, and then r[i] ^= t[i] & m.
CopyDigit(p, x, st, i) ==
  IF st.k <= p.n THEN [st EXCEPT !.t[i] = XorW(p.w, st.r[i], st.a[i])]
  ELSE [st EXCEPT !.r[i] = XorW(p.w, @, Where(x.m, st.t[i]))]

\* t is the sum so far, or the last product where the parts are kept apart.
MulDigit(p, b, x, st, i) ==
  LET old == IF p.op = "mul_add" THEN st.r[i] ELSE 0
      product == Signed(ProductBits(p.w), x.d * st.a[i])
      sum == Signed(ProductBits(p.w), st.t + product + old)
  IN IF b.apart THEN [st EXCEPT !.r[i] = InWord(p.w, old + Hi(st.t) + Lo(product)), !.t = product]
     ELSE [st EXCEPT !.r[i] = Lo(sum), !.t = Hi(sum)]

\* The digit above: mul_add adds to it; the unrolled builds of mul_d mask it.
MulEnd(p, b, st) ==
  LET carry == IF b.apart THEN Hi(st.t) ELSE st.t
  IN [st EXCEPT !.r[p.n] = CASE p.op = "mul_add" -> InWord(p.w, @ + carry)
                             [] p.op = "mul_d" /\ (b.apart \/ b.step = 1) -> InWord(p.w, carry)
                             [] OTHER -> Lo(carry)]

Muls == {"mul_d", "mul_add"}
SweepDigit(p, b, x, st, i) ==
  CASE p.op \in {"add", "sub", "cond_add", "cond_sub"} -> [st EXCEPT ![x.to][i] = PlainDigit(p, x, st, i)]
    [] p.op = "norm" -> NormDigit(p, st, i)
    [] p.op = "cmp" -> CmpDigit(p, st, i)
    [] p.op = "cond_copy" -> CopyDigit(p, x, st, i)
    [] p.op \in Muls -> MulDigit(p, b, x, st, i)

\* Up to m entries of the order; like the other loops here in halves, so that TLC does not
\* nest as deep as they are long.
RECURSIVE SweepOver(_, _, _, _, _, _)
SweepOver(p, b, x, order, m, st) ==
  IF st.k > Len(order) THEN st
  ELSE IF m = 1 THEN [SweepDigit(p, b, x, st, order[st.k]) EXCEPT !.k = @ + 1]
  ELSE SweepOver(p, b, x, order, m - m \div 2, SweepOver(p, b, x, order, m \div 2, st))

\* The whole call with the build b.
Unwritten == 77
Swept(p, b, x) ==
  LET order == Order(p, b)
      st == SweepOver(p, b, x, order, Len(order),
              [k |-> 1, a |-> x.a, b |-> x.b, r |-> x.r,
               t |-> IF p.op = "cond_copy" THEN [i \in 0 .. p.n - 1 |-> Unwritten] ELSE 0])
  IN IF p.op \in Muls THEN MulEnd(p, b, st) ELSE st

-----------------------------------------------------------------------------
(* What the larger routines call: the sums and differences of two numbers of    *)
(* as many digits, and the number with its carries taken.                       *)

Plus(w, u, v) == [i \in DOMAIN u |-> InWord(w, u[i] + v[i])]
Less(w, u, v) == [i \in DOMAIN u |-> InWord(w, u[i] - v[i])]

\* Up to m digits of sp_N_norm_n.
RECURSIVE NormOver(_, _, _)
NormOver(p, m, st) ==
  IF st.k = p.end THEN st
  ELSE IF m = 1 THEN [NormDigit(p, st, st.k) EXCEPT !.k = @ + 1]
  ELSE NormOver(p, m - m \div 2, NormOver(p, m \div 2, st))

Normed(w, u) ==
  LET p == NormOf(w, Cardinality(DOMAIN u), {}) IN NormOver(p, p.end, [k |-> 0, a |-> u]).a

\* a[i] * b[k - i] + ... + a[hi] * b[k - hi].
RECURSIVE Dot(_, _, _, _, _)
Dot(a, b, k, i, hi) ==
  IF i > hi THEN 0 ELSE IF i = hi THEN a[i] * b[k - i]
  ELSE Dot(a, b, k, i, (i + hi) \div 2) + Dot(a, b, k, (i + hi) \div 2 + 1, hi)

\* Two rows of digits of any size are the same number: the carries of the difference end in 0.
RECURSIVE Vanishing(_, _, _, _)
Vanishing(d, lo, hi, s) ==
  IF ~s.zero THEN s
  ELSE IF lo = hi THEN [zero |-> (d[lo] + s.c) % DigitBase = 0, c |-> (d[lo] + s.c) \div DigitBase]
  ELSE Vanishing(d, (lo + hi) \div 2 + 1, hi, Vanishing(d, lo, (lo + hi) \div 2, s))
SameNumber(u, v) ==
  Vanishing([i \in DOMAIN u |-> u[i] - v[i]], 0, Cardinality(DOMAIN u) - 1, [zero |-> TRUE, c |-> 0])
    = [zero |-> TRUE, c |-> 0]

\* All digits but the last have the bits of the number only.
Carried(u, n) == \A i \in 0 .. n - 2 : u[i] \in 0 .. DigitBase - 1

\* What every digit has to be at the end.
SweptRight(p, x, st) ==
  CASE p.op = "norm" -> Carried(st.a, p.n) /\ SameNumber(st.a, x.a)
    [] p.op = "cmp" ->
         /\ (st.t = 0) <=> (x.a = x.b)
         /\ \A i \in 0 .. p.n - 1 :
              x.a[i] # x.b[i] /\ (\A j \in i + 1 .. p.n - 1 : x.a[j] = x.b[j]) => (st.t > 0 <=> x.a[i] > x.b[i])
    [] p.op = "cond_copy" -> st.r = (IF x.m = 0 THEN x.r ELSE x.a) /\ st.a = x.a
    [] p.op \in Muls ->
         SameNumber(st.r, [i \in 0 .. p.n |-> (IF i < p.n THEN x.d * x.a[i] ELSE 0)
                                              + (IF p.op = "mul_add" THEN x.r[i] ELSE 0)])
    [] OTHER ->
         /\ \A i \in 0 .. p.n - 1 : st[x.to][i] = x.a[i] + (CASE p.op = "add" -> x.b[i]
                                                              [] p.op = "sub" -> -x.b[i]
                                                              [] p.op = "cond_add" -> Where(x.m, x.b[i])
                                                              [] p.op = "cond_sub" -> -Where(x.m, x.b[i]))
         /\ \A y \in {"a", "b", "r"} \ {x.to} : st[y] = x[y]
=============================================================================
