----------------------------- MODULE SpProducts -----------------------------
(***************************************************************************)
(* The products and squares of sp_c64.c and sp_c32.c, with their numbers   *)
(* of digits and with the digits of SpSweeps.  The small ones go through   *)
(* the columns of the product; the large ones are made of smaller ones by  *)
(* Karatsuba's or Toom's formulas.  r may be the array of a, of b or of    *)
(* both.                                                                   *)
(***************************************************************************)
EXTENDS SpSweeps

\* acc is the number of bits of the accumulators (odd: signed), lim how many products a
\* chunk has at most, 0 without chunks.
Columns(sqr, how, w, n, acc, lim) ==
  [op |-> "columns", sqr |-> sqr, how |-> how, w |-> w, n |-> n, acc |-> acc, lim |-> lim]
MulDown(w, n, acc, lim) == Columns(FALSE, "down", w, n, acc, lim)
SqrDown(w, n, acc, lim) == Columns(TRUE, "down", w, n, acc, lim)
MulUp(w, n, acc) == Columns(FALSE, "up", w, n, acc, 0)
SqrUp(w, n, acc) == Columns(TRUE, "up", w, n, acc, 0)
MulWide(w, n, acc) == Columns(FALSE, "wide", w, n, acc, 0)
SqrWide(w, n, acc) == Columns(TRUE, "wide", w, n, acc, 0)
MulGrid(w, n, acc) == Columns(FALSE, "grid", w, n, acc, 0)
SqrGrid(w, n, acc) == Columns(TRUE, "grid", w, n, acc, 0)

\* norm: the builds of which the digits have few bits to spare normalise the sums.
\* slip: one of them normalises a1 again where a2 is meant.
Parts(sqr, parts, piece, norm, slip) ==
  [op |-> "parts", sqr |-> sqr, parts |-> parts, piece |-> piece, norm |-> norm, slip |-> slip,
   w |-> piece.w, n |-> parts * piece.n]
MulTwo(piece, norm) == Parts(FALSE, 2, piece, norm, FALSE)
SqrTwo(piece, norm) == Parts(TRUE, 2, piece, norm, FALSE)
MulThree(piece, norm, slip) == Parts(FALSE, 3, piece, norm, slip)
SqrThree(piece, norm, slip) == Parts(TRUE, 3, piece, norm, slip)

-----------------------------------------------------------------------------
(* Memory.  r is the array of the result: a call that works in place reads its *)
(* operands from it.                                                           *)

BeforeCall(p, to, a, b) ==
  [i \in 0 .. 2 * p.n - 1 |-> IF i >= p.n \/ to = "none" THEN Unwritten ELSE IF to = "b" THEN b[i] ELSE a[i]]
OperandA(to, r, a) == IF to \in {"a", "both"} THEN r ELSE a
OperandB(to, r, b) == IF to \in {"b", "both"} THEN r ELSE b

\* v in an accumulator.
InAcc(p, v) ==
  IF p.acc % 2 = 0 THEN v % 2^LeastOf(30, 2 * DigitScale + p.acc - 2 * p.w)
  ELSE Signed(LeastOf(30, 2 * DigitScale + p.acc + 1 - 2 * p.w), v)

-----------------------------------------------------------------------------
(* Column by column from the top: c is the digit of the column above and what *)
(* has to be added to it; in a square it is kept w bits higher.               *)

LastIndex(p, k) == IF k >= p.n - 1 THEN p.n - 1 ELSE k

\* lo has a chunk's products, c what is above their lowest digit.
RECURSIVE MulChunks(_, _, _, _, _, _, _)
MulChunks(p, a, b, k, i, size, s) ==
  IF i > LastIndex(p, k) THEN s
  ELSE LET lo == InAcc(p, s.lo + Dot(a, b, k, i, LeastOf(LastIndex(p, k), i + size - 1)))
       IN MulChunks(p, a, b, k, i + size, size, [c |-> InAcc(p, s.c + Hi(lo)), lo |-> Lo(lo)])

MulColumn(p, a, b, st) ==
  LET k == st.k
      i == IF k >= p.n THEN k - (p.n - 1) ELSE 0
      chunked == p.lim > 0 /\ LastIndex(p, k) - i > p.lim
      s == MulChunks(p, a, b, k, i, IF chunked THEN p.lim ELSE p.n, [c |-> st.c, lo |-> 0])
  IN [st EXCEPT !.k = @ - 1, !.c = s.lo, !.r[k + 2] = InWord(p.w, @ + Hi(s.c)), !.r[k + 1] = Lo(s.c)]

\* The products of two different digits count twice.
RECURSIVE SqrChunks(_, _, _, _, _)
SqrChunks(p, a, k, i, s) ==
  IF i > LastIndex(p, k) THEN s
  ELSE LET c == InAcc(p, s.c + 2 * Dot(a, a, k, i, LeastOf(LastIndex(p, k), i + p.lim - 1)))
       IN SqrChunks(p, a, k, i + p.lim, [c |-> Lo(c), hi |-> InAcc(p, s.hi + Hi(c))])

SqrColumn(p, a, st) ==
  LET k == st.k
      even == k % 2 = 0
      middle == (k + 1) \div 2
      i == IF even THEN middle + 1 ELSE middle
      c == InAcc(p, st.c + (IF even THEN a[middle] * a[middle] ELSE 0))
      all == InAcc(p, c + 2 * Dot(a, a, k, i, LastIndex(p, k)))
      s == IF p.lim > 0 /\ LastIndex(p, k) - i >= p.lim
           THEN SqrChunks(p, a, k, i, [c |-> Lo(c), hi |-> Hi(c)])
           ELSE [c |-> Lo(all), hi |-> Hi(all)]
  IN [st EXCEPT !.k = @ - 1, !.c = s.c * DigitBase, !.r[k + 2] = InWord(p.w, @ + Hi(s.hi)), !.r[k + 1] = Lo(s.hi)]

\* Up to m columns.
RECURSIVE DownOver(_, _, _, _, _, _)
DownOver(p, to, a, b, m, st) ==
  IF st.k < 0 THEN st
  ELSE IF m = 1 THEN (IF p.sqr THEN SqrColumn(p, OperandA(to, st.r, a), st)
                      ELSE MulColumn(p, OperandA(to, st.r, a), OperandB(to, st.r, b), st))
  ELSE DownOver(p, to, a, b, m - m \div 2, DownOver(p, to, a, b, m \div 2, st))

Down(p, to, a, b) ==
  LET r == BeforeCall(p, to, a, b)
      c == InAcc(p, OperandA(to, r, a)[p.n - 1] * OperandB(to, r, b)[p.n - 1])
      st == DownOver(p, to, a, b, 2 * p.n - 2,
              [k |-> 2 * p.n - 3, r |-> [r EXCEPT ![2 * p.n - 1] = Hi(c)],
               c |-> IF p.sqr THEN Lo(c) * DigitBase ELSE Lo(c)])
  IN [st.r EXCEPT ![0] = IF p.sqr THEN Hi(st.c) ELSE st.c]

-----------------------------------------------------------------------------
(* Column by column from the bottom, all of them written out.                *)

\* The sum of a column; a square has the products below the middle twice.
ColumnSum(p, a, b, k) ==
  LET i == IF k < p.n THEN 0 ELSE k - p.n + 1
  IN InAcc(p, IF p.sqr THEN 2 * Dot(a, a, k, i, (k + 1) \div 2 - 1) + (IF k % 2 = 0 THEN a[k \div 2] * a[k \div 2] ELSE 0)
              ELSE Dot(a, b, k, i, LastIndex(p, k)))

\* t is what the column below carries.  The lower digits go to a local array and are copied
\* to r at the end.
RECURSIVE UpOver(_, _, _, _, _, _)
UpOver(p, to, a, b, m, st) ==
  IF st.k > 2 * p.n - 2 THEN st
  ELSE IF m = 1 THEN
    LET s == InAcc(p, ColumnSum(p, OperandA(to, st.r, a), OperandB(to, st.r, b), st.k) + st.t)
    IN IF st.k < p.n THEN [st EXCEPT !.k = @ + 1, !.t = Hi(s), !.low[st.k] = Lo(s)]
       ELSE [st EXCEPT !.k = @ + 1, !.t = Hi(s), !.r[st.k] = Lo(s)]
  ELSE UpOver(p, to, a, b, m - m \div 2, UpOver(p, to, a, b, m \div 2, st))

UpColumns(p, to, a, b) ==
  LET st == UpOver(p, to, a, b, 2 * p.n - 1,
              [k |-> 0, t |-> 0, low |-> [i \in 0 .. p.n - 1 |-> Unwritten], r |-> BeforeCall(p, to, a, b)])
  IN Put([st.r EXCEPT ![2 * p.n - 1] = InWord(p.w, st.t)], 0, st.low)

\* All columns are summed up before the first digit is written.
RECURSIVE Carry(_, _, _, _)
Carry(p, t, m, st) ==
  IF st.k > 2 * p.n - 2 THEN st
  ELSE IF m = 1 THEN LET s == InAcc(p, t[st.k] + st.t)
                     IN [k |-> st.k + 1, t |-> Hi(s), r |-> [st.r EXCEPT ![st.k] = Lo(s)]]
  ELSE Carry(p, t, m - m \div 2, Carry(p, t, m \div 2, st))

WideColumns(p, to, a, b) ==
  LET r == BeforeCall(p, to, a, b)
      t == [k \in 0 .. 2 * p.n - 2 |-> ColumnSum(p, OperandA(to, r, a), OperandB(to, r, b), k)]
      st == Carry(p, t, 2 * p.n - 1, [k |-> 0, t |-> 0, r |-> r])
  IN [st.r EXCEPT ![2 * p.n - 1] = InWord(p.w, st.t)]

-----------------------------------------------------------------------------
(* From products of parts.                                                   *)

\* The digits of r are those of a * b.
RECURSIVE Product(_, _, _, _)

NormIf(p, u) == IF p.norm THEN Normed(p.w, u) ELSE u

\* z0 is the lower half of r, z2 the upper; the middle gets z1 - z2 - z0.
JoinTwo(p, h, r, z1) ==
  LET middle == Less(p.w, Less(p.w, z1, At(r, 2 * h, 2 * h)), At(r, 0, 2 * h))
  IN NormIf(p, Put(r, h, Plus(p.w, At(r, h, 2 * h), middle)))

\* z2 is there, and then z0, which may still read the lower halves of operands that r is.
LowerHalf(p, h, to, a, b, r) ==
  Put(r, 0, Product(p.piece, to, At(OperandA(to, r, a), 0, h), At(OperandB(to, r, b), 0, h)))

\* z1 is the array of a1.
TwoParts(p, to, a, b) ==
  LET h == p.piece.n
      r0 == BeforeCall(p, to, a, b)
      u == OperandA(to, r0, a)
      v == OperandB(to, r0, b)
      a1 == NormIf(p, Plus(p.w, At(u, 0, h), At(u, h, h)))
      b1 == IF p.sqr THEN a1 ELSE NormIf(p, Plus(p.w, At(v, 0, h), At(v, h, h)))
      z2 == Product(p.piece, "none", At(u, h, h), At(v, h, h))
      z1 == Product(p.piece, IF p.sqr THEN "both" ELSE "a", a1, b1)
  IN JoinTwo(p, h, LowerHalf(p, h, to, a, b, Put(r0, 2 * h, z2)), z1)

\* x0 + x1, x1 + x2 and all three.
ThreeSums(p, slip, x0, x1, x2) ==
  LET lower == NormIf(p, Plus(p.w, x0, x1))
      upper == NormIf(p, Plus(p.w, x1, x2))
      all == Plus(p.w, lower, x2)
  IN <<lower, IF slip THEN NormIf(p, upper) ELSE upper, IF slip THEN all ELSE NormIf(p, all)>>

\* z has the products of the parts, and of the sums as they are above.
JoinThree(p, h, r, z) ==
  LET t0 == Less(p.w, z[5], z[2])
      t1 == Less(p.w, z[4], z[2])
      t2 == NormIf(p, Less(p.w, Less(p.w, z[6], t0), t1))
      into(s, i, u) == Put(s, i * h, Plus(p.w, At(s, i * h, 2 * h), u))
      lower == into(into(r, 0, z[1]), 1, NormIf(p, Less(p.w, t1, z[1])))
  IN NormIf(p, into(into(into(lower, 2, t2), 3, NormIf(p, Less(p.w, t0, z[3]))), 4, z[3]))

\* The products and sums are arrays of their own, and r is cleared when they are there.
ThreeParts(p, to, a, b) ==
  LET h == p.piece.n
      r0 == BeforeCall(p, to, a, b)
      parts(y) == <<At(y, 0, h), At(y, h, h), At(y, 2 * h, h)>>
      u == parts(OperandA(to, r0, a))
      v == parts(OperandB(to, r0, b))
      ofA == u \o ThreeSums(p, p.slip, u[1], u[2], u[3])
      ofB == IF p.sqr THEN ofA ELSE v \o ThreeSums(p, FALSE, v[1], v[2], v[3])
      times(x, y) == [i \in 1 .. 6 |-> Product(p.piece, "none", x[i], y[i])]
  IN JoinThree(p, h, [i \in DOMAIN r0 |-> 0], times(ofA, ofB))

Product(p, to, a, b) ==
  CASE p.op = "parts" /\ p.parts = 2 -> TwoParts(p, to, a, b)
    [] p.op = "parts" /\ p.parts = 3 -> ThreeParts(p, to, a, b)
    [] p.op = "columns" /\ p.how = "down" -> Down(p, to, a, b)
    [] p.op = "columns" /\ p.how = "up" -> UpColumns(p, to, a, b)
    [] p.op = "columns" /\ p.how \in {"wide", "grid"} -> WideColumns(p, to, a, b)

\* The columns of the product of two numbers of n and m digits, as numbers of any size.
ExactColumns(a, n, b, m, size) ==
  [k \in 0 .. size - 1 |-> Dot(a, b, k, IF k < m THEN 0 ELSE k - m + 1, LeastOf(k, n - 1))]

\* r is the product of the numbers that the operands were, whatever array it is.  The
\* routines that come from the top add to digits that they have masked, and sums of parts
\* are carried only where they are normalised: there the callers have to see to it.
ProductRight(p, x, r) ==
  /\ SameNumber(r, ExactColumns(x.a, p.n, x.b, p.n, 2 * p.n))
  /\ (IF p.op = "parts" THEN p.norm ELSE p.how # "down") => Carried(r, 2 * p.n)
=============================================================================
