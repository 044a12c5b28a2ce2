------------------------------ MODULE SpReduce ------------------------------
(***************************************************************************)
(* Montgomery reduction of sp_c64.c and sp_c32.c, with its numbers of      *)
(* digits and with the digits of SpSweeps; and the multiplications by a    *)
(* digit and conditional sweeps that it is made of.                        *)
(***************************************************************************)
EXTENDS SpSweeps
LOCAL INSTANCE FiniteSetsExt

\* How the multiple that is too much is noticed: by the last digit, or by a bit above.
Above(k) == [digit |-> k, bit |-> 0, above |-> TRUE]
Bit(k, s) == [digit |-> k, bit |-> s, above |-> FALSE]

\* rounds + 1 multiples of the modulus are added, each to clear the lowest digit that is
\* left, the last one only `last` bits of it.  again: the upper digits are normalised a
\* second time before the shift.
MontReduceOf(add, shift, used, rounds, last, over) ==
  [op |-> "mont_reduce", w |-> add.w, n |-> add.n, add |-> add, builds |-> add.builds, shift |-> shift,
   used |-> used, rounds |-> rounds, last |-> last, over |-> over, again |-> FALSE]

\* b of the w bits of a digit, here: all of them or some of them, but never none.
ScaledBits(w, b) == IF b = w THEN DigitScale ELSE 1 + (b * (DigitScale - 1)) \div w

-----------------------------------------------------------------------------
(* sp_N_mont_shift_n on numbers: the quotient of a by 2^bits.                *)

ShiftLast(q) == q.bits - (q.used - 1) * q.w

\* The bits of the variable that the digits go through; t is odd where it is signed.
ShiftBits(q) ==
  LET last == ShiftLast(q)
  IN LeastOf(30, (IF q.t % 2 = 1 THEN q.t + 1 ELSE q.t) - (2 * q.w - last) + (2 * DigitScale - ScaledBits(q.w, last)))
InShift(q, v) == IF q.t % 2 = 1 THEN Signed(ShiftBits(q), v) ELSE v % 2^ShiftBits(q)

\* A digit of its own type: its bits above w are held back in s for the next one.
HoldsBack(q) == q.t = TypeBits(q.w) - 1

\* One digit, and up to m digits.
ShiftDigit(q, a, st) ==
  LET up == 2^(DigitScale - ScaledBits(q.w, ShiftLast(q)))
      last == st.i = q.used - 1
      s == IF HoldsBack(q) THEN InWord(q.w, a[q.used + st.i] + st.s) ELSE a[q.used + st.i]
      part == IF HoldsBack(q) /\ ~last THEN Lo(s) ELSE s
      n == InShift(q, st.n + part * up)
  IN [i |-> st.i + 1, n |-> Hi(n), s |-> Hi(s), r |-> [st.r EXCEPT ![st.i] = IF last THEN InWord(q.w, n) ELSE Lo(n)]]

RECURSIVE ShiftOver(_, _, _, _)
ShiftOver(q, a, m, st) ==
  IF st.i = q.used THEN st
  ELSE IF m = 1 THEN ShiftDigit(q, a, st)
  ELSE ShiftOver(q, a, m - m \div 2, ShiftOver(q, a, m \div 2, st))

\* In place: the digit that is read is always above the one that is written.
MontShifted(q, a) ==
  LET r == ShiftOver(q, a, q.used, [i |-> 0, n |-> a[q.used - 1] \div 2^ScaledBits(q.w, ShiftLast(q)), s |-> 0, r |-> a]).r
  IN [k \in DOMAIN r |-> IF k \in q.used .. 2 * q.used - 1 THEN 0 ELSE r[k]]

-----------------------------------------------------------------------------
(* sp_N_mont_reduce_n(a, m, mp).                                             *)

\* n digits from index i on are normalised.
NormAt(p, a, i) == Put(a, i, Normed(p.w, At(a, i, p.n)))

\* mu clears the digit: with mp = 1 the code leaves the multiplication out.
MuOf(p, x, a, i) == (a[i] * x.mp) % (IF i < p.rounds THEN DigitBase ELSE 2^ScaledBits(p.w, p.last))

\* sp_N_mul_add_n(a + i, m, mu), and what is above the cleared bits goes to the next digit.
AddMultiple(p, x, a, i, mu) ==
  LET s == Put(a, i, Swept(p.add, x.build, [to |-> "r", m |-> 0, d |-> mu, a |-> x.m, b |-> x.m, r |-> At(a, i, p.n + 1)]).r)
  IN [s EXCEPT ![i + 1] = InWord(p.w, @ + Hi(s[i])), ![i] = IF i = p.rounds THEN Lo(@) ELSE @]

\* Up to m rounds.
RECURSIVE RoundsOver(_, _, _, _)
RoundsOver(p, x, m, st) ==
  IF st.i > p.rounds THEN st
  ELSE IF m = 1 THEN LET mu == MuOf(p, x, st.a, st.i)
                     IN [i |-> st.i + 1, a |-> AddMultiple(p, x, st.a, st.i, mu), mu |-> [st.mu EXCEPT ![st.i] = mu]]
  ELSE RoundsOver(p, x, m - m \div 2, RoundsOver(p, x, m \div 2, st))

\* ~((over - 1) >> 63): all bits if over is positive.
OverMask(p, x, a) ==
  LET k == p.over.digit
      over == IF p.over.above THEN InWord(p.w, a[k] - x.m[k]) ELSE a[k] \div 2^ScaledBits(p.w, p.over.bit)
  IN IF over > 0 THEN -1 ELSE 0

CondSubtracted(p, x, a, mask) == Put(a, 0, [k \in 0 .. p.n - 1 |-> InWord(p.w, a[k] - Where(mask, x.m[k]))])

MontReduced(p, x) ==
  LET s == RoundsOver(p, x, p.rounds + 1, [i |-> 0, a |-> NormAt(p, x.a, p.used), mu |-> [i \in 0 .. p.rounds |-> 0]])
      a == MontShifted(p.shift, IF p.again THEN NormAt(p, s.a, p.used) ELSE s.a)
  IN [a |-> NormAt(p, CondSubtracted(p, x, a, OverMask(p, x, a)), 0), mu |-> s.mu]

\* A multiple that is added without carrying leaves two parts of products in a digit.  The
\* spare bits of the type hold as many as there are multiples, and the digit and its carry.
HasRoom(p, x) == ~x.build.apart \/ 2 * (p.rounds + 1) + 2 <= 2^(TypeBits(p.w) - 1 - p.w)

\* What digit k gathers of these multiples of this modulus, and whether no digit has too much.
Gathered(p, x, mu, k) ==
  LET product(i, j) == IF j \in 0 .. p.n - 1 THEN mu[i] * x.m[j] ELSE 0
  IN x.a[k] + MapThenSumSet(LAMBDA i : Lo(product(i, k - i)) + Hi(product(i, k - 1 - i)), 0 .. p.rounds)
Fits(p, x, mu) ==
  \A k \in 0 .. 2 * p.n - 1 : Gathered(p, x, mu, k) < 2^(WordBits(p.w) - 1) - 2^(WordBits(p.w) - DigitScale)

\* a plus the multiples is 2^(the bits that were cleared) times the result, or times the
\* result and one modulus more; and the result has no more bits than the modulus has.
ReducedRight(p, x, out) ==
  LET last == ScaledBits(p.w, p.last)
      size == 2 * p.n
      multiples == [k \in 0 .. size - 1 |-> 
                      Dot(out.mu, x.m, k, IF k < p.n THEN 0 ELSE k - p.n + 1, LeastOf(k, p.rounds))]
      total == [k \in 0 .. size - 1 |-> x.a[k] + multiples[k]]
      shifted(s) == [k \in 0 .. size - 1 |-> IF k < p.rounds THEN 0
                       ELSE IF k - p.rounds < p.n THEN (out.a[k - p.rounds] + s * x.m[k - p.rounds]) * 2^last ELSE 0]
  IN /\ \E s \in {0, 1} : SameNumber(total, shifted(s))
     /\ Carried(out.a, p.used) /\ out.a[p.used - 1] \in 0 .. 2^last - 1
     /\ \A k \in p.used .. p.n - 1 : out.a[k] = 0
     /\ p.rounds * p.w + p.last = p.shift.bits /\ p.shift.w = p.w /\ p.shift.n = p.n /\ p.shift.used = p.used
     /\ IF p.over.above THEN p.over.digit = p.used - 1 ELSE p.over.digit * p.w + p.over.bit = p.shift.bits
=============================================================================
