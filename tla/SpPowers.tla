------------------------------ MODULE SpPowers ------------------------------
(***************************************************************************)
(* How the exponentiations of sp_c64.c and sp_c32.c read their exponent: a *)
(* ladder over its bits, windows of it, and the special case of base 2.    *)
(* The exponent has x symbolic bits and lies in digits of the real width,  *)
(* as in SpWords.  A register holds base^e * R^k modulo m, R being the     *)
(* Montgomery radix: it is the pair <<e, k>>, where e is counted from the  *)
(* number that the bits read so far make up.  `ok` records that every      *)
(* digit read exists and that every bit read is the next one below.        *)
(***************************************************************************)
EXTENDS SpWords

Digit(p, x, i) == Slice(i * p.w, LeastOf((i + 1) * p.w, x))

Times(a, b) == <<a[1] + b[1], a[2] + b[2]>>
MontTimes(a, b) == <<a[1] + b[1], a[2] + b[2] - 1>>
One == <<0, 1>>          \* mont_norm
Base == <<1, 0>>         \* the base as it is given

-----------------------------------------------------------------------------
(* sp_N_mod_exp_n without a table: the builds with WOLFSSL_SP_SMALL and      *)
(* without.  bits is the size of the modulus.                                *)

Ladder(w, n, bits) == [op |-> "ladder", w |-> w, n |-> n, bits |-> bits]

\* t[1] is the base in Montgomery form: reduced first if the caller asks for it.
\* The small build always copies the base before it multiplies.
LadderBase == Times(Base, One)

\* t[0] is the norm, since norm = td = t[0].
LadderStart(p, x) ==
  IF x = 0 THEN [pc |-> "done", err |-> "MP_VAL", i |-> -1, c |-> 0, n |-> {}, read |-> 0, t |-> <<One, LadderBase>>, ok |-> TRUE]
  ELSE [pc |-> "loop", err |-> "MP_OKAY", i |-> x \div p.w - 1, c |-> x % p.w,
        n |-> Shl(Digit(p, x, x \div p.w), p.w - (x % p.w), TypeBits(p.w)),
        read |-> x, t |-> <<One, LadderBase>>, ok |-> x \div p.w < p.n]

\* t[y ^ 1] := t[0] * t[1]; t[2] := t[y]; t[2] := t[2]^2; t[y] := t[2].  With the bit y
\* the number read doubles and y is added to it.
LadderRound(t, y) ==
  [k \in 1 .. 2 |-> IF k - 1 = y THEN <<2 * t[k][1] - y, MontTimes(t[k], t[k])[2]>>
                    ELSE <<t[1][1] + t[2][1] - y, MontTimes(t[1], t[2])[2]>>]

\* The c bits at the top of the word, one round each.
LadderWord(p, st) ==
  [st EXCEPT !.pc = "next", !.read = @ - st.c, !.t = LadderRound(@, 0),
             !.ok = @ /\ (\A k \in 1 .. st.c : <<p.w - k, st.read - k>> \in st.n)
                      /\ LadderRound(st.t, 1) = LadderRound(st.t, 0)]

LadderStep(p, x, st) ==
  CASE st.pc = "loop" /\ st.c > 0 -> LadderWord(p, st)
    [] (st.pc = "next" \/ st.c = 0) /\ st.i # -1 ->
         [st EXCEPT !.pc = "loop", !.n = Digit(p, x, st.i), !.i = @ - 1, !.c = p.w]
    [] OTHER -> [st EXCEPT !.pc = "done", !.t = <<MontTimes(@[1], <<0, 0>>), @[2]>>]

-----------------------------------------------------------------------------
(* Windows of g bits: the build of sp_N_mod_exp_n with a table, and          *)
(* sp_N_mod_exp_2_n, which shifts instead of multiplying.                    *)

Windows(w, n, bits, g) == [op |-> "window", w |-> w, n |-> n, bits |-> bits, g |-> g]
Base2(w, n, bits, g, h, k) ==
  [op |-> "base2", w |-> w, n |-> n, bits |-> bits, g |-> g, h |-> h, k |-> k]

\* The table: t[0] is the norm, then t[1], t[1]^2, t[2] * t[1], t[2]^2, t[3] * t[2], ...
Table(g) ==
  LET t[k \in 0 .. 2^g - 1] ==
        IF k = 0 THEN One ELSE IF k = 1 THEN Times(Base, One)
        ELSE IF k % 2 = 0 THEN MontTimes(t[k \div 2], t[k \div 2])
        ELSE MontTimes(t[(k + 1) \div 2], t[k \div 2])
  IN t

\* What a register that holds the number read so far becomes in a round with window y:
\* g squarings, and a multiplication by t[y] or a shift by y.
Squared(a, g) == <<2^g * a[1], 2^g * (a[2] - 1) + 1>>
WindowRound(p, a, y) ==
  IF p.op = "window" THEN LET b == MontTimes(Squared(a, p.g), Table(p.g)[y]) IN <<b[1] - y, b[2]>>
  ELSE Squared(a, p.g)

Rounded(p, x) == ((x + p.g - 1) \div p.g) * p.g
Slack(p) == TypeBits(p.w) - p.w

\* The bits that the first digit contributes.
FirstBits(p, x) == IF Rounded(p, x) % p.w = 0 THEN p.w ELSE Rounded(p, x) % p.w

\* The next window, from the top of word n, and what is left of the word.
TakeWindow(p, st, y, n, i, c) ==
  [st EXCEPT !.pc = "loop", !.n = n, !.i = i, !.c = c, !.read = @ - p.g, !.y = y]

Top(p, n, c) == Low(Shr(n, TypeBits(p.w) - c), c)

\* The first window.  If the first digit has too few bits the next one is joined to it;
\* with fewer bits to spare than the first digit has, the shift is by a negative number,
\* which C leaves undefined.
WindowFirst(p, x, st, n) ==
  IF st.c >= p.g
  THEN TakeWindow(p, st, Top(p, n, p.g), Shl(n, p.g, TypeBits(p.w)), st.i, st.c - p.g)
  ELSE IF Slack(p) < st.c THEN [st EXCEPT !.pc = "undefined"]
  ELSE TakeWindow(p, [st EXCEPT !.ok = @ /\ st.i >= 0],
                  Top(p, n \cup Shl(Digit(p, x, st.i), Slack(p) - st.c, TypeBits(p.w)), p.g),
                  Shl(n \cup Shl(Digit(p, x, st.i), Slack(p) - st.c, TypeBits(p.w)), p.g, TypeBits(p.w)),
                  st.i - 1, st.c + p.w - p.g)

WindowStart(p, x) ==
  IF x = 0 THEN [pc |-> "done", err |-> "MP_VAL", i |-> -1, c |-> 0, n |-> {}, y |-> {}, read |-> 0, t |-> One, ok |-> TRUE]
  ELSE [pc |-> "first", err |-> "MP_OKAY", i |-> (Rounded(p, x) + p.w - 1) \div p.w - 1, c |-> FirstBits(p, x),
        n |-> {}, y |-> {}, read |-> Rounded(p, x), t |-> One, ok |-> TRUE]

\* A digit beyond the array counts as 0.
WindowLoad(p, x, st) ==
  IF st.i < p.n
  THEN WindowFirst(p, x, [st EXCEPT !.i = @ - 1], Shl(Digit(p, x, st.i), TypeBits(p.w) - st.c, TypeBits(p.w)))
  ELSE WindowFirst(p, x, [st EXCEPT !.i = @ - 1], {})

\* A wrong variant of WindowSplit: the bits taken from the new digit stay in it.
WindowSplitTwice(p, st, n, c) ==
  TakeWindow(p, st, Top(p, st.n, p.g) \cup Top(p, n, c), n, st.i - 1, p.w - c)

\* The window spans two digits: the old word has the upper bits of it and the new one c.
WindowSplit(p, st, n, c) ==
  TakeWindow(p, st, Top(p, st.n, p.g) \cup Top(p, n, c), Shl(n, c, TypeBits(p.w)), st.i - 1, p.w - c)

WindowNext(p, x, st) ==
  CASE st.c >= p.g -> TakeWindow(p, st, Top(p, st.n, p.g), Shl(st.n, p.g, TypeBits(p.w)), st.i, st.c - p.g)
    [] st.c = 0 ->
         TakeWindow(p, st, Top(p, Shl(Digit(p, x, st.i), Slack(p), TypeBits(p.w)), p.g),
                    Shl(Digit(p, x, st.i), Slack(p) + p.g, TypeBits(p.w)), st.i - 1, p.w - p.g)
    [] OTHER -> WindowSplit(p, st, Shl(Digit(p, x, st.i), Slack(p), TypeBits(p.w)), p.g - st.c)

\* The window that the step took is the next g bits of the exponent, zeros above it.
Taken(p, x, st) ==
  [st EXCEPT !.ok = @ /\ (st.pc = "undefined" \/ st.y = Slice(st.read, LeastOf(st.read + p.g, x)))]

WindowStep(p, x, st) ==
  IF st.pc = "first" THEN Taken(p, x, WindowLoad(p, x, st))
  ELSE IF st.i >= 0 \/ st.c >= p.g THEN Taken(p, x, WindowNext(p, x, [st EXCEPT !.t = WindowRound(p, @, 0)]))
  ELSE [st EXCEPT !.pc = "done", !.t = MontTimes(@, <<0, 0>>)]

\* sp_N_mod_exp_2_n, after the shift by up to 2^g - 1 bits: what lies above the modulus'
\* bits goes to mul_d, what lies below stays.
Overflow(p, r) == Shl(r[p.h], p.w - p.k, TypeBits(p.w)) \cup Shr(r[p.h - 1], p.k)
Kept(p, r) == [r EXCEPT ![p.h] = {}, ![p.h - 1] = Low(@, p.k)]
=============================================================================
