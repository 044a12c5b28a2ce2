------------------------------ MODULE SpPoint ------------------------------
(***************************************************************************)
(* Point arithmetic in projective coordinates (x / z^2, y / z^3) and       *)
(* Montgomery form, of wolfssl-src/patches/sp_c64.c.                       *)
(*                                                                         *)
(* The double and the add run on a memory of cells, because the result may *)
(* be one of the operands: a statement names its cells through the         *)
(* pointers r, p, q and t, and bind says which object each one points to.  *)
(***************************************************************************)
EXTENDS SpField

\* A point: its coordinates and the infinity flag.
Point(x, y, z, inf) == [x |-> x, y |-> y, z |-> z, inf |-> inf]
Zeros == Point(0, 0, 0, 0)

\* Memory: points by name, and the temporaries t + 2*5*i as 0 .. 5.
Temps == 0 .. 5

\* Statements.  r, p and q stand before a coordinate; a number is a temporary.
St(op, d, a, b) == [op |-> op, d |-> d, a |-> a, b |-> b]
rx == <<"r", "x">>
ry == <<"r", "y">>
rz == <<"r", "z">>
px == <<"p", "x">>
py == <<"p", "y">>
pz == <<"p", "z">>
qx == <<"q", "x">>
qy == <<"q", "y">>
qz == <<"q", "z">>
T(i) == <<"t", i>>

Load(m, bind, o) == IF o[1] = "t" THEN m.t[o[2]] ELSE m[bind[o[1]]][o[2]]
Store(m, bind, o, v) ==
  IF o[1] = "t" THEN [m EXCEPT !.t[o[2]] = v] ELSE [m EXCEPT ![bind[o[1]]][o[2]] = v]

Exec(m, bind, s) ==
  LET a == Load(m, bind, s.a)
      b == Load(m, bind, s.b)
  IN Store(m, bind, s.d,
       CASE s.op = "mul" -> mont_mul(a, b)
         [] s.op = "add" -> mont_add(a, b)
         [] s.op = "sub" -> mont_sub(a, b)
         [] s.op = "dbl" -> mont_dbl(a)
         [] s.op = "tpl" -> mont_tpl(a)
         [] s.op = "div2" -> mont_div2(a))

\* The statements first .. last of a program, one after the other.
ExecAll(m, bind, program, first, last) ==
  LET run[i \in first - 1 .. last] ==
        IF i = first - 1 THEN m ELSE Exec(run[i - 1], bind, program[i])
  IN run[last]

-----------------------------------------------------------------------------
(* Doubling: t1 is temporary 0 and t2 is temporary 1.                      *)

DblProgram == <<
  St("mul", T(0), pz, pz),      St("mul", rz, py, pz),        St("dbl", rz, rz, rz),
  St("sub", T(1), px, T(0)),    St("add", T(0), px, T(0)),    St("mul", T(1), T(0), T(1)),
  St("tpl", T(0), T(1), T(1)),  St("dbl", ry, py, py),        St("mul", ry, ry, ry),
  St("mul", T(1), ry, ry),      St("div2", T(1), T(1), T(1)), St("mul", ry, ry, px),
  St("mul", rx, T(0), T(0)),    St("sub", rx, rx, ry),        St("sub", rx, rx, ry),
  St("sub", ry, ry, rx),        St("mul", ry, ry, T(0)),      St("sub", ry, ry, T(1)) >>

DblSteps == 18

\* The infinity flag goes to the result first.
DblInfinity(m, bind) == [m EXCEPT ![bind.r].inf = m[bind.p].inf]

proj_point_dbl(m, bind) ==
  ExecAll(DblInfinity(m, bind), bind, DblProgram, 1, DblSteps)

-----------------------------------------------------------------------------
(* Adding: t6, t1, ..., t5 are the temporaries 0, 1, ..., 5; x, y and z of *)
(* the sum are computed in t6, t1 and t2.                                  *)

AddProgram == <<
  St("mul", T(1), qz, qz),      St("mul", T(3), T(1), qz),    St("mul", T(1), T(1), px),
  St("mul", T(2), pz, pz),      St("mul", T(4), T(2), pz),    St("mul", T(2), T(2), qx),
  St("mul", T(3), T(3), py),    St("mul", T(4), T(4), qy),
  St("sub", T(2), T(2), T(1)),  St("sub", T(4), T(4), T(3)),
  St("mul", T(5), T(2), T(2)),  St("mul", T(1), T(1), T(5)),  St("mul", T(5), T(5), T(2)),
  St("mul", T(2), pz, T(2)),    St("mul", T(2), T(2), qz),
  St("mul", T(0), T(4), T(4)),  St("sub", T(0), T(0), T(5)),  St("mul", T(5), T(5), T(3)),
  St("dbl", T(3), T(1), T(1)),  St("sub", T(0), T(0), T(3)),
  St("sub", T(1), T(1), T(0)),  St("mul", T(1), T(1), T(4)),  St("sub", T(1), T(1), T(5)) >>

\* How many statements come before the check for a double, and in all.
AddPrologue == 8
AddSteps == 23

NeverDouble(m, bind) == FALSE

\* The operands are the same finite point.
IsDouble(m, bind) ==
  /\ m[bind.p].inf = 0 /\ m[bind.q].inf = 0
  /\ m.t[2] = m.t[1] /\ m.t[4] = m.t[3]

\* An operand at infinity gives the other one; two of them give infinity.
Masked(p, q, sum) ==
  CASE q.inf = 1 /\ p.inf = 0 -> [p EXCEPT !.inf = 0]
    [] p.inf = 1 /\ q.inf = 0 -> [q EXCEPT !.inf = 0]
    [] p.inf = 1 /\ q.inf = 1 ->
         [sum EXCEPT !.z = IF sum.z % 2 = 1 THEN sum.z ELSE sum.z + 1, !.inf = 1]
    [] OTHER -> [sum EXCEPT !.inf = 0]

AddResult(m, bind) ==
  [m EXCEPT ![bind.r] = Masked(m[bind.p], m[bind.q], Point(m.t[0], m.t[1], m.t[2], 0))]

\* u is the memory after the prologue.
AddRest(u, bind) ==
  IF IsDouble(u, bind) THEN proj_point_dbl(u, bind)
  ELSE AddResult(ExecAll(u, bind, AddProgram, AddPrologue + 1, AddSteps), bind)
proj_point_add(m, bind) == AddRest(ExecAll(m, bind, AddProgram, 1, AddPrologue), bind)

-----------------------------------------------------------------------------
(* The same on values.                                                     *)

NoTemps == [i \in Temps |-> 0]
Dbl(a) == proj_point_dbl([a |-> a, c |-> Zeros, t |-> NoTemps], [r |-> "c", p |-> "a"]).c
Add(a, b) ==
  proj_point_add([a |-> a, b |-> b, c |-> Zeros, t |-> NoTemps],
                 [r |-> "c", p |-> "a", q |-> "b"]).c

\* The result in place of the operand.
DblInPlace(a) == proj_point_dbl([a |-> a, t |-> NoTemps], [r |-> "a", p |-> "a"]).a
AddInto(a, b) ==
  proj_point_add([a |-> a, b |-> b, t |-> NoTemps], [r |-> "a", p |-> "a", q |-> "b"]).a

-----------------------------------------------------------------------------
(* Repeated doubling.                                                      *)

\* One round on x, y (twice the ordinate), z and w = z^4.
DblRound(s) ==
  LET a == mont_tpl(mont_sub(mont_sqr(s.x), s.w))
      y2 == mont_sqr(s.y)
      b == mont_mul(y2, s.x)
      x == mont_sub(mont_sqr(a), mont_dbl(b))
      y4 == mont_sqr(y2)
  IN [x |-> x,
      y |-> mont_sub(mont_mul(mont_dbl(mont_sub(b, x)), a), y4),
      z |-> mont_mul(s.z, s.y),
      w |-> mont_mul(s.w, y4)]

DblRounds(p, n) ==
  LET s[i \in 0 .. n] ==
        IF i = 0 THEN [x |-> p.x, y |-> mont_dbl(p.y), z |-> p.z, w |-> mont_sqr(mont_sqr(p.z))]
        ELSE DblRound(s[i - 1])
  IN s

\* p becomes 2^n * p; the infinity flag stays.
proj_point_dbl_n(p, n) ==
  LET s == DblRounds(p, n)[n] IN Point(s.x, mont_div2(s.y), s.z, p.inf)

\* 2^i * p for every i in 1 .. n; they are marked finite.
proj_point_dbl_n_store(p, n) ==
  LET s == DblRounds(p, n)
  IN [i \in 1 .. n |-> Point(s[i].x, mont_div2(s[i].y), s[i].z, 0)]

-----------------------------------------------------------------------------
(* p + q and p - q together, and p + q with q affine.                      *)

\* The third point of the line with difference h and slope r / h through one
\* whose scaled coordinates are u1 and s1: from u1 * h^2, h^3 and s1 * h^3.
ChordFrom(u1h2, h3, s1h3, r, z) ==
  LET x == mont_sub(mont_sub(mont_sqr(r), h3), mont_dbl(u1h2))
  IN Point(x, mont_sub(mont_mul(mont_sub(u1h2, x), r), s1h3), z, 0)
Chord(u1, s1, h, r, z) ==
  LET h3 == mont_mul(mont_sqr(h), h)
  IN ChordFrom(mont_mul(u1, mont_sqr(h)), h3, mont_mul(h3, s1), r, z)

AddSub(u1, s1, s2, h, z) ==
  [sum |-> Chord(u1, s1, h, mont_sub(s2, s1), z),
   diff |-> Chord(u1, s1, h, (P - mont_add(s2, s1)) % P, z)]
proj_point_add_sub(p, q) ==
  LET q2 == mont_sqr(q.z)
      p2 == mont_sqr(p.z)
      u1 == mont_mul(q2, p.x)
      h == mont_sub(mont_mul(p2, q.x), u1)
  IN AddSub(u1, mont_mul(mont_mul(q2, q.z), p.y), mont_mul(mont_mul(p2, p.z), q.y), h,
            mont_mul(mont_mul(p.z, q.z), h))

AddQz1(p, q, u2, s2) ==
  LET h == mont_sub(u2, p.x)
  IN IF p.inf = 0 /\ q.inf = 0 /\ p.x = u2 /\ p.y = s2 THEN DblInPlace(p)
     ELSE Masked(p, q, Chord(p.x, p.y, h, mont_sub(s2, p.y), mont_mul(p.z, h)))
proj_point_add_qz1(p, q) ==
  LET p2 == mont_sqr(p.z)
  IN AddQz1(p, q, mont_mul(p2, q.x), mont_mul(mont_mul(p2, p.z), q.y))

-----------------------------------------------------------------------------
(* To affine coordinates.                                                  *)

\* Out of Montgomery form too; i is 1 / z.
MapBy(p, i) ==
  Point(mont_reduce(mont_mul(p.x, mont_sqr(i))),
        mont_reduce(mont_mul(p.y, mont_mul(mont_sqr(i), i))), 1, p.inf)
map(p) == MapBy(p, mont_inv(p.z))

\* Still in Montgomery form.
ScaleBy(p, i) ==
  [p EXCEPT !.x = mont_mul(p.x, mont_sqr(i)), !.y = mont_mul(p.y, mont_mul(mont_sqr(i), i)),
            !.z = norm_mod]
proj_to_affine(p) == ScaleBy(p, mont_inv(p.z))
=============================================================================
