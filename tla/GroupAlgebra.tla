---------------------------- MODULE GroupAlgebra ----------------------------
(***************************************************************************)
(* The matrices of one link, SU(2) and SU(3): math/group/formula, the      *)
(* batched slabs of math/su2_ops.hpp and su3_ops.hpp, the traits of the    *)
(* device.  Exact, over Gaussian integers: entry (i, j) of an N x N matrix *)
(* is the pair <<re, im>> at N * i + j; what the code divides by is left   *)
(* as a factor, which the comments name.                                   *)
(***************************************************************************)
EXTENDS Integers, Functions

SumOver(S, F(_)) == SumFunction([k \in S |-> F(k)])

CSumOf(f) == <<SumOver(DOMAIN f, LAMBDA k : f[k][1]), SumOver(DOMAIN f, LAMBDA k : f[k][2])>>
CSum(S, F(_)) == CSumOf([k \in S |-> F(k)])

cadd(x, y) == <<x[1] + y[1], x[2] + y[2]>>
csub(x, y) == <<x[1] - y[1], x[2] - y[2]>>
cmul(x, y) == <<x[1] * y[1] - x[2] * y[2], x[1] * y[2] + x[2] * y[1]>>
cmul_b_conj(x, y) == <<x[1] * y[1] + x[2] * y[2], x[2] * y[1] - x[1] * y[2]>>
cmul_a_conj(x, y) == <<x[1] * y[1] + x[2] * y[2], x[1] * y[2] - x[2] * y[1]>>
conj(x) == <<x[1], -x[2]>>
times(k, x) == <<k * x[1], k * x[2]>>

Entries(N) == 0 .. N * N - 1

(* The function f, each value evaluated once.                              *)
Table(f) == CHOOSE g \in {f} : g = f
-----------------------------------------------------------------------------
(* The products of SU(2), entry by entry: what each adds up.               *)
Unrolled(mult(_, _), a, b, table) ==
  Table([k \in Entries(2) |-> LET t == table[k + 1] IN cadd(mult(a[t[1]], b[t[2]]), mult(a[t[3]], b[t[4]]))])

mul_2x2(a, b) ==
  Unrolled(cmul, a, b, <<<<0, 0, 1, 2>>, <<0, 1, 1, 3>>, <<2, 0, 3, 2>>, <<2, 1, 3, 3>>>>)

mul_adj_2x2(a, b) ==
  Unrolled(cmul_b_conj, a, b, <<<<0, 0, 1, 1>>, <<0, 2, 1, 3>>, <<2, 0, 3, 1>>, <<2, 2, 3, 3>>>>)

Wrongadj_mul_2x2(a, b) ==
  Unrolled(cmul_a_conj, a, b, <<<<0, 0, 1, 1>>, <<0, 1, 1, 3>>, <<2, 0, 3, 2>>, <<2, 1, 3, 3>>>>)

adj_mul_2x2(a, b) ==
  Unrolled(cmul_a_conj, a, b, <<<<0, 0, 2, 2>>, <<0, 1, 2, 3>>, <<1, 0, 3, 2>>, <<1, 1, 3, 3>>>>)

(* Of SU(3): loops over the entries.                                       *)
Looped(N, Term(_, _, _)) ==
  Table([e \in Entries(N) |-> CSum(0 .. N - 1, LAMBDA k : Term(e \div N, e % N, k))])

mul_3x3(a, b) == Looped(3, LAMBDA i, j, k : cmul(a[3 * i + k], b[3 * k + j]))
mul_adj_3x3(a, b) == Looped(3, LAMBDA i, j, k : cmul_b_conj(a[3 * i + k], b[3 * j + k]))
adj_mul_3x3(a, b) == Looped(3, LAMBDA i, j, k : cmul_a_conj(a[3 * k + i], b[3 * k + j]))

(* Batches: entry by entry, each for all lanes; some add to what is there. *)
Batched(N, Term(_, _, _, _), lanes) ==
  [e \in Entries(N) |-> [l \in lanes |-> CSum(0 .. N - 1, LAMBDA k : Term(e \div N, e % N, k, l))]]

mul_batched(N, a, b, lanes) ==
  Batched(N, LAMBDA i, j, k, l : cmul(a[N * i + k][l], b[N * k + j][l]), lanes)

mul_adj_batched(N, acc, out, a, b, lanes) ==
  LET c == Batched(N, LAMBDA i, j, k, l : cmul_b_conj(a[N * i + k][l], b[N * j + k][l]), lanes)
  IN  IF acc THEN [e \in Entries(N) |-> [l \in lanes |-> cadd(out[e][l], c[e][l])]] ELSE c

adj_mul_batched(N, acc, out, a, b, lanes) ==
  LET c == Batched(N, LAMBDA i, j, k, l : cmul_a_conj(a[N * k + i][l], b[N * k + j][l]), lanes)
  IN  IF acc THEN [e \in Entries(N) |-> [l \in lanes |-> cadd(out[e][l], c[e][l])]] ELSE c

mul_2x2_batched(a, b, lanes) == mul_batched(2, a, b, lanes)
mul_adj_2x2_batched(acc, out, a, b, lanes) == mul_adj_batched(2, acc, out, a, b, lanes)
adj_mul_2x2_batched(acc, out, a, b, lanes) == adj_mul_batched(2, acc, out, a, b, lanes)

retr(N, m) == SumOver(0 .. N - 1, LAMBDA i : m[(N + 1) * i][1])

retr_mul_adj(N, x, y) == SumOver(Entries(N), LAMBDA k : x[k][1] * y[k][1] + x[k][2] * y[k][2])
-----------------------------------------------------------------------------
(* The local update (wilson_local.hpp).  Of U(1), 1 x 1.                   *)
TraceSum(N, a, b) ==
  SumOver(0 .. N - 1, LAMBDA i : SumOver(0 .. N - 1, LAMBDA j :
    a[N * i + j][1] * b[N * j + i][1] - a[N * i + j][2] * b[N * j + i][2]))

u1_local_ops(a, b) ==
  LET one(z) == [e \in Entries(1) |-> z]
  IN  [mm |-> one(cmul(a[0], b[0])), mmd |-> one(cmul_b_conj(a[0], b[0])), mdm |-> one(cmul_a_conj(a[0], b[0])),
       re_tr_mm |-> a[0][1] * b[0][1] - a[0][2] * b[0][2]]

su2_local_ops(a, b) ==
  [mm |-> mul_2x2(a, b), mmd |-> mul_adj_2x2(a, b), mdm |-> adj_mul_2x2(a, b), re_tr_mm |-> TraceSum(2, a, b)]

su3_local_ops(a, b) ==
  [mm |-> mul_3x3(a, b), mmd |-> mul_adj_3x3(a, b), mdm |-> adj_mul_3x3(a, b), re_tr_mm |-> TraceSum(3, a, b)]

gauge_local_ops(N, a, b) ==
  CASE N = 1 -> u1_local_ops(a, b) [] N = 2 -> su2_local_ops(a, b) [] OTHER -> su3_local_ops(a, b)

(* u has the links around in one plane: nu_s, nu_pmu, mu_pnu, mu_mnu,      *)
(* nu_mnu, nu_pmu_mnu.                                                     *)
local_staple(N, u) ==
  LET fwd == gauge_local_ops(N, gauge_local_ops(N, u.nu_pmu, u.mu_pnu).mmd, u.nu_s).mmd
      bwd == gauge_local_ops(N, gauge_local_ops(N, u.mu_mnu, u.nu_pmu_mnu).mm, u.nu_mnu).mdm
  IN  Table([e \in Entries(N) |-> cadd(fwd[e], bwd[e])])

(* In units of -beta / N.                                                  *)
local_ds(N, u, link, prop) ==
  LET staple == local_staple(N, u)
  IN  gauge_local_ops(N, prop, staple).re_tr_mm - gauge_local_ops(N, link, staple).re_tr_mm
-----------------------------------------------------------------------------
(* The traceless antihermitian part, times 2 for SU(2), times 6 for SU(3). *)
traceless_antiherm_2x2(m) ==
  LET diag == m[0][2] - m[3][2]
      re == m[1][1] - m[2][1]
      im == m[1][2] + m[2][2]
  IN  [k \in Entries(2) |-> CASE k = 0 -> <<0, diag>> [] k = 1 -> <<re, im>>
                              [] k = 2 -> <<-re, im>> [] OTHER -> <<0, -diag>>]

traceless_antiherm_3x3(m) ==
  LET t == m[0][2] + m[4][2] + m[8][2]
      upper(i, j) == <<3 * (m[3 * i + j][1] - m[3 * j + i][1]), 3 * (m[3 * i + j][2] + m[3 * j + i][2])>>
  IN  [k \in Entries(3) |->
        LET i == k \div 3
            j == k % 3
        IN  CASE i = j -> <<0, 6 * m[k][2] - 2 * t>>
              [] i < j -> upper(i, j)
              [] OTHER -> <<-upper(j, i)[1], upper(j, i)[2]>>]

(* The momentum of the coordinates h; the last of SU(3) in units of        *)
(* sqrt 3.                                                                 *)
pack_algebra_2(h) ==
  [k \in Entries(2) |-> CASE k = 0 -> <<0, h[3]>> [] k = 1 -> <<h[2], h[1]>>
                          [] k = 2 -> <<-h[2], h[1]>> [] OTHER -> <<0, -h[3]>>]

pack_algebra_3(h) ==
  [k \in Entries(3) |->
     CASE k = 0 -> <<0, h[3] + h[8]>> [] k = 4 -> <<0, -h[3] + h[8]>> [] k = 8 -> <<0, -2 * h[8]>>
       [] k = 1 -> <<h[2], h[1]>> [] k = 3 -> <<-h[2], h[1]>>
       [] k = 2 -> <<h[5], h[4]>> [] k = 6 -> <<-h[5], h[4]>>
       [] k = 5 -> <<h[7], h[6]>> [] OTHER -> <<-h[7], h[6]>>]

(* Tr P'P from the stored numbers: of SU(2) three of the eight.            *)
kinetic_2(p) == 2 * (p[1][2] * p[1][2] + p[1][1] * p[1][1] + p[0][2] * p[0][2])
kinetic_3(p) == SumOver(Entries(3), LAMBDA k : p[k][1] * p[k][1] + p[k][2] * p[k][2])

(* Batches: the entries above the diagonal with those below them.          *)
traceless_antiherm_2x2_batched(m, lanes) ==
  LET diag_im(b) == m[0][b][2] - m[3][b][2]
      re01(b) == m[1][b][1] - m[2][b][1]
      im01(b) == m[1][b][2] + m[2][b][2]
  IN  [k \in Entries(2) |-> [b \in lanes |-> <<<<0, diag_im(b)>>, <<re01(b), im01(b)>>,
                                             <<-re01(b), im01(b)>>, <<0, -diag_im(b)>>>>[k + 1]]]

traceless_antiherm_3x3_batched(m, lanes) ==
  LET t(b) == m[0][b][2] + m[4][b][2] + m[8][b][2]
      below == [k \in {1, 2, 5} |-> CASE k = 1 -> 3 [] k = 2 -> 6 [] OTHER -> 7]
      part(k, j, b) == <<3 * (m[k][b][1] - m[j][b][1]), 3 * (m[k][b][2] + m[j][b][2])>>
      entry(k, b) ==
        IF k \in {0, 4, 8} THEN <<0, 6 * m[k][b][2] - 2 * t(b)>>
        ELSE IF k \in DOMAIN below THEN part(k, below[k], b)
        ELSE LET above == CHOOSE i \in DOMAIN below : below[i] = k
             IN  <<-part(above, k, b)[1], part(above, k, b)[2]>>
  IN  [k \in Entries(3) |-> [b \in lanes |-> entry(k, b)]]
-----------------------------------------------------------------------------
(* The exponential.  Of SU(2): cos and sin / |h| are given as c and gamma. *)
expi_su2(p, c, gamma) ==
  LET h3 == p[0][2]
      h2 == p[1][1]
      h1 == p[1][2]
  IN  [k \in Entries(2) |-> CASE k = 0 -> <<c, gamma * h3>> [] k = 1 -> <<gamma * h2, gamma * h1>>
                              [] k = 2 -> <<-gamma * h2, gamma * h1>> [] OTHER -> <<c, -gamma * h3>>]

(* Q = -i P, by a swap of the stored numbers.                              *)
Hermitian(p) == [k \in Entries(3) |-> <<p[k][2], -p[k][1]>>]

(* Its invariants: Tr Q^2 / 2 and the determinant (by minors in the slabs, *)
(* as Tr Q^3, three times it, for a single link).                          *)
c1Of(q) == SumOver(Entries(3), LAMBDA k : q[k][1] * q[k][1] + q[k][2] * q[k][2]) \div 2

c0Of(q) ==
  LET minor(a, b, c, d) == csub(cmul(q[a], q[b]), cmul(q[c], q[d]))
  IN  cmul(q[0], minor(4, 8, 5, 7))[1] - cmul(q[1], minor(3, 8, 5, 6))[1] + cmul(q[2], minor(3, 7, 4, 6))[1]

tr_q3(q) ==
  LET q2 == mul_3x3(q, q)
  IN  SumOver(Entries(3), LAMBDA k : q2[k][1] * q[3 * (k % 3) + (k \div 3)][1] - q2[k][2] * q[3 * (k % 3) + (k \div 3)][2])

(* The coefficients, times den; t is [u, w2, cu, su, cw, xi].              *)
ch_coeff(t, c2u, s2u) ==
  LET u2 == t.u * t.u
      inner0 == 2 * t.u * (3 * u2 + t.w2) * t.xi
      inner1 == <<2 * t.u * t.cw, -(3 * u2 - t.w2) * t.xi>>
      inner2 == <<t.cw, 3 * t.u * t.xi>>
      turned(z) == <<t.cu * z[1] + t.su * z[2], t.cu * z[2] - t.su * z[1]>>
  IN  <<cadd(<<(u2 - t.w2) * c2u, (u2 - t.w2) * s2u>>,
             <<t.cu * (8 * u2 * t.cw) + t.su * inner0, -(t.su * (8 * u2 * t.cw)) + t.cu * inner0>>),
        csub(<<2 * t.u * c2u, 2 * t.u * s2u>>, turned(inner1)),
        csub(<<c2u, s2u>>, turned(inner2))>>

(* In the slabs the double angle comes from the single one.                *)
ch_coeff_pass_(t) == ch_coeff(t, t.cu * t.cu - t.su * t.su, 2 * t.cu * t.su)

(* V = f0 + f1 Q + f2 Q^2.                                                 *)
FromCoefficients(f, q) ==
  LET q2 == mul_3x3(q, q)
  IN  [k \in Entries(3) |->
        cadd(cadd(cmul(f[2], q[k]), cmul(f[3], q2[k])), IF k \in {0, 4, 8} THEN f[1] ELSE <<0, 0>>)]

(* Small Q, times 6: the series of the single link, and the coefficients   *)
(* the slabs blend in.                                                     *)
Taylor(q) ==
  LET q2 == mul_3x3(q, q)
      q3 == mul_3x3(q2, q)
  IN  [k \in Entries(3) |->
        cadd(cadd(times(-3, q2[k]), IF k \in {0, 4, 8} THEN <<6, 0>> ELSE <<0, 0>>),
             cadd(times(6, <<-q[k][2], q[k][1]>>), <<q3[k][2], -q3[k][1]>>))]

SmallCoefficients(q) == <<<<6, -c0Of(q)>>, <<0, 6 - c1Of(q)>>, <<-3, 0>>>>
-----------------------------------------------------------------------------
(* Back to the group.  [rows, squares]: row i is rows[i] over the root of  *)
(* squares[i].  SU(2): the quaternion average, doubled.                    *)
project_su2(m) ==
  LET a == cadd(m[0], conj(m[3]))
      b == csub(m[1], conj(m[2]))
      n_sq == cmul_b_conj(a, a)[1] + cmul_b_conj(b, b)[1]
  IN  IF n_sq = 0 THEN [rows |-> <<<<<<1, 0>>, <<0, 0>>>>, <<<<0, 0>>, <<1, 0>>>>>>, squares |-> <<1, 1>>]
      ELSE [rows |-> <<<<a, b>>, <<times(-1, conj(b)), conj(a)>>>>, squares |-> <<n_sq, n_sq>>]

(* SU(3): the rows in turn, the second times the square of the first, the  *)
(* third their conjugate cross product.                                    *)
project_su3(m) ==
  LET r0 == [j \in 1 .. 3 |-> m[j - 1]]
      raw == [j \in 1 .. 3 |-> m[2 + j]]
      sq(r) == SumOver(1 .. 3, LAMBDA j : cmul_a_conj(r[j], r[j])[1])
      dot == CSum(1 .. 3, LAMBDA j : cmul_a_conj(r0[j], raw[j]))
      r1 == [j \in 1 .. 3 |-> csub(times(sq(r0), raw[j]), cmul(dot, r0[j]))]
      cross(i, j) == conj(csub(cmul(r0[i], r1[j]), cmul(r0[j], r1[i])))
  IN  [rows |-> <<r0, r1, <<cross(2, 3), cross(3, 1), cross(1, 2)>>>>,
       squares |-> <<sq(r0), sq(r1), sq(r0) * sq(r1)>>]
=============================================================================
