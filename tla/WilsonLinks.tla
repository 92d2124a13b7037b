---------------------------- MODULE WilsonLinks -----------------------------
(***************************************************************************)
(* The Wilson kernels of the host (action/gauge/formula/wilson_su2.hpp,    *)
(* wilson_su3.hpp and wilson_u1.hpp).  A product of links is a word, a sum *)
(* of products a sequence of words in the order they are added.  A kernel  *)
(* returns its writes, in order: the cell and the value.                   *)
(***************************************************************************)
EXTENDS NnStencil

Put(cell, val) == [cell |-> cell, val |-> val]

U(mu, s) == <<[mu |-> mu, site |-> s, dag |-> FALSE]>>

Adj(a) == [i \in DOMAIN a |-> [a[Len(a) + 1 - i] EXCEPT !.dag = ~@]]
Mul(a, b) == a \o b
MulAdj(a, b) == a \o Adj(b)
AdjMul(a, b) == Adj(a) \o b

(* The plaquette of the plane mu, nu at s.                                 *)
plaq(mu, nu, s, s_pmu, s_pnu) == MulAdj(Mul(U(mu, s), U(nu, s_pmu)), Mul(U(nu, s), U(mu, s_pnu)))
-----------------------------------------------------------------------------
(* Neighbours by row: a coordinate of row r, and the neighbours of a site  *)
(* by the offsets of row r, which need not be the row the site is in.      *)
Digit(sh, r, j) == (r \div Volume(sh, 2 .. j - 1)) % sh[j]

nxt(sh, r, s, x, j) ==
  CASE j = 1 -> IF x + 1 = sh[1] THEN s - (sh[1] - 1) ELSE s + 1
    [] Digit(sh, r, j) + 1 < sh[j] -> s + Stride(sh, j)
    [] OTHER -> s - (sh[j] - 1) * Stride(sh, j)

Wrongprv(sh, r, s, x, j) ==
  CASE j = 1 -> IF x = 0 THEN r * sh[1] + (sh[1] - 1) ELSE r * sh[1] + x - 1
    [] Digit(sh, r, j) > 0 -> s - Stride(sh, j)
    [] OTHER -> s + (sh[j] - 1) * Stride(sh, j)

prv(sh, r, s, x, j) ==
  CASE j = 1 -> IF x = 0 THEN s + (sh[1] - 1) ELSE s - 1
    [] Digit(sh, r, j) > 0 -> s - Stride(sh, j)
    [] OTHER -> s + (sh[j] - 1) * Stride(sh, j)

(* Rows base / l0 up to (base + cnt) / l0, whole ones.                     *)
EachRow(sh, base, cnt, Body(_)) == Each(base \div sh[1], (base \div sh[1]) + (cnt \div sh[1]), Body)

(* The batches of a row, lane by lane, then its remainder site by site.    *)
EachBatched(l0, B, Body(_)) ==
  Each(0, l0 \div B, LAMBDA k : Each(0, B, LAMBDA b : Body(k * B + b)))
    \o Each(l0 - (l0 % B), l0, Body)
-----------------------------------------------------------------------------
(* SU(2) and SU(3): the sum of one plane, batched.                         *)
s_full_plane_range(sh, B, mu, nu, base, cnt) ==
  EachRow(sh, base, cnt, LAMBDA r : EachBatched(sh[1], B, LAMBDA x :
    LET s == r * sh[1] + x
    IN  <<plaq(mu, nu, s, nxt(sh, r, s, x, mu), nxt(sh, r, s, x, nu))>>))

su2_s_full_plane_range(sh, B, mu, nu, base, cnt) == s_full_plane_range(sh, B, mu, nu, base, cnt)

FwdStaple(mu, nu, s, s_pmu, s_pnu) == MulAdj(MulAdj(U(nu, s_pmu), U(mu, s_pnu)), U(nu, s))

BwdStaple(mu, nu, s_mnu, s_pmu_mnu) == AdjMul(U(nu, s_pmu_mnu), AdjMul(U(mu, s_mnu), U(nu, s_mnu)))

(* U V for one link: over the other directions, both staples.              *)
force_one_site_(sh, r, mu, x) ==
  LET s == r * sh[1] + x
      s_pmu == nxt(sh, r, s, x, mu)
      staples(nu) ==
        IF nu = mu THEN <<>>
        ELSE <<FwdStaple(mu, nu, s, s_pmu, nxt(sh, r, s, x, nu)),
               BwdStaple(mu, nu, prv(sh, r, s, x, nu), prv(sh, r, s_pmu, x, nu))>>
      v == Each(1, Len(sh) + 1, staples)
  IN  <<Put(<<"force", mu, s>>, [k \in DOMAIN v |-> Mul(U(mu, s), v[k])])>>

compute_force_range(sh, B, base, cnt) ==
  EachRow(sh, base, cnt, LAMBDA r : Each(1, Len(sh) + 1, LAMBDA mu :
    EachBatched(sh[1], B, LAMBDA x : force_one_site_(sh, r, mu, x))))

su2_compute_force_range(sh, B, base, cnt) == compute_force_range(sh, B, base, cnt)
-----------------------------------------------------------------------------
(* U(1): the angles of the planes first, behind a barrier, then a gather   *)
(* over the links.                                                         *)
Planes(d) == SetToSortSeq({p \in (1 .. d) \X (1 .. d) : p[1] < p[2]},
                          LAMBDA p, q : p[1] < q[1] \/ (p[1] = q[1] /\ p[2] < q[2]))

(* The closed form of the position in the enumeration above, from 0.       *)
plane_idx(d, a, b) == FoldFunction(+, 0, [k \in 1 .. a - 1 |-> d - k]) + (b - a - 1)

plaq_fill_range_(sh, plane, base, cnt) ==
  LET a == Planes(Len(sh))[plane + 1][1]
      b == Planes(Len(sh))[plane + 1][2]
  IN  EachRow(sh, base, cnt, LAMBDA r : Each(0, sh[1], LAMBDA x :
        LET s == r * sh[1] + x
        IN  <<Put(<<"sinP", plane, s>>, plaq(a, b, s, nxt(sh, r, s, x, a), nxt(sh, r, s, x, b)))>>))

(* The force of a link, as plaquettes with their signs.                    *)
force_from_sinp_range_(sh, sinP, base, cnt) ==
  LET d == Len(sh)
      plane(mu, nu) == IF mu < nu THEN plane_idx(d, mu, nu) ELSE plane_idx(d, nu, mu)
      terms(mu, r, s, x) ==
        Each(1, d + 1, LAMBDA nu :
          LET sgn == IF mu < nu THEN 1 ELSE -1
          IN  IF nu = mu THEN <<>>
              ELSE <<[sgn |-> sgn, plaq |-> sinP[plane(mu, nu), s]],
                     [sgn |-> -sgn, plaq |-> sinP[plane(mu, nu), prv(sh, r, s, x, nu)]]>>)
  IN  Each(1, d + 1, LAMBDA mu : EachRow(sh, base, cnt, LAMBDA r : Each(0, sh[1], LAMBDA x :
        LET s == r * sh[1] + x
        IN  <<Put(<<"force", mu, s>>, terms(mu, r, s, x))>>)))

(* buf is the thread's own, indexed from the base of the range.            *)
u1_s_full_plane_range(sh, mu, nu, base, cnt) ==
  EachRow(sh, base, cnt, LAMBDA r : Each(0, sh[1], LAMBDA x :
    LET s == r * sh[1] + x
    IN  <<plaq(mu, nu, s, nxt(sh, r, s, x, mu), nxt(sh, r, s, x, nu))>>))
=============================================================================
