--------------------------- MODULE GroupTextbook ----------------------------
(***************************************************************************)
(* What the operators of GroupAlgebra have to be, by definition.           *)
(***************************************************************************)
EXTENDS GroupAlgebra, Sequences

Product(N, x, y) ==
  Table([e \in Entries(N) |-> CSum(0 .. N - 1, LAMBDA k : cmul(x[N * (e \div N) + k], y[N * k + (e % N)]))])
Dagger(N, x) == Table([e \in Entries(N) |-> conj(x[N * (e % N) + (e \div N)])])
Identity(N) == [e \in Entries(N) |-> IF e % (N + 1) = 0 THEN <<1, 0>> ELSE <<0, 0>>]
Scaled(k, x) == [e \in DOMAIN x |-> times(k, x[e])]
TimesComplex(z, x) == [e \in DOMAIN x |-> cmul(z, x[e])]
Plus(x, y) == Table([e \in DOMAIN x |-> cadd(x[e], y[e])])
Trace(N, x) == CSum(0 .. N - 1, LAMBDA i : x[(N + 1) * i])

(* Pauli and Gell-Mann, the last one times sqrt 3, as <<entry, value>>.    *)
Generators(N) ==
  LET sparse(S) == [e \in Entries(N) |-> IF \E v \in S : v[1] = e THEN (CHOOSE v \in S : v[1] = e)[2] ELSE <<0, 0>>]
      pair(a, b) == <<sparse({<<a, <<1, 0>>>>, <<b, <<1, 0>>>>}), sparse({<<a, <<0, -1>>>>, <<b, <<0, 1>>>>})>>
      third == <<sparse({<<0, <<1, 0>>>>, <<N + 1, <<-1, 0>>>>})>>
  IN  IF N = 2 THEN pair(1, 2) \o third
      ELSE pair(1, 3) \o third \o pair(2, 6) \o pair(5, 7)
             \o <<sparse({<<0, <<1, 0>>>>, <<4, <<1, 0>>>>, <<8, <<-2, 0>>>>})>>

Lanes(x, y) == [e \in DOMAIN x |-> <<x[e], y[e]>>]

ProductsExact(N, a, b) ==
  LET ab == Product(N, a, b)
      abD == Product(N, a, Dagger(N, b))
      aDb == Product(N, Dagger(N, a), b)
      lanes == {1, 2}
      both == Lanes(a, b)
      swapped == Lanes(b, a)
      of(P(_, _)) == Lanes(P(a, b), P(b, a))
      added(x) == [e \in Entries(N) |-> <<cadd(both[e][1], x[e][1]), cadd(both[e][2], x[e][2])>>]
      withAdj == of(LAMBDA x, y : Product(N, x, Dagger(N, y)))
      adjWith == of(LAMBDA x, y : Product(N, Dagger(N, x), y))
  IN  /\ N = 2 => mul_2x2(a, b) = ab /\ mul_adj_2x2(a, b) = abD /\ adj_mul_2x2(a, b) = aDb
      /\ N = 3 => mul_3x3(a, b) = ab /\ mul_adj_3x3(a, b) = abD /\ adj_mul_3x3(a, b) = aDb
      /\ mul_batched(N, both, swapped, lanes) = of(LAMBDA x, y : Product(N, x, y))
      /\ mul_adj_batched(N, FALSE, both, both, swapped, lanes) = withAdj
      /\ mul_adj_batched(N, TRUE, both, both, swapped, lanes) = added(withAdj)
      /\ adj_mul_batched(N, FALSE, both, both, swapped, lanes) = adjWith
      /\ adj_mul_batched(N, TRUE, both, both, swapped, lanes) = added(adjWith)
      /\ retr_mul_adj(N, a, b) = retr(N, abD)

AlgebraMapsExact(N, m, h) ==
  LET anti == Plus(m, Scaled(-1, Dagger(N, m)))
      part == IF N = 2 THEN Scaled(2, traceless_antiherm_2x2(m)) ELSE traceless_antiherm_3x3(m)
      p == IF N = 2 THEN pack_algebra_2(h) ELSE pack_algebra_3(h)
      norm == SumOver(DOMAIN Generators(N), LAMBDA a : (IF a = 8 THEN 3 ELSE 1) * h[a] * h[a])
      lanes == Lanes(m, Dagger(N, m))
      batched == IF N = 2 THEN traceless_antiherm_2x2_batched(lanes, {1, 2}) ELSE traceless_antiherm_3x3_batched(lanes, {1, 2})
      one(x) == IF N = 2 THEN traceless_antiherm_2x2(x) ELSE traceless_antiherm_3x3(x)
  IN  /\ batched = Lanes(one(m), one(Dagger(N, m)))
      /\ part = Plus(Scaled(N, anti), TimesComplex(times(-1, Trace(N, anti)), Identity(N)))
      /\ \A e \in Entries(N) : p[e] = CSum(DOMAIN Generators(N), LAMBDA a : cmul(<<0, h[a]>>, Generators(N)[a][e]))
      /\ (IF N = 2 THEN kinetic_2(p) ELSE kinetic_3(p)) = 2 * norm

(* The change of the traces of the plaquettes through a link in one plane, *)
(* written out.                                                            *)
LocalExact(N, a, b) ==
  LET at(k) == Plus(Scaled(k, a), Product(N, b, Dagger(N, a)))
      u == [nu_s |-> a, nu_pmu |-> b, mu_pnu |-> at(1), mu_mnu |-> at(2), nu_mnu |-> Dagger(N, b), nu_pmu_mnu |-> at(-1)]
      link == at(3)
      prop == Product(N, a, b)
      loop(w, x, y, z) == Trace(N, Product(N, Product(N, w, x), Product(N, Dagger(N, y), Dagger(N, z))))[1]
      both(l) == loop(l, u.nu_pmu, u.mu_pnu, u.nu_s) + loop(u.mu_mnu, u.nu_pmu_mnu, l, u.nu_mnu)
      change(before, after) == local_ds(N, u, before, after) = both(after) - both(before)
  IN  change(link, prop)

(* t.xi stands for sin w / w, so that w xi is the sine.                    *)
ExponentialExact(N, h, t, w) ==
  LET q == Hermitian(pack_algebra_3(h))
      q3 == Product(3, q, Product(3, q, q))
      f == ch_coeff_pass_(t)
      e2u == cmul(<<t.cu, t.su>>, <<t.cu, t.su>>)
      at(x) == cadd(f[1], cadd(times(x, f[2]), times(x * x, f[3])))
      other(k) == cmul(<<t.cu, -t.su>>, <<t.cw, k * w * t.xi>>)
      den == 9 * t.u * t.u - w * w
  IN  /\ N = 2 => expi_su2(pack_algebra_2(h), t.cu, t.su)
                     = Plus(Scaled(t.cu, Identity(2)), Scaled(t.su, pack_algebra_2(h)))
      /\ N = 3 =>
           /\ q3 = Plus(Scaled(c1Of(q), q), Scaled(c0Of(q), Identity(3)))
           /\ tr_q3(q) = 3 * c0Of(q)
           /\ Taylor(q) = FromCoefficients(SmallCoefficients(q), q)
           /\ at(2 * t.u) = times(den, e2u)
           /\ at(w - t.u) = times(den, other(1))
           /\ at(-w - t.u) = times(den, other(-1))

(* Rows orthogonal, of the stated squares, of positive determinant.        *)
InGroup(N, p) ==
  LET row(i) == p.rows[i]
      dot(i, j) == CSum(1 .. N, LAMBDA k : cmul_a_conj(row(i)[k], row(j)[k]))
      det2(i, j, a, b) == csub(cmul(row(i)[a], row(j)[b]), cmul(row(i)[b], row(j)[a]))
      det == IF N = 2 THEN det2(1, 2, 1, 2)
             ELSE CSum({<<1, 2, 3>>, <<2, 3, 1>>, <<3, 1, 2>>},
                       LAMBDA c : cmul(row(1)[c[1]], det2(2, 3, c[2], c[3])))
      regular == \A i \in 1 .. N : p.squares[i] > 0
  IN  /\ N = 2 => regular
      /\ regular =>
           /\ \A i, j \in 1 .. N : dot(i, j) = (IF i = j THEN <<p.squares[i], 0>> ELSE <<0, 0>>)
           /\ det[1] > 0 /\ det[2] = 0

ProjectionExact(N, m) == InGroup(N, IF N = 2 THEN project_su2(m) ELSE project_su3(m))
=============================================================================
