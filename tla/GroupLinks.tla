----------------------------- MODULE GroupLinks -----------------------------
(***************************************************************************)
(* What a trajectory does to the links: the momenta drawn, their square,   *)
(* the kicks and drifts of the integrators, U <- exp(dt P) U by slabs.     *)
(* Numbers are the terms that compute them; N is 1, 2 or 3.                *)
(***************************************************************************)
EXTENDS DeviceKernels

NGen(N) == CASE N = 1 -> 1 [] N = 2 -> 3 [] OTHER -> 8

(* Coefficients: halves of dt, rho dt, lambda dt and theta dt.             *)
Kick(coef) == <<[op |-> "kick", coef |-> coef]>>
Drift(coef) == <<[op |-> "drift", coef |-> coef]>>

Leapfrog(n_md) ==
  LET dt == <<2, 0, 0, 0>>
      half_dt == <<1, 0, 0, 0>>
  IN  Kick(half_dt) \o Each(0, n_md, LAMBDA step :
        Drift(dt) \o Kick(IF step + 1 < n_md THEN dt ELSE half_dt))

Omelyan2(n_md) ==
  LET dt_h == <<1, 0, 0, 0>>
      dt_lam == <<0, 0, 2, 0>>
      dt_2lam == <<0, 0, 4, 0>>
      dt_mid == <<2, 0, -4, 0>>
  IN  Kick(dt_lam) \o Each(0, n_md, LAMBDA step :
        Drift(dt_h) \o Kick(dt_mid) \o Drift(dt_h) \o Kick(IF step + 1 < n_md THEN dt_2lam ELSE dt_lam))

WrongOmelyan4(n_md) ==
  LET dt_rho == <<0, 2, 0, 0>>
      dt_lam == <<0, 0, 2, 0>>
      dt_theta == <<0, 0, 0, 2>>
      dt_mu == <<1, 0, 0, -2>>
      dt_mid == <<2, -4, -4, 0>>
  IN  Kick(dt_rho) \o Each(0, n_md, LAMBDA step :
        Drift(dt_theta) \o Kick(dt_lam) \o Drift(dt_mu) \o Kick(dt_mid) \o Drift(dt_mu)
          \o Kick(dt_lam) \o Drift(dt_theta) \o Kick(dt_rho))

Omelyan4(n_md) ==
  LET dt_rho == <<0, 2, 0, 0>>
      dt_2rho == <<0, 4, 0, 0>>
      dt_lam == <<0, 0, 2, 0>>
      dt_theta == <<0, 0, 0, 2>>
      dt_mu == <<1, 0, 0, -2>>
      dt_mid == <<2, -4, -4, 0>>
  IN  Kick(dt_rho) \o Each(0, n_md, LAMBDA step :
        Drift(dt_theta) \o Kick(dt_lam) \o Drift(dt_mu) \o Kick(dt_mid) \o Drift(dt_mu)
          \o Kick(dt_lam) \o Drift(dt_theta) \o Kick(IF step + 1 < n_md THEN dt_2rho ELSE dt_rho))

Integrator(name, n_md) ==
  CASE name = "Leapfrog" -> Leapfrog(n_md) [] name = "Omelyan2" -> Omelyan2(n_md) [] OTHER -> Omelyan4(n_md)
-----------------------------------------------------------------------------
(* Momenta.  All the first coordinates of the slab are drawn from its      *)
(* stream, at position pos, then all the second ones.                      *)
sample_algebra_slab(N, stream, pos, cnt, s) ==
  [a \in 1 .. NGen(N) |-> <<stream, pos + (a - 1) * cnt + s>>]

(* fill_gaussian for direction mu: item i of the partition, stream i.      *)
fill_gaussian(N, M, mu, i, base, cnt) ==
  LET pos == Holds(M, <<"stream", i>>, 0)
  IN  Each(0, cnt, LAMBDA s : <<Put(<<"mom", mu, base + s>>, sample_algebra_slab(N, <<"stream", i>>, pos, cnt, s))>>)
        \o <<Put(<<"stream", i>>, pos + NGen(N) * cnt)>>

(* By counters instead: half of a pair by key, pair number.                *)
Philox(key, pair, half) == <<key, pair, half>>

sample_algebra_philox_range(N, key, mu, base, cnt) ==
  LET pairs == Ceil(NGen(N), 2)
  IN  Each(base, base + cnt, LAMBDA s :
        <<Put(<<"mom", mu, s>>,
              [a \in 1 .. NGen(N) |-> Philox(<<key, mu>>, s * pairs + (a - 1) \div 2, (a - 1) % 2)])>>)

su_sample_algebra_kernel(sh, N, traj, tid) ==
  LET pair0 == tid * Ceil(NGen(N), 2)
  IN  <<Put(<<"mom", LinkDir(sh, tid), LinkSite(sh, tid)>>,
            [a \in 1 .. NGen(N) |-> Philox(traj, pair0 + (a - 1) \div 2, (a - 1) % 2)])>>

(* A momentum as it is now: which link, how often written.                 *)
MomentumOf(M, mu, s) == <<mu, s, Len(Written(M, <<"mom", mu, s>>))>>

(* Blocks of B links lane by lane, then the tail.                          *)
kinetic_range(B, M, mu, base, cnt) ==
  EachBatched(cnt, B, LAMBDA s : <<MomentumOf(M, mu, base + s)>>)
-----------------------------------------------------------------------------
(* The exponential of one link: term by term.                              *)
exp_su2(p) ==
  LET h == <<"norm", p>>
      beta == <<"times dt", h>>
  IN  <<"V", <<"cos", beta>>, <<"sin", beta>>, h, p>>

exp_su3(p) ==
  LET c1 == <<"c1", p>>
      c0 == <<"c0", p>>
      third == <<"third", <<"acos", <<"ratio", c0, c1>>>>>>
      u == <<"sqrt c1/3", c1, <<"cos", third>>>>
      w == <<"sqrt c1", c1, <<"sin", third>>>>
      f(k, part) == <<part, k, u, w, <<"cos", u>>, <<"sin", u>>, <<"cos", w>>, <<"sin", w>>, c0, c1>>
  IN  <<"V", f(0, "re"), f(0, "im"), f(1, "re"), f(1, "im"), f(2, "re"), f(2, "im"), p>>

(* The scratch of a slab: S[buffer] is one term per link of the range,     *)
(* numbered from 0; the passes overwrite.                                  *)
Stale(buffers, cnt) == [buffer \in buffers |-> [s \in 0 .. cnt - 1 |-> "stale"]]

Pass(S, dst, Term(_)) == [S EXCEPT ![dst] = [s \in DOMAIN S[dst] |-> Term(s)]]

sincos_batch(S, sin_dst, cos_dst, src) ==
  [S EXCEPT ![sin_dst] = [s \in DOMAIN S[src] |-> <<"sin", S[src][s]>>],
            ![cos_dst] = [s \in DOMAIN S[src] |-> <<"cos", S[src][s]>>]]

su2_expi_lmul_range(p, base, cnt) ==
  LET S0 == Stale({"beta", "h", "coords", "sin", "cos"}, cnt)
      S1 == Pass(S0, "h", LAMBDA s : <<"norm", p[base + s]>>)
      S2 == Pass(S1, "beta", LAMBDA s : <<"times dt", S1["h"][s]>>)
      S3 == Pass(S2, "coords", LAMBDA s : p[base + s])
      S == sincos_batch(S3, "sin", "cos", "beta")
  IN  [g \in base .. base + cnt - 1 |->
        <<"V", S["cos"][g - base], S["sin"][g - base], S["h"][g - base], S["coords"][g - base]>>]

(* Pass 1 of SU(3).                                                        *)
Invariants(S0, p, base) ==
  LET S1 == Pass(S0, "c1", LAMBDA s : <<"c1", p[base + s]>>)
      S2 == Pass(S1, "c0", LAMBDA s : <<"c0", p[base + s]>>)
      S3 == Pass(S2, "ratio", LAMBDA s : <<"ratio", S2["c0"][s], S2["c1"][s]>>)
      S4 == Pass(S3, "sqrt_c1_3", LAMBDA s : S3["c1"][s])
  IN  Pass(S4, "sqrt_c1", LAMBDA s : S4["c1"][s])

(* Passes 2 to 4: the angles, in buffers used again.                       *)
Angles(S1) ==
  LET S2 == Pass(S1, "theta", LAMBDA s : <<"acos", S1["ratio"][s]>>)
      S3 == Pass(S2, "t3", LAMBDA s : <<"third", S2["theta"][s]>>)
      S4 == sincos_batch(S3, "s_t3", "theta", "t3")
      S5 == Pass(S4, "u", LAMBDA s : <<"sqrt c1/3", S4["sqrt_c1_3"][s], S4["theta"][s]>>)
      S6 == Pass(S5, "w", LAMBDA s : <<"sqrt c1", S5["sqrt_c1"][s], S5["s_t3"][s]>>)
      S7 == sincos_batch(S6, "su", "cu", "u")
  IN  sincos_batch(S7, "sw", "cw", "w")

(* Pass 4.5: f0, f1 and f2 over buffers that are no longer read.           *)
ch_coeff_slabs(S) ==
  LET f(k, part, s) == <<part, k, S["u"][s], S["w"][s], S["cu"][s], S["su"][s], S["cw"][s], S["sw"][s],
                         S["c0"][s], S["c1"][s]>>
      over == [ratio |-> <<0, "re">>, theta |-> <<0, "im">>, t3 |-> <<1, "re">>,
               sqrt_c1_3 |-> <<1, "im">>, sqrt_c1 |-> <<2, "re">>, s_t3 |-> <<2, "im">>]
  IN  [buffer \in DOMAIN S |->
         IF buffer \in DOMAIN over
         THEN [s \in DOMAIN S[buffer] |-> f(over[buffer][1], over[buffer][2], s)]
         ELSE S[buffer]]

SU3Buffers == {"ratio", "theta", "t3", "sqrt_c1_3", "sqrt_c1", "c0", "u", "w", "cu", "su", "cw", "sw", "s_t3", "c1"}

su3_expi_lmul_range(p, base, cnt) ==
  LET links(S) ==
        [g \in base .. base + cnt - 1 |->
           LET s == g - base
           IN  <<"V", S["ratio"][s], S["theta"][s], S["t3"][s], S["sqrt_c1_3"][s],
                 S["sqrt_c1"][s], S["s_t3"][s], p[g]>>]
  IN  links(ch_coeff_slabs(Angles(Invariants(Stale(SU3Buffers, cnt), p, base))))

(* An angle is moved by dt p.                                              *)
u1_expi_lmul_range(p, base, cnt) == [g \in base .. base + cnt - 1 |-> <<"plus", p[g]>>]

(* The drift of a range, all directions; batch by batch, then the tail.    *)
drift_field(sh, N, B, M, coef, base, cnt) ==
  Each(1, Len(sh) + 1, LAMBDA mu :
    LET p == [s \in base .. base + cnt - 1 |-> <<coef, MomentumOf(M, mu, s)>>]
        moved(V) == EachBatched(cnt, B, LAMBDA s : <<Put(<<"field", mu, base + s>>, V[base + s])>>)
    IN  moved(CASE N = 1 -> u1_expi_lmul_range(p, base, cnt)
                [] N = 2 -> su2_expi_lmul_range(p, base, cnt)
                [] OTHER -> su3_expi_lmul_range(p, base, cnt)))

Exponential(N, p) == CASE N = 1 -> <<"plus", p>> [] N = 2 -> exp_su2(p) [] OTHER -> exp_su3(p)

su_expi_lmul_kernel(sh, N, M, coef, tid) ==
  LET mu == LinkDir(sh, tid)
      x == LinkSite(sh, tid)
  IN  <<Put(<<"field", mu, x>>, Exponential(N, <<coef, MomentumOf(M, mu, x)>>))>>

(* mom += coef force, of a range and of a thread.                          *)
Kicked(M, coef, mu, s) == Put(<<"mom", mu, s>>, <<coef, Holds(M, <<"force", mu, s>>, {})>>)

kick_add(sh, M, coef, base, cnt) ==
  Each(1, Len(sh) + 1, LAMBDA mu : Each(base, base + cnt, LAMBDA s : <<Kicked(M, coef, mu, s)>>))

axpy_kernel(sh, M, coef, tid) == <<Kicked(M, coef, LinkDir(sh, tid), LinkSite(sh, tid))>>

(* A force by the links it was computed from, and how often each had been  *)
(* moved.                                                                  *)
Seen(M, reads) == {<<c, Len(Written(M, c))>> : c \in reads}

ForcesSeen(M, puts) == [k \in DOMAIN puts |-> Put(puts[k].cell, Seen(M, LinksOf(puts[k].val)))]
=============================================================================
