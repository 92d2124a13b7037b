---------------------------- MODULE DeviceKernels ---------------------------
(***************************************************************************)
(* The kernels of the device: one thread per site or per link, blocks of K *)
(* threads, the last block with threads that have nothing to do.  A thread *)
(* returns its writes; threads that update in place read the memory M they *)
(* are given.  Threads, sites and words count from 0.                      *)
(***************************************************************************)
EXTENDS WilsonLinks

(* Memory holds all that was written to a cell, in order.                  *)
Written(M, cell) == IF cell \in DOMAIN M THEN M[cell] ELSE <<>>

Holds(M, cell, init) == IF Written(M, cell) = <<>> THEN init ELSE Written(M, cell)[Len(M[cell])]

GridOf(n, K) == Ceil(n, K)

(* The threads of block b, of n in the launch.                             *)
Threads(n, K, b, Thread(_)) ==
  Each(b * K, (b + 1) * K, LAMBDA tid : IF tid >= n THEN <<>> ELSE Thread(tid))

LinkDir(sh, tid) == (tid \div NSites(sh)) + 1
LinkSite(sh, tid) == tid % NSites(sh)
-----------------------------------------------------------------------------
(* Scalar fields: gathers over the neighbours.                             *)
stencil_kernel(sh, i) ==
  <<Put(<<"out", i>>, Each(1, Len(sh) + 1, LAMBDA mu : <<NextSite(sh, i, mu), PrevSite(sh, i, mu)>>))>>

reduce_fwd_site_kernel(sh, i) ==
  <<Put(<<"site", i>>, Each(1, Len(sh) + 1, LAMBDA mu : <<NextSite(sh, i, mu)>>))>>

(* fwd feeds the force and the energy, bwd the force.                      *)
stencil_fwd_fused_kernel(sh, i) ==
  LET fwd == Each(1, Len(sh) + 1, LAMBDA mu : <<NextSite(sh, i, mu)>>)
      bwd == Each(1, Len(sh) + 1, LAMBDA mu : <<PrevSite(sh, i, mu)>>)
  IN  <<Put(<<"out", i>>, fwd \o bwd), Put(<<"site", i>>, fwd)>>

(* The imaginary parts of the Bose gas, along the last direction.          *)
bose_force_imag_and_s_imag_kernel(sh, i) ==
  LET tau == Len(sh)
      fwd == NextSite(sh, i, tau)
  IN  <<Put(<<"out", i>>, <<fwd, PrevSite(sh, i, tau)>>), Put(<<"site", i>>, <<fwd>>)>>
-----------------------------------------------------------------------------
(* SU(N) and U(1) links.                                                   *)
PlaquettesAt(sh, x) ==
  Each(1, Len(sh) + 1, LAMBDA mu : Each(mu + 1, Len(sh) + 1, LAMBDA nu :
    <<plaq(mu, nu, x, NextSite(sh, x, mu), NextSite(sh, x, nu))>>))

su_plaq_energy_kernel(sh, x) == <<Put(<<"site", x>>, PlaquettesAt(sh, x))>>

plaq_energy_site_kernel(sh, x) == <<Put(<<"site", x>>, PlaquettesAt(sh, x))>>

FwdStapleAt(sh, mu, nu, x) == FwdStaple(mu, nu, x, NextSite(sh, x, mu), NextSite(sh, x, nu))

BwdStapleAt(sh, mu, nu, x) ==
  BwdStaple(mu, nu, PrevSite(sh, x, nu), PrevSite(sh, NextSite(sh, x, mu), nu))

StaplesAt(sh, mu, x) ==
  Each(1, Len(sh) + 1, LAMBDA nu :
    IF nu = mu THEN <<>> ELSE <<FwdStapleAt(sh, mu, nu, x), BwdStapleAt(sh, mu, nu, x)>>)

Times(u, v) == [k \in DOMAIN v |-> Mul(u, v[k])]

su_plaq_force_kernel(sh, tid) ==
  LET mu == LinkDir(sh, tid)
      x == LinkSite(sh, tid)
  IN  <<Put(<<"force", mu, x>>, Times(U(mu, x), StaplesAt(sh, mu, x)))>>

Wrongsu_plaq_fused_kernel(sh, tid) ==
  LET mu == LinkDir(sh, tid)
      x == LinkSite(sh, tid)
      w == Each(1, Len(sh) + 1, LAMBDA nu : IF nu = mu THEN <<>> ELSE <<FwdStapleAt(sh, mu, nu, x)>>)
  IN  su_plaq_force_kernel(sh, tid) \o <<Put(<<"site", tid>>, Times(U(mu, x), w))>>

(* The plaquettes a link owns are those of the directions above its own.   *)
su_plaq_fused_kernel(sh, tid) ==
  LET mu == LinkDir(sh, tid)
      x == LinkSite(sh, tid)
      w == Each(1, Len(sh) + 1, LAMBDA nu : IF nu <= mu THEN <<>> ELSE <<FwdStapleAt(sh, mu, nu, x)>>)
  IN  su_plaq_force_kernel(sh, tid) \o <<Put(<<"site", tid>>, Times(U(mu, x), w))>>

(* sin fwd - sin bwd over the other directions.                            *)
plaq_force_gather_kernel(sh, tid) ==
  LET mu == LinkDir(sh, tid)
      x == LinkSite(sh, tid)
      Q(nu, y) == plaq(mu, nu, y, NextSite(sh, y, mu), NextSite(sh, y, nu))
  IN  <<Put(<<"force", mu, x>>, Each(1, Len(sh) + 1, LAMBDA nu :
          IF nu = mu THEN <<>>
          ELSE <<[sgn |-> 1, plaq |-> Q(nu, x)], [sgn |-> -1, plaq |-> Q(nu, PrevSite(sh, x, nu))]>>))>>

plaq_fused_force_energy_kernel(sh, tid) ==
  LET mu == LinkDir(sh, tid)
      x == LinkSite(sh, tid)
  IN  plaq_force_gather_kernel(sh, tid)
        \o <<Put(<<"site", tid>>, Each(mu + 1, Len(sh) + 1, LAMBDA nu :
               <<plaq(mu, nu, x, NextSite(sh, x, mu), NextSite(sh, x, nu))>>))>>
-----------------------------------------------------------------------------
(* One colour of a sweep in place.  A hit is the draws it used and, of     *)
(* each cell it read, how many times that had been written.                *)
site_parity(sh, x) == CoordSum(sh, x, Dims(sh)) % 2

Hit(M, words, reads) == [words |-> words, saw |-> [c \in reads |-> Len(Written(M, c))]]

WrongRetired(x) == <<>>

(* A thread of the other parity clears its slots of the sums.              *)
Retired(x) == <<Put(<<"ds", x>>, <<>>), Put(<<"acc", x>>, <<>>)>>

Updated(cell, x, hit) == <<Put(cell, hit), Put(<<"ds", x>>, <<cell>>), Put(<<"acc", x>>, <<cell>>)>>

checkerboard_kernel(sh, M, color, sweep, i) ==
  LET field(x) == <<"field", 1, x>>
      reads == {field(i)} \cup {field(NextSite(sh, i, mu)) : mu \in Dims(sh)}
                 \cup {field(PrevSite(sh, i, mu)) : mu \in Dims(sh)}
  IN  IF site_parity(sh, i) # color THEN Retired(i)
      ELSE Updated(field(i), i, Hit(M, {<<sweep, 2 * i>>, <<sweep, (2 * i) + 1>>}, reads))

(* The links of a word, as cells.                                          *)
LinksOf(words) ==
  {<<"field", l.mu, l.site>> : l \in UNION {Range(words[k]) : k \in DOMAIN words}}

Wrongsu_words(sh, nGen, mu, x) ==
  LET pair0 == ((mu - 1) * NSites(sh) + x) * Ceil(nGen, 2)
  IN  {pair0 + k : k \in 0 .. Ceil(nGen, 2)}

(* A normal for each generator, in pairs, and the word past them.          *)
su_words(sh, nGen, mu, x) ==
  LET pair0 == ((mu - 1) * NSites(sh) + x) * (Ceil(nGen, 2) + 1)
  IN  {pair0 + k : k \in 0 .. Ceil(nGen, 2)}

su_metropolis_kernel(sh, M, nGen, color, sweep, x) ==
  LET mu == (color \div 2) + 1
  IN  IF site_parity(sh, x) # color % 2 THEN Retired(x)
      ELSE Updated(<<"field", mu, x>>, x,
                   Hit(M, {<<sweep, w>> : w \in su_words(sh, nGen, mu, x)},
                       LinksOf(Times(U(mu, x), StaplesAt(sh, mu, x)))))

u1_metropolis_kernel(sh, M, color, sweep, x) ==
  LET mu == (color \div 2) + 1
      link == ((mu - 1) * NSites(sh)) + x
  IN  IF site_parity(sh, x) # color % 2 THEN Retired(x)
      ELSE Updated(<<"field", mu, x>>, x,
                   Hit(M, {<<sweep, 2 * link>>, <<sweep, (2 * link) + 1>>},
                       LinksOf(Times(U(mu, x), StaplesAt(sh, mu, x)))))
-----------------------------------------------------------------------------
(* The reductions (cuda/reduce.cuh): partial sums over a fixed grid, then  *)
(* one block over the partials.  A sum is the sequence of what it added.   *)
grid_for(n, K, maxGrid) == AtLeast(1, AtMost(Ceil(n, K), maxGrid))

(* i = first; i < n; i += stride                                           *)
Strided(first, n, stride, src) ==
  Each(0, IF first < n THEN Ceil(n - first, stride) ELSE 0, LAMBDA k : src[first + k * stride])

(* for (off = K / 2; off > 0; off /= 2), K a power of two.                 *)
TreeSum(K, s) ==
  LET after[off \in 1 .. K] ==
        IF off = K THEN s
        ELSE [t \in DOMAIN s |-> IF t < off THEN after[2 * off][t] \o after[2 * off][t + off]
                                 ELSE after[2 * off][t]]
  IN  after[1][0]

block_sum_kernel(src, n, grid, K, b) ==
  TreeSum(K, [t \in 0 .. K - 1 |-> Strided(b * K + t, n, grid * K, src)])

final_reduce_kernel(partials, count, K) ==
  TreeSum(K, [t \in 0 .. K - 1 |-> Strided(t, count, K, partials)])
=============================================================================
