------------------------------- MODULE Kernels ------------------------------
(***************************************************************************)
(* Whole-field operations as parallel regions, one after the other.  The   *)
(* items of a region (slabs of a team, blocks of a grid) run in any order  *)
(* and overlap: an item loads what it reads, later stores what it writes.  *)
(* The region ends with a barrier.                                         *)
(***************************************************************************)
EXTENDS Trajectory, GroupTextbook, Generators

CONSTANTS
  Jobs        \* the operations, each with its lattice and its launch

(* The entries of the matrices and the angles of an "algebra" job are      *)
(* numbers, w2 of the coefficients is the square of w.                     *)
Factors == [u : Int, w2 : Int, cu : Int, su : Int, cw : Int, xi : Int]

ASSUME JobAssumption ==
  \A j \in Jobs : j.kernel = "algebra" =>
    /\ j.N \in 1 .. 3
    /\ j.a \in [Entries(j.N) -> Int \X Int] /\ j.b \in [Entries(j.N) -> Int \X Int]
    /\ j.h \in [1 .. 8 -> Int]
    /\ j.t \in Factors /\ j.w \in Int /\ j.t.w2 = j.w * j.w

VARIABLES
  job,        \* the operation under way
  regions,    \* the region it is in and those after it
  todo,       \* the region's items not begun
  busy,       \* what the items that have loaded are going to write
  mem         \* all that was written to each cell

vars == <<job, regions, todo, busy, mem>>

(* Wilson::s_full_uncached                                                 *)
s_full_uncached(j) ==
  FlattenSeq([k \in 1 .. NPlanes(j.sh) |-> field_reduce("plane", Part(j), Planes(Len(j.sh))[k], <<"total">>)])

(* The U(1) force: every plane filled before any link gathers.             *)
u1_compute_force(j) ==
  FlattenSeq([k \in 1 .. NPlanes(j.sh) |-> field_visit("fill", Part(j), k - 1)])
    \o field_visit("gather", Part(j), 0)

(* The same with the sum of the cosines taken on the way.                  *)
u1_s_full_and_force(j) ==
  FlattenSeq([k \in 1 .. NPlanes(j.sh) |-> field_reduce("fill_sum", Part(j), k - 1, <<"total">>)])
    \o field_visit("gather", Part(j), 0)

(* One or more sweeps of the device: colour by colour, and of each colour  *)
(* the two sums, staged in the same partials, then the carried statistics. *)
enqueue_sweep_(j) ==
  LET n == NSites(j.sh)
      colour(sweep, c) == Grid("hit", n, [color |-> c, sweep |-> sweep])
                            \o reduce_sum_into(<<"red", 0>>, "ds", n)
                            \o reduce_sum_into(<<"red", 1>>, "acc", n)
                            \o Region("stats", {0}, n \div 2)
      nColors == IF j.kernel = "sweep_site" THEN 2 ELSE 2 * Len(j.sh)
  IN  Each(0, j.sweeps, LAMBDA sweep : Each(0, nColors, LAMBDA c : colour(sweep, c)))

HostRegions(j) ==
  CASE j.kernel \in {"nn_visit", "split_visit"} ->
         Region(j.kernel, 0 .. ItemsOf(j.sh, Part(j), j.chunk) - 1, 0)
    [] j.kernel \in {"nn_reduce", "split_reduce"} ->
         Region(j.kernel, 0 .. ItemsOf(j.sh, Part(j), j.chunk) - 1, 0)
           \o FoldInto(<<"total">>, ItemsOf(j.sh, Part(j), j.chunk))
    [] j.kernel = "s_full" -> s_full_uncached(j)
    [] j.kernel = "su_force" -> field_visit("staples", Part(j), 0)
    [] j.kernel = "u1_force" -> u1_compute_force(j)
    [] OTHER -> u1_s_full_and_force(j)

(* Sites or links are gathered, then what the threads left is summed.      *)
DeviceRegions(j) ==
  LET sites == NSites(j.sh)
      links == NLinks(j.sh)
      summed(n) == Grid("threads", n, n) \o reduce_sum_into(<<"total">>, "site", n)
  IN  CASE j.kernel = "stencil" -> Grid("threads", sites, sites)
        [] j.kernel \in {"reduce_fwd", "stencil_fused", "bose_imag", "su_energy", "u1_energy"} ->
             summed(sites)
        [] j.kernel \in {"su_fused", "u1_fused"} -> summed(links)
        [] j.kernel \in {"su_links", "u1_links"} -> Grid("threads", links, links)
        [] OTHER -> enqueue_sweep_(j)

(* The streams opened, drawn from by slab or by the driver, written and    *)
(* read back.                                                              *)
Fills == {"uniform_fill", "normal_fill"}

StreamRegions(j) ==
  Region("open", {0}, 0)
    \o FlattenSeq([c \in DOMAIN j.calls |-> Region(j.calls[c].op, IF j.calls[c].op \in Fills THEN 1 .. j.ns ELSE {0},
                                                   j.calls[c].n)])

Steps(j) ==
  CASE j.kernel = "trajectory" -> TrajectoryRegions(j)
    [] j.kernel \in {"algebra", "counters"} -> Region("pure", {0}, 0)
    [] j.kernel = "streams" -> StreamRegions(j)
    [] OTHER -> IF j.device THEN DeviceRegions(j) ELSE HostRegions(j)
-----------------------------------------------------------------------------
Thread(j, i) ==
  CASE j.kernel = "stencil" -> stencil_kernel(j.sh, i)
    [] j.kernel = "reduce_fwd" -> reduce_fwd_site_kernel(j.sh, i)
    [] j.kernel = "stencil_fused" -> stencil_fwd_fused_kernel(j.sh, i)
    [] j.kernel = "bose_imag" -> bose_force_imag_and_s_imag_kernel(j.sh, i)
    [] j.kernel = "su_energy" -> su_plaq_energy_kernel(j.sh, i)
    [] j.kernel = "u1_energy" -> plaq_energy_site_kernel(j.sh, i)
    [] j.kernel = "su_links" -> su_plaq_force_kernel(j.sh, i)
    [] j.kernel = "u1_links" -> plaq_force_gather_kernel(j.sh, i)
    [] j.kernel = "su_fused" -> su_plaq_fused_kernel(j.sh, i)
    [] OTHER -> plaq_fused_force_energy_kernel(j.sh, i)

HitThread(j, arg, i) ==
  CASE j.kernel = "sweep_site" -> checkerboard_kernel(j.sh, mem, arg.color, arg.sweep, i)
    [] j.kernel = "sweep_u1" -> u1_metropolis_kernel(j.sh, mem, arg.color, arg.sweep, i)
    [] OTHER -> su_metropolis_kernel(j.sh, mem, NGen(j.N), arg.color, arg.sweep, i)

(* A map writes each site, a reduction its partial sum.                    *)
Mapped(visits) == [k \in DOMAIN visits |->
                     Put(<<"out", visits[k].site>>, [agg |-> visits[k].agg, last |-> visits[k].last])]

(* A stream draws; a checkpoint is read by a new run, or by this one when  *)
(* it is of n streams more than there are.                                 *)
StreamPuts(j, r, it) ==
  LET fresh == StreamSet(j.family, j.w, j.seed, j.ns)
      now(k) == Last(mem[<<"rng", k>>])
      all(streams) == [k \in 1 .. j.ns + 1 |-> Put(<<"rng", k - 1>>, streams[k - 1])]
      old == [k \in 0 .. j.ns |-> now(k)]
      words == StreamSetWords([k \in 0 .. j.ns + r.arg |-> now(IF k > j.ns THEN j.ns ELSE k)])
      drawn(d) == <<Put(<<"rng", it>>, d.g), Put(<<"out", it>>, d.out)>>
  IN  CASE r.op = "open" -> all(fresh)
        [] r.op = "checkpoint" -> all(restore_state_words(IF r.arg = 0 THEN fresh ELSE old, j.w, words))
        [] r.op \in {"uniform_fill", "uniform"} -> drawn(uniform_fill(now(it), r.arg))
        [] r.op = "normal_fill" -> drawn(normal_fill(now(it), r.arg))
        [] r.op = "u64" -> drawn(Repeated(uniform_u64, Gave(now(0), <<>>), r.arg))
        [] OTHER -> drawn(Repeated(normal, Gave(now(0), <<>>), r.arg))

(* What item it of region r writes, by what is in memory now.              *)
Puts(r, it) ==
  LET sh == job.sh
      p == Part(job)
      base == Base(p, it)
      cnt == Count(sh, p, it)
      sinP == [q \in (0 .. NPlanes(sh) - 1) \X Sites(sh) |-> Holds(mem, <<"sinP", q[1], q[2]>>, <<>>)]
      summed(filled) == IF r.op = "fill" THEN filled
                        ELSE filled \o Summed(it, [k \in DOMAIN filled |-> filled[k].val])
      plane_range(mu, nu) ==
        CASE job.N = 1 -> u1_s_full_plane_range(sh, mu, nu, base, cnt)
          [] job.N = 2 -> su2_s_full_plane_range(sh, job.batch, mu, nu, base, cnt)
          [] OTHER -> s_full_plane_range(sh, job.batch, mu, nu, base, cnt)
      src == [i \in 0 .. r.arg.n - 1 |->
                IF r.arg.src = "mom" THEN <<MomentumOf(mem, LinkDir(sh, i), LinkSite(sh, i))>>
                ELSE Holds(mem, <<r.arg.src, i>>, <<>>)]
      partials == [i \in 0 .. r.arg.grid - 1 |-> Holds(mem, <<"partial", i>>, <<>>)]
      visited(calls) == IF r.op \in {"nn_visit", "split_visit"} THEN Mapped(calls) ELSE Summed(it, calls)
  IN  CASE r.op \in {"nn_visit", "nn_reduce"} -> visited(nn_item(job.P, sh, p, job.chunk, it))
        [] r.op \in {"split_visit", "split_reduce"} ->
             visited(split_item(IF r.op = "split_visit" THEN AllDirs ELSE FwdOnly, sh, p, job.chunk, it))
        [] r.op = "fold" -> FoldPuts(mem, r.arg)
        [] r.op = "plane" -> Summed(it, plane_range(r.arg[1], r.arg[2]))
        [] r.op = "staples" -> IF job.N = 2 THEN su2_compute_force_range(sh, job.batch, base, cnt)
                               ELSE compute_force_range(sh, job.batch, base, cnt)
        [] r.op \in {"fill", "fill_sum"} -> summed(plaq_fill_range_(sh, r.arg, base, cnt))
        [] r.op = "gather" -> force_from_sinp_range_(sh, sinP, base, cnt)
        [] r.op = "threads" -> Threads(r.arg, K, it, LAMBDA i : Thread(job, i))
        [] r.op = "hit" -> Threads(NSites(sh), K, it, LAMBDA i : HitThread(job, r.arg, i))
        [] r.op = "blocks" ->
             Summed(it, block_sum_kernel(src, r.arg.n, r.arg.grid, K, it))
        [] r.op = "final" ->
             <<Put(r.arg.dst, final_reduce_kernel(partials, r.arg.grid, K))>>
        [] r.op = "stats" ->
             Into(mem, <<"stats", "S">>, Holds(mem, <<"red", 0>>, <<>>))
               \o Into(mem, <<"stats", "accepted">>, Holds(mem, <<"red", 1>>, <<>>))
               \o <<Put(<<"stats", "attempts">>, Holds(mem, <<"stats", "attempts">>, 0) + r.arg)>>
        [] r.op = "pure" -> <<>>
        [] job.kernel = "streams" -> StreamPuts(job, r, it)
        [] OTHER -> TrajectoryPuts(mem, job, r, it)
-----------------------------------------------------------------------------
Init ==
  /\ job \in Jobs
  /\ regions = Steps(job)
  /\ todo = Head(regions).items
  /\ busy = <<>>
  /\ mem = <<>>

Load(it) ==
  /\ it \in todo
  /\ todo' = todo \ {it}
  /\ busy' = (it :> Puts(Head(regions), it)) @@ busy
  /\ UNCHANGED <<job, regions, mem>>

Stored(M, puts) ==
  LET cells == {puts[k].cell : k \in DOMAIN puts}
      to(c) == SelectSeq(puts, LAMBDA put : put.cell = c)
  IN  [c \in DOMAIN M \cup cells |->
         Written(M, c) \o [k \in DOMAIN to(c) |-> to(c)[k].val]]

Store(it) ==
  /\ it \in DOMAIN busy
  /\ mem' = Stored(mem, busy[it])
  /\ busy' = [other \in DOMAIN busy \ {it} |-> busy[other]]
  /\ UNCHANGED <<job, regions, todo>>

Joined == todo = {} /\ DOMAIN busy = {}

Barrier ==
  /\ Joined
  /\ Len(regions) > 1
  /\ regions' = Tail(regions)
  /\ todo' = Head(regions').items
  /\ UNCHANGED <<job, busy, mem>>

Next ==
  \/ \E it \in todo : Load(it)
  \/ \E it \in DOMAIN busy : Store(it)
  \/ Barrier

Spec == Init /\ [][Next]_vars

Ended == Joined /\ Len(regions) = 1
-----------------------------------------------------------------------------
(* What the operations are for, by the definitions of Geometry.            *)
Neighbours(P, s, dirs) ==
  Folded(P, [k \in 1 .. Len(dirs) |-> <<NextSite(job.sh, s, dirs[k]), PrevSite(job.sh, s, dirs[k])>>])

(* How often each item is in a sequence.                                   *)
Counted(seq) == [x \in Range(seq) |-> Cardinality({k \in DOMAIN seq : seq[k] = x})]

AllOf(sh) == [k \in Dims(sh) |-> k]

(* Per site: the neighbours folded, forward before backward, direction by  *)
(* direction; of the split nests the last direction as well.               *)
Gathered(P, s) ==
  [agg |-> Neighbours(P, s, AllOf(job.sh)),
   last |-> IF job.kernel \in {"split_visit", "split_reduce"} THEN Neighbours(P, s, <<Len(job.sh)>>) ELSE <<>>]

Total == Holds(mem, <<"total">>, <<>>)

(* Field traversals (nn_stencil.hpp, nn_split.hpp, cuda/stencil.cuh): for  *)
(* every shape, team and order of the items each site is written once,     *)
(* with its periodic neighbours in the one order that keeps the sum        *)
(* bit-identical, and a reduction adds the sites in their flat order.      *)
StencilsExact ==
  Ended =>
    /\ job.kernel \in {"nn_visit", "split_visit"} =>
         mem = [c \in {<<"out", s>> : s \in Sites(job.sh)} |-> <<Gathered(job.P, c[2])>>]
    /\ job.kernel \in {"nn_reduce", "split_reduce"} =>
         Total = [k \in 1 .. NSites(job.sh) |->
                    [site |-> k - 1, agg |-> Gathered(job.P, k - 1).agg, last |-> Gathered(job.P, k - 1).last]]
    /\ job.kernel \in {"stencil", "stencil_fused"} =>
         \A s \in Sites(job.sh) :
           LET nbrs == mem[<<"out", s>>][1]
           IN  Counted(nbrs) = Counted(Neighbours(AllDirs, s, AllOf(job.sh)))

(* Every plaquette of the lattice, as a word from its first corner.        *)
Plaquettes(sh) ==
  {plaq(p[1], p[2], s, NextSite(sh, s, p[1]), NextSite(sh, s, p[2])) :
     p \in {q \in Dims(sh) \X Dims(sh) : q[1] < q[2]}, s \in Sites(sh)}

(* Sums (s_full, cuda/reduce.cuh, the fused energies): every plaquette of  *)
(* the action, or every forward bond, is added exactly once, through the   *)
(* partial sums of any grid, tail blocks and idle threads included; the    *)
(* sums of the host keep the order of the sites.                           *)
SumsCountOnce ==
  Ended =>
    /\ job.kernel \in {"s_full", "u1_both", "su_energy", "u1_energy", "su_fused", "u1_fused"} =>
         /\ Range(Total) = Plaquettes(job.sh)
         /\ Len(Total) = Cardinality(Plaquettes(job.sh))
    /\ job.kernel \in {"s_full", "u1_both"} =>
         \A a, b \in DOMAIN Total :
           a < b /\ {l.mu : l \in Range(Total[a])} = {l.mu : l \in Range(Total[b])}
             => Total[a][1].site < Total[b][1].site
    /\ job.kernel \in {"reduce_fwd", "stencil_fused"} =>
         Counted(Total) = Counted(FlattenSeq([k \in 1 .. NSites(job.sh) |->
                                      Neighbours(FwdOnly, k - 1, AllOf(job.sh))]))
    /\ job.kernel = "bose_imag" =>
         Counted(Total) = Counted([k \in 1 .. NSites(job.sh) |-> NextSite(job.sh, k - 1, Len(job.sh))])

(* The derivative of a product of links by one of them: the product from   *)
(* that link on, of the inverse if the link stands inverted.               *)
From(w, i) ==
  LET a == IF w[i].dag THEN Adj(w) ELSE w
      j == IF w[i].dag THEN Len(w) + 1 - i ELSE i
  IN  SubSeq(a, j, Len(a)) \o SubSeq(a, 1, j - 1)

Positions(w, mu, s) == {i \in DOMAIN w : w[i].mu = mu /\ w[i].site = s}

Gradient(mu, s) == UNION {{From(w, i) : i \in Positions(w, mu, s)} : w \in Plaquettes(job.sh)}

(* U(1): the derivative of the angle has the sign the link stands with.    *)
Term(t, mu, s) ==
  LET i == CHOOSE i \in Positions(t.plaq, mu, s) : TRUE
  IN  [sgn |-> IF t.plaq[i].dag THEN -t.sgn ELSE t.sgn, plaq |-> From(t.plaq, i)]

(* Forces (wilson_su2, wilson_su3, wilson_u1, gauge_sun.cuh, gauge_u1.cuh):*)
(* each link gets, once, exactly the derivative of the plaquette sum that  *)
(* s_full takes: every plaquette through it, once, from that link on, with *)
(* the right sign, whatever slab or block computes it.                     *)
ForcesAreGradients ==
  Ended /\ job.kernel \in {"su_force", "su_links", "su_fused", "u1_force", "u1_both", "u1_links", "u1_fused"} =>
    \A mu \in Dims(job.sh), s \in Sites(job.sh) :
      LET got == mem[<<"force", mu, s>>]
          words == IF job.kernel \in {"su_force", "su_links", "su_fused"} THEN got[1]
                   ELSE [k \in DOMAIN got[1] |-> Term(got[1][k], mu, s).plaq]
      IN  /\ Len(got) = 1
          /\ Range(words) = Gradient(mu, s)
          /\ Len(words) = Cardinality(Gradient(mu, s))
          /\ job.kernel \in {"u1_force", "u1_both", "u1_links", "u1_fused"} =>
               \A k \in DOMAIN got[1] : Term(got[1][k], mu, s).sgn = 1

(* The colour in which a cell of the field is updated.                     *)
ColourOf(cell) ==
  IF job.kernel = "sweep_site" THEN site_parity(job.sh, cell[3])
  ELSE 2 * (cell[2] - 1) + site_parity(job.sh, cell[3])

Fields(M) == {c \in DOMAIN M : c[1] = "field"}

(* Device sweeps (cuda/checkerboard.cuh, gauge kernels, metropolis.cuh):   *)
(* in place and without a copy, in whatever order the blocks load and      *)
(* store, a sweep is the sequential one over its colours: each link is hit *)
(* once per sweep and reads the links of earlier colours after their hit,  *)
(* those of later colours before; no random word serves two hits; and the  *)
(* carried sums hold each hit once, though their slots are shared.         *)
SweepsSequential ==
  Ended /\ job.kernel \in {"sweep_site", "sweep_su", "sweep_u1"} =>
    LET cells == IF job.kernel = "sweep_site" THEN {<<"field", 1, s>> : s \in Sites(job.sh)}
                 ELSE {<<"field", mu, s>> : mu \in Dims(job.sh), s \in Sites(job.sh)}
    IN  /\ Fields(mem) = cells
        /\ \A c \in cells :
             /\ Len(mem[c]) = job.sweeps
             /\ \A n \in 1 .. job.sweeps :
                  \A read \in DOMAIN mem[c][n].saw :
                    mem[c][n].saw[read] = IF ColourOf(read) < ColourOf(c) THEN n ELSE n - 1
        /\ \A c, e \in cells : \A n, m \in 1 .. job.sweeps :
             <<c, n>> # <<e, m>> => mem[c][n].words \cap mem[e][m].words = {}
        /\ \A sum \in {"S", "accepted"} :
             LET hit == mem[<<"stats", sum>>][Len(mem[<<"stats", sum>>])]
             IN  Len(hit) = job.sweeps * Cardinality(cells) /\ Range(hit) = cells
        /\ mem[<<"stats", "attempts">>][Len(mem[<<"stats", "attempts">>])] = job.sweeps * Cardinality(cells)

(* What a link went through: its momentum's and its field's values.        *)
Momenta(mu, s) == mem[<<"mom", mu, s>>]
Moves(mu, s) == mem[<<"field", mu, s>>]

KickOf(mu, s, k) == Momenta(mu, s)[k + 1]

DriftCoef(mu, s, k) == IF job.N = 1 THEN Moves(mu, s)[k][2][1] ELSE Moves(mu, s)[k][Len(Moves(mu, s)[k])][1]

VecSum(vecs) == [i \in 1 .. 4 |-> FoldFunction(+, 0, [k \in DOMAIN vecs |-> vecs[k][i]])]

Palindrome(seq) == \A k \in DOMAIN seq : seq[k] = seq[Len(seq) + 1 - k]

(* Every cell of a kind, moved n times.                                    *)
AllMoved(cells, n) == {<<c, n>> : c \in cells}

LinkCells == {<<"field", mu, s>> : mu \in Dims(job.sh), s \in Sites(job.sh)}

StapleLinks(mu, s) ==
  LET loops == {w \in Plaquettes(job.sh) : Positions(w, mu, s) # {}}
  IN  {c \in LinkCells : \E w \in loops : \E i \in DOMAIN w : w[i].mu = c[2] /\ w[i].site = c[3]}

(* Trajectories (hmc.hpp, integrators.hpp, field_ops.hpp, random_fill.hpp, *)
(* su2_ops.hpp, su3_ops.hpp, cuda/hmc.cuh), whatever the slabs and however *)
(* they overlap.  No two coordinates of the momenta share a draw.  Kicks   *)
(* and drifts alternate and read the same backwards, and each add up to    *)
(* the trajectory's length, so that it is reversible: every drift is the   *)
(* exponential of the momentum after the kick before it, its scratch       *)
(* buffers notwithstanding, every kick takes the staples of links that     *)
(* have all moved equally often.  Both energies are of one state, each     *)
(* momentum and plaquette in them once.  A reject leaves the field as it   *)
(* was.                                                                    *)
TrajectoryExact ==
  Ended /\ job.kernel = "trajectory" =>
    LET sh == job.sh
        links == {<<mu, s>> : mu \in Dims(sh), s \in Sites(sh)}
        gens == 1 .. NGen(job.N)
        n == Len(Momenta(1, 0)) - 2
        ends == [e \in {0, 1} |-> IF e = 0 THEN 0 ELSE n]
        kin(e) == mem[<<"kin", e>>][Len(mem[<<"kin", e>>])]
        pot(e) == mem[<<"pot", e>>][Len(mem[<<"pot", e>>])]
    IN  /\ \A l, k \in links : \A a, b \in gens :
             <<l, a>> # <<k, b>> => Momenta(l[1], l[2])[1][a] # Momenta(k[1], k[2])[1][b]
        /\ \A l \in links :
             LET mu == l[1]
                 s == l[2]
                 kicks == [k \in 1 .. n + 1 |-> KickOf(mu, s, k)[1]]
                 drifts == [k \in 1 .. n |-> DriftCoef(mu, s, k)]
             IN  /\ Palindrome(kicks) /\ Palindrome(drifts)
                 /\ VecSum(kicks) = <<2 * job.n_md, 0, 0, 0>>
                 /\ VecSum(drifts) = <<2 * job.n_md, 0, 0, 0>>
                 /\ \A k \in 1 .. n + 1 : KickOf(mu, s, k)[2] = AllMoved(StapleLinks(mu, s), k - 1)
                 /\ \A k \in 1 .. n :
                      Moves(mu, s)[k] = Exponential(job.N, <<drifts[k], <<mu, s, k + 1>>>>)
                 /\ Len(Moves(mu, s)) = IF job.reject THEN n + 1 ELSE n
                 /\ job.reject => Moves(mu, s)[n + 1] = Before(<<"field", mu, s>>)
        /\ \A e \in {0, 1} :
             /\ Counted(kin(e)) = [m \in {<<l[1], l[2], ends[e] + e + 1>> : l \in links} |-> 1]
             /\ Counted(pot(e)) =
                  [m \in {[plaq |-> w, seen |-> AllMoved(LinksOf(<<w>>), ends[e])] : w \in Plaquettes(sh)} |-> 1]

(* The group's algebra (su2_formula.hpp, su3_formula.hpp, su2_ops.hpp,     *)
(* su3_ops.hpp and the device's traits), unrolled, batched and accumulated,*)
(* is the textbook's: products with the daggers where they belong in every *)
(* lane, the projection on the algebra and its basis, the square of a      *)
(* momentum as its draws weigh it; a local update's difference is that of  *)
(* the plaquettes through its link; the matrix V of SU(3) takes each        *)
(* eigenvalue of Q to its exponential and, for small Q, the slabs and the  *)
(* single link agree on the series; a projected matrix is in the group.    *)
AlgebraExact ==
  Ended /\ job.kernel = "algebra" =>
    /\ LocalExact(job.N, job.a, job.b)
    /\ job.N > 1 =>
         /\ ProductsExact(job.N, job.a, job.b)
         /\ AlgebraMapsExact(job.N, job.a, job.h)
         /\ ExponentialExact(job.N, job.h, job.t, job.w)
         /\ ProjectionExact(job.N, job.a)

(* The draws asked of stream k.                                            *)
DrawsOf(k) ==
  LET kind(op) == CASE op \in {"normal_fill", "normal"} -> "normal" [] op = "u64" -> "u64" [] OTHER -> "uniform"
      asked(c) == c.op # "checkpoint" /\ (k = 0 <=> c.op \notin Fills)
      mine == SelectSeq(job.calls, asked)
  IN  FlattenSeq([c \in DOMAIN mine |-> [i \in 1 .. mine[c].n |-> kind(mine[c].op)]])

(* Streams of random numbers (core/rng).  Whatever fills and draws it      *)
(* serves, in whatever order the slabs take theirs, each stream gives the  *)
(* draws of one uninterrupted sequence of its generator: fills and single  *)
(* draws, buffers, the second normal of a pair and a checkpoint in the     *)
(* middle of them change nothing, and a refused one changes no stream.     *)
(* Stream k of xoshiro256++ starts k 2^128 steps into the sequence, no two *)
(* counters of Philox coincide, and a bounded draw has no bias.            *)
StreamsExact ==
  Ended =>
    /\ job.kernel = "streams" =>
         /\ \A k \in 0 .. job.ns :
              LET draws == DrawsOf(k)
                  words == NativeWords(job.family, job.w, job.seed, k, 4 * Len(draws) + 20)
              IN  FlattenSeq(Written(mem, <<"out", k>>)) = Drawn(job.family, words, draws)
         /\ job.family = "FastRng" => JumpExact(Expanded(job.seed))
    /\ job.kernel = "counters" => CountersExact(job.w, job.seed, job.traj)
=============================================================================
