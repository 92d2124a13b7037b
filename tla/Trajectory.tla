----------------------------- MODULE Trajectory -----------------------------
(***************************************************************************)
(* A trajectory of the gauge links as regions: Hmc::step on the host and   *)
(* enqueue_trajectory_ on the device, the integrator's kicks and drifts in *)
(* between.  A link's memory starts at its field before the trajectory.    *)
(***************************************************************************)
EXTENDS Regions

Link(cell, sh, i) == <<cell, LinkDir(sh, i), LinkSite(sh, i)>>

Before(cell) == <<"before", cell[2], cell[3]>>
-----------------------------------------------------------------------------
(* Direction by direction, from the streams or by counters.                *)
sample_momenta_(j) == Each(1, Len(j.sh) + 1, LAMBDA mu : field_visit(j.draw, Part(j), mu))

kinetic_(j, end) == Each(1, Len(j.sh) + 1, LAMBDA mu : field_reduce("kinetic", Part(j), mu, <<"kin", end>>))

potential(j, end) ==
  FlattenSeq([k \in 1 .. NPlanes(j.sh) |->
                field_reduce("energy", Part(j), Planes(Len(j.sh))[k], <<"pot", end>>)])

copy_flat_(op, j) == parallel_map_ranges(op, NLinks(j.sh), j.chunk, 0)

(* kick_: fused where the action has it, through the force buffer if not.  *)
(* U(1) fills its planes first.                                            *)
compute_force(j, coef) ==
  (IF j.N > 1 THEN <<>>
   ELSE FlattenSeq([k \in 1 .. NPlanes(j.sh) |-> field_visit("seen_planes", Part(j), k - 1)]))
    \o field_visit(IF j.fused THEN "force_and_kick" ELSE "seen_force", Part(j), coef)

kick_(j, coef) == compute_force(j, coef) \o (IF j.fused THEN <<>> ELSE field_visit("kick_add", Part(j), coef))

drift_(j, coef) == field_visit("drift", Part(j), coef)

run_md_(j) ==
  LET word == Integrator(j.integ, j.n_md)
  IN  FlattenSeq([k \in DOMAIN word |-> IF word[k].op = "kick" THEN kick_(j, word[k].coef)
                                        ELSE drift_(j, word[k].coef)])

HmcStep(j) ==
  sample_momenta_(j) \o copy_flat_("snapshot", j) \o kinetic_(j, 0) \o potential(j, 0)
    \o run_md_(j) \o kinetic_(j, 1) \o potential(j, 1)
    \o (IF j.reject THEN copy_flat_("restore", j) ELSE <<>>)
-----------------------------------------------------------------------------
(* The device: one launch after the other on one stream.                   *)
DeviceEnergies(j, end) ==
  reduce_sum_into(<<"kin", end>>, "mom", NLinks(j.sh))
    \o Grid("site_energy", NSites(j.sh), 0) \o reduce_sum_into(<<"pot", end>>, "site", NSites(j.sh))

DeviceMd(j) ==
  LET word == Integrator(j.integ, j.n_md)
      launch(w) == IF w.op = "kick" THEN Grid("force_thread", NLinks(j.sh), 0) \o Grid("axpy", NLinks(j.sh), w.coef)
                   ELSE Grid("expi", NLinks(j.sh), w.coef)
  IN  FlattenSeq([k \in DOMAIN word |-> launch(word[k])])

enqueue_trajectory_(j) ==
  Region("memcpy", {0}, 0) \o Grid("sample_thread", NLinks(j.sh), 0) \o DeviceEnergies(j, 0)
    \o DeviceMd(j) \o DeviceEnergies(j, 1) \o Grid("resolve", NLinks(j.sh), j.reject)

TrajectoryRegions(j) == IF j.device THEN enqueue_trajectory_(j) ELSE HmcStep(j)
-----------------------------------------------------------------------------
(* What item it of such a region writes, by the memory M.                  *)
Snapshot(M, sh, i) == Put(Link("old", sh, i), Holds(M, Link("field", sh, i), Before(Link("field", sh, i))))

Restored(M, sh, i) == Put(Link("field", sh, i), Holds(M, Link("old", sh, i), "unset"))

(* Sums of plaquettes, each with the links as they were.                   *)
Evaluated(M, words) == [k \in DOMAIN words |-> [plaq |-> words[k], seen |-> Seen(M, LinksOf(<<words[k]>>))]]

ForcePuts(M, j, base, cnt) ==
  IF j.N = 1
  THEN LET planes == [q \in (0 .. NPlanes(j.sh) - 1) \X Sites(j.sh) |-> Holds(M, <<"sinP", q[1], q[2]>>, {})]
           puts == force_from_sinp_range_(j.sh, planes, base, cnt)
       IN  [k \in DOMAIN puts |-> Put(puts[k].cell, UNION {puts[k].val[t].plaq : t \in DOMAIN puts[k].val})]
  ELSE ForcesSeen(M, IF j.N = 2 THEN su2_compute_force_range(j.sh, j.batch, base, cnt)
                     ELSE compute_force_range(j.sh, j.batch, base, cnt))

HostPuts(M, j, r, it) ==
  LET p == Part(j)
      base == Base(p, it)
      cnt == Count(j.sh, p, it)
      chunks(Body(_)) == InRange(NLinks(j.sh), j.chunk, it, LAMBDA i : <<Body(i)>>)
      planes == plaq_fill_range_(j.sh, r.arg, base, cnt)
      forced(forces) ==
        IF r.op = "seen_force" THEN forces
        ELSE [k \in DOMAIN forces |-> Put(<<"mom", forces[k].cell[2], forces[k].cell[3]>>, <<r.arg, forces[k].val>>)]
  IN  CASE r.op = "streams" -> fill_gaussian(j.N, M, r.arg, it, base, cnt)
        [] r.op = "philox" -> sample_algebra_philox_range(j.N, "key", r.arg, base, cnt)
        [] r.op = "snapshot" -> chunks(LAMBDA i : Snapshot(M, j.sh, i))
        [] r.op = "restore" -> chunks(LAMBDA i : Restored(M, j.sh, i))
        [] r.op = "kinetic" -> Summed(it, kinetic_range(j.batch, M, r.arg, base, cnt))
        [] r.op = "energy" ->
             Summed(it, Evaluated(M, s_full_plane_range(j.sh, j.batch, r.arg[1], r.arg[2], base, cnt)))
        [] r.op = "seen_planes" -> ForcesSeen(M, [k \in DOMAIN planes |-> Put(planes[k].cell, <<planes[k].val>>)])
        [] r.op \in {"seen_force", "force_and_kick"} -> forced(ForcePuts(M, j, base, cnt))
        [] r.op = "kick_add" -> kick_add(j.sh, M, r.arg, base, cnt)
        [] OTHER -> drift_field(j.sh, j.N, j.batch, M, r.arg, base, cnt)

DevicePuts(M, j, r, it) ==
  LET links(Body(_)) == Threads(NLinks(j.sh), K, it, Body)
      energy(x) == <<Put(<<"site", x>>, Evaluated(M, su_plaq_energy_kernel(j.sh, x)[1].val))>>
  IN  CASE r.op = "memcpy" -> Each(0, NLinks(j.sh), LAMBDA i : <<Snapshot(M, j.sh, i)>>)
        [] r.op = "sample_thread" -> links(LAMBDA i : su_sample_algebra_kernel(j.sh, j.N, "traj", i))
        [] r.op = "site_energy" -> Threads(NSites(j.sh), K, it, energy)
        [] r.op = "force_thread" -> links(LAMBDA i : ForcesSeen(M, su_plaq_force_kernel(j.sh, i)))
        [] r.op = "axpy" -> links(LAMBDA i : axpy_kernel(j.sh, M, r.arg, i))
        [] r.op = "expi" -> links(LAMBDA i : su_expi_lmul_kernel(j.sh, j.N, M, r.arg, i))
        [] OTHER -> links(LAMBDA i : IF r.arg THEN <<Restored(M, j.sh, i)>> ELSE <<>>)

TrajectoryPuts(M, j, r, it) == IF j.device THEN DevicePuts(M, j, r, it) ELSE HostPuts(M, j, r, it)
=============================================================================
