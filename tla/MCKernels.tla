----------------------------- MODULE MCKernels ------------------------------
(***************************************************************************)
(* Small lattices of every dimension and odd and even extents, teams that  *)
(* divide them and teams that do not, batches with and without remainder,  *)
(* grids with idle threads.                                                *)
(***************************************************************************)
EXTENDS Kernels

Shapes1 == {<<5>>, <<4>>}
Shapes2 == {<<3, 4>>, <<2, 3>>}
Shapes3 == {<<3, 2, 4>>}
Shapes4 == {<<2, 3, 2, 3>>}

Cut(team, perThread) == [team |-> team, perThread |-> perThread]

Cuts == {Cut(1, 3), Cut(2, 2)}

HostJob(kernel, sh, N, cut, P, chunk, batch) ==
  [device |-> FALSE, kernel |-> kernel, sh |-> sh, team |-> cut.team, perThread |-> cut.perThread,
   P |-> P, chunk |-> chunk, batch |-> batch, N |-> N, sweeps |-> 0]

DeviceJob(kernel, sh, N, sweeps) ==
  [device |-> TRUE, kernel |-> kernel, sh |-> sh, team |-> 1, perThread |-> 1,
   P |-> AllDirs, chunk |-> 1, batch |-> 1, N |-> N, sweeps |-> sweeps]

Traversals ==
  {HostJob(kernel, sh, 0, cut, P, 2, 1) :
     kernel \in {"nn_visit", "nn_reduce"}, sh \in Shapes1 \cup Shapes2 \cup Shapes3 \cup Shapes4,
     cut \in Cuts, P \in {AllDirs, FwdOnly, BwdOnly}}
    \cup {HostJob("split_visit", sh, 0, cut, AllDirs, 2, 1) :
            sh \in Shapes1 \cup Shapes2 \cup Shapes3 \cup Shapes4, cut \in Cuts}
    \cup {HostJob("split_reduce", sh, 0, cut, FwdOnly, 2, 1) :
            sh \in Shapes1 \cup Shapes2 \cup Shapes3 \cup Shapes4, cut \in Cuts}

Gauge ==
  {HostJob(kernel[1], sh, kernel[2], Cut(2, 1), AllDirs, 1, 2) :
     kernel \in {<<"su_force", 2>>, <<"su_force", 3>>, <<"s_full", 1>>, <<"s_full", 2>>, <<"s_full", 3>>,
              <<"u1_force", 1>>, <<"u1_both", 1>>},
     sh \in {<<3, 4>>, <<2, 2>>, <<3, 2, 2>>, <<2, 2, 3, 2>>}}

Device ==
  {DeviceJob(kernel, sh, 0, 0) :
     kernel \in {"stencil", "reduce_fwd", "stencil_fused", "bose_imag"}, sh \in {<<5>>, <<3, 3>>, <<2, 2, 3>>}}
    \cup {DeviceJob(kernel, sh, 0, 0) :
            kernel \in {"su_energy", "u1_energy", "su_links", "u1_links", "su_fused", "u1_fused"},
            sh \in {<<3, 2>>, <<2, 2, 2>>}}
    \cup {DeviceJob("sweep_site", sh, 0, 2) : sh \in {<<4>>, <<2, 4>>}}
    \cup {DeviceJob("sweep_u1", <<4, 2>>, 0, 1), DeviceJob("sweep_su", <<2, 4>>, 2, 1),
          DeviceJob("sweep_su", <<2, 2>>, 3, 2)}

Md(integ, n_md, reject) == [integ |-> integ, n_md |-> n_md, reject |-> reject]

TrajectoryJob(device, sh, N, draw, fused, md) ==
  [device |-> device, kernel |-> "trajectory", sh |-> sh, team |-> 2, perThread |-> 1, chunk |-> 3, batch |-> 2,
   N |-> N, draw |-> draw, fused |-> fused, integ |-> md.integ, n_md |-> md.n_md, reject |-> md.reject]

Trajectories ==
  {TrajectoryJob(FALSE, <<2, 2>>, 1, "streams", TRUE, Md("Leapfrog", 2, TRUE)),
   TrajectoryJob(FALSE, <<3, 4>>, 2, "streams", TRUE, Md("Omelyan2", 2, FALSE)),
   TrajectoryJob(FALSE, <<2, 2>>, 2, "philox", FALSE, Md("Omelyan4", 2, TRUE)),
   TrajectoryJob(FALSE, <<3, 2>>, 3, "streams", TRUE, Md("Leapfrog", 1, FALSE)),
   TrajectoryJob(FALSE, <<2, 2>>, 3, "philox", FALSE, Md("Omelyan2", 1, TRUE)),
   TrajectoryJob(TRUE, <<2, 2>>, 2, "", FALSE, Md("Omelyan4", 2, FALSE)),
   TrajectoryJob(TRUE, <<3, 2>>, 3, "", FALSE, Md("Leapfrog", 2, TRUE))}

(* Matrices without symmetry, and a few that are singular.                 *)
Matrix(N, seed) ==
  [e \in Entries(N) |-> CASE seed = 0 -> <<0, 0>>
                          [] seed = 1 -> IF e % (N + 1) = 0 THEN <<1, 0>> ELSE <<0, 0>>
                          [] OTHER -> <<((seed * (e + 2) * (e + 3)) % 11) - 5, ((seed * seed + 7 * e * e + e) % 9) - 4>>]

Algebra ==
  {[device |-> FALSE, kernel |-> "algebra", N |-> N, a |-> Matrix(N, a), b |-> Matrix(N, b),
    h |-> [g \in 1 .. 8 |-> ((b * g * g + a) % 7) - 3],
    t |-> [u |-> a - 2, w2 |-> (b - 3) * (b - 3), cu |-> b, su |-> 3, cw |-> a + 1, xi |-> b - 5], w |-> b - 3] :
     N \in 1 .. 3, a \in 0 .. 5, b \in 2 .. 7}

Call(op, n) == [op |-> op, n |-> n]

StreamJob(family, seed, calls) ==
  [device |-> FALSE, kernel |-> "streams", family |-> family, w |-> 6, seed |-> seed, ns |-> 2, calls |-> calls]

(* Odd fills leave a normal over; a checkpoint of one stream too many is   *)
(* refused; long asks for more than the buffer of ranlxd holds.            *)
Short == <<Call("normal_fill", 3), Call("u64", 1), Call("checkpoint", 0), Call("normal_fill", 4),
           Call("uniform_fill", 1), Call("normal", 1), Call("checkpoint", 0), Call("uniform", 2),
           Call("checkpoint", 1), Call("normal", 2), Call("normal_fill", 2)>>

Long == <<Call("uniform_fill", 45), Call("normal_fill", 7), Call("u64", 24), Call("checkpoint", 0), Call("u64", 1),
          Call("normal_fill", 2)>>

Streams ==
  {StreamJob("FastRng", 4, Short), StreamJob("PhiloxRng", 77, Short),
   StreamJob("RanlxdRng", 2147483646, Short), StreamJob("RanlxdRng", 1, Long), StreamJob("Mt19937Rng", 5, Short)}

Counters == {[device |-> FALSE, kernel |-> "counters", w |-> 6, seed |-> 900, traj |-> 70]}

MCJobs == Traversals \cup Gauge \cup Device \cup Trajectories \cup Algebra \cup Streams \cup Counters
=============================================================================
