# A verification of reticolo in TLA+

reticolo is a C++20 library for Monte Carlo simulation of lattice field
theories. This directory specifies its stateful core and its kernels in TLA+,
model-checks them with TLC and proves part of it with TLAPS.

## The system

| part | state it keeps | operations | talks to |
|---|---|---|---|
| `orch/llr/orchestrator.hpp` | schedule position, replicas, drain buffers, exchange generator | `setup`, `run`, `run_smoothed`, `do_exchange`, `checkpoint` | replicas (calls from parallel lanes), checkpoint spine, writer |
| `orch/checkpoint.hpp` | two files, `<path>.tmp` and `<path>` | `save_ensemble`, `load_ensemble` | writer, reader, every worker |
| `orch/ensemble.hpp`, `orch/thread_plan.hpp` | the OpenMP team of a wave | `parallel_workers`, `plan_threads` | workers |
| `orch/llr/replica.hpp` | field, tilt, window, energy caches | `warm_into_window`, `thermalize`, `sample`, `energy`, `set_a` | its sampler, `try_exchange` |
| `orch/span/` | independent chains and counters | `scan`, `setup`, `run` | checkpoint spine |
| `io/` writer, series, reader | HDF5 file, append buffers, phases | `append`, `flush`, `field`, `rng_streams`, `attr` | everything that records |
| `io/checkpoint.hpp`, `app/setup.hpp` | single-chain checkpoint | `save_config`, `load_config`, `resume_or_start` | apps |
| `updater/` HMC, Metropolis | momenta, scratch field, stream set, caches | `step` | action, streams |
| `action/` | cached action values | `s_full`, `compute_force`, window formula | updater, replica |
| `core/exec`, `core/field`, `core/rng` | partitions, neighbour tables, generator states | traversal, reductions, stream binding | updater, action |
| `math/`, `action/gauge/formula/` | none, but scratch buffers of a slab | group products, projections, exponentials, forces, local updates | updater, action |
| `cuda/` | device fields, one stream per replica, parameters on host and device, captured graphs | device versions of the above, `warm_all`, `run` | apps |
| `apps/` | none of their own | `main` of 54 host and 14 device programs, benchmarks and tools | everything |
| `core/log`, `cli`, `obs` | none that a simulation depends on | formatting, parsing, statistics | everything |

What is hard here: replicas run in parallel lanes and in no fixed order; the
exchange is serial and reads *cached* energies; everything after a checkpoint
must be recomputed bit for bit by a relaunch; the generator of the exchange is
advanced a data-dependent number of times; a run can be killed at any point,
resumed with another budget, or started over next to an old checkpoint; on the
device the host runs ahead of its streams and writes parameters that queued
work will read; and kernels peel boundaries, batch lanes, share buffers and add
through partial sums, so that a slip is a plausible number. Each of these is a
line of `hazards` in `PROJECT.json`.

What makes each part correct:

* orchestrator and exchange: whatever the lanes, deaths and relaunches, the
  ensembles computed are those of one uninterrupted serial process
  (`ImplementsSerial`, `BitExactResume`); no configuration is lost or run
  twice (`WalkersPermuted`); the exchange reads energies of the fields it
  swaps (`EnergyFollowsField`); a run that is relaunched ends (`Finishes`).
* checkpoint spine: the file at `<path>` is complete at every instant
  (`LiveNeverTruncated`); a death costs less than one period of completed
  iterations, one whole period if it comes while that is being saved, nothing
  once the run has ended (`LossBounded`).
* samplers on a window: the caches describe the field after an accepted, a
  rejected and a failed trajectory, a sweep and an exchange
  (`ScalarsDescribeField`, `ImplementsIdeal`); running sums stay exact
  (`IncrementalExact`).
* warm-up: it ends, within its budget, and hands NR the replica's own window
  (`Ends`, `BudgetKept`, `WindowRestored`), after small hops (`HopsSmall`).
* series: appended rows reach the file once, in order, also when a write fails
  and is tried again (`RowsKept`, `ClosedIsComplete`).
* single-chain programs: every file continues the chain at its number, every
  row is the chain's at its place on the grid, whatever was resumed from
  where (`CheckpointsExact`, `RowsExact`, `CleanCoversGrid`, `SourceIntact`).
* partition, checkerboard, stream binding: slabs tile the lattice
  (`SlabsTile`), no two threads touch each other's neighbours (`NoRace`), no
  number is used twice (`DrawsUsedOnce`), a step on any threads is the
  sequential step (`StreamsStayBound`, `StepExact`), and its sum is added in
  the order of the slabs (`SumExact`).
* kernels, host and device: a traversal gives each site its periodic
  neighbours, once, in one order (`StencilsExact`); a sum has each plaquette
  once (`SumsCountOnce`); a force is the gradient of that sum
  (`ForcesAreGradients`); a sweep in place is the sequential one
  (`SweepsSequential`); a trajectory is reversible and of the right length
  (`TrajectoryExact`); the group's algebra is the textbook's
  (`AlgebraExact`); a stream is one uninterrupted sequence of its generator
  (`StreamsExact`).
* device ladder: a tilt moves by the mean of its own block
  (`UpdatesUseTheirBlock`), windows migrate whole (`WindowsPermuted`), rows
  group by window (`RowsGroupByWindow`), the schedule ends (`Finishes`).

## Modules

The LLR run:

* `LlrPhysics` — the parameters of a run and the Monte Carlo as uninterpreted
  functions. Given configuration, streams and tilt, what a replica computes is
  deterministic (the library's guarantee of bit-identical streams), so
  `Move`, `Seat`, `MeanDE`, `Update`, `Shrink`, `Sure`, `Lucky` and `Draw` are
  CONSTANT operators. Their assumptions are type facts, and that a trajectory
  evolves a chain without replacing it (`Walker`). "therm" and "meas" stand
  for at least one trajectory each, as in every app.
* `LlrSerial` — the abstract specification: one process, no lanes, no caches,
  no files, no deaths; an iteration of the schedule is one step, an exchanged
  pair is one step.
* `LlrRun` — the orchestrator as coded. `pc` is where the serial thread is
  (`warm`: `warm_fresh`; `wave`: inside `parallel_workers`; `exch`:
  `do_exchange`; `open`, `write`: `save_ensemble`); `ph`, `it` are the slot
  that `OrchState` names; `lane` is how far each slot got in the wave. `Pick`
  is OpenMP handing out the next index to a free thread; `Thermalize` and
  `Sample` are the two halves of a wave's body; `DrainNr` and `DrainRm` the
  serial loop after it; `ExchangePair` one `try_exchange`; `OpenTmp`,
  `WriteMember`, `Rename` the three stages of `save_ensemble`; `Crash` a kill
  or an exception that leaves `main`; `LaunchFresh` and `LaunchResume` a new
  process. `n_rm` may differ from launch to launch, as in the
  resume-equivalence tests; the other parameters are the run's.
* `LlrReplay` — `LlrRun` with a history of the ensembles it has computed, and
  the refinement of `LlrSerial`. The history variables restrict nothing.
* `LlrDiskFull` — `LlrRun` with a close that fails.

The samplers inside a replica:

* `WindowFormula` — `window_formula.hpp`. Integers stand for reals: each
  formula is multiplied by its common denominator (2d for one replica, 2 di dj
  for a pair, d a squared width), so nothing is divided and nothing rounded.
* `WindowedField` — the operators S and O over fields of a few sites, windows
  and tilts. `LocalAssumption` states what a local energy is for: its
  difference is the difference of the totals.
* `WindowedReplica` — field, tilt, caches and `last_s_full` of a replica, and
  what the orchestrator does between trajectories: set up, wave, drain,
  exchange through the caches. `Self` tells a window on the action itself from
  one on a separate observable with a cache of its own.
* `WindowedHmc` — `Hmc::step` as `Begin` (momenta, S, cache snapshot), `Kick`
  (a force evaluation, which may overwrite the caches; `Fused` says whether
  the actions have the fused evaluation), `Drift`, `Accept` and `Reject` (also
  a NaN energy).
* `WindowedMetropolis` — the sequential sweep: `BeginSweep` derives the running
  values, `VisitSite` decides one move on them, `EndSweep` publishes them as
  caches.
* `WindowedSamplers` — the ladder: the orchestrator's steps and the updates of
  either sampler, in parallel lanes.
* `WindowedIdeal` — the abstract specification of both: no caches, every
  decision taken on the windowed action of the fields as they are.
* `Ramp`, `ReplicaWarm` — `ramp.hpp` and `warm_into_window`: base phase, hops
  of the window centre, batches and tilt updates, with the budget tests where
  the loops have them. A window centre is a fraction.

Input, output and the single-chain programs:

* `Series` — `io::Series` on an HDF5 dataset: `buffer`, the dataset in memory
  (`image`) and what the file system has (`disk`). A flush extends, writes and
  clears, and may fail at either HDF5 call; `Evict` is HDF5 writing chunks
  when it likes; `Destroy` and `CloseWriter` are the destructors.
* `ChainRun` — `main` of a single-chain program: launch fresh or from any
  configuration file, into any output, thermalise, produce, measure on the
  grid, save in place, finish or die. `program` is its kind: whether the rows
  of the action are evaluated or carried by Metropolis, whether trajectories
  run one by one on the host or in blocks on the device, and whether it writes
  configuration files. A device program measures at the ends of its blocks,
  tests `done % ckpt_every` only there, and loads the resume file before it
  opens the output; a host program truncates the output first. `width` is the
  number of random streams, which a resume must match. `Chain` is the
  uninterrupted chain, a constant that `PhysicsAssumption` ties to the step
  function.
* `Programs` — the programs under `apps/`, one record each: sampler, how the
  action is measured, backend, default output, and for the LLR programs what a
  fresh field is and which `run` it calls. What they share is `ChainRun` and
  `LlrRun`; the instances are those kinds that occur (`Kind`).

Sites, threads and streams:

* `Geometry`, `Partition` — extents, strides and neighbours of a lattice of up
  to four directions; `exec::partition`, the flat chunks of one direction and
  the block search of more.
* `SiteSweep` — one sampler on a team. `StartStep` checks the streams; each
  parallel pass opens the team with its static share of slabs (`Opened`), each
  thread takes its slabs in increasing order (`Least`, `Rest`: `FillSlab`,
  `DriftSlab`, `TakeSlab`), and a decision is two steps, `Gather` and `Decide`,
  so that two threads may interleave inside one site. `Filled`, `Thresholded`,
  `Colored`, `Drifted` are the joins. Three kinds: an HMC fill and drift,
  Metropolis on sites, Metropolis on links with its staples. What a decision
  reads is named by direction and place in the stencil (`Places`), so that a
  rule may depend on which neighbour is which. A random number is the pair
  <<stream, position>>. The walk uses the row offsets of the code; the
  reference (`Expected...`) uses coordinates, all cells of a colour at once, and
  the partition the chain was begun with. `Resume` is another process with other
  threads; `SetAmbient` is `omp_set_num_threads`.

Kernels:

* `NnStencil` — the nests of `nn_stencil.hpp` and `nn_split.hpp`, dimension by
  dimension, with their peeled first and last columns. A visit gives the list
  of its neighbours, forward before backward.
* `WilsonLinks` — plaquette sums and forces of U(1), SU(2) and SU(3) on the
  host. A matrix product is the word of its links (`Adj` reverses it), an angle
  a sign and a plaquette.
* `DeviceKernels` — the CUDA kernels of stencils, energies, forces, and of the
  sweeps of sites and links, thread by thread, and the block reductions.
* `GroupLinks` — what a trajectory does to the links: momenta drawn, kinetic
  sums, kicks, drifts, and the exponentials of whole slabs with the order in
  which they overwrite their scratch buffers. `Integrator` is the three
  integrators as lists of kicks and drifts, coefficients as vectors in
  dt, rho dt, lambda dt, theta dt.
* `Regions`, `Trajectory` — parallel regions, host and device: `Hmc::step` and
  `enqueue_trajectory_` as their lists of regions, each with its items.
* `GroupAlgebra` — products, daggers, traces, projections, basis maps,
  Cayley-Hamilton coefficients and the local update as the code spells them,
  in integer pairs (real, imaginary); `GroupTextbook` is the reference.
* `Generators` — xoshiro256++ on sets of bits with its jump, Philox with
  rounds and words of w bits, ranlxd with its ring, luxury and buffer, and
  their fills, cached normals, state words and bounded draws. mt19937 belongs
  to the standard library: a word is its position.
* `Kernels` — one machine for all of them: a job is a list of regions, the
  items of a region finish in any order, blocks of a sweep load and store
  separately, and the next region starts at the barrier. Its properties compare
  the memory with `Geometry` and `GroupTextbook`.

The device ladder:

* `DeviceLadder` — `warm_all` and `run` of `cuda/llr/driver.hpp`: one host
  thread (`pc`), one queue per replica that executes in order and on its own
  time (`Begin`, `End`, `ZeroAcc`, `Accumulate`), parameters in three copies
  (`win` in the action, `params` on the device, `eN` in the replica). `Synced`
  is a readback. What a trajectory computes is left out: `ran` is the window it
  ran under, `Mixed` if that changed while it ran.

`MC...` modules are small instances for TLC, `..._proofs` are TLAPS proofs. A
definition `WrongX` next to `X` is not part of the specification: it is a
plausible mistake in the code `X` models, kept to show which property notices.

## Runs

| run | question | bounds |
|---|---|---|
| `replay` | types, file, chains, caches, loss, and refinement of the serial schedule | 4 replicas (two pairs at even, one at odd iterations), 2 lanes, 2 NR and 1 or 3 RM iterations, a checkpoint every 2, 3 launches |
| `smoothed` | `run_smoothed`, no warm wave: exact resume, and the run ends | 3 replicas, 1 lane, a checkpoint every iteration, 3 launches |
| `disk_full` | finding: a failed close truncates the checkpoint | 2 replicas |
| `windowed` | scalars of both samplers through accepts, rejects and exchanges; refinement of the ideal | 2 replicas, 2 sites of 2 values, 2 waves, a separate observable |
| `replica_warm` | the warm-up's end, budget, window and hops | six fields around the window, 7 trajectories, batches of 2 |
| `series` | rows through failing flushes and destructors | chunks of 3, 8 rows, 3 faults |
| `programs` | files, rows and grid of every kind of single-chain program | 2 outputs, 2 widths, 3 or 4 trajectories, blocks of 2, 3 launches |
| `site_sweep` | tiling, races, draws, equality of field, streams and sum with the sequential step | 7 shapes of 1 to 3 directions, teams 1 to 3, 1 or 2 slabs a thread, 2 steps, resumes and ambients anywhere |
| `device_ladder` | blocks, windows, rows and the end of the device schedule | 3 replicas, one base trajectory, ramps of up to 1 hop, 2 batches, 1 NR and 2 RM iterations of 2 trajectories |
| `device_base_race` | finding: the base phase may run under the window | the same, no ramp |
| `device_pairs` | finding: pairs are of slots, not of windows | the same |
| `kernels` | every kernel against its sequential meaning | lattices of 1 to 4 directions with extents 2 to 5, teams 1 and 2, batches of 2, blocks of 4 threads, grids of at most 2 blocks, 2 sweeps, 2 integrator steps, N = 1, 2, 3 |

The physics of the LLR and chain instances is arithmetic on residues, different
per slot, phase, site or job, so that histories that differ in one draw or one
order end in different values. Three launches allow two deaths, one before and
one after a resume, or a death, a resume and a fresh start. The shapes of
`site_sweep` include odd extents (HMC only: the constructor of Metropolis
refuses them), a ragged last slab, extents of 2, where both neighbours in a
direction are one site, and more threads than slabs. Chunks of 3 and 8 rows let
a failed flush be followed by an ordinary and by a full one. Three replicas on
the device are the fewest for which a window reaches a slot that is not its
neighbour. In `kernels` the shapes have odd and even extents and rows of 2, in
which a direction wraps onto itself; batches of 2 leave a tail; the grids have
idle threads and threads with several elements; one step, two and the last one
of an integrator differ. Matrices are small integers without symmetry, and
singular ones; identities between polynomials in their entries that fail do so
on almost all of them. Philox is scaled to words of 6 bits, and compared
counter by counter at 2; the state of xoshiro256++ is of full size, and its
jump is compared with x^(2^128) modulo the characteristic polynomial. The ring
and buffer of ranlxd are of full size, and both levels were compared with the
first words of `tests/unit/ranlxd_fixtures.hpp`. The polar method of Philox
rejects at most `MaxPairs` pairs in a row; a fill that needs more stops TLC,
and none of the instance does.

Each finding is a row of `findings` in `PROJECT.json`, with the line of the
code and the sentence it contradicts.

Fairness: in `smoothed` every lane with work gets on, the serial thread gets
on, and a dead run is relaunched, with `--resume` when there is a file. That
is the operating system's scheduling of threads that never wait for each other
(the only barrier is the end of a wave) and an operator or batch system that
resubmits. No fairness is put on deaths; `MaxLaunch` bounds them, since a run
that is killed for ever before its first checkpoint never ends. In
`replica_warm` the thread that warms a replica is weakly fair: it is sequential
code that waits for nobody. In `device_ladder` the host thread and each stream
with work are weakly fair: a stream executes what is queued without the host,
and the host waits only for streams. The other runs check safety only.
`CHECK_DEADLOCK FALSE` stands where a finished program stops; `site_sweep`
checks for deadlock.

## Proofs

Assumptions are named `...Assumption` in the module that declares the
constants, and TLC evaluates them on the instances. They are type facts, that
budgets and extents are positive, and the facts about physics named
below.

* `LlrRun_proofs`: `Spec => []TypeOK`. `TypeOK` is not inductive: that an
  iteration does not overrun the array of slots or the budget, that a file read
  back holds members, that the smoothed fit reads stored means, needs `Control`
  (`InBudget`, `FilesWhole`, `LanesInStep`). From the same invariant
  `LiveNeverTruncated`, `EnergyFollowsField` (with `EnergyInv`: a slot's cache
  is right from its thermalization on), `WalkersPermuted` (with `WalkInv`:
  memory and file are permutations, and a file being written agrees with the
  memory) and `LossBounded`, at every program point (with `LossInv`: between
  saves the last multiple of the period is in the file; during one the file
  lacks at most the period being saved, and `<path>.tmp` is of the slot being
  saved; a run that has ended is in the file to the last iteration). With a
  period of 1 one completed iteration is lost to a death between the drain and
  the rename. Physics: a trajectory evolves a chain and does not replace it.
* In the same module, about `LlrReplay`: `BitExactResume` and
  `ImplementsSerial`. The inductive invariant (`HistoryInv`) says of every slot
  what it has computed from its state at the start of the wave (`InStep`), that
  the file is a point of the history (`FilesKnown`), and that each point is the serial successor of the
  one before (`Computed`); `FileAssumption` says that "no file" is no file. A
  step of the run then is a step of `LlrSerial` or a stutter: a wave is one
  serial iteration, taken when it drains.
* `WindowedSamplers_proofs`: `DeltaExact` and `ExchangeExact` are identities of
  the window formulas over all integers. `ScalarsDescribeField`,
  `IncrementalExact` and `ImplementsIdeal` for both samplers and any fields, S,
  O, windows and lanes. The invariant adds `SnapshotGood` (the snapshot
  describes the saved field, whatever the force did to the caches), `PassGood`
  (in the middle of a sweep the running scalars are S and Q of the field as it
  is), `StagesFit` and `InOrder` (an exchange comes after an update of each
  replica). `MoveExact` is the step of a sweep: the change it adds up, from
  local energies and a running constraint, is the change of the windowed action
  (from `LocalAssumption`). Hence `VisitSite` is a Metropolis step of
  `WindowedIdeal` on the whole field, and beginnings and ends are stutters. All
  hold for both values of `Self` and `Fused`; TLC runs one.
* `Series_proofs`: `RowsKept`, `OnlyTornIsAhead`, `ClosedIsComplete`, for any
  chunk. Their conjunction with `TypeOK` and `Published` (a shut series has an
  empty buffer unless its last flush failed, and a closed file is the dataset)
  is inductive.
* `ChainRun_proofs`: `BitExactResume`, `CheckpointsExact`, `RowsExact`,
  `SourceIntact`. `ChainInv` places the process on the chain, `FilesInv` every
  complete file, `SourceInv` the file resumed from; `RowsInv` counts the rows
  with `RowsBefore`, and its lemma `GridStep` is the arithmetic of the grid.
  `CleanCoversGrid`: a launch stops at its goal (`ToGoal`), where the device has
  its last block (`LastBlock`); `GridCount` maps rows one to one to grid points.
  Physics: `Chain` is the iteration of the step function.
* `ReplicaWarm_proofs`: `WindowRestored`, `NoEmptyBatch`, `BudgetKept`,
  `HopsSmall`, from one invariant whose last part (`OnRamp`) says where on the
  ramp the centre is. `RampStepsExact` is what `ramp_steps` computes.
* `SiteSweep_proofs`: `SlabsTile`, `StreamsStayBound`, `NoRace`,
  `DrawsUsedOnce`, `StepExact` and `SumExact`, for every lattice, any threads,
  values, local rule, drift and addition. The partition is shown to tile (`PartitionFacts`: in one
  direction the chunk length is the least for its number of chunks; in more,
  the scan has a best candidate, `BestExists`, and every candidate divides the
  lattice into rows, `CountsDivide`). Hence the number of slabs fixes the
  partition (`CountFixesPartition`), and `Bound`, that a process works with the
  partition of the first one, is inductive: a resume compares only the number
  of streams, and that is enough. The static schedule gives each slab to one
  thread (`BlocksTile`). For the walk, coordinates are digits (`MovedFacts`):
  the row offsets of the code are the periodic neighbours
  (`ReadsAreNeighbours`), the walk of a slab visits exactly its sites of the
  colour (`PassIs`), a neighbour on even extents has the other parity
  (`Flips`), so that what is read has not the colour or not the direction that
  is written (`NeighboursOutside`). `SweepInv` then follows a step from inside:
  whose slabs are whose (`LanesInv`), how far each stream is, slab by slab
  (`DrawnInv`), that each cell's draw is the one its place in the walk calls for
  (`NoiseInv`, `LoguInv`), that decided cells have the sequential decision and
  the others their old value (`FieldInv`), that what a thread holds is what was
  there before the colour began (`HeldInv`), and that every number used belongs
  to a fill of an earlier step or to a decision taken (`UsedInv`, with
  `DrawsApart`: fills, slabs and sites map one to one to positions). For the
  sum, the addition is any operation, so the two sides must agree term by term
  and bracket by bracket. `SumsInv` says that a slab at its i-th site has added
  the terms before it, and that the joined sum is that of the slabs finished;
  that `Terms` is a sum (`RunningSumIs`) and that a stretch of slabs whose sums
  are known is added as the reference adds it (`SlabsAdded`) are inductions over
  the sites and the slabs.
* `DeviceLadder_proofs`: `TypeOK`, `WindowsPermuted`, `RowsGroupByWindow` and
  `UpdatesUseTheirBlock`, for any number of replicas, hops, batches and
  iterations, and whatever the streams do while the host goes on. `Placed` says
  where each window is, at which hop and after how many updates, from the
  counters of the host alone; `QueueInv` that the queue of a slot in a block is
  the rest of that block, that the accumulator counts the terms already taken,
  and that a trajectory that has ended ran under the window of the slot;
  `FlightInv` that no window changes under a trajectory once the base phase is
  over (in it one does: finding `BaseUnderFlatWindow`); `Averaged` that a mean
  read is that of the block. `MarkAssumption` says that "no window" and "mixed"
  are no windows. `DeepestBounds` is what the loop over the hops runs to.

* `Kernels_proofs`: `AlgebraExact`, for N = 1, 2, 3, all matrices, all angles
  and all coefficients of the exponential (`JobAssumption`: they are integers;
  nothing is assumed of rows, determinants or signs). That the job is one of
  `Jobs` is the whole invariant; the work is in the operators. A sum is a fold
  over a CHOOSE, so first it is shown to add element by element, split and
  change order (`SumsExist`, `SumIs`). From there matrices of any size:
  products associate, the adjoint reverses them, the trace is cyclic. Then the
  unrolled, looped and batched code, entry by entry: its products and traces
  are those of matrices, lane by lane, and the change of the action from one
  staple is that of the plaquettes through the link. The generators are written
  out (`AlgebraMapsExact`: coordinates, momentum and kinetic term); the
  coefficients `c0` and `c1` are those of the characteristic polynomial, and
  the matrix obeys it (`CayleyHamilton`), on which the exponential rests
  (`ExponentialExact`); and rows made orthogonal have the cross product as the
  third, which gives unitarity and the determinant (`ProjectionExact`). Each of
  these ends in identities of polynomials over the integers.

Type correctness is a theorem for `LlrRun`, `WindowedSamplers`
(`SamplerTypes`), `Series`, `ChainRun` (`ChainTypeCorrect`), `ReplicaWarm` and
`DeviceLadder`; a run checks it for the largest, `LlrRun`. `ResumeIsExact` holds
for `run` and `run_smoothed` alike, TLC checks it on the second.

Only model-checked: the liveness properties (`Finishes`, `Ends`), which need
fairness, and what the kernels do with lattices, schedules and generators
(`StencilsExact`, `SumsCountOnce`, `ForcesAreGradients`, `SweepsSequential`,
`TrajectoryExact`, `StreamsExact`): lists of regions of any length, nests over
any number of directions, and iterated bits. The library's induction theorems take an operator, which the provers used
here cannot instantiate; where `SumExact` and the sums of `AlgebraExact` need an
induction, it is made from a least counterexample (`LeastOf`).

## What the code does that its texts do not say

Beside the three findings, met while modelling and without a run:

* `Metropolis::last_s_full` adds increments: after a hot start, a resume, an
  exchange or a new tilt it is not S of the current configuration
  (`metropolis.hpp:164`, against the comment at 171). The single-chain programs
  call `resync_s_full`, the LLR orchestrator does not. `LastSFullCurrent` is
  therefore a property of HMC.
* `warm_into_window` counts its trajectories and not their acceptance
  (`replica.hpp:281`, against 27-28).
* Chunks passed to `H5Dwrite` are not flushed to the file system
  (`writer.cpp:356`), so a killed process may lose more than the "handful of
  iterations" of `orchestrator.hpp:307`; what `ClosedIsComplete` promises needs
  an orderly end.
* Default outputs collide: `u1_metropolis` writes `u1_hmc.h5`, `su2_metropolis`
  `su2_hmc.h5`, the single-precision Metropolis programs of U(1), SU(2), SU(3)
  and the Bose gas the file of their HMC twin, both Bose-gas device programs
  `bose_gas_cuda.h5`, both SU(2) device programs `su2_cuda.h5`. Run in one
  directory, the second truncates the first.
* A refused resume with the same `--out` has truncated the output already
  (`app/setup.hpp:227`), on the host.
* The output is opened before the resume file is read, so a host program whose
  `--out` names the file it resumes from truncates that file (`SourceIntact`
  is about configuration files, and outputs that are not the source).
* `cfg_path` prints into 256 characters (`phi4_hmc.cpp:30`): with a longer path
  the number is cut off and configurations are saved over one another. Names
  are distinct in `ChainRun`.
* `normal_fill` is said to give another byte stream than repeated `normal()`
  calls, by a different algorithm (`fast_rng.hpp:149`); both are the same
  Box-Muller pairs in the same order, as lines 117-119 say and `StreamsExact`
  checks.
* `plan_threads` keeps m times the lanes within the machine only for requests
  up to its size (`thread_plan.hpp:33`).
* An extent of 1 passes `lattice_geometry.hpp:113`, which refuses 0 only; the
  peeled sweeps of direction 0 then leave the row. Lattices here have extents
  of 2 and more.
* `field_reduce` calls itself invariant in the threads (`parallel.hpp:492`);
  lines 223-227 say that another team folds other partial sums, as the model
  has it.

## Plan

In this order:

1. `WriterPhases`: groups, phases and attributes of `Writer` and what `Reader`
   refuses.
2. `SpanRun`: independent chains over a range; plain waves and a drain.
3. `ThreadPlan`, with the bound it keeps.
4. `StencilsExact` as a theorem: the peeled ends of a traversal are its
   periodic neighbours, for every extent; the lattice is there in
   `SiteSweep_proofs` (`ReadsAreNeighbours`).

## Not modelled

* Floating point: rounding, the approximations of `vec_libm.hpp`, the
  potentials of scalar actions and the complex family's force, observables and
  estimators. `AlgebraExact` and `TrajectoryExact` are about exact numbers and
  terms; a sum's order is kept (`Plus` of `SiteSweep`, `StencilsExact`), its
  last digit is not. `project_su3` has no guard for a row of zeros while
  `project_su2` has; only tests call them.
* Of the generators: the constants' upper bits in Philox, the words of
  mt19937, a ranlxd seed that is 0 modulo 2^31, the clamp of a uniform at
  1e-300, and the last bits of a normal.
* Of the device: that a copy of parameters from pageable host memory may land
  after the call returns (`Upload` is visible at once), captured graphs and the synchronisation of their first
  capture, counters and diagnostics, memory, the cold start, the trajectory of
  U(1), observables.
* `orch/span`, the phases of the writer, `ThreadPlan`: planned, above.
* Logging, command-line parsing, build and host information: no state a
  simulation reads. Benchmarks, examples and templates.
* `set_spec` of the samplers during a run, `resync_s_full` outside the
  programs, and the nesting of parallel regions.

`components` in `PROJECT.json` says it part by part, and `hazards` line by
line.
