------------------------------ MODULE ChainRun ------------------------------
(***************************************************************************)
(* The single-chain programs (module Programs), on the host and on the     *)
(* device: thermalise, produce, measure on a grid, write a configuration   *)
(* file now and then, and resume from any of those files, into any output, *)
(* after a death or to run longer.  On the device --meas_every gives way   *)
(* to --block: trajectories run in blocks the host does not interrupt, and *)
(* it measures and saves only between two of them.                         *)
(***************************************************************************)
EXTENDS Integers, Sequences, FiniteSets

CONSTANTS
  Kinds,            \* kinds of program (Programs!Kind)
  Outs,             \* values of --out; each names an output and its files
  Widths,           \* random streams, one per slab of the field
  NTherm, MeasEvery, Block, CheckpointEvery,
  Goals,            \* values of --n_prod
  MaxLaunches,      \* bound: processes started in one behaviour
  Fields, Rngs,
  Cold,             \* the field Lattice{shape} starts from
  Seeded(_),        \* the streams seeded for a width
  Step(_, _, _),    \* width, field, streams: the next [field, rng]
  S(_),             \* s_full
  Chain             \* width -> the [field, rng] after n steps without a stop

Last == CHOOSE g \in Goals : \A h \in Goals : h <= g

Configs == [field : Fields, rng : Rngs]

ASSUME RunAssumption ==
  /\ Kinds \subseteq [carried : BOOLEAN, device : BOOLEAN, configs : BOOLEAN]
  /\ NTherm \in Nat /\ MeasEvery \in Nat \ {0} /\ Block \in Nat \ {0} /\ CheckpointEvery \in Nat
  /\ Goals \subseteq Nat /\ Last \in Goals /\ \A g \in Goals : g <= Last
  /\ MaxLaunches \in Nat

ASSUME PhysicsAssumption ==
  /\ \A f \in Fields : S(f) \in Int
  /\ \A w \in Widths :
       /\ \A n \in 0 .. NTherm + Last : Chain[w][n] \in Configs
       /\ Chain[w][0] = [field |-> Cold, rng |-> Seeded(w)]
       /\ \A n \in 0 .. NTherm + Last - 1 :
            Chain[w][n + 1] = Step(w, Chain[w][n].field, Chain[w][n].rng)

VARIABLES
  state,     \* "off"; "therm" and "prod": in a loop; "saving": in save_config
  program, out, width, goal, start,
  i,         \* the loop counter
  field, rng,
  lastS,     \* Metropolis::last_s_full_
  rows,      \* /prod/obs/s as this process appended it
  source,    \* the file this process resumed from, in a set of at most one
  files,     \* the complete configuration files
  outputs,   \* what is left of each output
  launches

process == <<program, out, width, goal, start>>
chain   == <<field, rng, lastS>>
vars == <<state, process, i, chain, rows, source, files, outputs, launches>>

Init ==
  /\ program \in Kinds
  /\ state = "off" /\ out \in Outs /\ width \in Widths /\ goal \in Goals
  /\ start = 0 /\ i = 0
  /\ field = Cold /\ rng = Seeded(width) /\ lastS = S(Cold)
  /\ rows = <<>> /\ source = {} /\ files = {} /\ outputs = {} /\ launches = 0

Without(name, set) == {x \in set : x.name # name}

(* Opening the writer truncates the output.                                *)
Opened(o) == outputs' = Without(o, outputs)

Launch(o, w, g) ==
  /\ state = "off" /\ launches < MaxLaunches
  /\ launches' = launches + 1
  /\ out' = o /\ width' = w /\ goal' = g
  /\ rows' = <<>> /\ i' = start'
  /\ UNCHANGED <<program, files>>

Fresh ==
  \E o \in Outs, w \in Widths, g \in Goals :
    /\ start' = 0
    /\ Launch(o, w, g) /\ Opened(o)
    /\ field' = Cold /\ rng' = Seeded(w) /\ lastS' = S(Cold)
    /\ state' = "therm" /\ source' = {}

WrongLoadedRng(file, w) == Seeded(w)

(* load_config replaces the streams seeded by the constructor.             *)
LoadedRng(file, w) == file.rng

WrongResynced(f) == S(Cold)

(* resync_s_full, after the constructor saw the cold field.                *)
Resynced(f) == S(f)

WrongAccepts(file, w) == TRUE

(* Reader::rng_streams compares the number of streams.  On the device the  *)
(* file brings its seed, so the width stands for that: it always agrees.   *)
Accepts(file, w) == file.width = w

Resume ==
  \E o \in Outs, w \in Widths, g \in Goals, file \in files :
    /\ Accepts(file, w)
    /\ start' = file.traj
    /\ Launch(o, w, g) /\ Opened(o)
    /\ field' = file.field /\ rng' = LoadedRng(file, w) /\ lastS' = Resynced(file.field)
    /\ state' = "prod" /\ source' = {file}

(* The file is missing or partial, or has another shape or, on the host,   *)
(* another number of streams: the loader throws.  A host program has       *)
(* opened its output by then, a device program opens it afterwards.        *)
Refused ==
  \E o \in Outs, w \in Widths, g \in Goals :
    /\ program.configs
    /\ start' = 0
    /\ Launch(o, w, g)
    /\ IF program.device THEN UNCHANGED outputs ELSE Opened(o)
    /\ field' = Cold /\ rng' = Seeded(w) /\ lastS' = S(Cold)
    /\ source' = {} /\ UNCHANGED state

(* One call of step.  Metropolis carries S by increments.                  *)
Stepped ==
  LET c == Step(width, field, rng) IN
  /\ field' = c.field /\ rng' = c.rng
  /\ lastS' = lastS + (S(c.field) - S(field))

Thermalize ==
  /\ state = "therm" /\ i < NTherm
  /\ Stepped
  /\ i' = i + 1
  /\ UNCHANGED <<state, process, rows, source, files, outputs, launches>>

Thermalized ==
  /\ state = "therm" /\ i >= NTherm
  /\ state' = "prod" /\ i' = start
  /\ UNCHANGED <<process, chain, rows, source, files, outputs, launches>>

(* A block ends after Block trajectories, or with the last one.            *)
BlockEnds(k) == (k + 1 - start) % Block = 0 \/ k + 1 = goal

WrongMeasures(k) == IF program.device THEN BlockEnds(k) ELSE (k - start) % MeasEvery = 0

(* The grid of measurements is that of the chain, not of the launch; on    *)
(* the device it is the launch's.                                          *)
Measures(k) == IF program.device THEN BlockEnds(k) ELSE k % MeasEvery = 0

Saves(k) ==
  /\ program.configs /\ CheckpointEvery > 0 /\ (k + 1) % CheckpointEvery = 0
  /\ program.device => BlockEnds(k)

Measured == IF program.carried THEN lastS' ELSE S(field')

WrongCfgPath(k) == 1

(* cfg_path: the number of finished trajectories is part of the name.      *)
CfgPath(k) == k + 1

(* One trajectory of the production loop, and what follows it up to        *)
(* save_config, which creates the file, hence truncates one of the same    *)
(* name, before it writes.                                                 *)
Produce ==
  /\ state = "prod" /\ i < goal
  /\ Stepped
  /\ rows' = IF Measures(i) THEN Append(rows, Measured) ELSE rows
  /\ IF Saves(i)
     THEN /\ state' = "saving" /\ files' = Without(<<out, CfgPath(i)>>, files)
          /\ UNCHANGED i
     ELSE i' = i + 1 /\ UNCHANGED <<state, files>>
  /\ UNCHANGED <<process, source, outputs, launches>>

(* /traj@i: the next trajectory, not the one just finished.                *)
Traj(k) == k + 1

Saved ==
  /\ state = "saving"
  /\ files' = files \cup {[name |-> <<out, CfgPath(i)>>, traj |-> Traj(i),
                           field |-> field, rng |-> rng, width |-> width]}
  /\ state' = "prod" /\ i' = i + 1
  /\ UNCHANGED <<process, chain, rows, source, outputs, launches>>

Left(r, clean) ==
  outputs' = outputs \cup
    {[device |-> program.device, name |-> out, width |-> width, start |-> start, goal |-> goal,
      rows |-> r, clean |-> clean]}

WrongClosed(r) == SubSeq(r, 1, Len(r) - (Len(r) % 2))

(* The destructors of Series and Writer write what is still buffered.      *)
Closed(r) == r

Finish ==
  /\ state = "prod" /\ i >= goal
  /\ Left(Closed(rows), TRUE)
  /\ state' = "off" /\ source' = {}
  /\ UNCHANGED <<process, i, chain, rows, files, launches>>

(* A death leaves some first rows (module Series).                         *)
Die ==
  /\ state # "off"
  /\ \E n \in 0 .. Len(rows) : Left(SubSeq(rows, 1, n), FALSE)
  /\ state' = "off" /\ source' = {}
  /\ UNCHANGED <<process, i, chain, rows, files, launches>>

Next ==
  \/ Fresh \/ Resume \/ Refused
  \/ Thermalize \/ Thermalized \/ Produce \/ Saved
  \/ Finish \/ Die

Spec == Init /\ [][Next]_vars
-----------------------------------------------------------------------------
(* Steps the chain of this process has behind it.                          *)
Age == CASE state = "therm" -> i [] state = "saving" -> NTherm + i + 1 [] OTHER -> NTherm + i

RowsBefore(s) == (s + MeasEvery - 1) \div MeasEvery

(* The trajectory after which the k-th row of an output was measured.      *)
HostRow(s, k) == MeasEvery * (RowsBefore(s) + k - 1)

DeviceRow(s, g, k) == IF s + Block * k <= g THEN s + Block * k - 1 ELSE g - 1

RowOf(device, s, g, k) == IF device THEN DeviceRow(s, g, k) ELSE HostRow(s, k)

TypeOK ==
  /\ state \in {"off", "therm", "prod", "saving"}
  /\ program \in Kinds /\ out \in Outs /\ width \in Widths /\ goal \in Goals
  /\ start \in 0 .. Last /\ i \in Nat
  /\ field \in Fields /\ rng \in Rngs /\ lastS \in Int /\ rows \in Seq(Int)
  /\ files \subseteq [name : Outs \X (1 .. Last), traj : 1 .. Last,
                      field : Fields, rng : Rngs, width : Widths]
  /\ outputs \subseteq [device : BOOLEAN, name : Outs, width : Widths, start : 0 .. Last,
                        goal : Goals, rows : Seq(Int), clean : BOOLEAN]
  /\ launches \in 0 .. MaxLaunches

(* "a resumed chain is bit-identical to the uninterrupted one"             *)
(* (app::resume_or_start), through any succession of deaths and resumes.   *)
BitExactResume ==
  state # "off" => [field |-> field, rng |-> rng] = Chain[width][Age]

(* Every complete configuration file continues the chain at its number.    *)
CheckpointsExact ==
  \A x \in files :
    [field |-> x.field, rng |-> x.rng] = Chain[x.width][NTherm + x.traj]

(* Rows carry no index: a reader places the k-th row of an output by the   *)
(* trajectory it started from, and finds what the uninterrupted run        *)
(* measured there.                                                         *)
RowsExact ==
  \A o \in outputs : \A k \in 1 .. Len(o.rows) :
    LET n == RowOf(o.device, o.start, o.goal, k) IN
    /\ n < o.goal
    /\ o.rows[k] = S(Chain[o.width][NTherm + n + 1].field)

(* A launch that ended by itself measured its whole part of the grid, on   *)
(* the device to the last, shorter, block.                                 *)
CleanCoversGrid ==
  \A o \in outputs : o.clean /\ o.start <= o.goal =>
    Len(o.rows) = IF o.device THEN (o.goal - o.start + Block - 1) \div Block
                  ELSE Cardinality({k \in o.start .. o.goal - 1 : k % MeasEvery = 0})

(* A process never overwrites the file it resumed from: whatever becomes   *)
(* of it, the resume can be repeated.                                      *)
SourceIntact == source \subseteq files
=============================================================================
