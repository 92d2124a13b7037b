-------------------------- MODULE ChainRun_proofs --------------------------
(***************************************************************************)
(* The single-chain programs follow the chain, for any physics, any grid,  *)
(* any checkpoint period and any succession of deaths and resumes.         *)
(***************************************************************************)
EXTENDS ChainRun, FiniteSetTheorems, FunctionTheorems, TLAPS

Running == state # "off"

Bounds ==
  /\ state = "therm" => i <= NTherm /\ start = 0
  /\ state = "prod" => start <= i /\ i <= Last
  /\ state = "saving" => start <= i /\ i < goal

OnChain ==
  /\ field = Chain[width][Age].field
  /\ rng = Chain[width][Age].rng
  /\ lastS = S(field)

ChainInv == Running => OnChain

FilesInv == \A x \in files :
  /\ x.name[2] = x.traj
  /\ x.field = Chain[x.width][NTherm + x.traj].field
  /\ x.rng = Chain[x.width][NTherm + x.traj].rng

SourceInv == source \subseteq files /\ \A x \in source : x.traj = start

Inv == TypeOK /\ Bounds /\ ChainInv /\ FilesInv /\ SourceInv

(* One more call of step is one more step of the chain.                    *)
LEMMA StepFollows ==
  ASSUME width \in Widths, NEW n \in 0 .. NTherm + Last - 1, Stepped,
         field = Chain[width][n].field, rng = Chain[width][n].rng, lastS = S(field)
  PROVE  /\ field' = Chain[width][n + 1].field /\ rng' = Chain[width][n + 1].rng
         /\ lastS' = S(field') /\ field' \in Fields /\ rng' \in Rngs /\ lastS' \in Int
<1>1. /\ NTherm \in Nat /\ Last \in Nat
      /\ n \in 0 .. NTherm + Last /\ n + 1 \in 0 .. NTherm + Last
  <2>1. NTherm \in Nat /\ Last \in Nat
    BY RunAssumption
  <2>2. QED BY <2>1
<1>2. /\ Chain[width][n + 1] = Step(width, field, rng)
      /\ Chain[width][n + 1] \in Configs /\ Chain[width][n] \in Configs
  <2>1. Chain[width][n + 1] = Step(width, Chain[width][n].field, Chain[width][n].rng)
    BY PhysicsAssumption
  <2>2. QED BY <1>1, <2>1, PhysicsAssumption
<1>3. field' = Chain[width][n + 1].field /\ rng' = Chain[width][n + 1].rng
  BY <1>2 DEF Stepped
<1>4. field \in Fields /\ field' \in Fields /\ rng' \in Rngs
  BY <1>2, <1>3 DEF Configs
<1>5. S(field) \in Int /\ S(field') \in Int
  BY <1>4, PhysicsAssumption
<1>6. lastS' = lastS + (S(field') - S(field))
  BY <1>2, <1>3 DEF Stepped
<1>7. QED BY <1>3, <1>4, <1>5, <1>6

LEMMA StartsOnChain ==
  ASSUME NEW w \in Widths
  PROVE  /\ Cold = Chain[w][0].field /\ Seeded(w) = Chain[w][0].rng
         /\ Cold \in Fields /\ Seeded(w) \in Rngs /\ S(Cold) \in Int
<1>1. 0 \in 0 .. NTherm + Last
  BY RunAssumption
<1>2. Chain[w][0] = [field |-> Cold, rng |-> Seeded(w)] /\ Chain[w][0] \in Configs
  BY <1>1, PhysicsAssumption
<1>3. QED BY <1>2, PhysicsAssumption DEF Configs

LEMMA InitInv == Init => Inv
<1> SUFFICES ASSUME Init PROVE Inv
  OBVIOUS
<1>1. TypeOK
  <2>1. Cold \in Fields /\ Seeded(width) \in Rngs /\ S(Cold) \in Int
    BY StartsOnChain DEF Init
  <2>2. 0 \in 0 .. Last /\ 0 \in 0 .. MaxLaunches
    BY RunAssumption
  <2>3. rows \in Seq(Int)
    BY DEF Init
  <2>4. QED BY <2>1, <2>2, <2>3 DEF Init, TypeOK
<1>2. QED BY <1>1 DEF Init, Inv, Bounds, ChainInv, Running, FilesInv, SourceInv

LEMMA FreshInv == Inv /\ Fresh => Inv'
<1> SUFFICES ASSUME Inv, Fresh PROVE Inv'
  OBVIOUS
<1>1. PICK o \in Outs, w \in Widths, g \in Goals :
        /\ start' = 0 /\ Launch(o, w, g) /\ Opened(o)
        /\ field' = Cold /\ rng' = Seeded(w) /\ lastS' = S(Cold)
        /\ state' = "therm" /\ source' = {}
  BY DEF Fresh
<1>2. TypeOK'
  BY <1>1, StartsOnChain, RunAssumption DEF Inv, TypeOK, Launch, Opened, Without
<1>3. Bounds' /\ ChainInv' /\ SourceInv'
  BY <1>1, StartsOnChain, RunAssumption
  DEF Launch, Bounds, ChainInv, Running, OnChain, Age, SourceInv
<1>4. FilesInv'
  BY <1>1 DEF Inv, FilesInv, Launch
<1>5. QED BY <1>2, <1>3, <1>4 DEF Inv

LEMMA ResumeInv == Inv /\ Resume => Inv'
<1> SUFFICES ASSUME Inv, Resume PROVE Inv'
  OBVIOUS
<1>1. PICK o \in Outs, w \in Widths, g \in Goals, file \in files :
        /\ file.width = w
        /\ start' = file.traj /\ Launch(o, w, g) /\ Opened(o)
        /\ field' = file.field /\ rng' = file.rng /\ lastS' = S(file.field)
        /\ state' = "prod" /\ source' = {file}
  BY DEF Resume, Accepts, LoadedRng, Resynced
<1>2. /\ file.traj \in 1 .. Last /\ file.field \in Fields /\ file.rng \in Rngs
      /\ S(file.field) \in Int /\ Last \in Nat /\ NTherm \in Nat
  BY PhysicsAssumption, RunAssumption DEF Inv, TypeOK
<1>3. TypeOK'
  <2>1. /\ state' = "prod" /\ program' = program /\ out' = o /\ width' = w /\ goal' = g /\ rows' = <<>>
        /\ start' \in 0 .. Last /\ i' \in Nat /\ field' \in Fields /\ rng' \in Rngs
        /\ lastS' \in Int /\ files' = files /\ outputs' \subseteq outputs
        /\ launches' \in 0 .. MaxLaunches
    BY <1>1, <1>2, RunAssumption DEF Inv, TypeOK, Launch, Opened, Without
  <2>2. QED BY <2>1 DEF Inv, TypeOK
<1>4. Bounds' /\ ChainInv'
  BY <1>1, <1>2 DEF Inv, FilesInv, Launch, Bounds, ChainInv, Running, OnChain, Age
<1>5. FilesInv' /\ SourceInv'
  BY <1>1 DEF Inv, FilesInv, SourceInv, Launch
<1>6. QED BY <1>3, <1>4, <1>5 DEF Inv

LEMMA RefusedInv == Inv /\ Refused => Inv'
<1> SUFFICES ASSUME Inv, Refused PROVE Inv'
  OBVIOUS
<1>1. PICK o \in Outs, w \in Widths, g \in Goals :
        /\ start' = 0 /\ Launch(o, w, g)
        /\ field' = Cold /\ rng' = Seeded(w) /\ lastS' = S(Cold)
        /\ source' = {} /\ UNCHANGED state /\ outputs' \subseteq outputs
  BY DEF Refused, Opened, Without
<1>2. TypeOK'
  <2>1. Cold \in Fields /\ Seeded(w) \in Rngs /\ S(Cold) \in Int
    BY StartsOnChain
  <2>2. 0 \in 0 .. Last /\ 0 \in Nat
    BY RunAssumption
  <2>3. launches' \in 0 .. MaxLaunches
    BY <1>1, RunAssumption DEF Inv, TypeOK, Launch
  <2>4. QED BY <1>1, <2>1, <2>2, <2>3 DEF Inv, TypeOK, Launch
<1>3. Bounds' /\ ChainInv' /\ SourceInv'
  BY <1>1 DEF Launch, Bounds, ChainInv, Running, SourceInv
<1>4. FilesInv'
  BY <1>1 DEF Inv, FilesInv, Launch
<1>5. QED BY <1>2, <1>3, <1>4 DEF Inv

LEMMA ThermInv == Inv /\ (Thermalize \/ Thermalized) => Inv'
<1> SUFFICES ASSUME Inv, Thermalize \/ Thermalized PROVE Inv'
  OBVIOUS
<1>1. CASE Thermalize
  <2>1. i \in 0 .. NTherm + Last - 1 /\ Age = i /\ OnChain /\ Last \in Nat /\ NTherm \in Nat
    BY <1>1, RunAssumption, SMTT(60) DEF Thermalize, Inv, TypeOK, ChainInv, Running, Age
  <2>2. /\ field' = Chain[width][i + 1].field /\ rng' = Chain[width][i + 1].rng
        /\ lastS' = S(field') /\ field' \in Fields /\ rng' \in Rngs /\ lastS' \in Int
    BY <1>1, <2>1, StepFollows DEF Thermalize, OnChain, Inv, TypeOK
  <2>3. TypeOK'
    BY <1>1, <2>1, <2>2, SMTT(60) DEF Thermalize, process, Inv, TypeOK
  <2>4. Bounds' /\ ChainInv'
    BY <1>1, <2>1, <2>2
    DEF Thermalize, process, Inv, TypeOK, Bounds, ChainInv, Running, OnChain, Age
  <2>5. QED BY <1>1, <2>3, <2>4 DEF Thermalize, process, Inv, FilesInv, SourceInv
<1>2. CASE Thermalized
  <2>1. /\ i = NTherm /\ start = 0 /\ Age = i /\ Age' = i /\ Last \in Nat /\ NTherm \in Nat
        /\ OnChain
    BY <1>2, RunAssumption
    DEF Thermalized, process, Inv, TypeOK, Bounds, ChainInv, Running, Age
  <2>2. TypeOK'
    BY <1>2, <2>1 DEF Thermalized, process, chain, Inv, TypeOK
  <2>3. Bounds' /\ ChainInv'
    BY <1>2, <2>1 DEF Thermalized, process, chain, Inv, TypeOK, Bounds, ChainInv, Running, OnChain
  <2>4. QED BY <1>2, <2>2, <2>3 DEF Thermalized, process, Inv, FilesInv, SourceInv
<1>3. QED BY <1>1, <1>2

LEMMA ProduceInv == Inv /\ Produce => Inv'
<1> SUFFICES ASSUME Inv, Produce PROVE Inv'
  OBVIOUS
<1>1. /\ i \in Nat /\ i < goal /\ goal <= Last /\ Last \in Nat /\ NTherm \in Nat /\ goal \in Nat
      /\ start \in Nat /\ start <= i /\ Age = NTherm + i /\ OnChain /\ state = "prod"
  BY RunAssumption DEF Produce, Inv, TypeOK, Bounds, ChainInv, Running, Age
<1>2. NTherm + i \in 0 .. NTherm + Last - 1
  BY <1>1
<1>3. /\ field' = Chain[width][NTherm + i + 1].field /\ rng' = Chain[width][NTherm + i + 1].rng
      /\ lastS' = S(field') /\ field' \in Fields /\ rng' \in Rngs /\ lastS' \in Int
  BY <1>1, <1>2, StepFollows DEF Produce, OnChain, Inv, TypeOK
<1>4. \/ state' = "saving" /\ files' = Without(<<out, i + 1>>, files) /\ i' = i
      \/ state' = "prod" /\ files' = files /\ i' = i + 1
  BY <1>1 DEF Produce, CfgPath
<1>5. files' \subseteq files /\ source' = source /\ start' = start /\ width' = width
      /\ UNCHANGED <<program, out, goal, outputs, launches>>
  BY <1>4 DEF Produce, process, Without
<1>6. rows' \in Seq(Int)
  <2>1. Measured \in Int
    BY <1>3, PhysicsAssumption DEF Measured
  <2>2. QED BY <2>1 DEF Produce, Inv, TypeOK
<1>7. TypeOK'
  <2>1. TypeOK
    BY DEF Inv
  <2>2. state' \in {"off", "therm", "prod", "saving"} /\ i' \in Nat /\ start' \in 0 .. Last
    BY <1>1, <1>4, <1>5, <2>1 DEF TypeOK
  <2>3. files' \subseteq [name : Outs \X (1 .. Last), traj : 1 .. Last,
                          field : Fields, rng : Rngs, width : Widths]
    BY <1>5, <2>1 DEF TypeOK
  <2>4. program' \in Kinds /\ out' \in Outs /\ width' \in Widths /\ goal' \in Goals /\ launches' \in 0 .. MaxLaunches
    BY <1>5, <2>1 DEF TypeOK
  <2>5. outputs' \subseteq [device : BOOLEAN, name : Outs, width : Widths, start : 0 .. Last,
                            goal : Goals, rows : Seq(Int), clean : BOOLEAN]
    BY <1>5, <2>1 DEF TypeOK
  <2>6. QED BY <1>3, <1>6, <2>2, <2>3, <2>4, <2>5 DEF TypeOK
<1>8. Bounds'
  BY <1>1, <1>4, <1>5 DEF Bounds
<1>9. ChainInv'
  <2>1. Age' = NTherm + i + 1
    BY <1>1, <1>4 DEF Age
  <2>2. QED BY <1>3, <1>5, <2>1 DEF ChainInv, OnChain
<1>10. FilesInv'
  BY <1>5 DEF Inv, FilesInv
<1>11. SourceInv'
  <2> SUFFICES ASSUME NEW x \in source PROVE x \in files' /\ x.traj = start
    BY <1>5 DEF SourceInv
  <2>1. x \in files /\ x.traj = start /\ x.name[2] = x.traj
    BY DEF Inv, SourceInv, FilesInv
  <2>2. x.name # <<out, i + 1>>
    BY <1>1, <2>1
  <2>3. QED BY <1>4, <2>1, <2>2 DEF Without
<1>12. QED BY <1>7, <1>8, <1>9, <1>10, <1>11 DEF Inv

LEMMA SavedInv == Inv /\ Saved => Inv'
<1> SUFFICES ASSUME Inv, Saved PROVE Inv'
  OBVIOUS
<1> DEFINE new == [name |-> <<out, i + 1>>, traj |-> i + 1,
                   field |-> field, rng |-> rng, width |-> width]
<1>1. /\ i \in Nat /\ i < goal /\ goal <= Last /\ Last \in Nat /\ NTherm \in Nat /\ goal \in Nat
      /\ start \in Nat /\ start <= i /\ Age = NTherm + i + 1 /\ Age' = NTherm + (i + 1) /\ OnChain
  BY RunAssumption DEF Saved, Inv, TypeOK, Bounds, ChainInv, Running, Age
<1>2. /\ files' = files \cup {new} /\ state' = "prod" /\ i' = i + 1
      /\ UNCHANGED <<program, out, width, goal, start, field, rng, lastS, rows, source, outputs, launches>>
  BY DEF Saved, CfgPath, Traj, process, chain
<1>3. TypeOK'
  <2>1. i + 1 \in 1 .. Last
    BY <1>1
  <2>2. new \in [name : Outs \X (1 .. Last), traj : 1 .. Last,
                 field : Fields, rng : Rngs, width : Widths]
    BY <2>1 DEF Inv, TypeOK
  <2>3. QED BY <1>1, <1>2, <2>2 DEF Inv, TypeOK
<1>4. Bounds' /\ ChainInv'
  BY <1>1, <1>2 DEF Bounds, ChainInv, OnChain
<1>5. FilesInv'
  <2>1. /\ new.name[2] = new.traj
        /\ new.field = Chain[new.width][NTherm + new.traj].field
        /\ new.rng = Chain[new.width][NTherm + new.traj].rng
    BY <1>1 DEF OnChain
  <2>2. QED BY <1>2, <2>1 DEF Inv, FilesInv
<1>6. SourceInv'
  BY <1>2 DEF Inv, SourceInv
<1>7. QED BY <1>3, <1>4, <1>5, <1>6 DEF Inv

LEMMA EndInv == Inv /\ (Finish \/ Die) => Inv'
<1> SUFFICES ASSUME Inv, Finish \/ Die PROVE Inv'
  OBVIOUS
<1>1. /\ state' = "off" /\ source' = {}
      /\ UNCHANGED <<program, out, width, goal, start, i, field, rng, lastS, rows, files, launches>>
  BY DEF Finish, Die, process, chain
<1>2. outputs' \subseteq [device : BOOLEAN, name : Outs, width : Widths, start : 0 .. Last,
                          goal : Goals, rows : Seq(Int), clean : BOOLEAN]
  <2>1. \E r \in Seq(Int), c \in BOOLEAN : Left(r, c)
    <3>1. CASE Finish
      BY <3>1 DEF Finish, Closed, Inv, TypeOK
    <3>2. CASE Die
      <4>1. PICK n \in 0 .. Len(rows) : Left(SubSeq(rows, 1, n), FALSE)
        BY <3>2 DEF Die
      <4>2. SubSeq(rows, 1, n) \in Seq(Int)
        BY DEF Inv, TypeOK
      <4>3. QED BY <4>1, <4>2
    <3>3. QED BY <3>1, <3>2
  <2>2. program.device \in BOOLEAN
    BY RunAssumption DEF Inv, TypeOK
  <2>3. QED BY <2>1, <2>2 DEF Left, Inv, TypeOK
<1>3. TypeOK'
  BY <1>1, <1>2 DEF Inv, TypeOK
<1>4. QED BY <1>1, <1>3 DEF Inv, Bounds, ChainInv, Running, FilesInv, SourceInv

LEMMA InvHolds == Spec => []Inv
<1>1. Inv /\ UNCHANGED vars => Inv'
  BY DEF vars, process, chain, Inv, TypeOK, Bounds, ChainInv, Running, OnChain, Age, FilesInv, SourceInv
<1>2. Inv /\ [Next]_vars => Inv'
  BY <1>1, FreshInv, ResumeInv, RefusedInv, ThermInv, ProduceInv, SavedInv, EndInv DEF Next
<1>3. QED BY InitInv, <1>2, PTL DEF Spec

(* Every variable of the program stays in its type.                        *)
THEOREM ChainTypeCorrect == Spec => []TypeOK
<1>1. Inv => TypeOK
  BY DEF Inv
<1>2. QED BY InvHolds, <1>1, PTL

(* A process holds the field and the random streams that the uninterrupted *)
(* run has after as many steps (app::resume_or_start, io::load_config).    *)
THEOREM ResumeFollowsChain == Spec => []BitExactResume
<1>1. Inv => BitExactResume
  <2> SUFFICES ASSUME Inv, Running PROVE [field |-> field, rng |-> rng] = Chain[width][Age]
    BY DEF BitExactResume, Running
  <2>1. Age \in 0 .. NTherm + Last
    BY RunAssumption, SMTT(60) DEF Inv, TypeOK, Bounds, Running, Age
  <2>2. Chain[width][Age] \in Configs
    BY <2>1, PhysicsAssumption DEF Inv, TypeOK
  <2>3. QED BY <2>2 DEF Inv, ChainInv, OnChain, Configs
<1>2. QED BY InvHolds, <1>1, PTL

(* Every complete configuration file is the chain at the file's number.    *)
THEOREM FilesFollowChain == Spec => []CheckpointsExact
<1>1. Inv => CheckpointsExact
  <2> SUFFICES ASSUME Inv, NEW x \in files
               PROVE [field |-> x.field, rng |-> x.rng] = Chain[x.width][NTherm + x.traj]
    BY DEF CheckpointsExact
  <2>1. NTherm + x.traj \in 0 .. NTherm + Last /\ x.width \in Widths
    BY RunAssumption DEF Inv, TypeOK
  <2>2. Chain[x.width][NTherm + x.traj] \in Configs
    BY <2>1, PhysicsAssumption
  <2>3. QED BY <2>2 DEF Inv, FilesInv, Configs
<1>2. QED BY InvHolds, <1>1, PTL

(* The file a process resumed from outlives every write of that process.   *)
THEOREM SourceSurvives == Spec => []SourceIntact
<1>1. Inv => SourceIntact
  BY DEF Inv, SourceInv, SourceIntact
<1>2. QED BY InvHolds, <1>1, PTL
-----------------------------------------------------------------------------
(* The measurement grid.  A process has a row for each grid point since it *)
(* started, and a counter that advances by one meets the next grid point   *)
(* when it is due.                                                         *)
LEMMA Unique ==
  ASSUME NEW M \in Nat \ {0}, NEW p \in Int, NEW q \in Int, NEW x \in Int,
         M * p <= x, x < M * p + M, M * q <= x, x < M * q + M
  PROVE  p = q
<1>1. ASSUME NEW a \in Int, NEW b \in Int, a < b PROVE M * a + M <= M * b
  <2>1. b = a + (b - a) /\ b - a >= 1 /\ b - a \in Nat
    BY <1>1
  <2>2. M * b = M * a + M * (b - a)
    BY <2>1
  <2>3. M * (b - a) >= M
    BY <2>1
  <2>4. M * a \in Int /\ M * b \in Int /\ M * (b - a) \in Int
    OBVIOUS
  <2>5. QED BY <2>2, <2>3, <2>4
<1>2. CASE p < q
  BY <1>1, <1>2
<1>3. CASE q < p
  BY <1>1, <1>3
<1>4. QED BY <1>2, <1>3

LEMMA Division ==
  ASSUME NEW M \in Nat \ {0}, NEW x \in Nat
  PROVE  /\ x \div M \in Nat /\ M * (x \div M) \in Int
         /\ M * (x \div M) <= x /\ x < M * (x \div M) + M
         /\ x = M * (x \div M) + (x % M) /\ x % M \in 0 .. M - 1
<1>1. x \div M \in Int /\ x \div M >= 0
  OBVIOUS
<1>2. M * (x \div M) <= x /\ x < M * (x \div M) + M
  OBVIOUS
<1>3. x = M * (x \div M) + (x % M) /\ x % M \in 0 .. M - 1
  OBVIOUS
<1>4. QED BY <1>1, <1>2, <1>3

LEMMA GridStep ==
  ASSUME NEW x \in Nat
  PROVE  /\ RowsBefore(x) \in Nat
         /\ x % MeasEvery = 0 => /\ MeasEvery * RowsBefore(x) = x
                                 /\ RowsBefore(x + 1) = RowsBefore(x) + 1
         /\ x % MeasEvery # 0 => RowsBefore(x + 1) = RowsBefore(x)
<1> DEFINE M == MeasEvery  q == x \div M  r == x % M  c == RowsBefore(x)  d == RowsBefore(x + 1)
<1>1. M \in Nat \ {0} /\ x + M - 1 \in Nat /\ x + M \in Nat /\ (x + 1) + M - 1 = x + M
  BY RunAssumption
<1>2. q \in Nat /\ x = M * q + r /\ r \in 0 .. M - 1 /\ M * q \in Int
  BY <1>1, Division
<1>3. c \in Nat /\ M * c \in Int /\ M * c <= x + M - 1 /\ x + M - 1 < M * c + M
  BY <1>1, Division DEF RowsBefore
<1>4. d \in Nat /\ M * d \in Int /\ M * d <= x + M /\ x + M < M * d + M
  BY <1>1, Division DEF RowsBefore
<1>5. r = 0 \/ r # 0
  OBVIOUS
<1>6. x % MeasEvery = 0 <=> r = 0
  OBVIOUS
<1> HIDE DEF M, q, c, d, r
<1>7. M * (q + 1) = M * q + M /\ M * (q + 1) \in Int /\ q \in Int /\ q + 1 \in Int /\ c \in Int /\ d \in Int
  BY <1>1, <1>2, <1>3, <1>4
<1>8. d = q + 1
  <2>1. M * (q + 1) <= x + M /\ x + M < M * (q + 1) + M
    BY <1>1, <1>2, <1>7
  <2>2. QED BY <1>1, <1>4, <1>7, <2>1, Unique
<1>9. ASSUME r = 0 PROVE c = q
  <2>1. M * q <= x + M - 1 /\ x + M - 1 < M * q + M
    BY <1>1, <1>2, <1>9
  <2>2. QED BY <1>1, <1>3, <1>7, <2>1, Unique
<1>10. ASSUME r # 0 PROVE c = q + 1
  <2>1. M * (q + 1) <= x + M - 1 /\ x + M - 1 < M * (q + 1) + M
    BY <1>1, <1>2, <1>7, <1>10
  <2>2. QED BY <1>1, <1>3, <1>7, <2>1, Unique
<1>11. ASSUME r = 0 PROVE M * q = x
  BY <1>1, <1>2, <1>11
<1>12. QED BY <1>3, <1>6, <1>8, <1>9, <1>10, <1>11 DEF M, c, d

(* A block of the device: L rows are there, one for each block behind, and *)
(* the next row is due when this block ends.                               *)
LEMMA BlockStep ==
  ASSUME NEW s \in Nat, NEW g \in Nat, NEW x \in Nat, NEW L \in Nat, s <= x, x < g,
         Block * L <= x - s, x - s < Block * L + Block
  PROVE  /\ (x + 1 - s) % Block = 0 =>
              x + 1 - s = Block * (L + 1) /\ DeviceRow(s, g, L + 1) = x
         /\ x + 1 = g => DeviceRow(s, g, L + 1) = x
         /\ (x + 1 - s) % Block # 0 => x + 1 - s < Block * L + Block
<1> DEFINE y == x + 1 - s  q == y \div Block  r == y % Block
<1>1. Block \in Nat \ {0} /\ y \in Nat /\ Block * L \in Int /\ y <= Block * L + Block
      /\ Block * L < y
  BY RunAssumption
<1>2. q \in Nat /\ y = Block * q + r /\ r \in 0 .. Block - 1 /\ Block * q \in Int
  BY <1>1, Division
<1>3. Block * (L + 1) = Block * L + Block /\ L + 1 \in Int /\ L \in Int /\ q \in Int
  BY <1>1, <1>2
<1> HIDE DEF y, q, r
<1>4. CASE y = Block * L + Block
  <2>1. q = L + 1
    <3>1. Block * (L + 1) <= y /\ y < Block * (L + 1) + Block
      BY <1>1, <1>3, <1>4
    <3>2. Block * q <= y /\ y < Block * q + Block
      BY <1>1, <1>2
    <3>3. QED BY <1>1, <1>3, <3>1, <3>2, Unique
  <2>2. r = 0
    BY <1>1, <1>2, <1>3, <1>4, <2>1
  <2>3. s + Block * (L + 1) = x + 1
    BY <1>1, <1>3, <1>4 DEF y
  <2>4. DeviceRow(s, g, L + 1) = x
    BY <1>1, <1>3, <2>3 DEF DeviceRow
  <2>5. y = Block * (L + 1)
    BY <1>3, <1>4
  <2>6. QED BY <2>2, <2>4, <2>5 DEF y, r
<1>5. CASE y < Block * L + Block
  <2>1. q = L
    <3>1. Block * L <= y /\ y < Block * L + Block
      BY <1>1, <1>5
    <3>2. Block * q <= y /\ y < Block * q + Block
      BY <1>1, <1>2
    <3>3. QED BY <1>1, <1>3, <3>1, <3>2, Unique
  <2>2. r # 0
    BY <1>1, <1>2, <2>1
  <2>3. s + Block * (L + 1) > x + 1
    BY <1>1, <1>3, <1>5 DEF y
  <2>4. x + 1 = g => DeviceRow(s, g, L + 1) = x
    BY <1>1, <1>3, <2>3 DEF DeviceRow
  <2>5. QED BY <1>5, <2>2, <2>4 DEF y, r
<1>6. QED BY <1>1, <1>4, <1>5

(* Whether L rows are what the device has after `done` trajectories.       *)
DueAfter(L, s, g, done) ==
  done < g => Block * L <= done - s /\ done - s < Block * L + Block

LEMMA NoneDue ==
  ASSUME NEW s \in Nat, NEW g \in Nat
  PROVE  DueAfter(0, s, g, s)
BY RunAssumption DEF DueAfter

LEMMA NextDue ==
  ASSUME NEW L \in Nat, NEW s \in Nat, NEW g \in Nat, NEW x \in Nat,
         x + 1 < g => x + 1 - s = Block * (L + 1)
  PROVE  DueAfter(L + 1, s, g, x + 1)
<1> SUFFICES ASSUME x + 1 < g
             PROVE  Block * (L + 1) <= x + 1 - s /\ x + 1 - s < Block * (L + 1) + Block
  BY DEF DueAfter
<1>1. x + 1 - s = Block * (L + 1) /\ x + 1 - s \in Int /\ Block \in Nat \ {0}
  BY RunAssumption
<1>2. QED BY <1>1

(* Trajectories finished in the production loop.                           *)
Done == IF state = "saving" THEN i + 1 ELSE i

RowsOfChain(d, w, s, e, r) == \A k \in 1 .. Len(r) :
  /\ RowOf(d, s, e, k) < e
  /\ r[k] = S(Chain[w][NTherm + RowOf(d, s, e, k) + 1].field)

HostCount == Len(rows) = RowsBefore(Done) - RowsBefore(start)

DeviceCount == DueAfter(Len(rows), start, goal, Done)

Counted == IF program.device THEN DeviceCount ELSE HostCount

OutputsOfChain == \A o \in outputs : RowsOfChain(o.device, o.width, o.start, o.goal, o.rows)

RowsInv ==
  /\ state \in {"therm"} => rows = <<>>
  /\ state \in {"prod", "saving"} =>
       Counted /\ RowsOfChain(program.device, width, start, goal, rows)
  /\ OutputsOfChain

LEMMA InitRows == Init => RowsInv
BY DEF Init, RowsInv, OutputsOfChain

LEMMA LaunchRows == Inv /\ RowsInv /\ (Fresh \/ Resume \/ Refused) => RowsInv'
<1> SUFFICES ASSUME Inv, RowsInv, Fresh \/ Resume \/ Refused PROVE RowsInv'
  OBVIOUS
<1>1. /\ rows' = <<>> /\ i' = start' /\ outputs' \subseteq outputs /\ start' \in Nat
      /\ state' # "saving" /\ state = "off"
  <2>1. PICK o \in Outs, w \in Widths, g \in Goals : Launch(o, w, g)
    BY DEF Fresh, Resume, Refused
  <2>2. start' \in Nat
    BY RunAssumption DEF Fresh, Resume, Refused, Inv, TypeOK
  <2>3. outputs' \subseteq outputs
    BY DEF Fresh, Resume, Refused, Opened, Without
  <2>4. QED BY <2>1, <2>2, <2>3 DEF Launch, Fresh, Resume, Refused
<1>2. OutputsOfChain'
  BY <1>1 DEF RowsInv, OutputsOfChain
<1>3. Len(rows') = 0 /\ Done' = start' /\ RowsBefore(start') \in Nat /\ Block \in Nat \ {0}
  BY <1>1, GridStep, RunAssumption DEF Done
<1>4. goal' \in Nat
  BY RunAssumption DEF Fresh, Resume, Refused, Launch
<1>5. RowsOfChain(program.device', width', start', goal', rows') /\ Counted'
  <2>1. HostCount'
    BY <1>1, <1>3 DEF HostCount
  <2>2. DeviceCount'
    BY <1>1, <1>3, <1>4, NoneDue DEF DeviceCount, DueAfter
  <2>3. Counted'
    BY <2>1, <2>2 DEF Counted
  <2>4. QED BY <1>3, <2>3 DEF RowsOfChain
<1>6. QED BY <1>1, <1>2, <1>3, <1>5 DEF RowsInv, RowsOfChain

LEMMA ProduceRows == Inv /\ RowsInv /\ Produce => RowsInv'
<1> SUFFICES ASSUME Inv, RowsInv, Produce PROVE RowsInv'
  OBVIOUS
<1>1. /\ i \in Nat /\ i < goal /\ start \in Nat /\ state = "prod" /\ Done = i /\ rows \in Seq(Int)
      /\ NTherm \in Nat /\ Last \in Nat /\ goal <= Last /\ goal \in Nat
  BY RunAssumption DEF Produce, Inv, TypeOK, Done
<1>2. /\ Len(rows) \in Nat /\ Counted
      /\ RowsOfChain(program.device, width, start, goal, rows)
      /\ RowsBefore(i) \in Nat /\ RowsBefore(start) \in Nat
  <2>1. RowsBefore(i) \in Nat /\ RowsBefore(start) \in Nat
    BY <1>1, GridStep
  <2>2. Counted /\ RowsOfChain(program.device, width, start, goal, rows)
    BY <1>1 DEF RowsInv
  <2>3. QED BY <1>1, <2>1, <2>2
<1>3. Done' = i + 1 /\ state' \in {"prod", "saving"} /\ start <= i /\ Block \in Nat \ {0}
      /\ UNCHANGED <<program, start, goal, width, outputs>>
  BY <1>1, RunAssumption DEF Produce, process, Done, Inv, Bounds
<1>4. Measured = S(Chain[width][NTherm + i + 1].field) /\ Measured \in Int
  <2>1. Age = NTherm + i /\ OnChain
    BY <1>1 DEF Inv, ChainInv, Running, Age
  <2>2. NTherm + i \in 0 .. NTherm + Last - 1
    BY <1>1
  <2>3. /\ field' = Chain[width][NTherm + i + 1].field
        /\ lastS' = S(field') /\ field' \in Fields
    BY <2>1, <2>2, StepFollows DEF Produce, OnChain, Inv, TypeOK
  <2>4. QED BY <2>3, PhysicsAssumption DEF Measured
<1>5. CASE ~Measures(i)
  <2>1. rows' = rows
    BY <1>5 DEF Produce
  <2>2. CASE program.device
    <3>1. (i + 1 - start) % Block # 0 /\ i + 1 # goal
      BY <1>5, <2>2 DEF Measures, BlockEnds
    <3>2. Block * Len(rows) <= i - start /\ i - start < Block * Len(rows) + Block
      BY <1>1, <1>2, <2>2 DEF Counted, DeviceCount, DueAfter
    <3>3. i + 1 - start < Block * Len(rows) + Block
      BY <1>1, <1>2, <1>3, <3>1, <3>2, BlockStep
    <3>4. Block * Len(rows) \in Int
      BY <1>2, <1>3
    <3>5. DeviceCount'
      BY <1>1, <1>3, <2>1, <3>2, <3>3, <3>4 DEF DeviceCount, DueAfter
    <3>6. QED BY <1>2, <1>3, <2>1, <2>2, <3>5 DEF RowsInv, RowsOfChain, Counted, OutputsOfChain
  <2>3. CASE ~program.device
    <3>1. RowsBefore(i + 1) = RowsBefore(i)
      BY <1>1, <1>5, <2>3, GridStep DEF Measures
    <3>2. HostCount'
      BY <1>1, <1>2, <1>3, <2>1, <2>3, <3>1 DEF Counted, HostCount
    <3>3. QED BY <1>2, <1>3, <2>1, <2>3, <3>2 DEF RowsInv, RowsOfChain, Counted, OutputsOfChain
  <2>4. QED BY <2>2, <2>3
<1>6. CASE Measures(i)
  <2>1. /\ rows' = Append(rows, Measured)
        /\ Len(rows') = Len(rows) + 1
        /\ \A k \in 1 .. Len(rows) : rows'[k] = rows[k]
        /\ rows'[Len(rows) + 1] = Measured
    BY <1>1, <1>4, <1>6 DEF Produce
  <2>2. RowOf(program.device, start, goal, Len(rows) + 1) = i /\ Counted'
    <3>1. CASE program.device
      <4>1. Block * Len(rows) <= i - start /\ i - start < Block * Len(rows) + Block
        BY <1>1, <1>2, <3>1 DEF Counted, DeviceCount, DueAfter
      <4>2. /\ (i + 1 - start) % Block = 0 =>
                  /\ i + 1 - start = Block * (Len(rows) + 1)
                  /\ DeviceRow(start, goal, Len(rows) + 1) = i
            /\ i + 1 = goal => DeviceRow(start, goal, Len(rows) + 1) = i
        <5>1. start \in Nat /\ goal \in Nat /\ i \in Nat /\ Len(rows) \in Nat /\ start <= i /\ i < goal
          BY <1>1, <1>2, <1>3
        <5>2. QED BY <5>1, <4>1, BlockStep
      <4>3. (i + 1 - start) % Block = 0 \/ i + 1 = goal
        BY <1>6, <3>1 DEF Measures, BlockEnds
      <4>4. DeviceRow(start, goal, Len(rows) + 1) = i
        BY <4>2, <4>3
      <4>5. DeviceCount'
        <5>1. i + 1 < goal => i + 1 - start = Block * (Len(rows) + 1)
          BY <1>1, <4>2, <4>3
        <5>2. DueAfter(Len(rows) + 1, start, goal, i + 1)
          BY <1>1, <1>2, <5>1, NextDue
        <5>3. QED BY <1>3, <2>1, <5>2 DEF DeviceCount, DueAfter
      <4>6. QED BY <1>3, <3>1, <4>4, <4>5 DEF RowOf, Counted
    <3>2. CASE ~program.device
      <4>1. RowsBefore(i + 1) = RowsBefore(i) + 1 /\ MeasEvery * RowsBefore(i) = i
        BY <1>1, <1>6, <3>2, GridStep DEF Measures
      <4>2. Len(rows) = RowsBefore(i) - RowsBefore(start)
        BY <1>1, <1>2, <3>2 DEF Counted, HostCount
      <4>3. RowsBefore(start) + (Len(rows) + 1) - 1 = RowsBefore(i)
        BY <1>2, <4>2
      <4>4. HostRow(start, Len(rows) + 1) = i
        BY <4>1, <4>3 DEF HostRow
      <4>5. HostCount'
        BY <1>2, <1>3, <2>1, <4>1, <4>2 DEF HostCount
      <4>6. QED BY <1>3, <3>2, <4>4, <4>5 DEF RowOf, Counted
    <3>3. QED BY <3>1, <3>2
  <2>4. RowsOfChain(program.device, width, start, goal, rows')
    <3> SUFFICES ASSUME NEW k \in 1 .. Len(rows')
                 PROVE  /\ RowOf(program.device, start, goal, k) < goal
                        /\ rows'[k] = S(Chain[width][NTherm + RowOf(program.device, start, goal, k) + 1].field)
      BY DEF RowsOfChain
    <3>1. CASE k \in 1 .. Len(rows)
      BY <1>2, <2>1, <3>1 DEF RowsOfChain
    <3>2. CASE k = Len(rows) + 1
      BY <1>1, <1>4, <2>1, <2>2, <3>2
    <3>3. QED BY <1>2, <2>1, <3>1, <3>2
  <2>5. QED BY <1>3, <2>2, <2>4 DEF RowsInv, RowsOfChain, OutputsOfChain
<1>7. QED BY <1>5, <1>6

LEMMA EndRows == Inv /\ RowsInv /\ (Finish \/ Die) => RowsInv'
<1> SUFFICES ASSUME Inv, RowsInv, Finish \/ Die PROVE RowsInv'
  OBVIOUS
<1>1. rows \in Seq(Int) /\ Len(rows) \in Nat /\ RowsOfChain(program.device, width, start, goal, rows)
  <2>1. state # "off" /\ rows \in Seq(Int)
    BY DEF Finish, Die, Inv, TypeOK
  <2>2. CASE state = "therm"
    BY <2>1, <2>2 DEF RowsInv, RowsOfChain
  <2>3. CASE state # "therm"
    BY <2>1, <2>3 DEF RowsInv, Inv, TypeOK
  <2>4. QED BY <2>1, <2>2, <2>3
<1>2. \E n \in 0 .. Len(rows), c \in BOOLEAN : Left(SubSeq(rows, 1, n), c)
  <2>1. CASE Finish
    <3>1. SubSeq(rows, 1, Len(rows)) = rows
      BY <1>1
    <3>2. Left(SubSeq(rows, 1, Len(rows)), TRUE)
      BY <2>1, <3>1 DEF Finish, Closed
    <3>3. Len(rows) \in 0 .. Len(rows)
      BY <1>1
    <3>4. QED BY <3>2, <3>3
  <2>2. CASE Die
    BY <2>2 DEF Die
  <2>3. QED BY <2>1, <2>2
<1>3. PICK n \in 0 .. Len(rows), c \in BOOLEAN : Left(SubSeq(rows, 1, n), c)
  BY <1>2
<1>4. RowsOfChain(program.device, width, start, goal, SubSeq(rows, 1, n))
  <2>1. /\ Len(SubSeq(rows, 1, n)) = n
        /\ \A k \in 1 .. n : SubSeq(rows, 1, n)[k] = rows[k]
    BY <1>1
  <2>2. QED BY <1>1, <2>1 DEF RowsOfChain
<1>5. OutputsOfChain'
  <2> DEFINE new == [device |-> program.device, name |-> out, width |-> width, start |-> start,
                     goal |-> goal, rows |-> SubSeq(rows, 1, n), clean |-> c]
  <2>1. outputs' = outputs \cup {new}
    BY <1>3 DEF Left
  <2>2. RowsOfChain(new.device, new.width, new.start, new.goal, new.rows)
    BY <1>4
  <2>3. OutputsOfChain
    BY DEF RowsInv
  <2> HIDE DEF new
  <2>4. QED BY <2>1, <2>2, <2>3 DEF OutputsOfChain
<1>6. state' = "off"
  BY DEF Finish, Die
<1>7. QED BY <1>5, <1>6 DEF RowsInv

LEMMA RestRows ==
  Inv /\ RowsInv /\ (Thermalize \/ Thermalized \/ Saved \/ UNCHANGED vars) => RowsInv'
<1> SUFFICES ASSUME Inv, RowsInv, Thermalize \/ Thermalized \/ Saved \/ UNCHANGED vars
             PROVE RowsInv'
  OBVIOUS
<1>1. UNCHANGED <<program, rows, start, goal, width, outputs>>
  BY DEF Thermalize, Thermalized, Saved, vars, process
<1>2. CASE Thermalize
  <2>1. state = "therm" /\ state' = "therm"
    BY <1>2 DEF Thermalize
  <2>2. QED BY <1>1, <2>1 DEF RowsInv, RowsOfChain, OutputsOfChain
<1>3. CASE Thermalized
  <2>1. /\ rows' = <<>> /\ state' = "prod" /\ Done' = start' /\ start' \in Nat
        /\ RowsBefore(start') \in Nat /\ Len(rows') = 0 /\ Block \in Nat \ {0}
    BY <1>1, <1>3, GridStep, RunAssumption, SMTT(60) DEF Thermalized, RowsInv, Done, Inv, TypeOK
  <2>2. HostCount' /\ DeviceCount'
    <3>1. goal' \in Nat
      BY <1>1, RunAssumption DEF Inv, TypeOK
    <3>2. DeviceCount'
      BY <2>1, <3>1, NoneDue DEF DeviceCount, DueAfter
    <3>3. HostCount'
      BY <2>1 DEF HostCount
    <3>4. QED BY <3>2, <3>3
  <2>3. Counted' /\ RowsOfChain(program.device', width', start', goal', rows')
    BY <2>1, <2>2 DEF Counted, RowsOfChain
  <2>4. QED BY <1>1, <2>1, <2>3 DEF RowsInv, RowsOfChain, OutputsOfChain
<1>4. CASE Saved
  <2>1. Done' = Done /\ state = "saving" /\ state' = "prod"
    BY <1>4 DEF Saved, Done
  <2>2. QED BY <1>1, <2>1
        DEF RowsInv, RowsOfChain, OutputsOfChain, Counted, HostCount, DeviceCount, DueAfter
<1>5. CASE UNCHANGED vars
  BY <1>1, <1>5
  DEF vars, RowsInv, RowsOfChain, OutputsOfChain, Done, Counted, HostCount, DeviceCount, DueAfter
<1>6. QED BY <1>2, <1>3, <1>4, <1>5

(* Whatever launch left an output, and whether it died or ended, its k-th  *)
(* row is what the uninterrupted run measured at that point of the grid.   *)
THEOREM RowsFollowChain == Spec => []RowsExact
<1>1. Inv /\ Inv' /\ RowsInv /\ [Next]_vars => RowsInv'
  BY LaunchRows, ProduceRows, EndRows, RestRows DEF Next
<1>2. RowsInv => RowsExact
  BY DEF RowsInv, OutputsOfChain, RowsOfChain, RowsExact
<1>3. QED BY InitRows, InvHolds, <1>1, <1>2, PTL DEF Spec
-----------------------------------------------------------------------------
(* The grid points of a launch are the multiples of MeasEvery from the     *)
(* first one that is not before it.                                        *)
LEMMA FirstRow ==
  ASSUME NEW x \in Nat
  PROVE  /\ RowsBefore(x) \in Nat
         /\ \A j \in Int : x <= MeasEvery * j <=> RowsBefore(x) <= j
<1> DEFINE M == MeasEvery
           c == RowsBefore(x)
<1>1. M \in Nat \ {0} /\ x + M - 1 \in Nat
  BY RunAssumption
<1>2. c \in Nat /\ M * c \in Int /\ M * c <= x + M - 1 /\ x + M - 1 < M * c + M
  BY <1>1, Division DEF RowsBefore
<1> HIDE DEF M, c
<1>3. ASSUME NEW a \in Int, NEW b \in Int, a <= b PROVE M * a <= M * b
  <2>1. b = a + (b - a) /\ b - a \in Nat
    BY <1>3
  <2>2. M * b = M * a + M * (b - a) /\ M * (b - a) \in Nat /\ M * a \in Int
    BY <1>1, <2>1
  <2>3. QED BY <2>2
<1>4. ASSUME NEW j \in Int, c <= j PROVE x <= M * j
  BY <1>1, <1>2, <1>3, <1>4
<1>5. ASSUME NEW j \in Int, j < c PROVE M * j < x
  <2>1. M * (j + 1) = M * j + M /\ M * j \in Int
    BY <1>1
  <2>2. M * (j + 1) <= M * c
    BY <1>2, <1>3, <1>5
  <2>3. QED BY <1>1, <1>2, <2>1, <2>2
<1>6. ASSUME NEW j \in Int PROVE x <= M * j <=> c <= j
  <2>1. M * j \in Int
    BY <1>1
  <2>2. QED BY <1>2, <1>4, <1>5, <2>1
<1>7. QED BY <1>2, <1>6 DEF M, c

(* RowsBefore counts them.                                                 *)
LEMMA GridCount ==
  ASSUME NEW s \in Nat, NEW g \in Nat, s <= g
  PROVE  Cardinality({k \in s .. g - 1 : k % MeasEvery = 0}) = RowsBefore(g) - RowsBefore(s)
<1> DEFINE M == MeasEvery
           A == RowsBefore(s) .. RowsBefore(g) - 1
           B == {k \in s .. g - 1 : k % MeasEvery = 0}
           f == [j \in A |-> M * j]
<1>1. M \in Nat \ {0} /\ RowsBefore(s) \in Nat /\ RowsBefore(g) \in Nat
  BY RunAssumption, FirstRow
<1>2. RowsBefore(s) <= RowsBefore(g)
  <2>1. g <= M * RowsBefore(g)
    BY <1>1, FirstRow
  <2>2. M * RowsBefore(g) \in Int
    BY <1>1
  <2>3. s <= M * RowsBefore(g)
    BY <2>1, <2>2
  <2>4. QED BY <1>1, <2>3, FirstRow
<1>3. ASSUME NEW j \in A PROVE M * j \in B
  <2>1. j \in Nat /\ M * j \in Nat /\ RowsBefore(s) <= j /\ ~(RowsBefore(g) <= j)
    BY <1>1
  <2>2. s <= M * j /\ ~(g <= M * j)
    BY <2>1, FirstRow
  <2>3. (M * j) % M = 0
    <3>1. M * ((M * j) \div M) <= M * j /\ M * j < M * ((M * j) \div M) + M
          /\ M * j = M * ((M * j) \div M) + ((M * j) % M) /\ (M * j) \div M \in Nat
      BY <1>1, <2>1, Division
    <3>2. (M * j) \div M = j
      BY <1>1, <2>1, <3>1, Unique
    <3>3. QED BY <1>1, <2>1, <3>1, <3>2
  <2>4. QED BY <2>1, <2>2, <2>3
<1>4. ASSUME NEW k \in B PROVE \E j \in A : f[j] = k
  <2>1. k \in Nat /\ s <= k /\ ~(g <= k) /\ k % MeasEvery = 0
    OBVIOUS
  <2>2. RowsBefore(k) \in Nat /\ M * RowsBefore(k) = k
    BY <2>1, GridStep
  <2>3. RowsBefore(s) <= RowsBefore(k) /\ ~(RowsBefore(g) <= RowsBefore(k))
    BY <2>1, <2>2, FirstRow
  <2>4. RowsBefore(k) \in A
    BY <1>1, <2>2, <2>3
  <2>5. QED BY <2>2, <2>4
<1>5. ASSUME NEW a \in A, NEW b \in A, f[a] = f[b] PROVE a = b
  <2>1. a \in Int /\ b \in Int /\ M * a = M * b /\ M * a \in Int
    BY <1>1, <1>5
  <2>2. QED BY <1>1, <2>1, Unique
<1>6. f \in Bijection(A, B)
  <2>1. f \in [A -> B]
    BY <1>3
  <2> HIDE DEF f, A, B
  <2>2. QED BY <1>4, <1>5, <2>1, Fun_IsBij
<1>7. IsFiniteSet(A) /\ Cardinality(A) = RowsBefore(g) - RowsBefore(s)
  <2> DEFINE b == RowsBefore(g) - 1
  <2>1. RowsBefore(s) \in Int /\ b \in Int
    BY <1>1
  <2>2. /\ IsFiniteSet(RowsBefore(s) .. b)
        /\ Cardinality(RowsBefore(s) .. b) =
             IF RowsBefore(s) > b THEN 0 ELSE b - RowsBefore(s) + 1
    BY <2>1, FS_Interval
  <2>3. QED BY <1>1, <1>2, <2>2
<1> HIDE DEF A, B, f
<1>8. Cardinality(B) = Cardinality(A)
  BY <1>6, <1>7, FS_Bijection, Fun_ExistsBij
<1>9. QED BY <1>7, <1>8 DEF B

(* A launch stops at its goal, unless it resumed from beyond it; and there *)
(* a device program has its last, possibly shorter, block.                 *)
ToGoal == state \in {"prod", "saving"} /\ start <= goal => Done <= goal

LastBlock ==
  state \in {"prod", "saving"} /\ program.device /\ Done = goal =>
    goal - start <= Block * Len(rows) /\ Block * Len(rows) < goal - start + Block

CoverInv == ToGoal /\ LastBlock /\ CleanCoversGrid

LEMMA LaunchCover == Inv /\ CoverInv /\ (Fresh \/ Resume \/ Refused) => CoverInv'
<1> SUFFICES ASSUME Inv, CoverInv, Fresh \/ Resume \/ Refused PROVE CoverInv'
  OBVIOUS
<1>1. /\ rows' = <<>> /\ i' = start' /\ outputs' \subseteq outputs
      /\ start' \in Nat /\ state' # "saving" /\ goal' \in Nat
  <2>1. PICK o \in Outs, w \in Widths, g \in Goals : Launch(o, w, g)
    BY DEF Fresh, Resume, Refused
  <2>2. start' \in Nat
    BY RunAssumption DEF Fresh, Resume, Refused, Inv, TypeOK
  <2>3. outputs' \subseteq outputs
    BY DEF Fresh, Resume, Refused, Opened, Without
  <2>4. QED BY <2>1, <2>2, <2>3, RunAssumption DEF Launch, Fresh, Resume, Refused
<1>2. Done' = start' /\ Len(rows') = 0 /\ Block \in Nat \ {0}
  BY <1>1, RunAssumption DEF Done
<1>3. ToGoal'
  BY <1>1, <1>2 DEF ToGoal
<1>4. LastBlock'
  <2>1. Block * 0 = 0
    BY <1>2
  <2>2. Block * Len(rows') = 0
    BY <1>2, <2>1
  <2>3. \A x, y \in Nat : x = y => x - y = 0
    OBVIOUS
  <2>4. start' \in Nat /\ goal' \in Nat
    BY <1>1
  <2>5. goal' = start' => goal' - start' = 0
    BY <2>3, <2>4
  <2>6. QED BY <1>2, <2>2, <2>5 DEF LastBlock
<1>5. CleanCoversGrid'
  BY <1>1 DEF CoverInv, CleanCoversGrid
<1>6. QED BY <1>3, <1>4, <1>5 DEF CoverInv

LEMMA ProduceCover == Inv /\ RowsInv /\ CoverInv /\ Produce => CoverInv'
<1> SUFFICES ASSUME Inv, RowsInv, CoverInv, Produce PROVE CoverInv'
  OBVIOUS
<1>1. /\ i \in Nat /\ i < goal /\ start \in Nat /\ state = "prod" /\ rows \in Seq(Int)
      /\ start <= i /\ goal \in Nat /\ Done = i /\ Done' = i + 1
      /\ Len(rows) \in Nat /\ Block \in Nat \ {0}
      /\ UNCHANGED <<program, start, goal, outputs>>
  BY RunAssumption DEF Produce, Inv, TypeOK, Bounds, Done, process
<1>2. ToGoal'
  BY <1>1 DEF ToGoal
<1>3. LastBlock'
  <2>1. SUFFICES ASSUME program.device, i + 1 = goal
                 PROVE  /\ goal - start <= Block * Len(rows')
                        /\ Block * Len(rows') < goal - start + Block
    BY <1>1 DEF LastBlock
  <2>2. Block * Len(rows) <= i - start /\ i - start < Block * Len(rows) + Block
    BY <1>1, <2>1 DEF RowsInv, Counted, DeviceCount, DueAfter
  <2>3. Len(rows') = Len(rows) + 1
    BY <1>1, <2>1 DEF Produce, Measures, BlockEnds
  <2>4. Block * (Len(rows) + 1) = Block * Len(rows) + Block /\ Block * Len(rows) \in Int
    BY <1>1
  <2>5. QED BY <1>1, <2>1, <2>2, <2>3, <2>4
<1>4. CleanCoversGrid'
  BY <1>1 DEF CoverInv, CleanCoversGrid
<1>5. QED BY <1>2, <1>3, <1>4 DEF CoverInv

LEMMA EndCover == Inv /\ RowsInv /\ CoverInv /\ (Finish \/ Die) => CoverInv'
<1> SUFFICES ASSUME Inv, RowsInv, CoverInv, Finish \/ Die PROVE CoverInv'
  OBVIOUS
<1>1. state' = "off" /\ start \in Nat /\ goal \in Nat /\ i \in Nat /\ Block \in Nat \ {0}
      /\ rows \in Seq(Int) /\ Len(rows) \in Nat
  <2>1. state' = "off"
    BY DEF Finish, Die
  <2>2. rows \in Seq(Int) /\ Len(rows) \in Nat
    BY DEF Inv, TypeOK
  <2>3. QED BY <2>1, <2>2, RunAssumption DEF Inv, TypeOK
<1>2. ToGoal' /\ LastBlock'
  BY <1>1 DEF ToGoal, LastBlock
<1>3. CASE Finish
  <2> DEFINE new == [device |-> program.device, name |-> out, width |-> width, start |-> start,
                     goal |-> goal, rows |-> rows, clean |-> TRUE]
  <2>1. outputs' = outputs \cup {new} /\ state = "prod" /\ i >= goal /\ Done = i
    BY <1>3 DEF Finish, Left, Closed, Done
  <2>2. ASSUME start <= goal
        PROVE  Len(rows) = IF program.device THEN (goal - start + Block - 1) \div Block
                           ELSE Cardinality({k \in start .. goal - 1 : k % MeasEvery = 0})
    <3>1. i = goal
      BY <1>1, <2>1, <2>2 DEF CoverInv, ToGoal
    <3>2. CASE program.device
      <4> DEFINE y == goal - start + Block - 1
      <4>1. goal - start <= Block * Len(rows) /\ Block * Len(rows) < goal - start + Block
        BY <2>1, <3>1, <3>2 DEF CoverInv, LastBlock
      <4>2. y \in Nat /\ Block * Len(rows) \in Int
        BY <1>1, <2>2
      <4>3. Block * Len(rows) <= y /\ y < Block * Len(rows) + Block
        BY <1>1, <4>1, <4>2
      <4>4. y \div Block \in Nat /\ Block * (y \div Block) <= y /\ y < Block * (y \div Block) + Block
        BY <1>1, <4>2, Division
      <4> HIDE DEF y
      <4>5. Len(rows) = y \div Block
        BY <1>1, <4>2, <4>3, <4>4, Unique
      <4>6. QED BY <3>2, <4>5 DEF y
    <3>3. CASE ~program.device
      <4>1. Len(rows) = RowsBefore(goal) - RowsBefore(start)
        BY <2>1, <3>1, <3>3 DEF RowsInv, Counted, HostCount
      <4>2. QED BY <1>1, <2>2, <3>3, <4>1, GridCount
    <3>4. QED BY <3>2, <3>3
  <2>3. CleanCoversGrid
    BY DEF CoverInv
  <2>4. ASSUME NEW o \in outputs', o.clean, o.start <= o.goal
        PROVE  Len(o.rows) = IF o.device THEN (o.goal - o.start + Block - 1) \div Block
                             ELSE Cardinality({k \in o.start .. o.goal - 1 : k % MeasEvery = 0})
    <3>1. CASE o \in outputs
      BY <2>3, <2>4, <3>1 DEF CleanCoversGrid
    <3>2. CASE o = new
      BY <2>2, <2>4, <3>2
    <3>3. QED BY <2>1, <3>1, <3>2
  <2>5. QED BY <1>2, <2>4 DEF CoverInv, CleanCoversGrid
<1>4. CASE Die
  <2>1. \A o \in outputs' : o \in outputs \/ ~o.clean
    BY <1>4 DEF Die, Left
  <2>2. QED BY <1>2, <2>1 DEF CoverInv, CleanCoversGrid
<1>5. QED BY <1>3, <1>4

LEMMA RestCover ==
  Inv /\ RowsInv /\ CoverInv /\ (Thermalize \/ Thermalized \/ Saved \/ UNCHANGED vars) => CoverInv'
<1> SUFFICES ASSUME Inv, RowsInv, CoverInv, Thermalize \/ Thermalized \/ Saved \/ UNCHANGED vars
             PROVE CoverInv'
  OBVIOUS
<1>1. UNCHANGED <<program, rows, start, goal, outputs>> /\ start \in Nat /\ goal \in Nat /\ i \in Nat
  BY RunAssumption DEF Thermalize, Thermalized, Saved, vars, process, Inv, TypeOK
<1>2. CleanCoversGrid'
  BY <1>1 DEF CoverInv, CleanCoversGrid
<1>3. CASE Thermalize
  <2>1. state' = "therm"
    BY <1>3 DEF Thermalize
  <2>2. QED BY <1>2, <2>1 DEF CoverInv, ToGoal, LastBlock
<1>4. CASE Thermalized
  <2>1. Done' = start /\ Len(rows') = 0 /\ Block \in Nat \ {0}
    BY <1>1, <1>4, RunAssumption DEF Thermalized, Done, RowsInv
  <2>2. ToGoal' /\ LastBlock'
    BY <1>1, <2>1 DEF ToGoal, LastBlock
  <2>3. QED BY <1>2, <2>2 DEF CoverInv
<1>5. CASE Saved
  <2>1. Done' = Done /\ state = "saving"
    BY <1>5 DEF Saved, Done
  <2>2. QED BY <1>1, <1>2, <2>1 DEF CoverInv, ToGoal, LastBlock
<1>6. CASE UNCHANGED vars
  BY <1>1, <1>2, <1>6 DEF vars, CoverInv, ToGoal, LastBlock, Done
<1>7. QED BY <1>3, <1>4, <1>5, <1>6

(* An output that was closed has a row for every point of its grid, on the *)
(* device with the shorter block at its end.                               *)
THEOREM ClosedOutputsComplete == Spec => []CleanCoversGrid
<1>1. Init => CoverInv
  BY DEF Init, CoverInv, ToGoal, LastBlock, CleanCoversGrid
<1>2. Inv /\ RowsInv /\ CoverInv /\ [Next]_vars => CoverInv'
  BY LaunchCover, ProduceCover, EndCover, RestCover DEF Next
<1>3. Inv /\ Inv' /\ RowsInv /\ [Next]_vars => RowsInv'
  BY LaunchRows, ProduceRows, EndRows, RestRows DEF Next
<1>4. CoverInv => CleanCoversGrid
  BY DEF CoverInv
<1>5. QED BY InitRows, InvHolds, <1>1, <1>2, <1>3, <1>4, PTL DEF Spec
=============================================================================
