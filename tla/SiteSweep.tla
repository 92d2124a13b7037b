----------------------------- MODULE SiteSweep ------------------------------
(***************************************************************************)
(* One sampler on several threads.  Every pass over the lattice opens a    *)
(* team, whose threads take the slabs of the partition; slab i draws from  *)
(* stream i.  A Metropolis sweep fills the proposal noise and the          *)
(* thresholds and updates one colour after another in place, a trajectory  *)
(* fills the momenta and drifts the field.  Between two steps the process  *)
(* may end and another, with other threads, go on from its file.           *)
(***************************************************************************)
EXTENDS Partition, SequencesExt

CONSTANTS
  Shapes,
  Kinds,               \* of "hmc", "site" (Metropolis), "link" (Metropolis)
  Requests, PerThread, \* n_threads and slabs_per_thread of the spec
  Ambients,            \* omp_get_max_threads()
  Hot(_),              \* the value a cell starts from
  Move(_, _, _, _),    \* value, values read, noise, threshold: [v, ds]
  Drift(_, _),         \* value and momentum
  Plus(_, _), Zero,    \* a sum that depends on its order
  MaxSteps             \* bound: steps

ASSUME ShapeAssumption == \A s \in Shapes : IsShape(s)

ASSUME ThreadAssumption ==
  Requests \subseteq Int /\ PerThread \subseteq Int /\ Ambients \subseteq Int

VARIABLES
  sh, kind,
  team, perThread,     \* n_threads_ and n_slabs_, frozen
  drawn,               \* how far each site stream has advanced
  home,                \* the partition of the process that began the chain
  ambient,
  field, noise, logu,
  pc,                  \* "idle", "noise", "logu", "color", "drift" or "threw"
  color, dir,
  todo, pass, held,    \* of each thread: slabs and sites of its slab it still
                       \* has to visit, in this order; what it read
  partials, ds,
  used,                \* draws consumed
  moves,               \* decisions taken
  expected, steps

config == <<sh, kind, team, perThread, home, ambient>>
lanes == <<todo, pass, held>>
history == <<expected, steps, used, moves>>
vars == <<config, drawn, field, noise, logu, pc, color, dir, lanes, partials, ds, history>>

Cells == Sites(sh) \X (IF kind = "link" THEN Dims(sh) ELSE {1})

WrongResolved(request, a) == request

(* n_threads = 0 is the ambient team at construction, not later.           *)
Resolved(request, a) == IF request > 0 THEN request ELSE TraverseThreads(0, a)

(* The partition under the scopes a step binds.                            *)
P == PartitionOf(sh, TraverseThreads(team, ambient), perThread)

NThreads(p) == AtMost(TraverseThreads(team, ambient), p.items)

(* schedule(static): contiguous blocks of slabs, of almost one size.       *)
FirstOf(p, t) ==
  (t - 1) * (p.items \div NThreads(p)) + AtMost(t - 1, p.items % NThreads(p))

SlabsOf(p, t) == FirstOf(p, t) .. FirstOf(p, t + 1) - 1

Opened(p) ==
  /\ todo' = [t \in 1 .. NThreads(p) |-> SlabsOf(p, t)]
  /\ pass' = [t \in 1 .. NThreads(p) |-> {}]
  /\ held' = [t \in 1 .. NThreads(p) |-> <<>>]

Closed == todo' = <<>> /\ pass' = <<>> /\ held' = <<>>

WrongCheckerboardOk(s) == TRUE

CheckerboardOk(s) == \A mu \in Dims(s) : s[mu] % 2 = 0

(* The constructor of Metropolis refuses odd extents; links need a plane.  *)
Constructible(s, k) ==
  /\ k # "hmc" => CheckerboardOk(s)
  /\ k = "link" => Len(s) >= 2

Init ==
  /\ sh \in Shapes /\ kind \in {k \in Kinds : Constructible(sh, k)}
  /\ ambient \in Ambients /\ perThread \in PerThread
  /\ \E r \in Requests : team = Resolved(r, ambient)
  /\ home = P /\ drawn = [i \in SlabIds(P) |-> 0]
  /\ field = [c \in Cells |-> Hot(c)]
  /\ noise = [c \in Cells |-> <<>>] /\ logu = [s \in Sites(sh) |-> <<>>]
  /\ pc = "idle" /\ color = 0 /\ dir = 1
  /\ todo = <<>> /\ pass = <<>> /\ held = <<>>
  /\ partials = <<>> /\ ds = Zero
  /\ used = {} /\ moves = 0 /\ steps = 0
  /\ expected = [from |-> drawn, field |-> field, ds |-> Zero, drawn |-> drawn]
-----------------------------------------------------------------------------
(* The walk of one slab.  A row is a line in direction 1.                  *)
RowShift(row, b, mu, forward) ==
  LET c == Coord(sh, row, mu)
      str == Stride(sh, mu)
  IN  IF forward THEN IF c + 1 = sh[mu] THEN b - (sh[mu] - 1) * str ELSE b + str
      ELSE IF c = 0 THEN b + (sh[mu] - 1) * str ELSE b - str

(* From row b, position x, one step: the offsets are those of `row`.       *)
Stepped(row, b, mu, forward) ==
  IF mu # 1 THEN [b EXCEPT !.row = RowShift(row, b.row, mu, forward)]
  ELSE [b EXCEPT !.x = IF forward THEN IF b.x + 1 = sh[1] THEN 0 ELSE b.x + 1
                       ELSE IF b.x = 0 THEN sh[1] - 1 ELSE b.x - 1]

At(b) == b.row + b.x

(* The cells a decision at <<s, mu>> reads, by direction and position in   *)
(* the stencil: neighbours of a site, the staples of a link.               *)
Places(cell) == IF kind = "link" THEN (Dims(sh) \ {cell[2]}) \X (1 .. 6) ELSE Dims(sh) \X (1 .. 2)

Reads(cell) ==
  LET s == cell[1]
      mu == cell[2]
      row == s - (s % sh[1])
      here == [row |-> row, x |-> s % sh[1]]
      to(b, nu, forward) == Stepped(row, b, nu, forward)
      ahead == to(here, mu, TRUE)
      staple(nu) == <<<<At(ahead), nu>>, <<At(to(here, nu, TRUE)), mu>>, <<s, nu>>,
                      <<At(to(here, nu, FALSE)), mu>>, <<At(to(ahead, nu, FALSE)), nu>>,
                      <<At(to(here, nu, FALSE)), nu>>>>
      pair(k) == <<<<At(to(here, k, TRUE)), 1>>, <<At(to(here, k, FALSE)), 1>>>>
  IN  [w \in Places(cell) |-> IF kind = "link" THEN staple(w[1])[w[2]] ELSE pair(w[1])[w[2]]]

NColors == IF kind = "link" THEN 2 * Len(sh) ELSE 2

(* A colour of links is a direction and a parity.                          *)
DirOf(c) == IF kind = "link" THEN (c \div 2) + 1 ELSE 1

(* The first site of the colour in a row of parity `base`.                 *)
FirstX(base, par) == (base + par) % 2

PassOf(p, i, c) ==
  LET base == Base(p, i)
      end == base + Count(sh, p, i)
      rows == {row \in base .. end - 1 : (row - base) % sh[1] = 0}
      x0(row) == FirstX(CoordSum(sh, row, 2 .. Len(sh)), c % 2)
      flat == base + FirstX(base, c % 2)
  IN  IF Len(sh) = 1 THEN {x \in flat .. end - 1 : (x - flat) % 2 = 0}
      ELSE UNION {{row + x : x \in {y \in x0(row) .. sh[1] - 1 : (y - x0(row)) % 2 = 0}}
                    : row \in rows}

(* Sites and slabs are visited in increasing order.                        *)
Least(set) == CHOOSE x \in set : \A y \in set : x <= y

Rest(set) == set \ {Least(set)}
-----------------------------------------------------------------------------
(* What a step should do, said with coordinates and all sites of a colour  *)
(* at once, under the partition the chain began with.                      *)
SlabAt(s) == s \div home.len

(* The draw a site gets from the kth fill of the step.                     *)
DrawFor(s, kth) ==
  <<SlabAt(s),
    expected.from[SlabAt(s)] + kth * Count(sh, home, SlabAt(s)) + (s % home.len) + 1>>

Neighbours(cell) ==
  LET s == cell[1]
      mu == cell[2]
      N(x, k) == NextSite(sh, x, k)
      B(x, k) == PrevSite(sh, x, k)
      staple(nu) == <<<<N(s, mu), nu>>, <<N(s, nu), mu>>, <<s, nu>>, <<B(s, nu), mu>>,
                      <<B(N(s, mu), nu), nu>>, <<B(s, nu), nu>>>>
      pair(k) == <<<<N(s, k), 1>>, <<B(s, k), 1>>>>
  IN  [w \in Places(cell) |-> IF kind = "link" THEN staple(w[1])[w[2]] ELSE pair(w[1])[w[2]]]

InColor(cell, c) == cell[2] = DirOf(c) /\ CoordSum(sh, cell[1], Dims(sh)) % 2 = c % 2

FillsBefore(c) == IF kind = "link" THEN Len(sh) + c ELSE 1

Fills == IF kind = "hmc" THEN 1 ELSE FillsBefore(NColors - 1) + 1

Decision(cell, c) ==
  LET f == expected.field
      around == Neighbours(cell)
  IN  Move(f[cell], [w \in DOMAIN around |-> f[around[w]]],
           DrawFor(cell[1], cell[2] - 1), DrawFor(cell[1], FillsBefore(c)))

(* What the decisions of this colour add to the sum, by site.              *)
Terms ==
  LET colored == {s \in Sites(sh) : InColor(<<s, DirOf(color)>>, color)}
  IN  [s \in colored |-> Decision(<<s, DirOf(color)>>, color).ds]

(* The terms of the n sites from `first` on, added in their order.         *)
RunningSum(term, first, n) ==
  LET sum[k \in Nat] ==
        IF k = 0 THEN Zero
        ELSE IF first + k - 1 \in DOMAIN term THEN Plus(sum[k - 1], term[first + k - 1])
        ELSE sum[k - 1]
  IN  sum[n]

(* expected, one colour further.                                           *)
ExpectedColor ==
  LET made == [cell \in {x \in Cells : InColor(x, color)} |-> Decision(cell, color)]
      terms == Terms
      slab(i) == RunningSum(terms, Base(home, i), Count(sh, home, i))
      total == FoldLeft(Plus, Zero, [i \in 1 .. home.items |-> slab(i - 1)])
  IN  [expected EXCEPT !.field = [x \in Cells |-> IF x \in DOMAIN made THEN made[x].v ELSE @[x]],
                       !.ds = Plus(@, total)]

ExpectedDrift ==
  [expected EXCEPT !.field = [cell \in Cells |-> Drift(@[cell], DrawFor(cell[1], 0))]]

ExpectedStart ==
  [from |-> drawn, field |-> field, ds |-> Zero,
   drawn |-> [i \in DOMAIN drawn |-> drawn[i] + Fills * Count(sh, home, i)]]
-----------------------------------------------------------------------------
(* step(): the streams are checked against the partition first.            *)
StartStep ==
  /\ pc = "idle" /\ steps < MaxSteps
  /\ \/ /\ P.items = Cardinality(DOMAIN drawn)
        /\ pc' = "noise" /\ Opened(P) /\ expected' = ExpectedStart
     \/ /\ P.items # Cardinality(DOMAIN drawn)
        /\ pc' = "threw" /\ UNCHANGED <<lanes, expected>>
  /\ dir' = 1 /\ color' = 0 /\ ds' = Zero
  /\ UNCHANGED <<config, drawn, field, noise, logu, partials, steps, used, moves>>

WrongStreamOf(p, i) == (i + 1) % p.items

StreamOf(p, i) == i

(* Slab i of a fill, from stream i.                                        *)
FillSlab(t) ==
  /\ pc \in {"noise", "logu"} /\ todo[t] # {}
  /\ LET i == Least(todo[t])
         k == StreamOf(P, i)
         draw(s) == <<k, drawn[k] + s - Base(P, i) + 1>>
     IN  /\ drawn' = [drawn EXCEPT ![k] = @ + Count(sh, P, i)]
         /\ IF pc = "noise"
            THEN /\ noise' = [c \in Cells |-> IF c[1] \in Span(sh, P, i) /\ c[2] = dir
                                              THEN draw(c[1]) ELSE noise[c]]
                 /\ UNCHANGED logu
            ELSE /\ logu' = [s \in Sites(sh) |-> IF s \in Span(sh, P, i) THEN draw(s) ELSE logu[s]]
                 /\ UNCHANGED noise
  /\ todo' = [todo EXCEPT ![t] = Rest(@)]
  /\ UNCHANGED <<config, field, pc, color, dir, pass, held, partials, ds, history>>

DriftSlab(t) ==
  /\ pc = "drift" /\ todo[t] # {}
  /\ field' = [c \in Cells |-> IF c[1] \in Span(sh, P, Least(todo[t]))
                               THEN Drift(field[c], noise[c]) ELSE field[c]]
  /\ todo' = [todo EXCEPT ![t] = Rest(@)]
  /\ UNCHANGED <<config, drawn, noise, logu, pc, color, dir, pass, held, partials, ds, history>>

(* A thread takes its next slab, whose first sum is still zero.            *)
TakeSlab(t) ==
  /\ pc = "color" /\ todo[t] # {} /\ pass[t] = {}
  /\ pass' = [pass EXCEPT ![t] = PassOf(P, Least(todo[t]), color)]
  /\ todo' = IF pass'[t] = {} THEN [todo EXCEPT ![t] = Rest(@)] ELSE todo
  /\ UNCHANGED <<config, drawn, field, noise, logu, pc, color, dir, held, partials, ds, history>>

CellOf(t) == <<Least(pass[t]), DirOf(color)>>

Gather(t) ==
  /\ pc = "color" /\ pass[t] # {} /\ held[t] = <<>>
  /\ LET from == Reads(CellOf(t))
     IN  held' = [held EXCEPT ![t] = [w \in DOMAIN from |-> field[from[w]]]]
  /\ UNCHANGED <<config, drawn, field, noise, logu, pc, color, dir, todo, pass, partials, ds,
                 history>>

Decide(t) ==
  /\ pc = "color" /\ held[t] # <<>>
  /\ LET cell == CellOf(t)
         m == Move(field[cell], held[t], noise[cell], logu[cell[1]])
     IN  /\ field' = [field EXCEPT ![cell] = m.v]
         /\ partials' = [partials EXCEPT ![Least(todo[t])] = Plus(@, m.ds)]
         /\ used' = used \cup {noise[cell], logu[cell[1]]} /\ moves' = moves + 1
  /\ held' = [held EXCEPT ![t] = <<>>]
  /\ pass' = [pass EXCEPT ![t] = Rest(@)]
  /\ todo' = IF pass'[t] = {} THEN [todo EXCEPT ![t] = Rest(@)] ELSE todo
  /\ UNCHANGED <<config, drawn, noise, logu, pc, color, dir, ds, expected, steps>>

Joined == \A t \in DOMAIN todo : todo[t] = {}

WrongPerColor == FALSE

(* Links meet a site once per direction, and need a threshold each time.   *)
PerColor == kind = "link"

Entered(region) ==
  /\ pc' = region /\ Opened(P)
  /\ partials' = IF region = "color" THEN [i \in SlabIds(P) |-> Zero] ELSE <<>>

Filled ==
  /\ pc = "noise" /\ Joined
  /\ IF dir < (IF kind = "link" THEN Len(sh) ELSE 1)
     THEN Entered("noise") /\ dir' = dir + 1
     ELSE Entered(IF kind = "hmc" THEN "drift" ELSE "logu") /\ UNCHANGED dir
  /\ UNCHANGED <<config, drawn, field, noise, logu, color, ds, history>>

Thresholded ==
  /\ pc = "logu" /\ Joined
  /\ Entered("color")
  /\ UNCHANGED <<config, drawn, field, noise, logu, color, dir, ds, history>>

WrongTotal == FoldLeft(Plus, Zero, [i \in 1 .. P.items |-> partials[P.items - i]])

(* The partial sums in the order of the slabs.                             *)
Total == FoldLeft(Plus, Zero, [i \in 1 .. P.items |-> partials[i - 1]])

Idle == pc' = "idle" /\ steps' = steps + 1 /\ Closed /\ partials' = <<>>

Colored ==
  /\ pc = "color" /\ Joined
  /\ ds' = Plus(ds, Total) /\ color' = color + 1
  /\ IF color + 1 < NColors THEN Entered(IF PerColor THEN "logu" ELSE "color") /\ UNCHANGED steps
     ELSE Idle
  /\ expected' = ExpectedColor
  /\ UNCHANGED <<config, drawn, field, noise, logu, dir, used, moves>>

Drifted ==
  /\ pc = "drift" /\ Joined
  /\ Idle /\ expected' = ExpectedDrift
  /\ UNCHANGED <<config, drawn, field, noise, logu, color, dir, ds, used, moves>>

(* rng_streams: a file with another number of streams is refused.          *)
Accepts(p) == p.items = Cardinality(DOMAIN drawn)

(* The process ends; another one loads its file.                           *)
Resume ==
  /\ pc = "idle" /\ steps > 0
  /\ \E r \in Requests, q \in PerThread, a \in Ambients :
       /\ Accepts(PartitionOf(sh, TraverseThreads(Resolved(r, a), a), q))
       /\ team' = Resolved(r, a) /\ perThread' = q /\ ambient' = a
  /\ UNCHANGED <<sh, kind, home, drawn, field, noise, logu, pc, color, dir, lanes, partials, ds,
                 history>>

(* omp_set_num_threads, somewhere in the program.                          *)
SetAmbient ==
  /\ pc = "idle" /\ ambient' \in Ambients
  /\ UNCHANGED <<sh, kind, team, perThread, home, drawn, field, noise, logu, pc, color, dir,
                 lanes, partials, ds, history>>

Next ==
  \/ StartStep \/ Filled \/ Thresholded \/ Colored \/ Drifted \/ Resume \/ SetAmbient
  \/ \E t \in DOMAIN todo :
       FillSlab(t) \/ DriftSlab(t) \/ TakeSlab(t) \/ Gather(t) \/ Decide(t)

Spec == Init /\ [][Next]_vars
-----------------------------------------------------------------------------
TypeOK ==
  /\ sh \in Shapes /\ kind \in Kinds /\ team \in Nat \ {0} /\ perThread \in PerThread
  /\ ambient \in Ambients
  /\ pc \in {"idle", "noise", "logu", "color", "drift", "threw"}
  /\ color \in 0 .. NColors /\ dir \in Dims(sh)
  /\ DOMAIN drawn = SlabIds(home) /\ DOMAIN field = Cells /\ DOMAIN noise = Cells
  /\ DOMAIN logu = Sites(sh) /\ \A t \in DOMAIN pass : pass[t] \subseteq Sites(sh)
  /\ steps \in 0 .. MaxSteps /\ moves \in Nat

(* Every site is in one slab, no slab is empty, and with more than one     *)
(* direction slabs are whole rows.                                         *)
SlabsTile ==
  /\ \A s \in Sites(sh) : Cardinality({i \in SlabIds(P) : s \in Span(sh, P, i)}) = 1
  /\ \A i \in SlabIds(P) : /\ Span(sh, P, i) # {}
                           /\ Len(sh) > 1 => Count(sh, P, i) % sh[1] = 0

(* "It cannot drift under normal use": the check of the streams never      *)
(* fails once a process is up, whatever the ambient becomes.               *)
StreamsStayBound == pc # "threw"

(* While one thread has read for a decision it has not taken, no other is  *)
(* about to write what it read, or the same cell.                          *)
NoRace ==
  \A t, u \in DOMAIN held :
    t # u /\ held[t] # <<>> /\ held[u] # <<>> =>
      CellOf(u) # CellOf(t) /\ CellOf(u) \notin Range(Reads(CellOf(t)))

(* No random number serves two decisions.                                  *)
DrawsUsedOnce == Cardinality(used) = 2 * moves

(* Whatever the threads did, and whatever threads the process that wrote   *)
(* the file had, a step ends with the field and the streams of the         *)
(* sequential step,                                                        *)
StepExact ==
  pc = "idle" => field = expected.field /\ drawn = expected.drawn

(* and with its sum, added in its order.                                   *)
SumExact == pc = "idle" => ds = expected.ds
=============================================================================
