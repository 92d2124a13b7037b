------------------------- MODULE SiteSweep_proofs ---------------------------
(***************************************************************************)
(* First the partition of any lattice of one to four directions, for any   *)
(* team and granularity: it tiles the sites, and its number of slabs fixes *)
(* the rest of it.  So the check of the streams never fails in a process   *)
(* that got through the constructor or a resume.                           *)
(*                                                                         *)
(* Then the passes, for any lattice, team, values and rules: a decision    *)
(* reads nothing of its own colour, so the order of the threads does not   *)
(* show, in the field, in the streams or in the sum, even of an addition   *)
(* that depends on its order, and no draw serves two decisions.            *)
(***************************************************************************)
EXTENDS SiteSweep, FiniteSetTheorems, WellFoundedInduction, TLAPS

LEMMA Division ==
  ASSUME NEW a \in Int, NEW d \in Int, d > 0
  PROVE  /\ a \div d \in Int
         /\ d * (a \div d) <= a /\ a < d * (a \div d) + d
         /\ a % d = a - d * (a \div d)
BY Z3

LEMMA TimesMonotone ==
  ASSUME NEW a \in Nat, NEW b \in Int, NEW c \in Int, b <= c
  PROVE  a * b <= a * c
BY Z3

LEMMA TimesPositive ==
  ASSUME NEW a \in Nat \ {0}, NEW b \in Nat \ {0}
  PROVE  a * b \in Nat \ {0}
BY Z3

LEMMA QuotientExact ==
  ASSUME NEW a \in Nat \ {0}, NEW b \in Nat
  PROVE  (a * b) \div a = b
<1> DEFINE q == (a * b) \div a
<1>1. a * b \in Int
  OBVIOUS
<1>2. q \in Int /\ a * q <= a * b /\ a * b < a * q + a
  BY <1>1, Division
<1>3. ~(q + 1 <= b)
  <2>1. q + 1 <= b => a * (q + 1) <= a * b
    BY <1>2, TimesMonotone
  <2>2. a * (q + 1) = a * q + a
    BY <1>2
  <2>3. QED BY <1>1, <1>2, <2>1, <2>2
<1>4. ~(b + 1 <= q)
  <2>1. b + 1 <= q => a * (b + 1) <= a * q
    BY <1>2, TimesMonotone
  <2>2. a * (b + 1) = a * b + a
    OBVIOUS
  <2>3. QED BY <1>1, <1>2, <2>1, <2>2
<1>5. QED BY <1>2, <1>3, <1>4

LEMMA CeilFacts ==
  ASSUME NEW x \in Nat \ {0}, NEW y \in Nat \ {0}
  PROVE  Ceil(x, y) \in Nat \ {0} /\ x <= y * Ceil(x, y) /\ y * (Ceil(x, y) - 1) < x
<1> DEFINE c == (x + y - 1) \div y
<1>1. c \in Int /\ y * c <= x + y - 1 /\ x + y - 1 < y * c + y
  BY Division
<1>2. y * (c - 1) = y * c - y
  BY <1>1
<1>3. x <= y * c /\ y * (c - 1) < x
  <2>1. y * c \in Int
    BY <1>1
  <2>2. QED BY <1>1, <1>2, <2>1
<1>4. c > 0
  <2>1. c <= 0 => y * c <= y * 0
    BY <1>1, TimesMonotone
  <2>2. QED BY <1>1, <1>3, <2>1
<1>5. QED BY <1>1, <1>3, <1>4 DEF Ceil
-----------------------------------------------------------------------------
(* A 1D lattice.  The length is the least for its number of slabs, so the  *)
(* number of slabs fixes it.                                               *)
LEMMA FlatExact ==
  ASSUME NEW n \in Nat \ {0}, NEW target \in Int
  PROVE  LET f == Flat(n, target) IN
         /\ f.items \in Nat \ {0} /\ f.len \in Nat \ {0}
         /\ n <= f.len * f.items /\ f.len * (f.items - 1) < n
         /\ f.len = Ceil(n, f.items)
<1> DEFINE w == AtLeast(1, AtMost(target, n))
           c == Ceil(n, w)
           k == Ceil(n, c)
           e == Ceil(n, k)
<1>1. w \in Nat \ {0}
  BY DEF AtLeast, AtMost
<1>2. c \in Nat \ {0} /\ n <= w * c /\ w * (c - 1) < n
  BY <1>1, CeilFacts
<1> HIDE DEF w
<1>3. k \in Nat \ {0} /\ n <= c * k /\ c * (k - 1) < n
  BY <1>2, CeilFacts
<1> HIDE DEF c
<1>4. e \in Nat \ {0} /\ n <= k * e /\ k * (e - 1) < n
  BY <1>3, CeilFacts
<1> HIDE DEF k, e
<1>5. k <= w
  <2>1. w <= k - 1 => c * w <= c * (k - 1)
    BY <1>1, <1>2, <1>3, TimesMonotone
  <2>2. c * w = w * c /\ c * (k - 1) \in Int /\ c * w \in Int
    BY <1>1, <1>2, <1>3
  <2>3. QED BY <1>1, <1>2, <1>3, <2>1, <2>2
<1>6. e <= c
  <2>1. c <= e - 1 => k * c <= k * (e - 1)
    BY <1>2, <1>3, <1>4, TimesMonotone
  <2>2. k * c = c * k /\ k * (e - 1) \in Int /\ k * c \in Int
    BY <1>2, <1>3, <1>4
  <2>3. QED BY <1>2, <1>3, <1>4, <2>1, <2>2
<1>7. c <= e
  <2>1. e <= c - 1 => w * e <= w * (c - 1)
    BY <1>1, <1>2, <1>4, TimesMonotone
  <2>2. e * k <= e * w
    BY <1>1, <1>3, <1>4, <1>5, TimesMonotone
  <2>3. e * k = k * e /\ e * w = w * e /\ w * (c - 1) \in Int /\ w * e \in Int /\ k * e \in Int
    BY <1>1, <1>2, <1>3, <1>4
  <2>4. QED BY <1>1, <1>2, <1>4, <2>1, <2>2, <2>3
<1>8. c = e
  BY <1>2, <1>4, <1>6, <1>7
<1>9. Flat(n, target) = [items |-> k, len |-> c]
  BY DEF Flat, w, c, k
<1>10. QED BY <1>2, <1>3, <1>8, <1>9 DEF e
-----------------------------------------------------------------------------
(* More directions.  The extents above the fourth do not exist, so a       *)
(* volume is a product of four numbers.                                    *)
LEMMA VolumeOfFour ==
  ASSUME NEW sp, IsShape(sp), NEW dirs
  PROVE  Volume(sp, dirs) \in Nat \ {0} \/ ~(dirs \subseteq Dims(sp))
<1> SUFFICES ASSUME dirs \subseteq Dims(sp) PROVE Volume(sp, dirs) \in Nat \ {0}
  OBVIOUS
<1> DEFINE e(mu) == IF mu \in dirs THEN sp[mu] ELSE 1
<1>1. \A mu \in 1 .. 4 : e(mu) \in Nat \ {0}
  BY DEF IsShape, Dims
<1>2. e(1) \in Nat \ {0} /\ e(2) \in Nat \ {0} /\ e(3) \in Nat \ {0} /\ e(4) \in Nat \ {0}
  BY <1>1
<1> HIDE DEF e
<1>3. e(1) * e(2) \in Nat \ {0}
  BY <1>2, TimesPositive
<1>4. e(1) * e(2) * e(3) \in Nat \ {0}
  BY <1>2, <1>3, TimesPositive
<1>5. e(1) * e(2) * e(3) * e(4) \in Nat \ {0}
  BY <1>2, <1>4, TimesPositive
<1>6. QED BY <1>5 DEF Volume, e

LEMMA VolumePositive ==
  ASSUME NEW sp, IsShape(sp)
  PROVE  NSites(sp) \in Nat \ {0}
BY VolumeOfFour DEF NSites

LEMMA UpperDirection ==
  ASSUME NEW n \in 1 .. 4, NEW k \in 2 .. n
  PROVE  k \in {2, 3, 4} /\ n \in {2, 3, 4} /\ 1 \in 1 .. n /\ k \in 1 .. n
OBVIOUS

(* The sites are those of a block in the directions below mu, times the    *)
(* extent of mu, times the volume above it.                                *)
LEMMA VolumeSplits ==
  ASSUME NEW sp, IsShape(sp), NEW mu \in 2 .. Len(sp)
  PROVE  \E v \in Nat \ {0} :
           NSites(sp) = (v * sp[1]) * (sp[mu] * Volume(sp, mu + 1 .. Len(sp)))
<1> DEFINE e(k) == IF k \in Dims(sp) THEN sp[k] ELSE 1
<1>1. \A k \in 1 .. 4 : e(k) \in Nat \ {0}
  BY DEF IsShape, Dims
<1>2. e(1) \in Nat \ {0} /\ e(2) \in Nat \ {0} /\ e(3) \in Nat \ {0} /\ e(4) \in Nat \ {0}
  BY <1>1
<1>3. e(1) = sp[1] /\ e(mu) = sp[mu] /\ mu \in {2, 3, 4} /\ Len(sp) \in {2, 3, 4}
  <2>1. sp \in Seq(Nat \ {0}) /\ Len(sp) \in 1 .. 4 /\ Dims(sp) = 1 .. Len(sp)
    BY DEF IsShape, Dims, MaxDims
  <2>2. mu \in {2, 3, 4} /\ Len(sp) \in {2, 3, 4} /\ 1 \in 1 .. Len(sp) /\ mu \in 1 .. Len(sp)
    BY <2>1, UpperDirection
  <2>3. QED BY <2>1, <2>2
<1>4. NSites(sp) = e(1) * e(2) * e(3) * e(4)
  BY DEF NSites, Volume
<1>5. /\ mu = 2 => Volume(sp, mu + 1 .. Len(sp)) = 1 * 1 * e(3) * e(4)
      /\ mu = 3 => Volume(sp, mu + 1 .. Len(sp)) = 1 * 1 * 1 * e(4)
      /\ mu = 4 => Volume(sp, mu + 1 .. Len(sp)) = 1 * 1 * 1 * 1
  BY <1>3 DEF Volume, IsShape, Dims
<1> HIDE DEF e
<1>6. CASE mu = 2
  <2>1. e(1) * e(2) * e(3) * e(4) = (1 * e(1)) * (e(2) * (1 * 1 * e(3) * e(4)))
    BY <1>2
  <2>2. QED BY <1>3, <1>4, <1>5, <1>6, <2>1
<1>7. CASE mu = 3
  <2>1. e(1) * e(2) * e(3) * e(4) = (e(2) * e(1)) * (e(3) * (1 * 1 * 1 * e(4)))
    BY <1>2
  <2>2. QED BY <1>2, <1>3, <1>4, <1>5, <1>7, <2>1
<1>8. CASE mu = 4
  <2>1. e(1) * e(2) * e(3) * e(4) = ((e(2) * e(3)) * e(1)) * (e(4) * (1 * 1 * 1 * 1))
    BY <1>2
  <2>2. e(2) * e(3) \in Nat \ {0}
    BY <1>2, TimesPositive
  <2>3. QED BY <1>3, <1>4, <1>5, <1>8, <2>1, <2>2
<1>9. QED BY <1>3, <1>6, <1>7, <1>8

(* Every count within reach divides the lattice into blocks of rows.       *)
LEMMA CountsDivide ==
  ASSUME NEW sp, IsShape(sp), NEW c \in Counts(sp)
  PROVE  c \in Nat \ {0} /\ \E v \in Nat \ {0} : NSites(sp) = c * (v * sp[1])
<1>1. PICK mu \in 2 .. Len(sp) :
        \E nb \in {x \in 1 .. sp[mu] : sp[mu] % x = 0} : c = nb * Volume(sp, mu + 1 .. Len(sp))
  BY DEF Counts
<1>2. PICK nb \in {x \in 1 .. sp[mu] : sp[mu] % x = 0} : c = nb * Volume(sp, mu + 1 .. Len(sp))
  BY <1>1
<1> DEFINE above == Volume(sp, mu + 1 .. Len(sp))
           block == sp[mu] \div nb
<1>3. above \in Nat \ {0}
  <2>1. mu + 1 .. Len(sp) \subseteq Dims(sp)
    BY DEF IsShape, Dims
  <2>2. QED BY <2>1, VolumeOfFour
<1>4. sp[1] \in Nat \ {0} /\ sp[mu] \in Nat \ {0} /\ nb \in Nat \ {0}
  BY DEF IsShape
<1>5. block \in Nat \ {0} /\ sp[mu] = nb * block
  <2>1. block \in Int /\ sp[mu] % nb = sp[mu] - nb * block
    BY <1>4, Division, SMTT(60)
  <2>2. nb * block \in Int
    BY <1>4, <2>1
  <2>3. sp[mu] = nb * block
    BY <1>2, <1>4, <2>1, <2>2, SMTT(60)
  <2> HIDE DEF block
  <2>4. ASSUME block <= 0 PROVE FALSE
    <3>1. nb * block <= nb * 0
      BY <1>4, <2>1, <2>4, TimesMonotone
    <3>2. sp[mu] > 0 /\ nb * 0 = 0
      BY <1>4
    <3> DEFINE whole == nb * block
    <3>3. sp[mu] = whole /\ whole <= 0
      BY <2>3, <3>1, <3>2
    <3> HIDE DEF whole
    <3>4. QED BY <1>4, <3>2, <3>3
  <2>5. QED BY <2>1, <2>3, <2>4
<1>6. PICK v \in Nat \ {0} : NSites(sp) = (v * sp[1]) * (sp[mu] * above)
  BY VolumeSplits
<1> HIDE DEF above, block
<1>7. (v * sp[1]) * ((nb * block) * above) = (nb * above) * ((v * block) * sp[1])
  BY <1>3, <1>4, <1>5
<1>8. v * block \in Nat \ {0} /\ nb * above \in Nat \ {0}
  BY <1>3, <1>4, <1>5, TimesPositive
<1>9. QED BY <1>2, <1>5, <1>6, <1>7, <1>8 DEF above

LEMMA LeastOf ==
  ASSUME NEW T, T \subseteq Nat, T # {}
  PROVE  \E m \in T : \A x \in T : m <= x
<1>1. PICK m \in T : \A x \in T : <<x, m>> \notin OpToRel(<, Nat)
  BY NatLessThanWellFounded, WFMin
<1>2. \A x \in T : ~(x < m)
  BY <1>1 DEF OpToRel
<1>3. QED BY <1>2

(* The scan of the candidates ends with one that beats all others: first   *)
(* the counts that suit the team, of these the nearest to the target, of   *)
(* these, at most two, the larger.                                         *)
LEMMA BestExists ==
  ASSUME NEW T, T \subseteq Nat, T # {}, NEW target \in Int, NEW tm \in Nat \ {0}
  PROVE  \E c \in T : \A b \in T \ {c} : BetterSlabs(c, b, target, tm)
<1> DEFINE even(c) == c % tm = 0
           E == {c \in T : even(c)}
           F == IF E # {} THEN E ELSE T
           D == {Distance(c, target) : c \in F}
<1>1. F # {} /\ F \subseteq T /\ F \subseteq Nat
  OBVIOUS
<1>2. \A c \in F : \A b \in T : (even(c) <=> even(b)) => b \in F
  OBVIOUS
<1>3. \A c \in F : \A b \in T : ~(even(c) <=> even(b)) => even(c)
  OBVIOUS
<1> HIDE DEF E, F
<1>4. D # {} /\ D \subseteq Nat
  <2>1. \A c \in F : Distance(c, target) \in Nat
    BY <1>1 DEF Distance
  <2>2. QED BY <1>1, <2>1
<1>5. PICK m \in D : \A x \in D : m <= x
  BY <1>4, LeastOf
<1>6. \E c \in F : Distance(c, target) = m /\ \A b \in F : Distance(b, target) = m => b <= c
  <2>1. PICK c \in F : Distance(c, target) = m
    BY <1>5
  <2>2. CASE \A b \in F : Distance(b, target) = m => b <= c
    BY <2>1, <2>2
  <2>3. CASE \E b \in F : Distance(b, target) = m /\ ~(b <= c)
    <3>1. PICK b \in F : Distance(b, target) = m /\ ~(b <= c)
      BY <2>3
    <3>2. b \in Nat /\ c \in Nat /\ c < b
      BY <1>1, <3>1
    <3>3. \A x \in F : Distance(x, target) = m => x = b \/ x = c
      BY <1>1, <2>1, <3>1, <3>2 DEF Distance
    <3>4. QED BY <3>1, <3>2, <3>3
  <2>4. QED BY <2>2, <2>3
<1>7. PICK c \in F : Distance(c, target) = m /\ \A b \in F : Distance(b, target) = m => b <= c
  BY <1>6
<1>8. SUFFICES ASSUME NEW b \in T \ {c} PROVE BetterSlabs(c, b, target, tm)
  BY <1>1, <1>7
<1>9. CASE ~(even(c) <=> even(b))
  BY <1>3, <1>9 DEF BetterSlabs
<1>10. CASE even(c) <=> even(b)
  <2>1. b \in F /\ b \in Nat /\ c \in Nat /\ b # c
    BY <1>1, <1>2, <1>10
  <2>2. Distance(b, target) \in Nat /\ m \in Nat /\ m <= Distance(b, target)
    BY <1>4, <1>5, <2>1
  <2>3. m < Distance(b, target) \/ (m = Distance(b, target) /\ c > b)
    BY <1>7, <2>1, <2>2
  <2>4. QED BY <1>7, <1>10, <2>3 DEF BetterSlabs
<1>11. QED BY <1>9, <1>10

LEMMA SlabsDivide ==
  ASSUME NEW sp, IsShape(sp), Len(sp) > 1, NEW target \in Int, NEW tm \in Nat \ {0}
  PROVE  LET c == Slabs(sp, target, tm) IN
         c \in Nat \ {0} /\ \E v \in Nat \ {0} : NSites(sp) = c * (v * sp[1])
<1> DEFINE reach == {c \in Counts(sp) : c >= tm}
           c == Slabs(sp, target, tm)
<1>1. CASE reach = {}
  <2>1. 2 \in 2 .. Len(sp) /\ sp[1] \in Nat \ {0}
    BY DEF IsShape
  <2>2. PICK v \in Nat \ {0} : NSites(sp) = (v * sp[1]) * (sp[2] * Volume(sp, 3 .. Len(sp)))
    BY <2>1, VolumeSplits
  <2>3. sp[2] \in Nat \ {0} /\ Volume(sp, 3 .. Len(sp)) \in Nat \ {0}
    <3>1. 3 .. Len(sp) \subseteq Dims(sp)
      BY DEF IsShape, Dims
    <3>2. QED BY <3>1, VolumeOfFour DEF IsShape
  <2> DEFINE w == sp[2] * Volume(sp, 3 .. Len(sp))
  <2>4. w \in Nat \ {0} /\ v * w \in Nat \ {0}
    BY <2>3, TimesPositive
  <2> HIDE DEF w
  <2>5. (v * sp[1]) * w = sp[1] * (v * w) /\ (v * w) * sp[1] = sp[1] * (v * w)
    BY <2>1, <2>4
  <2>6. NSites(sp) = sp[1] * (v * w)
    BY <2>2, <2>5 DEF w
  <2>7. (sp[1] * (v * w)) \div sp[1] = v * w
    BY <2>1, <2>4, QuotientExact
  <2>8. c = v * w
    BY <1>1, <2>6, <2>7 DEF Slabs
  <2>9. NSites(sp) = c * (1 * sp[1])
    BY <2>1, <2>5, <2>6, <2>8
  <2>10. QED BY <2>4, <2>8, <2>9
<1>2. CASE reach # {}
  <2>1. reach \subseteq Nat
    BY CountsDivide
  <2>2. \E x \in reach : \A b \in reach \ {x} : BetterSlabs(x, b, target, tm)
    BY <1>2, <2>1, BestExists
  <2>3. c = CHOOSE x \in reach : \A b \in reach \ {x} : BetterSlabs(x, b, target, tm)
    BY <1>2 DEF Slabs
  <2>4. c \in reach
    BY <2>2, <2>3
  <2>5. QED BY <2>4, CountsDivide
<1>3. QED BY <1>1, <1>2
-----------------------------------------------------------------------------
(* Any lattice.                                                            *)
LEMMA RowsWhole ==
  ASSUME NEW a \in Nat \ {0}, NEW b \in Nat
  PROVE  (b * a) % a = 0
<1>1. b * a = a * b /\ a * b \in Int
  OBVIOUS
<1>2. (a * b) \div a = b
  BY QuotientExact
<1>3. (a * b) % a = a * b - a * ((a * b) \div a)
  BY <1>1, Division
<1>4. QED BY <1>1, <1>2, <1>3

PartitionGood(sp, p) ==
  /\ p = [items |-> p.items, len |-> p.len]
  /\ p.items \in Nat \ {0} /\ p.len \in Nat \ {0}
  /\ NSites(sp) <= p.len * p.items /\ p.len * (p.items - 1) < NSites(sp)
  /\ p.len = IF Len(sp) = 1 THEN Ceil(sp[1], p.items) ELSE NSites(sp) \div p.items
  /\ Len(sp) > 1 => p.len % sp[1] = 0 /\ NSites(sp) = p.len * p.items

LEMMA OneOrMore ==
  ASSUME NEW n \in Nat \ {0}
  PROVE  n > 1 <=> n # 1
OBVIOUS

LEMMA PartitionFacts ==
  ASSUME NEW sp, IsShape(sp), NEW tm \in Nat \ {0}, NEW each \in Int
  PROVE  PartitionGood(sp, PartitionOf(sp, tm, each))
<1> DEFINE target == tm * AtLeast(1, each)
           p == PartitionOf(sp, tm, each)
<1>1. target \in Int
  <2>1. AtLeast(1, each) \in Int
    BY DEF AtLeast
  <2>2. QED BY <2>1
<1>2. Len(sp) \in Nat \ {0} /\ sp[1] \in Nat \ {0}
  BY DEF IsShape
<1>3. CASE ~(Len(sp) > 1)
  <2>1. Len(sp) = 1
    BY <1>2, <1>3, OneOrMore
  <2>2. p = Flat(sp[1], target)
    BY <2>1 DEF PartitionOf
  <2>3. Flat(sp[1], target) = [items |-> Flat(sp[1], target).items, len |-> Flat(sp[1], target).len]
    BY DEF Flat
  <2>4. NSites(sp) = sp[1]
    BY <1>2, <2>1 DEF NSites, Volume, Dims, IsShape
  <2>5. QED BY <1>1, <1>2, <1>3, <2>1, <2>2, <2>3, <2>4, FlatExact DEF PartitionGood
<1>4. CASE Len(sp) > 1
  <2> DEFINE c == Slabs(sp, target, tm)
  <2>1. Len(sp) # 1
    BY <1>2, <1>4, OneOrMore
  <2>2. p = [items |-> c, len |-> NSites(sp) \div c]
    BY <2>1 DEF PartitionOf
  <2>3. c \in Nat \ {0} /\ \E v \in Nat \ {0} : NSites(sp) = c * (v * sp[1])
    BY <1>1, <1>4, SlabsDivide
  <2>4. PICK v \in Nat \ {0} : NSites(sp) = c * (v * sp[1])
    BY <2>3
  <2> DEFINE l == v * sp[1]
  <2>5. l \in Nat \ {0} /\ NSites(sp) = c * l
    BY <1>2, <2>4, TimesPositive
  <2>6. l % sp[1] = 0
    BY <1>2, RowsWhole
  <2> HIDE DEF c, l, p
  <2>7. NSites(sp) \div c = l
    BY <2>3, <2>5, QuotientExact
  <2>8. p.items = c /\ p.len = l
    BY <2>2, <2>7
  <2>9. l * c = c * l /\ l * (c - 1) = l * c - l /\ l * c \in Nat
    BY <2>3, <2>5
  <2>10. NSites(sp) = l * c /\ l * (c - 1) < NSites(sp)
    BY <2>5, <2>9
  <2>11. p.len = IF Len(sp) = 1 THEN Ceil(sp[1], p.items) ELSE NSites(sp) \div p.items
    BY <2>1, <2>7, <2>8
  <2>12. p = [items |-> p.items, len |-> p.len]
    BY <2>2
  <2>13. QED BY <2>3, <2>5, <2>6, <2>8, <2>9, <2>10, <2>11, <2>12 DEF PartitionGood, p
<1>5. QED BY <1>3, <1>4

(* Two teams that cut a lattice into as many slabs cut it alike: comparing *)
(* the number of streams, all a resume and check_streams_ do, is enough.   *)
THEOREM CountFixesPartition ==
  ASSUME NEW sp, IsShape(sp), NEW tm \in Nat \ {0}, NEW each \in Int,
         NEW un \in Nat \ {0}, NEW other \in Int,
         PartitionOf(sp, tm, each).items = PartitionOf(sp, un, other).items
  PROVE  PartitionOf(sp, tm, each) = PartitionOf(sp, un, other)
<1> DEFINE p == PartitionOf(sp, tm, each)
           q == PartitionOf(sp, un, other)
<1>1. /\ p = [items |-> p.items, len |-> p.len]
      /\ p.len = IF Len(sp) = 1 THEN Ceil(sp[1], p.items) ELSE NSites(sp) \div p.items
  BY PartitionFacts DEF PartitionGood
<1>2. /\ q = [items |-> q.items, len |-> q.len]
      /\ q.len = IF Len(sp) = 1 THEN Ceil(sp[1], q.items) ELSE NSites(sp) \div q.items
  BY PartitionFacts DEF PartitionGood
<1>3. p.items = q.items
  OBVIOUS
<1> HIDE DEF p, q
<1>4. p.len = q.len
  BY <1>1, <1>2, <1>3
<1>5. p = q
  BY <1>1, <1>2, <1>3, <1>4
<1>6. QED BY <1>5 DEF p, q

LEMMA OneSlabEach ==
  ASSUME NEW sp, NEW p, PartitionGood(sp, p), NSites(sp) \in Nat, NEW s \in Sites(sp)
  PROVE  /\ s \div p.len \in SlabIds(p)
         /\ \A j \in SlabIds(p) : s \in Span(sp, p, j) <=> j = s \div p.len
<1> DEFINE n == NSites(sp)
           l == p.len
           k == p.items
           i == s \div l
<1>1. l \in Nat \ {0} /\ k \in Nat \ {0} /\ n \in Nat /\ n <= l * k
  BY DEF PartitionGood
<1>2. s \in Nat /\ s < n
  BY <1>1 DEF Sites
<1>3. \A j \in SlabIds(p) :
        /\ j \in Nat /\ j < k /\ l * j \in Nat
        /\ s \in Span(sp, p, j) <=> l * j <= s /\ s < l * j + l /\ s < n
  <2>1. SUFFICES ASSUME NEW j \in SlabIds(p)
                 PROVE  /\ j \in Nat /\ j < k /\ l * j \in Nat
                        /\ s \in Span(sp, p, j) <=> l * j <= s /\ s < l * j + l /\ s < n
    OBVIOUS
  <2>2. j \in Nat /\ j < k
    BY <1>1 DEF SlabIds
  <2>3. j * l = l * j /\ l * j \in Nat
    BY <1>1, <2>2
  <2>4. s \in Span(sp, p, j) <=> l * j <= s /\ s <= l * j + AtMost(l, n - l * j) - 1
    <3> HIDE DEF l, n
    <3>1. AtMost(l, n - l * j) \in Int
      BY <1>1, <2>3 DEF AtMost
    <3>2. Span(sp, p, j) = l * j .. l * j + AtMost(l, n - l * j) - 1
      BY <2>3 DEF Span, Base, Count, l, n
    <3>3. QED BY <1>2, <2>3, <3>1, <3>2
  <2> HIDE DEF l, n
  <2>5. QED BY <1>1, <1>2, <2>2, <2>3, <2>4 DEF AtMost
<1>4. i \in Int /\ l * i <= s /\ s < l * i + l
  BY <1>1, <1>2, Division
<1> HIDE DEF n, l, k, i
<1>5. i >= 0
  <2>1. i + 1 <= 0 => l * (i + 1) <= l * 0
    BY <1>1, <1>4, TimesMonotone
  <2>2. l * (i + 1) = l * i + l /\ l * 0 = 0
    BY <1>1, <1>4
  <2>3. l * i \in Int
    BY <1>1, <1>4
  <2>4. QED BY <1>1, <1>2, <1>4, <2>1, <2>2, <2>3
<1>6. i < k
  <2>1. k <= i => l * k <= l * i
    BY <1>1, <1>4, TimesMonotone
  <2>2. l * i \in Int /\ l * k \in Int
    BY <1>1, <1>4
  <2>3. QED BY <1>1, <1>2, <1>4, <2>1, <2>2
<1>7. i \in SlabIds(p)
  BY <1>1, <1>4, <1>5, <1>6 DEF SlabIds, k
<1>8. ASSUME NEW j \in SlabIds(p), s \in Span(sp, p, j) PROVE j = i
  <2>1. j \in Nat /\ l * j \in Nat /\ l * j <= s /\ s < l * j + l
    BY <1>3, <1>8
  <2>2. l * (j + 1) = l * j + l /\ l * (i + 1) = l * i + l /\ l * i \in Int
    BY <1>1, <1>4, <2>1
  <2>3. j + 1 <= i => l * (j + 1) <= l * i
    BY <1>1, <1>4, <2>1, TimesMonotone
  <2>4. i + 1 <= j => l * (i + 1) <= l * j
    BY <1>1, <1>4, <2>1, TimesMonotone
  <2>5. QED BY <1>1, <1>2, <1>4, <2>1, <2>2, <2>3, <2>4
<1>9. s \in Span(sp, p, i)
  BY <1>2, <1>3, <1>4, <1>7
<1>10. QED BY <1>7, <1>8, <1>9 DEF i, l

LEMMA SlabsFull ==
  ASSUME NEW sp, NEW p, PartitionGood(sp, p), NSites(sp) \in Nat, NEW i \in SlabIds(p)
  PROVE  /\ Span(sp, p, i) # {}
         /\ Len(sp) > 1 => Count(sp, p, i) % sp[1] = 0
<1> DEFINE n == NSites(sp)
           l == p.len
           k == p.items
<1>1. /\ l \in Nat \ {0} /\ k \in Nat \ {0} /\ n \in Nat /\ l * (k - 1) < n
      /\ Len(sp) > 1 => l % sp[1] = 0 /\ n = l * k
  BY DEF PartitionGood
<1>2. i \in Nat /\ i <= k - 1
  BY <1>1 DEF SlabIds
<1>3. i * l = l * i /\ l * i \in Nat
  BY <1>1, <1>2
<1>4. Base(p, i) = l * i /\ Count(sp, p, i) = AtMost(l, n - l * i)
  BY <1>3 DEF Base, Count
<1> HIDE DEF n, l, k
<1>5. l * i <= l * (k - 1) /\ l * (k - 1) \in Int /\ l * (k - 1) = l * k - l /\ l * k \in Int
  BY <1>1, <1>2, TimesMonotone
<1>6. n - l * i > 0
  BY <1>1, <1>3, <1>5
<1>7. Span(sp, p, i) = l * i .. l * i + AtMost(l, n - l * i) - 1
  BY <1>4 DEF Span
<1>8. AtMost(l, n - l * i) \in Nat \ {0}
  BY <1>1, <1>3, <1>6 DEF AtMost
<1>9. l * i \in Span(sp, p, i)
  BY <1>3, <1>7, <1>8
<1>10. ASSUME Len(sp) > 1 PROVE Count(sp, p, i) % sp[1] = 0
  <2>1. n = l * k /\ l % sp[1] = 0
    BY <1>1, <1>10
  <2>2. AtMost(l, n - l * i) = l
    BY <1>1, <1>3, <1>5, <2>1 DEF AtMost
  <2>3. QED BY <1>4, <2>1, <2>2
<1>11. QED BY <1>9, <1>10
-----------------------------------------------------------------------------
(* A process works with the partition of the one that began the chain: the *)
(* team is frozen, so the ambient is never asked again, and a resume with  *)
(* as many streams finds the same slabs.                                   *)
Bound ==
  /\ sh \in Shapes /\ team \in Nat \ {0} /\ perThread \in Int /\ ambient \in Int
  /\ home = PartitionOf(sh, team, perThread)
  /\ DOMAIN drawn = SlabIds(home)
  /\ pc # "threw"

LEMMA TeamKept ==
  ASSUME NEW tm \in Nat \ {0}, NEW a \in Int
  PROVE  TraverseThreads(tm, a) = tm
BY DEF TraverseThreads, AtLeast

LEMMA TeamResolved ==
  ASSUME NEW r \in Int, NEW a \in Int
  PROVE  Resolved(r, a) \in Nat \ {0}
BY DEF Resolved, TraverseThreads, AtLeast

LEMMA SlabsCounted ==
  ASSUME NEW sp, NEW p, PartitionGood(sp, p)
  PROVE  Cardinality(SlabIds(p)) = p.items
<1>1. p.items \in Nat \ {0}
  BY DEF PartitionGood
<1>2. Cardinality(0 .. p.items - 1) = IF 0 > p.items - 1 THEN 0 ELSE (p.items - 1) - 0 + 1
  BY <1>1, FS_Interval, SMTT(60)
<1>3. QED BY <1>1, <1>2 DEF SlabIds

LEMMA BoundHome ==
  ASSUME Bound
  PROVE  /\ IsShape(sh) /\ PartitionGood(sh, home) /\ P = home
         /\ Cardinality(DOMAIN drawn) = home.items
<1>1. IsShape(sh)
  BY ShapeAssumption DEF Bound
<1>2. PartitionGood(sh, home)
  BY <1>1, PartitionFacts DEF Bound
<1>3. P = home
  BY TeamKept DEF Bound, P
<1>4. QED BY <1>1, <1>2, <1>3, SlabsCounted DEF Bound

LEMMA InitBound == Init => Bound
<1> SUFFICES ASSUME Init PROVE Bound
  OBVIOUS
<1>1. PICK r \in Requests : team = Resolved(r, ambient)
  BY DEF Init
<1>2. sh \in Shapes /\ perThread \in Int /\ ambient \in Int /\ team \in Nat \ {0}
  BY <1>1, ThreadAssumption, TeamResolved DEF Init
<1>3. P = PartitionOf(sh, team, perThread)
  BY <1>2, TeamKept DEF P
<1>4. home = P /\ drawn = [i \in SlabIds(P) |-> 0] /\ pc = "idle"
  BY DEF Init
<1>5. QED BY <1>2, <1>3, <1>4 DEF Bound

LEMMA StepBound == Bound /\ [Next]_vars => Bound'
<1> SUFFICES ASSUME Bound, [Next]_vars PROVE Bound'
  OBVIOUS
<1> DEFINE Same == UNCHANGED config /\ DOMAIN drawn' = DOMAIN drawn /\ pc' # "threw"
<1>1. Same => Bound'
  BY DEF Bound, config
<1> HIDE DEF Same
<1>2. CASE StartStep
  <2>1. P.items = Cardinality(DOMAIN drawn)
    BY BoundHome
  <2>2. pc' = "noise" /\ UNCHANGED <<config, drawn>>
    BY <1>2, <2>1 DEF StartStep
  <2>3. QED BY <1>1, <2>2 DEF Same
<1>3. CASE Filled \/ Thresholded \/ Colored \/ Drifted
  <2>1. UNCHANGED <<config, drawn>>
    BY <1>3 DEF Filled, Thresholded, Colored, Drifted
  <2>2. pc' \in {"noise", "logu", "drift", "color", "idle"}
    BY <1>3 DEF Filled, Thresholded, Colored, Drifted, Entered, Idle
  <2>3. QED BY <1>1, <2>1, <2>2 DEF Same
<1>4. ASSUME NEW t \in DOMAIN todo, FillSlab(t) PROVE Bound'
  <2>1. UNCHANGED <<config, pc>> /\ DOMAIN drawn' = DOMAIN drawn
    BY <1>4 DEF FillSlab
  <2>2. QED BY <1>1, <2>1 DEF Same, Bound
<1>5. ASSUME NEW t \in DOMAIN todo, DriftSlab(t) \/ TakeSlab(t) \/ Gather(t) \/ Decide(t)
      PROVE  Bound'
  <2>1. UNCHANGED <<config, drawn, pc>>
    BY <1>5 DEF DriftSlab, TakeSlab, Gather, Decide
  <2>2. QED BY <1>1, <2>1 DEF Same, Bound
<1>6. CASE Resume
  <2>1. PICK r \in Requests, q \in PerThread, a \in Ambients :
          /\ Accepts(PartitionOf(sh, TraverseThreads(Resolved(r, a), a), q))
          /\ team' = Resolved(r, a) /\ perThread' = q /\ ambient' = a
    BY <1>6 DEF Resume
  <2>2. UNCHANGED <<sh, home, drawn, pc>>
    BY <1>6 DEF Resume
  <2>3. r \in Int /\ q \in Int /\ a \in Int
    BY ThreadAssumption
  <2>4. team' \in Nat \ {0} /\ TraverseThreads(team', a) = team'
    BY <2>1, <2>3, TeamResolved, TeamKept
  <2>5. PartitionOf(sh, team', q).items = home.items
    BY <2>1, <2>4, BoundHome DEF Accepts
  <2>6. PartitionOf(sh, team', q) = PartitionOf(sh, team, perThread)
    BY <2>3, <2>4, <2>5, BoundHome, CountFixesPartition DEF Bound
  <2>7. QED BY <2>1, <2>2, <2>3, <2>4, <2>6 DEF Bound
<1>7. CASE SetAmbient
  <2>1. ambient' \in Int
    BY <1>7, ThreadAssumption DEF SetAmbient
  <2>2. UNCHANGED <<sh, team, perThread, home, drawn, pc>>
    BY <1>7 DEF SetAmbient
  <2>3. QED BY <2>1, <2>2 DEF Bound
<1>8. CASE UNCHANGED vars
  <2>1. UNCHANGED <<config, drawn, pc>>
    BY <1>8 DEF vars
  <2>2. QED BY <1>1, <2>1 DEF Same, Bound
<1>9. QED BY <1>2, <1>3, <1>4, <1>5, <1>6, <1>7, <1>8 DEF Next

LEMMA AlwaysBound == Spec => []Bound
BY InitBound, StepBound, PTL DEF Spec

(* check_streams_ never throws, for any lattice, any threads before and    *)
(* after any number of resumes, and any ambient.                           *)
THEOREM StreamsNeverDrift == Spec => []StreamsStayBound
<1>1. Bound => StreamsStayBound
  BY DEF Bound, StreamsStayBound
<1>2. QED BY <1>1, AlwaysBound, PTL

(* Every pass visits every site once and gives no thread an empty slab or  *)
(* a piece of a row.                                                       *)
THEOREM SlabsAlwaysTile == Spec => []SlabsTile
<1>1. Bound => SlabsTile
  <2> SUFFICES ASSUME Bound PROVE SlabsTile
    OBVIOUS
  <2>1. PartitionGood(sh, P) /\ NSites(sh) \in Nat
    BY BoundHome, VolumePositive
  <2>2. ASSUME NEW s \in Sites(sh)
        PROVE  Cardinality({i \in SlabIds(P) : s \in Span(sh, P, i)}) = 1
    <3> DEFINE i == s \div P.len
    <3>1. i \in SlabIds(P) /\ \A j \in SlabIds(P) : s \in Span(sh, P, j) <=> j = i
      BY <2>1, OneSlabEach
    <3> HIDE DEF i
    <3>2. {j \in SlabIds(P) : s \in Span(sh, P, j)} = {i}
      BY <3>1
    <3>3. QED BY <3>2, FS_Singleton
  <2>3. QED BY <2>1, <2>2, SlabsFull DEF SlabsTile
<1>2. QED BY <1>1, AlwaysBound, PTL
-----------------------------------------------------------------------------
(* What a step has done so far, slab by slab and site by site.             *)
Working == pc \in {"noise", "logu", "color", "drift"}

Directions == IF kind = "link" THEN Len(sh) ELSE 1

(* A slab no thread is through with, and a site the pass still visits.     *)
Waiting(i) == \E t \in DOMAIN todo : i \in todo[t]

Ahead(s) == \E t \in DOMAIN todo :
  \/ s \in pass[t]
  \/ SlabAt(s) \in todo[t] /\ (pass[t] # {} => SlabAt(s) # Least(todo[t]))

Team == 1 .. NThreads(home)

Stage ==
  /\ kind # "hmc" => CheckerboardOk(sh)
  /\ kind = "link" => Len(sh) >= 2
  /\ Working => dir \in 1 .. Directions /\ color \in 0 .. NColors - 1
  /\ pc \in {"noise", "drift"} => color = 0
  /\ pc \in {"logu", "color", "drift"} => dir = Directions
  /\ pc = "drift" => kind = "hmc"
  /\ pc \in {"logu", "color"} => kind # "hmc"
  /\ pc = "logu" /\ kind # "link" => color = 0

LanesInv ==
  /\ ~Working => todo = <<>> /\ pass = <<>> /\ held = <<>>
  /\ Working =>
       /\ todo \in [Team -> SUBSET SlabIds(home)] /\ pass \in [Team -> SUBSET Sites(sh)]
       /\ DOMAIN held = Team /\ held = [t \in Team |-> held[t]]
       /\ \A t, u \in Team : t # u => todo[t] \cap todo[u] = {}
       /\ \A t \in Team :
            /\ pass[t] # {} => /\ pc = "color" /\ todo[t] # {}
                               /\ pass[t] \subseteq PassOf(home, Least(todo[t]), color)
            /\ held[t] # <<>> => pass[t] # {}

(* The fills that all slabs have had.                                      *)
FillsDone ==
  CASE pc = "noise" -> dir - 1
    [] pc = "logu"  -> FillsBefore(color)
    [] pc = "color" -> FillsBefore(color) + 1
    [] OTHER        -> 1

FillsOf(i) == IF pc \in {"noise", "logu"} /\ ~Waiting(i) THEN FillsDone + 1 ELSE FillsDone

DrawnInv ==
  /\ drawn \in [SlabIds(home) -> Nat]
  /\ ~Working => drawn = expected.drawn
  /\ Working =>
       /\ expected.from \in [SlabIds(home) -> Nat]
       /\ expected.drawn =
            [i \in SlabIds(home) |-> expected.from[i] + Fills * Count(sh, home, i)]
       /\ \A i \in SlabIds(home) :
            drawn[i] = expected.from[i] + FillsOf(i) * Count(sh, home, i)

NoiseInv ==
  /\ DOMAIN noise = Cells
  /\ Working => \A cell \in Cells :
       \/ pc = "noise" /\ (cell[2] > dir \/ (cell[2] = dir /\ Ahead(cell[1])))
       \/ noise[cell] = DrawFor(cell[1], cell[2] - 1)

LoguInv ==
  /\ DOMAIN logu = Sites(sh)
  /\ pc \in {"logu", "color"} => \A s \in Sites(sh) :
       (pc = "logu" /\ Ahead(s)) \/ logu[s] = DrawFor(s, FillsBefore(color))

(* What the field is from what it was when the pass began.                 *)
Passed(cell) ==
  IF pc = "color" /\ InColor(cell, color) /\ ~Ahead(cell[1]) THEN Decision(cell, color).v
  ELSE IF pc = "drift" /\ ~Ahead(cell[1]) THEN Drift(expected.field[cell], DrawFor(cell[1], 0))
  ELSE expected.field[cell]

FieldInv ==
  /\ expected = [from |-> expected.from, field |-> expected.field,
                 ds |-> expected.ds, drawn |-> expected.drawn]
  /\ expected.field = [cell \in Cells |-> expected.field[cell]]
  /\ field = [cell \in Cells |-> Passed(cell)]

HeldInv ==
  \A t \in DOMAIN held : held[t] # <<>> =>
    held[t] = [w \in Places(CellOf(t)) |-> expected.field[Neighbours(CellOf(t))[w]]]

(* The draws of earlier steps, and those of the decisions of this one.     *)
Taken(cell, c) == InColor(cell, c) /\ (c < color \/ (pc = "color" /\ ~Ahead(cell[1])))

Old(d) ==
  /\ d = <<d[1], d[2]>> /\ d[1] \in SlabIds(home) /\ d[2] \in Nat
  /\ d[2] <= IF Working THEN expected.from[d[1]] ELSE drawn[d[1]]

Spent(d) ==
  Working /\ \E cell \in Cells : \E c \in 0 .. color :
    Taken(cell, c) /\ d \in {DrawFor(cell[1], cell[2] - 1), DrawFor(cell[1], FillsBefore(c))}

UsedInv ==
  /\ IsFiniteSet(used) /\ moves \in Nat /\ Cardinality(used) = 2 * moves
  /\ \A d \in used : Old(d) \/ Spent(d)

SweepInv ==
  Stage /\ LanesInv /\ DrawnInv /\ NoiseInv /\ LoguInv /\ FieldInv /\ HeldInv /\ UsedInv
-----------------------------------------------------------------------------
(* A site is a number in a mixed radix, its coordinates are the digits.    *)
LEMMA QuotientUnique ==
  ASSUME NEW a \in Int, NEW d \in Nat \ {0}, NEW q \in Int, d * q <= a, a < d * q + d
  PROVE  a \div d = q /\ a % d = a - d * q
<1> DEFINE p == a \div d
<1>1. p \in Int /\ d * p <= a /\ a < d * p + d /\ a % d = a - d * p
  BY Division
<1> HIDE DEF p
<1>2. d * (p + 1) = d * p + d /\ d * (q + 1) = d * q + d /\ d * p \in Int /\ d * q \in Int
  BY <1>1
<1>3. p + 1 <= q => d * (p + 1) <= d * q
  BY <1>1, TimesMonotone
<1>4. q + 1 <= p => d * (q + 1) <= d * p
  BY <1>1, TimesMonotone
<1>5. p = q
  BY <1>1, <1>2, <1>3, <1>4
<1>6. QED BY <1>1, <1>5 DEF p

LEMMA QuotientNat ==
  ASSUME NEW a \in Nat, NEW d \in Nat \ {0}
  PROVE  a \div d \in Nat /\ a % d \in 0 .. d - 1 /\ a = d * (a \div d) + (a % d)
<1> DEFINE q == a \div d
<1>1. q \in Int /\ d * q <= a /\ a < d * q + d /\ a % d = a - d * q
  BY Division
<1> HIDE DEF q
<1>2. d * q \in Int
  BY <1>1
<1>3. q + 1 <= 0 => d * (q + 1) <= d * 0
  BY <1>1, TimesMonotone
<1>4. d * (q + 1) = d * q + d
  BY <1>1
<1>5. q >= 0
  BY <1>1, <1>2, <1>3, <1>4
<1>6. QED BY <1>1, <1>2, <1>5 DEF q

(* Adding a multiple.                                                      *)
LEMMA AddMultiple ==
  ASSUME NEW a \in Int, NEW d \in Nat \ {0}, NEW k \in Int
  PROVE  (a + d * k) \div d = (a \div d) + k /\ (a + d * k) % d = a % d
<1> DEFINE q == a \div d
<1>1. q \in Int /\ d * q <= a /\ a < d * q + d /\ a % d = a - d * q
  BY Division
<1> HIDE DEF q
<1>2. d * (q + k) = d * q + d * k /\ d * k \in Int /\ d * q \in Int /\ q + k \in Int
  BY <1>1
<1>3. a + d * k \in Int /\ d * (q + k) <= a + d * k /\ a + d * k < d * (q + k) + d
  BY <1>1, <1>2
<1>4. (a + d * k) \div d = q + k /\ (a + d * k) % d = (a + d * k) - d * (q + k)
  BY <1>2, <1>3, QuotientUnique
<1>5. QED BY <1>1, <1>2, <1>4 DEF q

(* Dividing by two factors, one after the other.                           *)
LEMMA DivideTwice ==
  ASSUME NEW a \in Nat, NEW d \in Nat \ {0}, NEW e \in Nat \ {0}
  PROVE  a \div (d * e) = (a \div d) \div e
<1> DEFINE q == a \div d
           r == q \div e
<1>1. q \in Nat /\ d * q <= a /\ a < d * q + d
  BY QuotientNat, Division
<1> HIDE DEF q
<1>2. r \in Nat /\ e * r <= q /\ q < e * r + e
  BY <1>1, QuotientNat, Division
<1> HIDE DEF r
<1>3. d * (e * r) <= d * q /\ d * (q + 1) <= d * (e * r + e)
  <2>1. e * r \in Int /\ q + 1 <= e * r + e /\ q \in Int /\ e * r + e \in Int
    BY <1>1, <1>2
  <2>2. QED BY <1>2, <2>1, TimesMonotone
<1>4. d * (e * r) = (d * e) * r /\ d * (e * r + e) = (d * e) * r + d * e /\ d * (q + 1) = d * q + d
  BY <1>1, <1>2
<1> DEFINE f == d * e
<1>5. f \in Nat \ {0}
  BY TimesPositive
<1>6. f * r \in Int /\ d * q \in Int /\ r \in Int /\ a \in Int
  BY <1>1, <1>2, <1>5
<1>7. f * r <= a /\ a < f * r + f
  BY <1>1, <1>3, <1>4, <1>5, <1>6
<1> HIDE DEF f
<1>8. a \div f = r
  BY <1>5, <1>6, <1>7, QuotientUnique
<1>9. QED BY <1>8 DEF r, q, f

(* Changing one digit: the number stays within its higher digits.          *)
Digit(s, st, e) == (s \div st) % e

WithDigit(s, st, e, y) == s + st * (y - Digit(s, st, e))

LEMMA ChangeDigit ==
  ASSUME NEW s \in Nat, NEW st \in Nat \ {0}, NEW e \in Nat \ {0}, NEW y \in 0 .. e - 1
  PROVE  /\ Digit(s, st, e) \in 0 .. e - 1
         /\ WithDigit(s, st, e, y) \in Nat
         /\ Digit(WithDigit(s, st, e, y), st, e) = y
         /\ WithDigit(s, st, e, y) \div (st * e) = s \div (st * e)
<1> DEFINE q == s \div st
           x == Digit(s, st, e)
           b == q \div e
           z == WithDigit(s, st, e, y)
<1>0. x = q % e /\ z = s + st * (y - x)
  BY DEF Digit, WithDigit
<1> HIDE DEF x, z
<1>1. q \in Nat /\ st * q <= s /\ s < st * q + st
  BY QuotientNat, Division
<1>2. x \in 0 .. e - 1 /\ b \in Nat /\ q = e * b + x
  BY <1>0, <1>1, QuotientNat
<1>3. z \div st = q + (y - x)
  <2>1. y - x \in Int /\ s \in Int
    BY <1>2
  <2>2. QED BY <1>0, <2>1, AddMultiple, Zenon
<1>4. q + (y - x) = e * b + y
  <2>1. e * b \in Int
    BY <1>2
  <2> HIDE DEF q, b
  <2>2. QED BY <1>1, <1>2, <2>1
<1>5. z \in Nat
  <2>1. e * b \in Nat /\ q + (y - x) \in Nat
    BY <1>2, <1>4
  <2>2. st * (q + (y - x)) = st * q + st * (y - x) /\ st * (q + (y - x)) \in Nat
        /\ st * (y - x) \in Int /\ st * q \in Int
    BY <1>1, <1>2, <2>1
  <2> HIDE DEF q, b
  <2>3. QED BY <1>0, <1>1, <2>2
<1>6. (e * b + y) \div e = b /\ (e * b + y) % e = y
  <2>1. e * b \in Int /\ e * b + y \in Int
    BY <1>2
  <2> HIDE DEF b
  <2>2. e * b <= e * b + y /\ e * b + y < e * b + e /\ (e * b + y) - e * b = y
    BY <2>1
  <2>3. b \in Int
    BY <1>2
  <2>4. QED BY <2>1, <2>2, <2>3, QuotientUnique
<1>7. z \div (st * e) = b /\ s \div (st * e) = b
  <2>1. z \div (st * e) = (z \div st) \div e
    BY <1>5, DivideTwice
  <2>2. s \div (st * e) = (s \div st) \div e
    BY DivideTwice
  <2>3. QED BY <1>3, <1>4, <1>6, <2>1, <2>2
<1>8. Digit(z, st, e) = y
  BY <1>3, <1>4, <1>6 DEF Digit
<1>9. QED BY <1>2, <1>5, <1>7, <1>8 DEF x, z
-----------------------------------------------------------------------------
(* Extents, with 1 for the directions a lattice does not have.             *)
Extent(sp, k) == IF k \in DOMAIN sp THEN sp[k] ELSE 1

LEMMA Extents ==
  ASSUME NEW sp, IsShape(sp)
  PROVE  /\ Len(sp) \in 1 .. 4 /\ Dims(sp) = 1 .. Len(sp) /\ DOMAIN sp = 1 .. Len(sp)
         /\ \A k \in 1 .. 4 : Extent(sp, k) \in Nat \ {0}
         /\ \A k \in Dims(sp) : k \in 1 .. 4 /\ Extent(sp, k) = sp[k]
<1>1. sp \in Seq(Nat \ {0}) /\ Len(sp) \in 1 .. 4 /\ Dims(sp) = 1 .. Len(sp)
      /\ DOMAIN sp = 1 .. Len(sp)
  BY DEF IsShape, Dims, MaxDims
<1>2. \A k \in DOMAIN sp : sp[k] \in Nat \ {0}
  BY <1>1
<1>3. QED BY <1>1, <1>2, SMTT(60) DEF Extent

(* (the cases a prover does not find by itself)                            *)
LEMMA FourNumbers == \A k \in 1 .. 4 : k = 1 \/ k = 2 \/ k = 3 \/ k = 4
OBVIOUS

LEMMA Strides ==
  ASSUME NEW sp, IsShape(sp)
  PROVE  LET e(k) == Extent(sp, k) IN
         /\ NSites(sp) = e(1) * e(2) * e(3) * e(4)
         /\ Stride(sp, 1) = 1
         /\ Stride(sp, 2) = e(1) \/ Len(sp) < 2
         /\ Stride(sp, 3) = e(1) * e(2) \/ Len(sp) < 3
         /\ Stride(sp, 4) = e(1) * e(2) * e(3) \/ Len(sp) < 4
<1> DEFINE e(k) == Extent(sp, k)
<1>1. /\ Len(sp) \in 1 .. 4 /\ DOMAIN sp = 1 .. Len(sp)
      /\ e(1) \in Nat \ {0} /\ e(2) \in Nat \ {0} /\ e(3) \in Nat \ {0} /\ e(4) \in Nat \ {0}
  BY Extents
<1>2. NSites(sp) = e(1) * e(2) * e(3) * e(4)
  BY DEF NSites, Volume, Dims, Extent
<1>3. Stride(sp, 1) = 1
  <2>1. Stride(sp, 1) = 1 * 1 * 1 * 1
    BY DEF Stride, Volume
  <2>2. QED BY <2>1
<1>4. ASSUME Len(sp) >= 2 PROVE Stride(sp, 2) = e(1)
  <2>1. 1 \in DOMAIN sp
    BY <1>1
  <2>2. Stride(sp, 2) = e(1) * 1 * 1 * 1
    BY <2>1 DEF Stride, Volume, Extent
  <2> HIDE DEF e
  <2>3. QED BY <1>1, <2>2
<1>5. ASSUME Len(sp) >= 3 PROVE Stride(sp, 3) = e(1) * e(2)
  <2>1. 1 \in DOMAIN sp /\ 2 \in DOMAIN sp
    BY <1>1, <1>5
  <2>2. Stride(sp, 3) = e(1) * e(2) * 1 * 1
    BY <2>1 DEF Stride, Volume, Extent
  <2> HIDE DEF e
  <2>3. QED BY <1>1, <2>2
<1>6. ASSUME Len(sp) >= 4 PROVE Stride(sp, 4) = e(1) * e(2) * e(3)
  <2>1. 1 \in DOMAIN sp /\ 2 \in DOMAIN sp /\ 3 \in DOMAIN sp
    BY <1>1, <1>6
  <2>2. Stride(sp, 4) = e(1) * e(2) * e(3) * 1
    BY <2>1 DEF Stride, Volume, Extent
  <2> HIDE DEF e
  <2>3. QED BY <1>1, <2>2
<1>7. QED BY <1>1, <1>2, <1>3, <1>4, <1>5, <1>6

(* The block of the directions up to mu divides the stride of any later    *)
(* direction, and the lattice.                                             *)
LEMMA StrideSplits ==
  ASSUME NEW sp, IsShape(sp), NEW mu \in Dims(sp)
  PROVE  /\ Stride(sp, mu) \in Nat \ {0} /\ sp[mu] \in Nat \ {0}
         /\ \E w \in Nat \ {0} : NSites(sp) = (Stride(sp, mu) * sp[mu]) * w
         /\ \A nu \in Dims(sp) : mu < nu =>
              \E w \in Nat \ {0} : Stride(sp, nu) = (Stride(sp, mu) * sp[mu]) * w
<1> DEFINE e(k) == Extent(sp, k)
           st(k) == Stride(sp, k)
<1>1. /\ Len(sp) \in 1 .. 4 /\ Dims(sp) = 1 .. Len(sp)
      /\ e(1) \in Nat \ {0} /\ e(2) \in Nat \ {0} /\ e(3) \in Nat \ {0} /\ e(4) \in Nat \ {0}
      /\ e(mu) = sp[mu]
  BY Extents
<1>2. /\ NSites(sp) = e(1) * e(2) * e(3) * e(4) /\ st(1) = 1
      /\ st(2) = e(1) \/ Len(sp) < 2
      /\ st(3) = e(1) * e(2) \/ Len(sp) < 3
      /\ st(4) = e(1) * e(2) * e(3) \/ Len(sp) < 4
  BY Strides
<1>3. /\ e(1) * e(2) \in Nat \ {0} /\ e(2) * e(3) \in Nat \ {0} /\ e(3) * e(4) \in Nat \ {0}
  BY <1>1, TimesPositive
<1>4. e(1) * e(2) * e(3) \in Nat \ {0} /\ e(2) * e(3) * e(4) \in Nat \ {0}
  BY <1>1, <1>3, TimesPositive
<1> HIDE DEF e, st
<1>5. /\ \A k \in Dims(sp) : k = 1 \/ k = 2 \/ k = 3 \/ k = 4
      /\ 1 < 2 /\ 1 < 3 /\ 1 < 4 /\ 2 < 3 /\ 2 < 4 /\ 3 < 4
      /\ ~(2 < 1) /\ ~(3 < 1) /\ ~(4 < 1) /\ ~(3 < 2) /\ ~(4 < 2) /\ ~(4 < 3)
      /\ ~(1 < 1) /\ ~(2 < 2) /\ ~(3 < 3) /\ ~(4 < 4)
  <2>1. \A k \in 1 .. Len(sp) : k = 1 \/ k = 2 \/ k = 3 \/ k = 4
    <3> DEFINE n == Len(sp)
    <3>1. n \in 1 .. 4
      BY <1>1
    <3> HIDE DEF n
    <3>2. \A k \in 1 .. n : k = 1 \/ k = 2 \/ k = 3 \/ k = 4
      BY <3>1
    <3>3. QED BY <3>2 DEF n
  <2>2. QED BY <1>1, <2>1
<1>6. /\ 2 \in Dims(sp) => ~(Len(sp) < 2)
      /\ 3 \in Dims(sp) => ~(Len(sp) < 3)
      /\ 4 \in Dims(sp) => ~(Len(sp) < 4)
  <2> DEFINE n == Len(sp)
  <2>1. n \in 1 .. 4 /\ Dims(sp) = 1 .. n
    BY <1>1
  <2> HIDE DEF n
  <2>2. /\ 2 \in Dims(sp) => ~(n < 2)
        /\ 3 \in Dims(sp) => ~(n < 3)
        /\ 4 \in Dims(sp) => ~(n < 4)
    BY <2>1
  <2>3. QED BY <2>2 DEF n
<1>7. CASE mu = 1
  <2>1. st(mu) = 1 /\ sp[mu] = e(1) /\ 1 * e(1) = e(1)
    BY <1>1, <1>2, <1>7
  <2>2. NSites(sp) = e(1) * (e(2) * e(3) * e(4))
    BY <1>1, <1>2
  <2>3. st(2) = e(1) * 1 \/ Len(sp) < 2
    BY <1>1, <1>2
  <2>4. st(3) = e(1) * e(2) \/ Len(sp) < 3
    BY <1>2
  <2>5. st(4) = e(1) * (e(2) * e(3)) \/ Len(sp) < 4
    BY <1>1, <1>2
  <2>6. \A nu \in Dims(sp) : mu < nu => \E w \in Nat \ {0} : st(nu) = e(1) * w
    BY <1>1, <1>3, <1>5, <1>6, <1>7, <2>3, <2>4, <2>5, Zenon
  <2>7. QED BY <1>1, <1>4, <2>1, <2>2, <2>6, SMTT(60) DEF st
<1>8. CASE mu = 2
  <2>1. st(mu) = e(1) /\ sp[mu] = e(2)
    BY <1>1, <1>2, <1>6, <1>8
  <2>2. NSites(sp) = (e(1) * e(2)) * (e(3) * e(4))
    BY <1>1, <1>2
  <2>3. st(3) = (e(1) * e(2)) * 1 \/ Len(sp) < 3
    BY <1>1, <1>2, <1>3
  <2>4. st(4) = (e(1) * e(2)) * e(3) \/ Len(sp) < 4
    BY <1>1, <1>2
  <2>6. 1 \in Nat \ {0}
    OBVIOUS
  <2>5. \A nu \in Dims(sp) : mu < nu => \E w \in Nat \ {0} : st(nu) = (e(1) * e(2)) * w
    BY <1>1, <1>3, <1>5, <1>6, <1>8, <2>3, <2>4, <2>6, Zenon
  <2>7. QED BY <1>1, <1>3, <2>1, <2>2, <2>5 DEF st
<1>9. CASE mu = 3
  <2>1. st(mu) = e(1) * e(2) /\ sp[mu] = e(3)
    BY <1>1, <1>2, <1>6, <1>9
  <2>2. NSites(sp) = (e(1) * e(2) * e(3)) * e(4)
    BY <1>1, <1>2
  <2>3. st(4) = (e(1) * e(2) * e(3)) * 1 \/ Len(sp) < 4
    BY <1>1, <1>2, <1>4
  <2>4. \A nu \in Dims(sp) : mu < nu => \E w \in Nat \ {0} : st(nu) = (e(1) * e(2) * e(3)) * w
    BY <1>1, <1>3, <1>5, <1>6, <1>9, <2>3
  <2>5. QED BY <1>1, <1>3, <2>1, <2>2, <2>4 DEF st
<1>10. CASE mu = 4
  <2>1. st(mu) = e(1) * e(2) * e(3) /\ sp[mu] = e(4)
    BY <1>1, <1>2, <1>6, <1>10
  <2>2. NSites(sp) = (e(1) * e(2) * e(3) * e(4)) * 1
    <3> DEFINE f == e(1) * e(2) * e(3) * e(4)
    <3>1. f \in Nat
      BY <1>1
    <3> HIDE DEF f
    <3>2. f = f * 1
      BY <3>1
    <3>3. QED BY <1>2, <3>2 DEF f
  <2>3. \A nu \in Dims(sp) : ~(mu < nu)
    BY <1>5, <1>10
  <2>4. 1 \in Nat \ {0}
    OBVIOUS
  <2>5. st(mu) \in Nat \ {0} /\ NSites(sp) = (st(mu) * sp[mu]) * 1
    BY <1>4, <2>1, <2>2
  <2>6. QED BY <1>1, <2>3, <2>4, <2>5, SMTT(60) DEF st
<1>11. QED BY <1>5, <1>7, <1>8, <1>9, <1>10

(* The site with coordinate y in direction mu, and the others of s.        *)
Moved(sp, s, mu, y) == s + Stride(sp, mu) * (y - Coord(sp, s, mu))

LEMMA MovedFacts ==
  ASSUME NEW sp, IsShape(sp), NEW s \in Sites(sp), NEW mu \in Dims(sp), NEW y \in 0 .. sp[mu] - 1
  PROVE  LET z == Moved(sp, s, mu, y) IN
         /\ z \in Sites(sp) /\ Coord(sp, z, mu) = y
         /\ \A nu \in Dims(sp) \ {mu} : Coord(sp, z, nu) = Coord(sp, s, nu)
<1> DEFINE st == Stride(sp, mu)
           e == sp[mu]
           n == NSites(sp)
           x == Coord(sp, s, mu)
           z == Moved(sp, s, mu, y)
           d == y - x
<1>1. st \in Nat \ {0} /\ e \in Nat \ {0} /\ n \in Nat \ {0} /\ s \in Nat /\ s < n
  BY StrideSplits, VolumePositive DEF Sites
<1>2. x = (s \div st) % e /\ z = s + st * (y - x)
  BY DEF Moved, Coord
<1>3. x \in 0 .. e - 1 /\ z \in Nat /\ (z \div st) % e = y /\ z \div (st * e) = s \div (st * e)
  <2> HIDE DEF st, e, n, x, z
  <2>1. y \in 0 .. e - 1
    BY DEF e
  <2>2. x = Digit(s, st, e) /\ z = WithDigit(s, st, e, y)
    BY <1>2 DEF Digit, WithDigit
  <2>3. z \in Nat /\ Digit(z, st, e) = y /\ z \div (st * e) = s \div (st * e) /\ x \in 0 .. e - 1
    BY <1>1, <2>1, <2>2, ChangeDigit
  <2>4. QED BY <2>3 DEF Digit
<1>4. st * e \in Nat \ {0}
  BY <1>1, TimesPositive
<1>5. d \in Int /\ z = s + st * d
  BY <1>1, <1>2, <1>3
<1> HIDE DEF d
<1>6. \A w \in Nat \ {0} : z \div ((st * e) * w) = s \div ((st * e) * w)
  <2> DEFINE f == st * e
  <2> HIDE DEF f, z
  <2>1. f \in Nat \ {0} /\ z \div f = s \div f
    BY <1>3, <1>4 DEF f
  <2>2. \A w \in Nat \ {0} : /\ z \div (f * w) = (z \div f) \div w
                             /\ s \div (f * w) = (s \div f) \div w
    BY <1>1, <1>3, <2>1, DivideTwice, ZenonT(60)
  <2>3. QED BY <2>1, <2>2 DEF f
<1>7. z < n
  <2>1. PICK w \in Nat \ {0} : n = (st * e) * w
    BY StrideSplits
  <2>2. z \div n = s \div n
    BY <1>6, <2>1
  <2> HIDE DEF n, z
  <2>3. n * 0 <= s /\ s < n * 0 + n /\ s \in Int /\ 0 \in Int
    BY <1>1
  <2>4. s \div n = 0
    BY <1>1, <2>3, QuotientUnique, Zenon
  <2>5. z < n * (z \div n) + n
    BY <1>1, <1>3, Division
  <2>6. QED BY <1>1, <1>3, <2>2, <2>4, <2>5
<1>8. ASSUME NEW nu \in Dims(sp), mu < nu PROVE Coord(sp, z, nu) = Coord(sp, s, nu)
  <2>1. PICK w \in Nat \ {0} : Stride(sp, nu) = (st * e) * w
    BY <1>8, StrideSplits
  <2>2. z \div Stride(sp, nu) = s \div Stride(sp, nu)
    BY <1>6, <2>1
  <2> HIDE DEF z
  <2>3. QED BY <2>2 DEF Coord
<1>9. ASSUME NEW nu \in Dims(sp), nu < mu PROVE Coord(sp, z, nu) = Coord(sp, s, nu)
  <2> DEFINE t == Stride(sp, nu)
             f == sp[nu]
  <2>1. t \in Nat \ {0} /\ f \in Nat \ {0} /\ \E w \in Nat \ {0} : st = (t * f) * w
    BY <1>9, StrideSplits
  <2>2. PICK w \in Nat \ {0} : st = (t * f) * w
    BY <2>1
  <2>3. Coord(sp, z, nu) = (z \div t) % f /\ Coord(sp, s, nu) = (s \div t) % f
    BY DEF Coord
  <2> HIDE DEF t, f, st, z
  <2>4. ((t * f) * w) * d = t * (f * (w * d)) /\ w * d \in Int /\ f * (w * d) \in Int
    BY <1>5, <2>1
  <2>5. z = s + t * (f * (w * d))
    BY <1>5, <2>2, <2>4
  <2>6. z \div t = (s \div t) + f * (w * d)
    <3>1. s \in Int
      BY <1>1
    <3>2. QED BY <2>1, <2>4, <2>5, <3>1, AddMultiple, Zenon
  <2>7. s \div t \in Int
    BY <1>1, <2>1, Division
  <2>8. ((s \div t) + f * (w * d)) % f = (s \div t) % f
    BY <2>1, <2>4, <2>7, AddMultiple
  <2>9. QED BY <2>3, <2>6, <2>8
<1>10. \A nu \in Dims(sp) \ {mu} : mu < nu \/ nu < mu
  BY Extents
<1>11. QED BY <1>1, <1>3, <1>7, <1>8, <1>9, <1>10 DEF Sites, Coord

LEMMA CoordRange ==
  ASSUME NEW sp, IsShape(sp), NEW s \in Sites(sp), NEW mu \in Dims(sp)
  PROVE  Coord(sp, s, mu) \in 0 .. sp[mu] - 1 /\ sp[mu] \in Nat \ {0}
<1>1. Stride(sp, mu) \in Nat \ {0} /\ sp[mu] \in Nat \ {0} /\ s \in Nat
  BY StrideSplits, VolumePositive DEF Sites
<1>2. s \div Stride(sp, mu) \in Nat
  BY <1>1, QuotientNat
<1>3. (s \div Stride(sp, mu)) % sp[mu] \in 0 .. sp[mu] - 1
  BY <1>1, <1>2, QuotientNat
<1>4. QED BY <1>1, <1>3 DEF Coord

(* The neighbours in direction mu, with the wrap of the periodic lattice.  *)
After(sp, s, mu) == IF Coord(sp, s, mu) + 1 < sp[mu] THEN Coord(sp, s, mu) + 1 ELSE 0

Before(sp, s, mu) == IF Coord(sp, s, mu) > 0 THEN Coord(sp, s, mu) - 1 ELSE sp[mu] - 1

LEMMA NeighboursMoved ==
  ASSUME NEW sp, IsShape(sp), NEW s \in Sites(sp), NEW mu \in Dims(sp)
  PROVE  /\ After(sp, s, mu) \in 0 .. sp[mu] - 1 /\ Before(sp, s, mu) \in 0 .. sp[mu] - 1
         /\ NextSite(sp, s, mu) = Moved(sp, s, mu, After(sp, s, mu))
         /\ PrevSite(sp, s, mu) = Moved(sp, s, mu, Before(sp, s, mu))
<1> DEFINE c == Coord(sp, s, mu)
           st == Stride(sp, mu)
           e == sp[mu]
<1>1. c \in 0 .. e - 1 /\ e \in Nat \ {0}
  BY CoordRange
<1>2. st \in Nat \ {0} /\ s \in Nat
  BY StrideSplits, VolumePositive DEF Sites
<1>3. /\ NextSite(sp, s, mu) = IF c + 1 < e THEN s + st ELSE s - (e - 1) * st
      /\ PrevSite(sp, s, mu) = IF c > 0 THEN s - st ELSE s + (e - 1) * st
      /\ After(sp, s, mu) = IF c + 1 < e THEN c + 1 ELSE 0
      /\ Before(sp, s, mu) = IF c > 0 THEN c - 1 ELSE e - 1
      /\ \A y : Moved(sp, s, mu, y) = s + st * (y - c)
  BY DEF NextSite, PrevSite, After, Before, Moved
<1> HIDE DEF c, st, e
<1>4. /\ c + 1 < e => s + st = s + st * (c + 1 - c)
      /\ ~(c + 1 < e) => s - (e - 1) * st = s + st * (0 - c)
      /\ c > 0 => s - st = s + st * (c - 1 - c)
      /\ ~(c > 0) => s + (e - 1) * st = s + st * (e - 1 - c)
  <2>1. c + 1 < e => c + 1 - c = 1
    BY <1>1
  <2>2. ~(c + 1 < e) => c = e - 1
    BY <1>1
  <2>3. (e - 1) * st = st * (e - 1) /\ s - (e - 1) * st = s + st * (0 - (e - 1))
    BY <1>1, <1>2
  <2>4. c > 0 => c - 1 - c = 0 - 1
    BY <1>1
  <2>5. ~(c > 0) => e - 1 - c = e - 1
    BY <1>1
  <2>6. st * 1 = st /\ s - st = s + st * (0 - 1)
    BY <1>2
  <2>7. QED BY <2>1, <2>2, <2>3, <2>4, <2>5, <2>6
<1>5. After(sp, s, mu) \in 0 .. e - 1 /\ Before(sp, s, mu) \in 0 .. e - 1
  BY <1>1, <1>3
<1>6. NextSite(sp, s, mu) = Moved(sp, s, mu, After(sp, s, mu))
  <2>1. CASE c + 1 < e
    <3> DEFINE up == c + 1
    <3>1. NextSite(sp, s, mu) = s + st /\ After(sp, s, mu) = up
      BY <1>3, <2>1
    <3>2. up - c = 1 /\ st * 1 = st
      BY <1>1, <1>2
    <3> HIDE DEF up
    <3>3. Moved(sp, s, mu, up) = s + st * (up - c)
      BY <1>3
    <3>4. QED BY <3>1, <3>2, <3>3
  <2>2. CASE ~(c + 1 < e)
    BY <1>3, <1>4, <2>2
  <2>3. QED BY <2>1, <2>2
<1>7. PrevSite(sp, s, mu) = Moved(sp, s, mu, Before(sp, s, mu))
  BY <1>3, <1>4
<1>8. QED BY <1>5, <1>6, <1>7 DEF e

LEMMA CoordSums ==
  ASSUME NEW sp, IsShape(sp), NEW s \in Sites(sp), NEW mu \in Dims(sp), NEW y \in 0 .. sp[mu] - 1
  PROVE  /\ CoordSum(sp, s, Dims(sp)) \in Nat
         /\ CoordSum(sp, Moved(sp, s, mu, y), Dims(sp))
              = CoordSum(sp, s, Dims(sp)) + (y - Coord(sp, s, mu))
<1> DEFINE z == Moved(sp, s, mu, y)
           a(k) == IF k \in Dims(sp) THEN Coord(sp, s, k) ELSE 0
           b(k) == IF k \in Dims(sp) THEN Coord(sp, z, k) ELSE 0
           d == y - Coord(sp, s, mu)
<1>1. z \in Sites(sp) /\ Coord(sp, z, mu) = y
      /\ \A nu \in Dims(sp) \ {mu} : Coord(sp, z, nu) = Coord(sp, s, nu)
  BY MovedFacts
<1>2. /\ CoordSum(sp, s, Dims(sp)) = a(1) + a(2) + a(3) + a(4)
      /\ CoordSum(sp, z, Dims(sp)) = b(1) + b(2) + b(3) + b(4)
  BY DEF CoordSum
<1>3. Coord(sp, s, mu) \in Nat /\ y \in Nat
  BY CoordRange
<1>4. \A k : a(k) \in Nat
  BY CoordRange
<1>5. \A k : k # mu => b(k) = a(k)
  BY <1>1
<1>6. b(mu) = y /\ a(mu) = Coord(sp, s, mu)
  BY <1>1
<1>7. b(mu) = a(mu) + d /\ d \in Int
  BY <1>3, <1>6
<1>8. mu = 1 \/ mu = 2 \/ mu = 3 \/ mu = 4
  BY Extents, FourNumbers
<1>9. /\ a(1) \in Nat /\ a(2) \in Nat /\ a(3) \in Nat /\ a(4) \in Nat
      /\ b(1) = IF mu = 1 THEN a(1) + d ELSE a(1)
      /\ b(2) = IF mu = 2 THEN a(2) + d ELSE a(2)
      /\ b(3) = IF mu = 3 THEN a(3) + d ELSE a(3)
      /\ b(4) = IF mu = 4 THEN a(4) + d ELSE a(4)
  BY <1>4, <1>5, <1>7
<1> HIDE DEF a, b, d, z
<1>10. b(1) + b(2) + b(3) + b(4) = a(1) + a(2) + a(3) + a(4) + d
  BY <1>7, <1>8, <1>9
<1>11. a(1) + a(2) + a(3) + a(4) \in Nat
  BY <1>9
<1>12. QED BY <1>2, <1>10, <1>11 DEF z, d

(* With even extents a neighbour has the other parity.                     *)
LEMMA Flips ==
  ASSUME NEW sp, IsShape(sp), NEW s \in Sites(sp), NEW mu \in Dims(sp),
         NEW z \in {NextSite(sp, s, mu), PrevSite(sp, s, mu)}
  PROVE  /\ z \in Sites(sp)
         /\ \A nu \in Dims(sp) \ {mu} : Coord(sp, z, nu) = Coord(sp, s, nu)
         /\ CheckerboardOk(sp) => CoordSum(sp, z, Dims(sp)) % 2 # CoordSum(sp, s, Dims(sp)) % 2
<1> DEFINE c == Coord(sp, s, mu)
           e == sp[mu]
           m == CoordSum(sp, s, Dims(sp))
<1>1. c \in 0 .. e - 1 /\ e \in Nat \ {0} /\ m \in Nat
  BY CoordRange, CoordSums
<1>2. /\ After(sp, s, mu) \in 0 .. sp[mu] - 1 /\ Before(sp, s, mu) \in 0 .. sp[mu] - 1
      /\ NextSite(sp, s, mu) = Moved(sp, s, mu, After(sp, s, mu))
      /\ PrevSite(sp, s, mu) = Moved(sp, s, mu, Before(sp, s, mu))
  BY NeighboursMoved
<1>3. PICK y \in 0 .. sp[mu] - 1 : z = Moved(sp, s, mu, y)
                                  /\ (y = After(sp, s, mu) \/ y = Before(sp, s, mu))
  BY <1>2
<1>4. /\ z \in Sites(sp)
      /\ \A nu \in Dims(sp) \ {mu} : Coord(sp, z, nu) = Coord(sp, s, nu)
  BY <1>3, MovedFacts
<1>5. CoordSum(sp, z, Dims(sp)) = m + (y - c)
  BY <1>3, CoordSums
<1>6. ASSUME CheckerboardOk(sp) PROVE CoordSum(sp, z, Dims(sp)) % 2 # m % 2
  <2>1. e % 2 = 0
    BY <1>6 DEF CheckerboardOk
  <2>2. \/ y = IF c + 1 < e THEN c + 1 ELSE 0
        \/ y = IF c > 0 THEN c - 1 ELSE e - 1
    BY <1>3 DEF After, Before
  <2> HIDE DEF c, e, m
  <2>3. y - c = 1 \/ y - c = 0 - 1 \/ y - c = e - 1 \/ y - c = 0 - (e - 1)
    BY <1>1, <2>2
  <2>4. (m + 1) % 2 # m % 2 /\ (m + (0 - 1)) % 2 # m % 2
        /\ (m + (e - 1)) % 2 # m % 2 /\ (m + (0 - (e - 1))) % 2 # m % 2
    BY <1>1, <2>1
  <2>5. QED BY <1>5, <2>3, <2>4
<1>7. QED BY <1>4, <1>6
-----------------------------------------------------------------------------
(* What the walk of a row reads are the neighbours, and a decision reads   *)
(* nothing of its own colour.                                              *)
LEMMA RowOf ==
  ASSUME IsShape(sh), NEW s \in Sites(sh)
  PROVE  /\ 1 \in Dims(sh) /\ sh[1] \in Nat \ {0} /\ s \in Nat
         /\ s % sh[1] = Coord(sh, s, 1) /\ s - (s % sh[1]) = Moved(sh, s, 1, 0)
         /\ s - (s % sh[1]) \in Sites(sh)
         /\ \A nu \in Dims(sh) \ {1} : Coord(sh, s - (s % sh[1]), nu) = Coord(sh, s, nu)
<1>1. 1 \in Dims(sh)
  BY Extents
<1>2. Stride(sh, 1) = 1 /\ sh[1] \in Nat \ {0} /\ s \in Nat
  BY <1>1, Strides, StrideSplits, VolumePositive DEF Sites
<1>3. s \div 1 = s
  BY <1>2
<1>4. s % sh[1] = Coord(sh, s, 1)
  BY <1>2, <1>3 DEF Coord
<1>5. Coord(sh, s, 1) \in 0 .. sh[1] - 1 /\ 0 \in 0 .. sh[1] - 1
  BY <1>1, <1>2, CoordRange
<1>6. s - (s % sh[1]) = Moved(sh, s, 1, 0)
  <2> DEFINE c == Coord(sh, s, 1)
  <2>1. c \in Int
    BY <1>5
  <2>2. Moved(sh, s, 1, 0) = s + 1 * (0 - c)
    BY <1>2 DEF Moved
  <2> HIDE DEF c
  <2>3. s - c = s + 1 * (0 - c)
    BY <1>2, <2>1
  <2>4. QED BY <1>4, <2>2, <2>3 DEF c
<1>7. QED BY <1>1, <1>2, <1>4, <1>5, <1>6, MovedFacts

RowStart(s) == s - (s % sh[1])

IsPlace(b) == b = [row |-> b.row, x |-> b.x] /\ b.row \in Int /\ b.x \in Int

(* b is a place of site z, off the row of s in other directions than nu.   *)
LEMMA SteppedIs ==
  ASSUME IsShape(sh), NEW s \in Sites(sh), NEW b, NEW nu \in Dims(sh),
         IsPlace(b), At(b) \in Sites(sh),
         Coord(sh, At(b), nu) = Coord(sh, s, nu), nu = 1 => b.x = Coord(sh, At(b), 1)
  PROVE  /\ At(Stepped(RowStart(s), b, nu, TRUE)) = NextSite(sh, At(b), nu)
         /\ At(Stepped(RowStart(s), b, nu, FALSE)) = PrevSite(sh, At(b), nu)
         /\ IsPlace(Stepped(RowStart(s), b, nu, TRUE))
         /\ nu # 1 => Stepped(RowStart(s), b, nu, TRUE).x = b.x
<1> DEFINE z == At(b)
           row == RowStart(s)
           f == Stepped(row, b, nu, TRUE)
           g == Stepped(row, b, nu, FALSE)
           c == Coord(sh, z, nu)
           e == sh[nu]
           st == Stride(sh, nu)
<1>1. c \in 0 .. e - 1 /\ e \in Nat \ {0} /\ st \in Nat \ {0} /\ z \in Nat
  BY CoordRange, StrideSplits, VolumePositive DEF Sites
<1>2. z = b.row + b.x /\ b = [row |-> b.row, x |-> b.x] /\ b.row \in Int /\ b.x \in Int
  BY DEF At, IsPlace
<1>3. /\ NextSite(sh, z, nu) = IF c + 1 < e THEN z + st ELSE z - (e - 1) * st
      /\ PrevSite(sh, z, nu) = IF c > 0 THEN z - st ELSE z + (e - 1) * st
  BY DEF NextSite, PrevSite
<1>4. CASE nu # 1
  <2>1. Coord(sh, row, nu) = c
    BY <1>4, RowOf DEF RowStart
  <2> DEFINE u == RowShift(row, b.row, nu, TRUE)
             v == RowShift(row, b.row, nu, FALSE)
  <2>2. /\ u = IF c + 1 = e THEN b.row - (e - 1) * st ELSE b.row + st
        /\ v = IF c = 0 THEN b.row + (e - 1) * st ELSE b.row - st
    BY <2>1 DEF RowShift
  <2>3. f = [b EXCEPT !.row = u] /\ g = [b EXCEPT !.row = v]
    BY <1>4 DEF Stepped
  <2> HIDE DEF c, e, st, u, v, f, g
  <2>4. f = [row |-> u, x |-> b.x] /\ g = [row |-> v, x |-> b.x]
    BY <1>2, <2>3
  <2>5. f.row = u /\ f.x = b.x /\ g.row = v /\ g.x = b.x
    BY <2>4
  <2>6. (e - 1) * st \in Int
    BY <1>1
  <2> DEFINE w == (e - 1) * st
  <2> HIDE DEF w
  <2>7. u \in Int /\ v \in Int
    BY <1>1, <2>2, <2>6 DEF w
  <2>8. u + b.x = IF c + 1 < e THEN z + st ELSE z - w
    BY <1>1, <1>2, <2>2, <2>6 DEF w
  <2>9. v + b.x = IF c > 0 THEN z - st ELSE z + w
    BY <1>1, <1>2, <2>2, <2>6 DEF w
  <2>10. At(f) = u + b.x /\ At(g) = v + b.x
    BY <2>5 DEF At
  <2>11. f = [row |-> f.row, x |-> f.x]
    BY <2>4, <2>5
  <2>12. At(f) = NextSite(sh, z, nu) /\ At(g) = PrevSite(sh, z, nu)
    BY <1>3, <2>8, <2>9, <2>10 DEF w
  <2>13. QED BY <2>5, <2>7, <2>11, <2>12 DEF f, g, IsPlace
<1>5. CASE nu = 1
  <2>1. st = 1 /\ b.x = c /\ e = sh[1]
    BY <1>5, Strides
  <2> DEFINE u == IF c + 1 = e THEN 0 ELSE c + 1
             v == IF c = 0 THEN e - 1 ELSE c - 1
  <2>2. f = [b EXCEPT !.x = u] /\ g = [b EXCEPT !.x = v]
    BY <1>5, <2>1 DEF Stepped
  <2>3. u \in Int /\ v \in Int
    BY <1>1
  <2>4. b.row + u = IF c + 1 < e THEN z + 1 ELSE z - (e - 1) * 1
    BY <1>1, <1>2, <2>1
  <2>5. b.row + v = IF c > 0 THEN z - 1 ELSE z + (e - 1) * 1
    BY <1>1, <1>2, <2>1
  <2> HIDE DEF c, e, st, u, v, f, g
  <2>6. f = [row |-> b.row, x |-> u] /\ g = [row |-> b.row, x |-> v]
    BY <1>2, <2>2
  <2>7. f.row = b.row /\ f.x = u /\ g.row = b.row /\ g.x = v
    BY <2>6
  <2>8. At(f) = b.row + u /\ At(g) = b.row + v
    BY <2>7 DEF At
  <2>9. f = [row |-> f.row, x |-> f.x]
    BY <2>6, <2>7
  <2>10. At(f) = NextSite(sh, z, nu) /\ At(g) = PrevSite(sh, z, nu)
    BY <1>3, <2>1, <2>4, <2>5, <2>8
  <2>11. QED BY <1>2, <1>5, <2>3, <2>7, <2>9, <2>10 DEF f, g, IsPlace
<1>6. QED BY <1>4, <1>5

(* A place of a decision, by position.                                     *)
LEMMA ReadsAreNeighbours ==
  ASSUME IsShape(sh), NEW s \in Sites(sh), NEW mu \in Dims(sh)
  PROVE  Reads(<<s, mu>>) = Neighbours(<<s, mu>>)
<1> DEFINE row == RowStart(s)
           here == [row |-> row, x |-> s % sh[1]]
           ahead == Stepped(row, here, mu, TRUE)
           N(x, k) == NextSite(sh, x, k)
           B(x, k) == PrevSite(sh, x, k)
<1>1. IsPlace(here) /\ s = At(here) /\ here.x = Coord(sh, s, 1)
  <2>1. here.row = row /\ here.x = s % sh[1] /\ here = [row |-> here.row, x |-> here.x]
    OBVIOUS
  <2>2. s \in Nat /\ s % sh[1] = Coord(sh, s, 1) /\ Coord(sh, s, 1) \in Int
    BY RowOf, CoordRange
  <2>3. row \in Int /\ s % sh[1] \in Int /\ s = row + (s % sh[1])
    BY <2>2 DEF RowStart
  <2> HIDE DEF row, here
  <2>4. QED BY <2>1, <2>2, <2>3 DEF At, IsPlace
<1> HIDE DEF here
<1>2. \A k \in Dims(sh) : /\ At(Stepped(row, here, k, TRUE)) = N(s, k)
                          /\ At(Stepped(row, here, k, FALSE)) = B(s, k)
  <2> SUFFICES ASSUME NEW k \in Dims(sh)
               PROVE  /\ At(Stepped(row, here, k, TRUE)) = N(s, k)
                      /\ At(Stepped(row, here, k, FALSE)) = B(s, k)
    OBVIOUS
  <2>1. k = 1 => here.x = Coord(sh, s, 1)
    BY <1>1
  <2>2. At(Stepped(RowStart(s), here, k, TRUE)) = NextSite(sh, s, k)
    BY <1>1, <2>1, SteppedIs
  <2>3. At(Stepped(RowStart(s), here, k, FALSE)) = PrevSite(sh, s, k)
    BY <1>1, <2>1, SteppedIs
  <2>4. QED BY <2>2, <2>3
<1>3. IsPlace(ahead) /\ (mu # 1 => ahead.x = here.x)
  BY <1>1, SteppedIs
<1>4. At(ahead) = N(s, mu) /\ N(s, mu) \in Sites(sh)
      /\ \A nu \in Dims(sh) \ {mu} : Coord(sh, N(s, mu), nu) = Coord(sh, s, nu)
  BY <1>2, Flips
<1>5. ASSUME NEW nu \in Dims(sh) \ {mu}
      PROVE  At(Stepped(row, ahead, nu, FALSE)) = B(N(s, mu), nu)
  <2>1. Coord(sh, At(ahead), nu) = Coord(sh, s, nu) /\ (nu = 1 => ahead.x = Coord(sh, At(ahead), 1))
    BY <1>1, <1>3, <1>4
  <2> HIDE DEF ahead
  <2>2. At(ahead) \in Sites(sh) /\ nu \in Dims(sh)
    BY <1>4
  <2>3. At(Stepped(RowStart(s), ahead, nu, FALSE)) = PrevSite(sh, At(ahead), nu)
    BY <1>3, <2>1, <2>2, SteppedIs
  <2>4. QED BY <1>4, <2>3
<1> DEFINE to(b, nu, forward) == Stepped(row, b, nu, forward)
           staple1(nu) == <<<<At(ahead), nu>>, <<At(to(here, nu, TRUE)), mu>>, <<s, nu>>,
                            <<At(to(here, nu, FALSE)), mu>>, <<At(to(ahead, nu, FALSE)), nu>>,
                            <<At(to(here, nu, FALSE)), nu>>>>
           pair1(k) == <<<<At(to(here, k, TRUE)), 1>>, <<At(to(here, k, FALSE)), 1>>>>
           staple2(nu) == <<<<N(s, mu), nu>>, <<N(s, nu), mu>>, <<s, nu>>, <<B(s, nu), mu>>,
                            <<B(N(s, mu), nu), nu>>, <<B(s, nu), nu>>>>
           pair2(k) == <<<<N(s, k), 1>>, <<B(s, k), 1>>>>
           places == Places(<<s, mu>>)
<1>6. \A nu \in Dims(sh) \ {mu} : staple1(nu) = staple2(nu)
  BY <1>2, <1>4, <1>5
<1>7. \A k \in Dims(sh) : pair1(k) = pair2(k)
  BY <1>2
<1>8. /\ Reads(<<s, mu>>)
           = [w \in places |-> IF kind = "link" THEN staple1(w[1])[w[2]] ELSE pair1(w[1])[w[2]]]
      /\ Neighbours(<<s, mu>>)
           = [w \in places |-> IF kind = "link" THEN staple2(w[1])[w[2]] ELSE pair2(w[1])[w[2]]]
  BY DEF Reads, Neighbours, here, RowStart
<1>9. \A w \in places : w[1] \in Dims(sh) /\ (kind = "link" => w[1] \in Dims(sh) \ {mu})
  BY DEF Places
<1> HIDE DEF staple1, staple2, pair1, pair2, places
<1>10. \A w \in places : (IF kind = "link" THEN staple1(w[1])[w[2]] ELSE pair1(w[1])[w[2]])
                       = (IF kind = "link" THEN staple2(w[1])[w[2]] ELSE pair2(w[1])[w[2]])
  BY <1>6, <1>7, <1>9
<1>11. QED BY <1>8, <1>10

LEMMA NeighboursOutside ==
  ASSUME IsShape(sh), CheckerboardOk(sh), NEW cell \in Cells, NEW c, InColor(cell, c),
         NEW w \in Places(cell)
  PROVE  Neighbours(cell)[w] \in Cells /\ ~InColor(Neighbours(cell)[w], c)
<1> DEFINE s == cell[1]
           mu == cell[2]
           N(x, k) == NextSite(sh, x, k)
           B(x, k) == PrevSite(sh, x, k)
           staple(nu) == <<<<N(s, mu), nu>>, <<N(s, nu), mu>>, <<s, nu>>, <<B(s, nu), mu>>,
                           <<B(N(s, mu), nu), nu>>, <<B(s, nu), nu>>>>
           pair(k) == <<<<N(s, k), 1>>, <<B(s, k), 1>>>>
           odd(x) == CoordSum(sh, x, Dims(sh)) % 2
<1>1. s \in Sites(sh) /\ cell = <<s, mu>> /\ mu = DirOf(c) /\ odd(s) = c % 2 /\ mu \in Dims(sh)
      /\ (kind = "link" => Cells = Sites(sh) \X Dims(sh))
      /\ (kind # "link" => mu = 1 /\ Cells = Sites(sh) \X {1})
  BY Extents DEF Cells, InColor
<1>2. \A k \in Dims(sh) : /\ N(s, k) \in Sites(sh) /\ odd(N(s, k)) # odd(s)
                          /\ B(s, k) \in Sites(sh) /\ odd(B(s, k)) # odd(s)
  BY <1>1, Flips
<1>3. \A k \in Dims(sh) : B(N(s, mu), k) \in Sites(sh)
  BY <1>1, <1>2, Flips
<1>4. Neighbours(cell)[w] = IF kind = "link" THEN staple(w[1])[w[2]] ELSE pair(w[1])[w[2]]
  BY DEF Neighbours
<1>5. \A x, k : InColor(<<x, k>>, c) <=> k = mu /\ odd(x) = c % 2
  BY <1>1 DEF InColor
<1> HIDE DEF N, B, odd, s, mu
<1>6. CASE kind = "link"
  <2> DEFINE nu == w[1]
  <2>1. nu \in Dims(sh) /\ nu # mu /\ w[2] \in 1 .. 6
    BY <1>6 DEF Places, mu
  <2> HIDE DEF nu
  <2>2. ASSUME NEW n, n \in {<<N(s, mu), nu>>, <<N(s, nu), mu>>, <<s, nu>>, <<B(s, nu), mu>>,
                             <<B(N(s, mu), nu), nu>>, <<B(s, nu), nu>>}
        PROVE  n \in Cells /\ ~InColor(n, c)
    BY <1>1, <1>2, <1>3, <1>5, <1>6, <2>1, <2>2
  <2>3. staple(nu)[w[2]] \in {<<N(s, mu), nu>>, <<N(s, nu), mu>>, <<s, nu>>, <<B(s, nu), mu>>,
                              <<B(N(s, mu), nu), nu>>, <<B(s, nu), nu>>}
    <3>1. w[2] = 1 \/ w[2] = 2 \/ w[2] = 3 \/ w[2] = 4 \/ w[2] = 5 \/ w[2] = 6
      BY <2>1
    <3>2. QED BY <3>1
  <2>4. Neighbours(cell)[w] = staple(nu)[w[2]]
    BY <1>4, <1>6 DEF nu
  <2> HIDE DEF staple
  <2>5. QED BY <2>2, <2>3, <2>4
<1>7. CASE kind # "link"
  <2> DEFINE k == w[1]
  <2>1. k \in Dims(sh) /\ w[2] \in 1 .. 2
    BY <1>7 DEF Places
  <2> HIDE DEF k
  <2>2. ASSUME NEW n, n \in {<<N(s, k), 1>>, <<B(s, k), 1>>}
        PROVE  n \in Cells /\ ~InColor(n, c)
    BY <1>1, <1>2, <1>5, <1>7, <2>1, <2>2
  <2>3. pair(k)[w[2]] \in {<<N(s, k), 1>>, <<B(s, k), 1>>}
    <3>1. w[2] = 1 \/ w[2] = 2
      BY <2>1
    <3>2. QED BY <3>1
  <2>4. Neighbours(cell)[w] = pair(k)[w[2]]
    BY <1>4, <1>7 DEF k
  <2> HIDE DEF pair
  <2>5. QED BY <2>2, <2>3, <2>4
<1>8. QED BY <1>6, <1>7
-----------------------------------------------------------------------------
(* The sites a slab visits are those of its span that have the colour.     *)
LEMMA WholeRows ==
  ASSUME NEW e \in Nat \ {0}, NEW lo \in Nat, lo % e = 0, NEW hi \in Nat, hi % e = 0
  PROVE  /\ \A s \in lo .. hi - 1 :
              /\ s % e \in 0 .. e - 1 /\ s - (s % e) \in lo .. hi - 1
              /\ (s - (s % e) - lo) % e = 0
         /\ \A r \in lo .. hi - 1 : \A x \in 0 .. e - 1 :
              (r - lo) % e = 0 => r + x \in lo .. hi - 1 /\ (r + x) % e = x
<1> DEFINE a == lo \div e
           b == hi \div e
<1>1. a \in Nat /\ b \in Nat /\ lo = e * a /\ hi = e * b
  BY QuotientNat
<1> HIDE DEF a, b
<1>2. \A q \in Int : e * q >= e * a => q >= a
  <2> SUFFICES ASSUME NEW q \in Int, q + 1 <= a PROVE e * q < e * a
    BY <1>1
  <2>1. e * (q + 1) <= e * a /\ e * (q + 1) = e * q + e /\ e * q \in Int /\ e * a \in Int
    BY <1>1, TimesMonotone
  <2>2. QED BY <2>1
<1>3. \A q \in Int : e * q < e * b => e * q + e <= e * b
  <2> SUFFICES ASSUME NEW q \in Int, e * q < e * b PROVE e * q + e <= e * b
    OBVIOUS
  <2>1. b <= q => e * b <= e * q
    BY <1>1, TimesMonotone
  <2>2. q + 1 <= b
    BY <1>1, <2>1
  <2>3. e * (q + 1) <= e * b /\ e * (q + 1) = e * q + e
    BY <1>1, <2>2, TimesMonotone
  <2>4. QED BY <2>3
<1>4. ASSUME NEW s \in lo .. hi - 1
      PROVE  /\ s % e \in 0 .. e - 1 /\ s - (s % e) \in lo .. hi - 1
             /\ (s - (s % e) - lo) % e = 0
  <2> DEFINE q == s \div e
  <2>0. s \in Nat
    OBVIOUS
  <2>1. s \in Nat /\ q \in Nat /\ s % e \in 0 .. e - 1 /\ s = e * q + (s % e)
    BY <2>0, QuotientNat
  <2> HIDE DEF q
  <2>2. a <= q
    <3>1. q + 1 <= a => e * (q + 1) <= e * a
      BY <1>1, <2>1, TimesMonotone
    <3>2. e * (q + 1) = e * q + e /\ e * q \in Int /\ e * a \in Int
      BY <1>1, <2>1
    <3>3. QED BY <1>1, <2>1, <3>1, <3>2
  <2>3. e * a <= e * q
    BY <1>1, <2>1, <2>2, TimesMonotone
  <2>4. s - (s % e) = e * q /\ e * q \in Int
    BY <2>1
  <2>5. e * q \in lo .. hi - 1
    BY <1>1, <2>1, <2>3, <2>4
  <2> DEFINE j == q - a
  <2>6. e * q - e * a = j * e /\ j \in Nat
    BY <1>1, <2>1, <2>2
  <2> HIDE DEF j
  <2>7. (j * e) % e = 0
    BY <2>6, RowsWhole
  <2>8. QED BY <1>1, <2>1, <2>4, <2>5, <2>6, <2>7
<1>5. ASSUME NEW r \in lo .. hi - 1, NEW x \in 0 .. e - 1, (r - lo) % e = 0
      PROVE  r + x \in lo .. hi - 1 /\ (r + x) % e = x
  <2> DEFINE k == (r - lo) \div e
  <2>1. k \in Nat /\ r - lo = e * k
    <3>1. r - lo \in Nat
      OBVIOUS
    <3>2. k \in Nat /\ r - lo = e * k + ((r - lo) % e)
      BY <3>1, QuotientNat
    <3>3. QED BY <1>5, <3>2
  <2> HIDE DEF k
  <2>2. r = e * (a + k) /\ a + k \in Nat
    <3>1. e * (a + k) = e * a + e * k /\ e * a \in Int /\ e * k \in Int
      BY <1>1, <2>1
    <3>2. QED BY <1>1, <2>1, <3>1
  <2> DEFINE q == a + k
  <2> HIDE DEF q
  <2>3. q \in Int /\ r = e * q /\ e * q \in Int
    BY <2>2 DEF q
  <2>4. e * q + e <= e * b
    BY <1>1, <1>3, <2>3
  <2>5. r + x \in lo .. hi - 1
    BY <1>1, <2>3, <2>4
  <2>6. r + x \in Int /\ e * q <= r + x /\ r + x < e * q + e
    BY <2>3
  <2>7. (r + x) % e = (r + x) - e * q
    BY <2>3, <2>6, QuotientUnique
  <2>8. QED BY <2>3, <2>5, <2>7
<1>6. QED BY <1>4, <1>5

LEMMA RowSums ==
  ASSUME IsShape(sh), NEW s \in Sites(sh)
  PROVE  /\ CoordSum(sh, s - (s % sh[1]), 2 .. Len(sh)) \in Nat
         /\ CoordSum(sh, s, Dims(sh)) = CoordSum(sh, s - (s % sh[1]), 2 .. Len(sh)) + (s % sh[1])
         /\ s % sh[1] \in 0 .. sh[1] - 1
<1> DEFINE row == s - (s % sh[1])
           a(k) == IF k \in Dims(sh) THEN Coord(sh, s, k) ELSE 0
           b(k) == IF k \in 2 .. Len(sh) THEN Coord(sh, row, k) ELSE 0
<1>1. /\ 1 \in Dims(sh) /\ s % sh[1] = Coord(sh, s, 1)
      /\ \A nu \in Dims(sh) \ {1} : Coord(sh, row, nu) = Coord(sh, s, nu)
  BY RowOf
<1>2. /\ CoordSum(sh, s, Dims(sh)) = a(1) + a(2) + a(3) + a(4)
      /\ CoordSum(sh, row, 2 .. Len(sh)) = b(1) + b(2) + b(3) + b(4)
  BY DEF CoordSum
<1>3. \A k : a(k) \in Nat
  BY CoordRange
<1>4. a(1) = s % sh[1] /\ b(1) = 0
  BY <1>1
<1>5. \A k \in {2, 3, 4} : k \in 2 .. Len(sh) <=> k \in Dims(sh)
  BY Extents
<1>6. b(2) = a(2) /\ b(3) = a(3) /\ b(4) = a(4)
  BY <1>1, <1>5
<1>7. s % sh[1] \in 0 .. sh[1] - 1
  BY <1>1, CoordRange
<1>8. a(1) \in Nat /\ a(2) \in Nat /\ a(3) \in Nat /\ a(4) \in Nat
  BY <1>3
<1> HIDE DEF a, b, row
<1>9. b(1) + b(2) + b(3) + b(4) \in Nat
  BY <1>4, <1>6, <1>8
<1>10. a(1) + a(2) + a(3) + a(4) = b(1) + b(2) + b(3) + b(4) + a(1)
  BY <1>4, <1>6, <1>8
<1>11. QED BY <1>2, <1>4, <1>7, <1>9, <1>10 DEF row

LEMMA Parities ==
  ASSUME NEW m \in Nat, NEW par \in {0, 1}, NEW x \in Nat
  PROVE  /\ FirstX(m, par) \in {0, 1}
         /\ (FirstX(m, par) <= x /\ (x - FirstX(m, par)) % 2 = 0) <=> (m + x) % 2 = par
BY Z3 DEF FirstX

LEMMA PassIs ==
  ASSUME IsShape(sh), NEW p, PartitionGood(sh, p), NEW i \in SlabIds(p), NEW c \in Nat
  PROVE  PassOf(p, i, c) = {s \in Span(sh, p, i) : CoordSum(sh, s, Dims(sh)) % 2 = c % 2}
<1> DEFINE base == Base(p, i)
           end == base + Count(sh, p, i)
           par == c % 2
           odd(s) == CoordSum(sh, s, Dims(sh)) % 2
<1>1. base \in Nat /\ end \in Nat /\ Span(sh, p, i) = base .. end - 1 /\ end <= NSites(sh)
  <2> DEFINE n == NSites(sh)
             l == p.len
  <2>1. l \in Nat \ {0} /\ p.items \in Nat \ {0} /\ i \in Nat /\ i <= p.items - 1 /\ n \in Nat
        /\ l * (p.items - 1) < n
    BY VolumePositive DEF PartitionGood, SlabIds
  <2>2. i * l = l * i /\ l * i \in Nat /\ l * (p.items - 1) \in Int
    BY <2>1
  <2>3. base = l * i /\ Count(sh, p, i) = AtMost(l, n - l * i)
    BY <2>2 DEF Base, Count
  <2> HIDE DEF n, l
  <2>5. l * i <= l * (p.items - 1)
    BY <2>1, TimesMonotone
  <2>6. AtMost(l, n - l * i) \in Nat /\ l * i + AtMost(l, n - l * i) <= n
    BY <2>1, <2>2, <2>5 DEF AtMost
  <2>7. base \in Nat /\ Count(sh, p, i) \in Nat
    BY <2>2, <2>3, <2>6
  <2>8. Span(sh, p, i) = base .. end - 1
    BY <2>7 DEF Span
  <2>9. QED BY <2>2, <2>3, <2>6, <2>7, <2>8 DEF n
<1>2. base .. end - 1 \subseteq Sites(sh) /\ Sites(sh) \subseteq Nat
  <2>1. NSites(sh) \in Nat
    BY VolumePositive
  <2> HIDE DEF base, end
  <2>2. QED BY <1>1, <2>1 DEF Sites
<1>3. par \in {0, 1}
  OBVIOUS
<1>4. CASE Len(sh) = 1
  <2> DEFINE flat == base + FirstX(base, par)
  <2>1. PassOf(p, i, c) = {x \in flat .. end - 1 : (x - flat) % 2 = 0}
    BY <1>4 DEF PassOf
  <2>2. \A s \in Sites(sh) : CoordSum(sh, s, Dims(sh)) = s
    <3> SUFFICES ASSUME NEW s \in Sites(sh) PROVE CoordSum(sh, s, Dims(sh)) = s
      OBVIOUS
    <3>1. Dims(sh) = {1}
      BY <1>4, Extents
    <3>2. CoordSum(sh, s, Dims(sh)) = Coord(sh, s, 1) + 0 + 0 + 0
      BY <3>1 DEF CoordSum
    <3>3. NSites(sh) = sh[1] /\ sh[1] \in Nat \ {0}
      BY <1>4, <3>1 DEF NSites, Volume, Dims, IsShape
    <3>4. s % sh[1] = s
      <4>1. s \in Int /\ 0 \in Int /\ sh[1] * 0 <= s /\ s < sh[1] * 0 + sh[1]
        BY <3>3 DEF Sites
      <4>2. s % sh[1] = s - sh[1] * 0
        BY <3>3, <4>1, QuotientUnique
      <4>3. QED BY <3>3, <4>1, <4>2
    <3>5. Coord(sh, s, 1) = s /\ s \in Nat
      BY <1>2, <3>4, RowOf
    <3>6. QED BY <3>2, <3>5
  <2>3. flat = base + ((base + par) % 2)
    BY DEF FirstX
  <2> HIDE DEF base, end, par, flat
  <2>4. \A s \in Nat : (s \in base .. end - 1 /\ s % 2 = par)
                       <=> (s \in flat .. end - 1 /\ (s - flat) % 2 = 0)
    BY <1>1, <1>3, <2>3
  <2>5. {s \in base .. end - 1 : odd(s) = par} = {s \in base .. end - 1 : s % 2 = par}
    BY <1>2, <2>2
  <2>6. {s \in base .. end - 1 : s % 2 = par} = {x \in flat .. end - 1 : (x - flat) % 2 = 0}
    <3>1. flat \in Nat
      BY <1>1, <1>3, <2>3
    <3>2. \A s \in base .. end - 1 : s \in Nat
      BY <1>1
    <3>3. \A s \in flat .. end - 1 : s \in Nat
      BY <1>1, <3>1
    <3>4. QED BY <2>4, <3>2, <3>3
  <2>7. QED BY <1>1, <2>1, <2>5, <2>6 DEF par
<1>5. CASE Len(sh) # 1
  <2> DEFINE e == sh[1]
             rows == {row \in base .. end - 1 : (row - base) % e = 0}
             x0(row) == FirstX(CoordSum(sh, row, 2 .. Len(sh)), par)
             of(row) == {y \in x0(row) .. e - 1 : (y - x0(row)) % 2 = 0}
  <2>1. PassOf(p, i, c) = UNION {{row + x : x \in of(row)} : row \in rows}
    BY <1>5 DEF PassOf
  <2>2. e \in Nat \ {0} /\ base % e = 0 /\ end % e = 0
    <3>1. Len(sh) > 1 /\ e \in Nat \ {0}
      BY <1>5, Extents
    <3> DEFINE l == p.len
    <3>2. l \in Nat \ {0} /\ l % e = 0 /\ i \in Nat
      BY <3>1 DEF PartitionGood, SlabIds
    <3>3. PICK k \in Nat : l = e * k
      <4>1. l \in Nat /\ l = e * (l \div e) + (l % e) /\ l \div e \in Nat
        BY <3>1, <3>2, QuotientNat
      <4> DEFINE k == l \div e
      <4> HIDE DEF k, e, l
      <4>2. l = e * k
        BY <3>1, <3>2, <4>1 DEF k
      <4>3. QED BY <4>1, <4>2 DEF k
    <3>4. base = (i * k) * e /\ i * k \in Nat
      <4> HIDE DEF e
      <4>1. base = i * (e * k)
        BY <3>3 DEF Base
      <4>2. i * (e * k) = (i * k) * e
        BY <3>1, <3>2
      <4>3. QED BY <3>2, <4>1, <4>2
    <3>5. base % e = 0
      BY <3>1, <3>4, RowsWhole
    <3> DEFINE n == Count(sh, p, i)
    <3>6. n % e = 0
      BY <3>1, VolumePositive, SlabsFull
    <3>7. end = base + n /\ n \in Int
      <4>1. NSites(sh) \in Nat /\ base \in Nat /\ p.len \in Nat
        BY <1>1, <3>2, VolumePositive
      <4>2. n \in Int
        BY <4>1 DEF Count, AtMost
      <4>3. QED BY <4>2
    <3> HIDE DEF n, e, base, end
    <3>8. PICK j \in Int : n = e * j
      <4>1. n \div e \in Int /\ n % e = n - e * (n \div e)
        BY <3>1, <3>7, Division
      <4> DEFINE j == n \div e
      <4> HIDE DEF j
      <4>2. n = e * j
        BY <3>1, <3>6, <3>7, <4>1 DEF j
      <4>3. QED BY <4>1, <4>2 DEF j
    <3>9. end % e = base % e
      <4>1. base \in Int
        BY <1>1
      <4>2. QED BY <3>1, <3>7, <3>8, <4>1, AddMultiple
    <3>10. QED BY <3>1, <3>5, <3>9
  <2>3. /\ \A s \in base .. end - 1 :
              /\ s % e \in 0 .. e - 1 /\ s - (s % e) \in rows
        /\ \A r \in rows : \A x \in 0 .. e - 1 : r + x \in base .. end - 1 /\ (r + x) % e = x
    <3> HIDE DEF base, end, e
    <3>1. /\ \A s \in base .. end - 1 :
                /\ s % e \in 0 .. e - 1 /\ s - (s % e) \in base .. end - 1
                /\ (s - (s % e) - base) % e = 0
          /\ \A r \in base .. end - 1 : \A x \in 0 .. e - 1 :
                (r - base) % e = 0 => r + x \in base .. end - 1 /\ (r + x) % e = x
      BY <1>1, <2>2, WholeRows
    <3>2. QED BY <3>1, Zenon
  <2>4. \A s \in base .. end - 1 :
          LET sum == CoordSum(sh, s - (s % e), 2 .. Len(sh)) IN
          sum \in Nat /\ CoordSum(sh, s, Dims(sh)) = sum + (s % e)
    BY <1>2, RowSums
  <2> HIDE DEF e
  <2>5. \A row : CoordSum(sh, row, 2 .. Len(sh)) \in Nat => \A x \in 0 .. e - 1 :
          x \in of(row) <=> (CoordSum(sh, row, 2 .. Len(sh)) + x) % 2 = par
    <3> SUFFICES ASSUME NEW row, CoordSum(sh, row, 2 .. Len(sh)) \in Nat, NEW x \in 0 .. e - 1
                 PROVE  x \in of(row) <=> (CoordSum(sh, row, 2 .. Len(sh)) + x) % 2 = par
      OBVIOUS
    <3> DEFINE m == CoordSum(sh, row, 2 .. Len(sh))
    <3>1. x0(row) = FirstX(m, par)
      OBVIOUS
    <3>2. m \in Nat /\ x \in Nat
      OBVIOUS
    <3>3. x \in of(row) <=> x \in x0(row) .. e - 1 /\ (x - x0(row)) % 2 = 0
      OBVIOUS
    <3> HIDE DEF m, x0, par, of
    <3>4. /\ x0(row) \in {0, 1}
          /\ (x0(row) <= x /\ (x - x0(row)) % 2 = 0) <=> (m + x) % 2 = par
      BY <1>3, <3>1, <3>2, Parities
    <3>5. x \in x0(row) .. e - 1 <=> x0(row) <= x
      BY <2>2, <3>4
    <3>6. QED BY <3>3, <3>4, <3>5 DEF m
  <2>6. \A row : CoordSum(sh, row, 2 .. Len(sh)) \in Nat => of(row) \subseteq 0 .. e - 1
    <3> SUFFICES ASSUME NEW row, CoordSum(sh, row, 2 .. Len(sh)) \in Nat
                 PROVE  of(row) \subseteq 0 .. e - 1
      OBVIOUS
    <3> DEFINE m == CoordSum(sh, row, 2 .. Len(sh))
    <3>1. x0(row) = (m + par) % 2
      BY DEF FirstX
    <3> HIDE DEF m, x0, par
    <3>2. x0(row) \in Nat
      BY <1>3, <3>1 DEF m
    <3>3. QED BY <2>2, <3>2
  <2>7. \A row \in rows : CoordSum(sh, row, 2 .. Len(sh)) \in Nat /\ row \in Nat
    <3> SUFFICES ASSUME NEW row \in rows
                 PROVE  CoordSum(sh, row, 2 .. Len(sh)) \in Nat /\ row \in Nat
      OBVIOUS
    <3>1. 0 \in 0 .. e - 1
      BY <2>2
    <3>2. row \in base .. end - 1 /\ row \in Nat
      BY <1>2
    <3> HIDE DEF base, end
    <3>3. row + 0 = row /\ row - 0 = row
      BY <3>2
    <3>4. row % e = 0
      BY <2>3, <3>1, <3>3
    <3>5. QED BY <2>4, <3>2, <3>3, <3>4
  <2> HIDE DEF of, rows, base, end, par
  <2>8. ASSUME NEW s \in base .. end - 1, odd(s) = par
        PROVE  s \in UNION {{row + x : x \in of(row)} : row \in rows}
    <3> DEFINE x == s % e
               row == s - (s % e)
    <3>1. row \in rows /\ x \in 0 .. e - 1 /\ s \in Nat
      BY <1>2, <2>3
    <3>2. s = row + x
      BY <2>2, <3>1
    <3>3. x \in of(row)
      BY <2>4, <2>5, <2>8, <3>1
    <3> HIDE DEF x, row
    <3>4. QED BY <3>1, <3>2, <3>3
  <2>9. ASSUME NEW row \in rows, NEW x \in of(row)
        PROVE  row + x \in base .. end - 1 /\ odd(row + x) = par
    <3>1. x \in 0 .. e - 1 /\ row \in Nat /\ CoordSum(sh, row, 2 .. Len(sh)) \in Nat
      BY <2>6, <2>7
    <3>2. row + x \in base .. end - 1 /\ (row + x) % e = x
      BY <2>3, <3>1
    <3>3. (row + x) - x = row
      BY <2>2, <3>1
    <3> DEFINE s == row + x
    <3>4. CoordSum(sh, s, Dims(sh)) = CoordSum(sh, s - (s % e), 2 .. Len(sh)) + (s % e)
      BY <2>4, <3>2
    <3>5. CoordSum(sh, s, Dims(sh)) = CoordSum(sh, row, 2 .. Len(sh)) + x
      <4>1. s % e = x /\ s - x = row
        BY <3>2, <3>3
      <4> HIDE DEF s
      <4>2. QED BY <3>4, <4>1
    <3>6. (CoordSum(sh, row, 2 .. Len(sh)) + x) % 2 = par
      BY <2>5, <3>1
    <3>7. QED BY <3>2, <3>5, <3>6
  <2>10. UNION {{row + x : x \in of(row)} : row \in rows} = {s \in base .. end - 1 : odd(s) = par}
    BY <2>8, <2>9
  <2>11. QED BY <1>1, <2>1, <2>10 DEF par
<1>6. QED BY <1>4, <1>5
-----------------------------------------------------------------------------
(* The slabs of the threads are disjoint, and together they are all.       *)
LEMMA BlocksInOrder ==
  ASSUME NEW p, p.items \in Nat, NThreads(p) \in Nat \ {0}
  PROVE  /\ FirstOf(p, 1) = 0 /\ FirstOf(p, NThreads(p) + 1) = p.items
         /\ \A t \in 1 .. NThreads(p) + 1 : FirstOf(p, t) \in Nat
         /\ \A t, u \in 1 .. NThreads(p) + 1 : t <= u => FirstOf(p, t) <= FirstOf(p, u)
<1> DEFINE T == NThreads(p)
           q == p.items \div T
           r == p.items % T
<1>1. q \in Nat /\ r \in 0 .. T - 1 /\ p.items = T * q + r /\ T \in Nat \ {0}
  BY QuotientNat
<1>2. \A t : FirstOf(p, t) = (t - 1) * q + AtMost(t - 1, r)
  BY DEF FirstOf
<1> HIDE DEF T, q, r
<1>3. FirstOf(p, 1) = 0
  <2>1. 1 - 1 = 0 /\ 0 * q = 0 /\ AtMost(0, r) = 0
    BY <1>1 DEF AtMost
  <2>2. QED BY <1>2, <2>1
<1>4. FirstOf(p, T + 1) = p.items
  <2>1. (T + 1) - 1 = T /\ AtMost(T, r) = r
    BY <1>1 DEF AtMost
  <2>2. QED BY <1>1, <1>2, <2>1
<1>5. \A t \in 1 .. T + 1 : t - 1 \in Nat /\ (t - 1) * q \in Nat /\ AtMost(t - 1, r) \in Nat
  <2> SUFFICES ASSUME NEW t \in 1 .. T + 1
               PROVE  t - 1 \in Nat /\ (t - 1) * q \in Nat /\ AtMost(t - 1, r) \in Nat
    OBVIOUS
  <2>1. t - 1 \in Nat
    BY <1>1
  <2>2. (t - 1) * q \in Nat
    BY <1>1, <2>1
  <2>3. QED BY <1>1, <2>1, <2>2 DEF AtMost
<1>6. \A t \in 1 .. T + 1 : FirstOf(p, t) \in Nat
  BY <1>2, <1>5
<1>7. ASSUME NEW t \in 1 .. T + 1, NEW u \in 1 .. T + 1, t <= u
      PROVE  FirstOf(p, t) <= FirstOf(p, u)
  <2>1. q * (t - 1) <= q * (u - 1) /\ q * (t - 1) = (t - 1) * q /\ q * (u - 1) = (u - 1) * q
    <3>1. t - 1 \in Int /\ u - 1 \in Int /\ t - 1 <= u - 1
      BY <1>1, <1>7
    <3>2. q * (t - 1) <= q * (u - 1)
      BY <1>1, <3>1, TimesMonotone
    <3>3. QED BY <1>1, <3>1, <3>2
  <2>2. AtMost(t - 1, r) <= AtMost(u - 1, r)
    BY <1>1, <1>7 DEF AtMost
  <2>3. QED BY <1>2, <1>5, <2>1, <2>2
<1>8. QED BY <1>3, <1>4, <1>6, <1>7 DEF T

LEMMA BlocksTile ==
  ASSUME NEW p, p.items \in Nat, NThreads(p) \in Nat \ {0}
  PROVE  /\ \A t \in 1 .. NThreads(p) : SlabsOf(p, t) \subseteq SlabIds(p)
         /\ \A t, u \in 1 .. NThreads(p) : t # u => SlabsOf(p, t) \cap SlabsOf(p, u) = {}
         /\ \A i \in SlabIds(p) : \E t \in 1 .. NThreads(p) : i \in SlabsOf(p, t)
<1> DEFINE T == NThreads(p)
           f(t) == FirstOf(p, t)
<1>1. /\ f(1) = 0 /\ f(T + 1) = p.items /\ T \in Nat \ {0}
      /\ \A t \in 1 .. T + 1 : f(t) \in Nat
      /\ \A t, u \in 1 .. T + 1 : t <= u => f(t) <= f(u)
  BY BlocksInOrder
<1>2. \A t \in 1 .. T : SlabsOf(p, t) = f(t) .. f(t + 1) - 1
  BY DEF SlabsOf
<1> HIDE DEF T, f
<1>3. \A t \in 1 .. T : t \in 1 .. T + 1 /\ t + 1 \in 1 .. T + 1 /\ t + 1 <= T + 1
  BY <1>1
<1>4. \A t \in 1 .. T : \A i \in SlabsOf(p, t) : i \in Nat /\ f(t) <= i /\ i < f(t + 1)
  BY <1>1, <1>2, <1>3
<1>5. \A t \in 1 .. T : SlabsOf(p, t) \subseteq SlabIds(p)
  <2> SUFFICES ASSUME NEW t \in 1 .. T, NEW i \in SlabsOf(p, t) PROVE i \in SlabIds(p)
    OBVIOUS
  <2>1. T + 1 \in 1 .. T + 1
    BY <1>1
  <2>2. f(t + 1) \in Nat /\ f(t + 1) <= p.items
    BY <1>1, <1>3, <2>1
  <2>3. QED BY <1>4, <2>2 DEF SlabIds
<1>6. \A t, u \in 1 .. T : t < u => SlabsOf(p, t) \cap SlabsOf(p, u) = {}
  <2> SUFFICES ASSUME NEW t \in 1 .. T, NEW u \in 1 .. T, t < u,
                      NEW i \in SlabsOf(p, t), i \in SlabsOf(p, u)
               PROVE  FALSE
    OBVIOUS
  <2>1. t + 1 <= u /\ u \in 1 .. T + 1 /\ t + 1 \in 1 .. T + 1
    BY <1>1
  <2>2. f(t + 1) \in Nat /\ f(u) \in Nat /\ f(t + 1) <= f(u)
    BY <1>1, <2>1
  <2>3. QED BY <1>4, <2>2
<1>7. \A t, u \in 1 .. T : t # u => SlabsOf(p, t) \cap SlabsOf(p, u) = {}
  <2>1. \A t, u \in 1 .. T : t # u => t < u \/ u < t
    BY <1>1
  <2>2. QED BY <1>6, <2>1
<1>8. ASSUME NEW i \in SlabIds(p) PROVE \E t \in 1 .. T : i \in SlabsOf(p, t)
  <2> DEFINE U == {u \in 1 .. T + 1 : i < f(u)}
  <2>1. i \in Nat /\ i < p.items /\ T + 1 \in U
    BY <1>1 DEF SlabIds
  <2>2. U \subseteq Nat
    BY <1>1
  <2>3. PICK m \in U : \A x \in U : m <= x
    BY <2>1, <2>2, LeastOf
  <2>4. m # 1
    BY <1>1, <2>1
  <2>5. m - 1 \in 1 .. T /\ m = (m - 1) + 1 /\ m - 1 \in 1 .. T + 1
    BY <1>1, <2>4
  <2>6. m - 1 \notin U
    BY <2>2, <2>3
  <2>7. f(m - 1) \in Nat /\ f(m) \in Nat /\ f(m - 1) <= i /\ i < f(m)
    BY <1>1, <2>1, <2>5, <2>6
  <2>8. f((m - 1) + 1) = f(m)
    BY <2>5
  <2>9. i \in SlabsOf(p, m - 1)
    BY <1>2, <2>1, <2>5, <2>7, <2>8
  <2>10. QED BY <2>5, <2>9
<1>9. QED BY <1>5, <1>7, <1>8 DEF T
-----------------------------------------------------------------------------
(* Visiting in increasing order.                                           *)
LEMMA LeastFacts ==
  ASSUME NEW S, S \subseteq Nat, S # {}
  PROVE  /\ Least(S) \in S /\ \A x \in S : Least(S) <= x
         /\ Rest(S) \subseteq S /\ Least(S) \notin Rest(S)
         /\ \A x : x \in Rest(S) <=> x \in S /\ x # Least(S)
<1>1. \E m \in S : \A x \in S : m <= x
  BY LeastOf
<1>2. Least(S) \in S /\ \A x \in S : Least(S) <= x
  BY <1>1 DEF Least
<1>3. QED BY <1>2 DEF Rest

(* The slab of a site, and what the site draws from its stream.            *)
LEMMA SlabOfSite ==
  ASSUME Bound, NEW s \in Sites(sh)
  PROVE  /\ SlabAt(s) \in SlabIds(home)
         /\ \A i \in SlabIds(home) : s \in Span(sh, home, i) <=> i = SlabAt(s)
         /\ Count(sh, home, SlabAt(s)) \in Nat \ {0}
         /\ s % home.len \in 0 .. Count(sh, home, SlabAt(s)) - 1
         /\ s - Base(home, SlabAt(s)) = s % home.len
         /\ home.len \in Nat \ {0} /\ s \in Nat /\ SlabAt(s) \in Nat
<1> DEFINE i == SlabAt(s)
           n == NSites(sh)
           l == home.len
<1>1. IsShape(sh) /\ PartitionGood(sh, home) /\ n \in Nat \ {0}
  BY BoundHome, VolumePositive
<1>2. l \in Nat \ {0} /\ s \in Nat /\ s < n
  BY <1>1 DEF PartitionGood, Sites
<1>3. i \in SlabIds(home) /\ \A j \in SlabIds(home) : s \in Span(sh, home, j) <=> j = i
  BY <1>1, OneSlabEach DEF SlabAt
<1>4. i \in Nat /\ s % l \in 0 .. l - 1 /\ s = l * i + (s % l)
  BY <1>2, QuotientNat DEF SlabAt
<1>5. i * l = l * i /\ l * i \in Nat
  BY <1>2, <1>4
<1>6. Base(home, i) = l * i /\ Count(sh, home, i) = AtMost(l, n - l * i)
  BY <1>5 DEF Base, Count
<1> HIDE DEF i, n, l
<1>7. AtMost(l, n - l * i) \in Nat \ {0} /\ s % l < AtMost(l, n - l * i)
  BY <1>1, <1>2, <1>4, <1>5 DEF AtMost
<1>8. s - l * i = s % l
  BY <1>2, <1>4, <1>5
<1>9. s % l \in 0 .. AtMost(l, n - l * i) - 1
  BY <1>4, <1>7
<1>10. QED BY <1>2, <1>3, <1>4, <1>6, <1>7, <1>8, <1>9 DEF i, l

LEMMA CountsNat ==
  ASSUME Bound, NEW i \in SlabIds(home)
  PROVE  Count(sh, home, i) \in Nat \ {0}
<1>1. IsShape(sh) /\ PartitionGood(sh, home) /\ NSites(sh) \in Nat
  BY BoundHome, VolumePositive
<1>2. Span(sh, home, i) # {} /\ Base(home, i) \in Int /\ Count(sh, home, i) \in Int
  <2>1. home.len \in Nat /\ i \in Nat
    BY <1>1 DEF PartitionGood, SlabIds
  <2>2. i * home.len \in Int
    BY <2>1
  <2>3. QED BY <1>1, <2>1, <2>2, SlabsFull DEF Base, Count, AtMost
<1>3. PICK x \in Span(sh, home, i) : TRUE
  BY <1>2
<1>4. QED BY <1>2, <1>3 DEF Span

(* No two fills and sites share a draw.                                    *)
LEMMA MixedRadix ==
  ASSUME NEW n \in Nat \ {0}, NEW a \in Nat, NEW b \in Nat,
         NEW x \in 0 .. n - 1, NEW y \in 0 .. n - 1,
         a * n + x = b * n + y
  PROVE  a = b /\ x = y
<1> DEFINE z == a * n + x
<1>1. a * n = n * a /\ b * n = n * b /\ n * a \in Nat /\ n * b \in Nat
  OBVIOUS
<1>2. z \in Int /\ n * a <= z /\ z < n * a + n /\ z - n * a = x
  BY <1>1
<1>3. n * b <= z /\ z < n * b + n /\ z - n * b = y
  BY <1>1
<1> HIDE DEF z
<1>4. a \in Int /\ b \in Int
  OBVIOUS
<1>5. z \div n = a
  BY <1>2, <1>4, QuotientUnique
<1>6. z \div n = b
  BY <1>2, <1>3, <1>4, QuotientUnique
<1>7. a = b
  BY <1>5, <1>6
<1>8. QED BY <1>2, <1>3, <1>7

LEMMA DrawsDiffer ==
  ASSUME Bound, expected.from \in [SlabIds(home) -> Nat],
         NEW s \in Sites(sh), NEW u \in Sites(sh), NEW j \in Nat, NEW k \in Nat,
         DrawFor(s, j) = DrawFor(u, k)
  PROVE  s = u /\ j = k
<1> DEFINE i == SlabAt(s)
           f == expected.from[i]
           n == Count(sh, home, i)
           x == s % home.len
           y == u % home.len
<1>1. SlabAt(u) = i /\ f + j * n + x + 1 = f + k * n + y + 1
  BY DEF DrawFor
<1>2. i \in SlabIds(home) /\ n \in Nat \ {0} /\ x \in 0 .. n - 1 /\ y \in 0 .. n - 1
      /\ s - Base(home, i) = x /\ u - Base(home, i) = y /\ s \in Nat /\ u \in Nat
      /\ i \in Nat /\ home.len \in Nat
  BY <1>1, SlabOfSite
<1>3. f \in Nat
  BY <1>2
<1>4. Base(home, i) \in Int
  BY <1>2 DEF Base
<1> HIDE DEF i, f, n, x, y
<1>5. j * n + x = k * n + y
  <2>1. j * n \in Nat /\ k * n \in Nat
    BY <1>2
  <2>2. QED BY <1>1, <1>2, <1>3, <2>1
<1>6. j = k /\ x = y
  BY <1>2, <1>5, MixedRadix
<1>7. QED BY <1>2, <1>4, <1>6

(* A draw lies beyond the stream's position at the start of the step, and  *)
(* within what the fills up to it consume.                                 *)
LEMMA DrawsWithin ==
  ASSUME Bound, expected.from \in [SlabIds(home) -> Nat],
         NEW s \in Sites(sh), NEW k \in Nat, NEW m \in Nat, k < m
  PROVE  LET i == SlabAt(s)
             d == DrawFor(s, k)
         IN  /\ d = <<i, d[2]>> /\ d[1] = i /\ i \in SlabIds(home) /\ d[2] \in Nat
             /\ d[2] > expected.from[i]
             /\ d[2] <= expected.from[i] + m * Count(sh, home, i)
<1> DEFINE i == SlabAt(s)
           f == expected.from[i]
           n == Count(sh, home, i)
           x == s % home.len
           v == f + k * n + x + 1
<1>1. i \in SlabIds(home) /\ n \in Nat \ {0} /\ x \in 0 .. n - 1 /\ f \in Nat
  BY SlabOfSite
<1>2. DrawFor(s, k) = <<i, v>>
  BY DEF DrawFor
<1> HIDE DEF i, f, n, x
<1>3. k * n \in Nat /\ m * n \in Nat /\ k * n + n <= m * n
  <2>1. n * (k + 1) <= n * m
    BY <1>1, TimesMonotone
  <2>2. n * (k + 1) = k * n + n /\ n * m = m * n
    BY <1>1
  <2>3. QED BY <1>1, <2>1, <2>2
<1>4. v \in Nat /\ v > f /\ v <= f + m * n
  BY <1>1, <1>3
<1> HIDE DEF v
<1>5. QED BY <1>1, <1>2, <1>4 DEF i, f, n
-----------------------------------------------------------------------------
(* What the visits of the threads do to the sites still ahead.             *)
LEMMA LanesFacts ==
  ASSUME Bound, LanesInv, Working
  PROVE  /\ DOMAIN todo = Team /\ DOMAIN pass = Team /\ DOMAIN held = Team
         /\ \A t \in Team :
              /\ todo[t] \subseteq SlabIds(home) /\ pass[t] \subseteq Sites(sh)
              /\ todo[t] \subseteq Nat /\ pass[t] \subseteq Nat
              /\ todo[t] # {} => Least(todo[t]) \in todo[t] /\ Least(todo[t]) \in SlabIds(home)
              /\ pass[t] # {} => Least(pass[t]) \in pass[t] /\ Least(pass[t]) \in Sites(sh)
<1>1. /\ todo \in [Team -> SUBSET SlabIds(home)] /\ pass \in [Team -> SUBSET Sites(sh)]
      /\ DOMAIN held = Team
  BY DEF LanesInv
<1>2. SlabIds(home) \subseteq Nat /\ Sites(sh) \subseteq Nat
  BY BoundHome, VolumePositive DEF SlabIds, Sites
<1>3. \A t \in Team : todo[t] \subseteq SlabIds(home) /\ pass[t] \subseteq Sites(sh)
  BY <1>1
<1>4. \A t \in Team : todo[t] \subseteq Nat /\ pass[t] \subseteq Nat
  BY <1>2, <1>3
<1>5. \A t \in Team : todo[t] # {} => Least(todo[t]) \in todo[t]
  BY <1>4, LeastFacts
<1>6. \A t \in Team : pass[t] # {} => Least(pass[t]) \in pass[t]
  BY <1>4, LeastFacts
<1>7. QED BY <1>1, <1>3, <1>4, <1>5, <1>6

(* The sites a thread visits are in the slab it is at, and of the colour.  *)
LEMMA PassFacts ==
  ASSUME Bound, LanesInv, Working, Stage, NEW t \in Team, NEW s \in pass[t]
  PROVE  /\ pc = "color" /\ s \in Sites(sh) /\ CoordSum(sh, s, Dims(sh)) % 2 = color % 2
         /\ todo[t] # {} /\ SlabAt(s) = Least(todo[t]) /\ SlabAt(s) \in todo[t]
<1>1. /\ pc = "color" /\ todo[t] # {} /\ s \in Sites(sh)
      /\ s \in PassOf(home, Least(todo[t]), color)
      /\ Least(todo[t]) \in todo[t] /\ Least(todo[t]) \in SlabIds(home)
  BY LanesFacts DEF LanesInv
<1>2. color \in Nat
  BY DEF Stage
<1>3. s \in Span(sh, home, Least(todo[t])) /\ CoordSum(sh, s, Dims(sh)) % 2 = color % 2
  <2> DEFINE i == Least(todo[t])
  <2> HIDE DEF i
  <2>1. i \in SlabIds(home) /\ s \in PassOf(home, i, color)
    BY <1>1 DEF i
  <2>2. s \in Span(sh, home, i) /\ CoordSum(sh, s, Dims(sh)) % 2 = color % 2
    BY <1>2, <2>1, BoundHome, PassIs
  <2>3. QED BY <2>2 DEF i
<1>4. SlabAt(s) = Least(todo[t])
  BY <1>1, <1>3, SlabOfSite
<1>5. QED BY <1>1, <1>3, <1>4

LEMMA AllOpen ==
  ASSUME Bound, Opened(home), NThreads(home)' = NThreads(home), home' = home, sh' = sh
  PROVE  /\ todo' \in [Team -> SUBSET SlabIds(home)] /\ pass' = [t \in Team |-> {}]
         /\ held' = [t \in Team |-> <<>>]
         /\ \A t, u \in Team : t # u => todo'[t] \cap todo'[u] = {}
         /\ \A i \in SlabIds(home) : Waiting(i)'
         /\ \A s \in Sites(sh) : Ahead(s)'
<1>1. home.items \in Nat \ {0} /\ NThreads(home) \in Nat \ {0}
  <2>1. home.items \in Nat \ {0} /\ TraverseThreads(team, ambient) = team /\ team \in Nat \ {0}
    BY BoundHome, TeamKept DEF PartitionGood, Bound
  <2>2. QED BY <2>1 DEF NThreads, AtMost
<1>2. /\ \A t \in Team : SlabsOf(home, t) \subseteq SlabIds(home)
      /\ \A t, u \in Team : t # u => SlabsOf(home, t) \cap SlabsOf(home, u) = {}
      /\ \A i \in SlabIds(home) : \E t \in Team : i \in SlabsOf(home, t)
  BY <1>1, BlocksTile DEF Team
<1>3. /\ todo' = [t \in Team |-> SlabsOf(home, t)] /\ pass' = [t \in Team |-> {}]
      /\ held' = [t \in Team |-> <<>>]
  BY DEF Opened, Team
<1>4. \A i \in SlabIds(home) : \E t \in DOMAIN todo' : i \in todo'[t] /\ pass'[t] = {}
  BY <1>2, <1>3
<1>5. \A i \in SlabIds(home) : Waiting(i)'
  BY <1>4 DEF Waiting
<1>6. ASSUME NEW s \in Sites(sh) PROVE Ahead(s)'
  <2>1. SlabAt(s) \in SlabIds(home) /\ SlabAt(s)' = SlabAt(s)
    BY SlabOfSite DEF SlabAt
  <2>2. QED BY <1>4, <2>1 DEF Ahead
<1>7. QED BY <1>2, <1>3, <1>5, <1>6

LEMMA NothingAhead ==
  ASSUME Bound, LanesInv, Working, Joined
  PROVE  /\ \A s : ~Ahead(s)
         /\ \A i : ~Waiting(i)
<1>1. \A t \in DOMAIN todo : todo[t] = {} /\ pass[t] = {}
  BY LanesFacts DEF LanesInv, Joined
<1>2. QED BY <1>1 DEF Ahead, Waiting

(* A slab of a fill or a drift.                                            *)
LEMMA SlabLeft ==
  ASSUME Bound, LanesInv, Working, pc # "color", NEW t \in Team, todo[t] # {},
         todo' = [todo EXCEPT ![t] = Rest(@)], pass' = pass, home' = home
  PROVE  LET i == Least(todo[t]) IN
         /\ i \in SlabIds(home) /\ Waiting(i)
         /\ \A j : Waiting(j)' <=> Waiting(j) /\ j # i
         /\ \A s : Ahead(s)' <=> Ahead(s) /\ SlabAt(s) # i
         /\ \A s : SlabAt(s) = i => Ahead(s)
<1> DEFINE i == Least(todo[t])
<1>1. /\ DOMAIN todo = Team /\ \A u \in Team : pass[u] = {}
      /\ \A u, v \in Team : u # v => todo[u] \cap todo[v] = {}
      /\ i \in todo[t] /\ i \in SlabIds(home)
  BY LanesFacts DEF LanesInv
<1>2. \A x : x \in Rest(todo[t]) <=> x \in todo[t] /\ x # i
  BY LanesFacts, LeastFacts
<1>3. /\ DOMAIN todo' = Team /\ todo'[t] = Rest(todo[t])
      /\ \A u \in Team : u # t => todo'[u] = todo[u]
  BY <1>1
<1> HIDE DEF i
<1>4. \A j : Waiting(j) <=> \E u \in Team : j \in todo[u]
  BY <1>1 DEF Waiting
<1>5. \A j : Waiting(j)' <=> \E u \in Team : j \in todo'[u]
  BY <1>3 DEF Waiting
<1>6. \A u \in Team : \A j : j \in todo'[u] <=> j \in todo[u] /\ j # i
  BY <1>1, <1>2, <1>3
<1>7. \A j : Waiting(j)' <=> Waiting(j) /\ j # i
  BY <1>4, <1>5, <1>6
<1>8. \A s : Ahead(s) <=> Waiting(SlabAt(s))
  BY <1>1, <1>4 DEF Ahead
<1>9. \A s : Ahead(s)' <=> Waiting(SlabAt(s))'
  <2>1. \A s : SlabAt(s)' = SlabAt(s)
    BY DEF SlabAt
  <2>2. \A s : Ahead(s)' <=> \E u \in Team : SlabAt(s) \in todo'[u]
    BY <1>1, <1>3, <2>1 DEF Ahead
  <2>3. \A s : Waiting(SlabAt(s))' <=> \E u \in Team : SlabAt(s) \in todo'[u]
    BY <1>3, <2>1 DEF Waiting
  <2>4. QED BY <2>2, <2>3
<1>10. \A s : Waiting(SlabAt(s))' <=> Waiting(SlabAt(s)) /\ SlabAt(s) # i
  <2>1. \A s : SlabAt(s)' = SlabAt(s)
    BY DEF SlabAt
  <2>2. \A s : Waiting(SlabAt(s))' <=> \E u \in Team : SlabAt(s) \in todo'[u]
    BY <1>3, <2>1 DEF Waiting
  <2>3. QED BY <1>4, <1>6, <2>2
<1>11. Waiting(i)
  BY <1>1, <1>4
<1>12. QED BY <1>1, <1>7, <1>8, <1>9, <1>10, <1>11 DEF i

(* Taking a slab changes nothing for the sites of the colour.              *)
LEMMA SlabTaken ==
  ASSUME Bound, Stage, LanesInv, Working, NEW t \in Team, TakeSlab(t)
  PROVE  /\ LanesInv'
         /\ \A s \in Sites(sh) : CoordSum(sh, s, Dims(sh)) % 2 = color % 2
                                   => (Ahead(s)' <=> Ahead(s))
<1> DEFINE i == Least(todo[t])
           odd(s) == CoordSum(sh, s, Dims(sh)) % 2
           new == PassOf(home, i, color)
<1>1. /\ pc = "color" /\ todo[t] # {} /\ pass[t] = {} /\ pass' = [pass EXCEPT ![t] = new]
      /\ todo' = IF pass'[t] = {} THEN [todo EXCEPT ![t] = Rest(@)] ELSE todo
      /\ UNCHANGED <<sh, kind, team, ambient, home, pc, color, held>>
  BY BoundHome DEF TakeSlab, config
<1>2. /\ DOMAIN todo = Team /\ DOMAIN pass = Team /\ i \in todo[t] /\ i \in SlabIds(home)
      /\ todo \in [Team -> SUBSET SlabIds(home)] /\ pass \in [Team -> SUBSET Sites(sh)]
      /\ DOMAIN held = Team /\ held = [u \in Team |-> held[u]]
      /\ \A u, v \in Team : u # v => todo[u] \cap todo[v] = {}
      /\ \A u \in Team :
           /\ pass[u] # {} => /\ todo[u] # {}
                              /\ pass[u] \subseteq PassOf(home, Least(todo[u]), color)
           /\ held[u] # <<>> => pass[u] # {}
  BY <1>1, LanesFacts DEF LanesInv
<1>3. \A x : x \in Rest(todo[t]) <=> x \in todo[t] /\ x # i
  BY <1>1, LanesFacts, LeastFacts
<1>4. color \in Nat
  BY DEF Stage
<1>5. new = {s \in Span(sh, home, i) : odd(s) = color % 2}
  <2> HIDE DEF i
  <2>1. QED BY <1>2, <1>4, BoundHome, PassIs
<1>6. new \subseteq Sites(sh)
  <2>1. Base(home, i) \in Nat /\ Base(home, i) + Count(sh, home, i) <= NSites(sh)
        /\ Count(sh, home, i) \in Nat
    <3>1. home.len \in Nat /\ i \in Nat /\ NSites(sh) \in Nat
      BY <1>2, BoundHome, VolumePositive DEF PartitionGood, SlabIds
    <3>2. i * home.len \in Nat
      BY <3>1
    <3>3. Count(sh, home, i) \in Nat
      BY <1>2, CountsNat
    <3> HIDE DEF i
    <3>4. QED BY <3>1, <3>2, <3>3 DEF Base, Count, AtMost
  <2>2. Span(sh, home, i) \subseteq Sites(sh)
    <3>1. NSites(sh) \in Nat
      BY BoundHome, VolumePositive
    <3> HIDE DEF i
    <3>2. QED BY <2>1, <3>1 DEF Span, Sites
  <2>3. QED BY <1>5, <2>2
<1>7. \A s \in Sites(sh) : s \in new <=> SlabAt(s) = i /\ odd(s) = color % 2
  <2> HIDE DEF i
  <2>1. QED BY <1>2, <1>5, SlabOfSite
<1> HIDE DEF i, new, odd
<1>8. /\ pass'[t] = new /\ DOMAIN pass' = Team /\ DOMAIN todo' = Team
      /\ \A u \in Team : u # t => pass'[u] = pass[u] /\ todo'[u] = todo[u]
      /\ new = {} => todo'[t] = Rest(todo[t])
      /\ new # {} => todo'[t] = todo[t]
  BY <1>1, <1>2
<1>9. Team' = Team /\ SlabIds(home)' = SlabIds(home) /\ Sites(sh)' = Sites(sh)
  BY <1>1 DEF Team, NThreads
<1>10. \A u \in Team : todo'[u] \subseteq todo[u]
  BY <1>3, <1>8
<1>11. /\ todo' \in [Team -> SUBSET SlabIds(home)] /\ pass' \in [Team -> SUBSET Sites(sh)]
  <2>1. \A u \in Team : todo'[u] \in SUBSET SlabIds(home)
    BY <1>2, <1>10
  <2>2. \A u \in Team : pass'[u] \in SUBSET Sites(sh)
    BY <1>2, <1>6, <1>8
  <2>3. (new = {} => todo' = [todo EXCEPT ![t] = Rest(@)]) /\ (new # {} => todo' = todo)
    BY <1>1, <1>8
  <2>4. Rest(todo[t]) \in SUBSET SlabIds(home)
    BY <1>2, <1>3
  <2>5. todo' \in [Team -> SUBSET SlabIds(home)]
    BY <1>2, <2>3, <2>4
  <2>6. pass' \in [Team -> SUBSET Sites(sh)]
    BY <1>1, <1>2, <1>6
  <2>7. QED BY <2>5, <2>6
<1>12. ASSUME NEW u \in Team
       PROVE  /\ pass'[u] # {} => /\ todo'[u] # {}
                                  /\ pass'[u] \subseteq PassOf(home, Least(todo'[u]), color)
              /\ held[u] # <<>> => pass'[u] # {}
  <2>1. CASE u # t
    BY <1>2, <1>8, <2>1
  <2>2. CASE u = t
    <3>1. held[t] = <<>> /\ pass'[t] = new /\ (new # {} => todo'[t] = todo[t])
      BY <1>1, <1>2, <1>8
    <3>2. QED BY <1>1, <2>2, <3>1 DEF new, i
  <2>3. QED BY <2>1, <2>2
<1>13. LanesInv'
  <2>1. \A u, v \in Team : u # v => todo'[u] \cap todo'[v] = {}
    BY <1>2, <1>10
  <2>2. \A p, r, c : PassOf(p, r, c)' = PassOf(p, r, c)
    BY <1>1 DEF PassOf
  <2>3. Working' /\ pc' = "color"
    BY <1>1 DEF Working
  <2>4. QED BY <1>1, <1>2, <1>9, <1>11, <1>12, <2>1, <2>2, <2>3 DEF LanesInv
<1>14. ASSUME NEW s \in Sites(sh), odd(s) = color % 2
       PROVE  Ahead(s)' <=> Ahead(s)
  <2> DEFINE k == SlabAt(s)
             A(u) == s \in pass[u] \/ (k \in todo[u] /\ (pass[u] # {} => k # Least(todo[u])))
             B(u) == s \in pass'[u] \/ (k \in todo'[u] /\ (pass'[u] # {} => k # Least(todo'[u])))
  <2>1. SlabAt(s)' = k
    BY <1>1 DEF SlabAt
  <2>2. Ahead(s) <=> \E u \in Team : A(u)
    BY <1>2 DEF Ahead
  <2>3. Ahead(s)' <=> \E u \in Team : B(u)
    BY <1>8, <2>1 DEF Ahead
  <2> HIDE DEF k
  <2>4. \A u \in Team : u # t => (A(u) <=> B(u))
    BY <1>8
  <2>5. s \in new <=> k = i
    BY <1>7, <1>14 DEF k
  <2>6. A(t) <=> k \in todo[t]
    BY <1>1
  <2>7. CASE new = {}
    <3>1. B(t) <=> k \in todo[t]
      BY <1>3, <1>8, <2>5, <2>7
    <3>2. QED BY <2>2, <2>3, <2>4, <2>6, <3>1
  <2>8. CASE new # {}
    <3>1. todo'[t] = todo[t] /\ pass'[t] = new
      BY <1>8, <2>8
    <3>2. B(t) <=> k = i \/ (k \in todo[t] /\ k # i)
      BY <2>5, <2>8, <3>1 DEF i
    <3>3. B(t) <=> A(t)
      BY <1>2, <2>6, <3>2
    <3>4. QED BY <2>2, <2>3, <2>4, <3>3
  <2>9. QED BY <2>7, <2>8
<1>15. QED BY <1>13, <1>14 DEF odd

(* A decision takes its site away, and no other thread has it.             *)
LEMMA SiteDecided ==
  ASSUME Bound, Stage, LanesInv, Working, NEW t \in Team, Decide(t)
  PROVE  LET x == Least(pass[t]) IN
         /\ LanesInv'
         /\ x \in Sites(sh) /\ CoordSum(sh, x, Dims(sh)) % 2 = color % 2 /\ Ahead(x)
         /\ \A s \in Sites(sh) : Ahead(s)' <=> Ahead(s) /\ s # x
<1> DEFINE i == Least(todo[t])
           x == Least(pass[t])
           new == Rest(pass[t])
<1>1. /\ pc = "color" /\ held[t] # <<>> /\ pass' = [pass EXCEPT ![t] = new]
      /\ todo' = IF pass'[t] = {} THEN [todo EXCEPT ![t] = Rest(@)] ELSE todo
      /\ held' = [held EXCEPT ![t] = <<>>]
      /\ UNCHANGED <<sh, kind, team, ambient, home, pc, color>>
  BY DEF Decide, config
<1>2. /\ DOMAIN todo = Team /\ DOMAIN pass = Team
      /\ todo \in [Team -> SUBSET SlabIds(home)] /\ pass \in [Team -> SUBSET Sites(sh)]
      /\ DOMAIN held = Team /\ held = [u \in Team |-> held[u]]
      /\ \A u, v \in Team : u # v => todo[u] \cap todo[v] = {}
      /\ \A u \in Team :
           /\ pass[u] # {} => /\ todo[u] # {}
                              /\ pass[u] \subseteq PassOf(home, Least(todo[u]), color)
           /\ held[u] # <<>> => pass[u] # {}
  BY <1>1, LanesFacts DEF LanesInv
<1>3. /\ pass[t] # {} /\ todo[t] # {} /\ x \in pass[t] /\ x \in Sites(sh)
      /\ i \in todo[t] /\ SlabAt(x) = i /\ CoordSum(sh, x, Dims(sh)) % 2 = color % 2
  BY <1>1, <1>2, LanesFacts, PassFacts
<1>4. /\ \A y : y \in Rest(todo[t]) <=> y \in todo[t] /\ y # i
      /\ \A y : y \in new <=> y \in pass[t] /\ y # x
  BY <1>3, LanesFacts, LeastFacts
<1>5. \A u \in Team : \A s \in pass[u] : SlabAt(s) = Least(todo[u]) /\ SlabAt(s) \in todo[u]
  BY PassFacts
<1> HIDE DEF i, new, x
<1>6. /\ pass'[t] = new /\ DOMAIN pass' = Team /\ DOMAIN todo' = Team
      /\ \A u \in Team : u # t => pass'[u] = pass[u] /\ todo'[u] = todo[u] /\ held'[u] = held[u]
      /\ new = {} => todo'[t] = Rest(todo[t])
      /\ new # {} => todo'[t] = todo[t]
      /\ held'[t] = <<>>
  BY <1>1, <1>2
<1>7. Team' = Team /\ SlabIds(home)' = SlabIds(home) /\ Sites(sh)' = Sites(sh)
  BY <1>1 DEF Team, NThreads
<1>8. \A u \in Team : todo'[u] \subseteq todo[u]
  BY <1>4, <1>6
<1>9. /\ todo' \in [Team -> SUBSET SlabIds(home)] /\ pass' \in [Team -> SUBSET Sites(sh)]
      /\ DOMAIN held' = Team /\ held' = [u \in Team |-> held'[u]]
  <2>1. (new = {} => todo' = [todo EXCEPT ![t] = Rest(@)]) /\ (new # {} => todo' = todo)
    BY <1>1, <1>6
  <2>2. Rest(todo[t]) \in SUBSET SlabIds(home) /\ new \in SUBSET Sites(sh)
    BY <1>2, <1>4
  <2>3. todo' \in [Team -> SUBSET SlabIds(home)]
    BY <1>2, <2>1, <2>2
  <2>4. pass' \in [Team -> SUBSET Sites(sh)]
    BY <1>1, <1>2, <2>2
  <2>5. DOMAIN held' = Team /\ held' = [u \in Team |-> held'[u]]
    BY <1>1, <1>2
  <2>6. QED BY <2>3, <2>4, <2>5
<1>10. ASSUME NEW u \in Team
       PROVE  /\ pass'[u] # {} => /\ todo'[u] # {}
                                  /\ pass'[u] \subseteq PassOf(home, Least(todo'[u]), color)
              /\ held'[u] # <<>> => pass'[u] # {}
  <2>1. CASE u # t
    BY <1>2, <1>6, <2>1
  <2>2. CASE u = t
    <3>1. held'[t] = <<>> /\ pass'[t] = new /\ (new # {} => todo'[t] = todo[t])
      BY <1>6
    <3>2. new \subseteq pass[t] /\ pass[t] \subseteq PassOf(home, Least(todo[t]), color)
      BY <1>2, <1>3, <1>4
    <3>3. QED BY <1>3, <2>2, <3>1, <3>2
  <2>3. QED BY <2>1, <2>2
<1>11. LanesInv'
  <2>1. \A u, v \in Team : u # v => todo'[u] \cap todo'[v] = {}
    BY <1>2, <1>8
  <2>2. Working' /\ pc' = "color"
    BY <1>1 DEF Working
  <2>3. \A p, r, c : PassOf(p, r, c)' = PassOf(p, r, c)
    BY <1>1 DEF PassOf
  <2>4. QED BY <1>1, <1>7, <1>9, <1>10, <2>1, <2>2, <2>3 DEF LanesInv
<1>12. ASSUME NEW s \in Sites(sh)
       PROVE  Ahead(s)' <=> Ahead(s) /\ s # x
  <2> DEFINE k == SlabAt(s)
             A(u) == s \in pass[u] \/ (k \in todo[u] /\ (pass[u] # {} => k # Least(todo[u])))
             B(u) == s \in pass'[u] \/ (k \in todo'[u] /\ (pass'[u] # {} => k # Least(todo'[u])))
  <2>1. SlabAt(s)' = k
    BY <1>1 DEF SlabAt
  <2>2. Ahead(s) <=> \E u \in Team : A(u)
    BY <1>2 DEF Ahead
  <2>3. Ahead(s)' <=> \E u \in Team : B(u)
    BY <1>6, <2>1 DEF Ahead
  <2>4. \A u \in Team : u # t => (A(u) <=> B(u))
    BY <1>6
  <2>5. B(t) <=> A(t) /\ s # x
    <3>1. \A y \in pass[t] : SlabAt(y) = i
      BY <1>5 DEF i
    <3>2. A(t) <=> s \in pass[t] \/ (k \in todo[t] /\ k # i)
      BY <1>3 DEF i
    <3>3. s = x => k = i
      BY <1>3
    <3>4. CASE new = {}
      <4>1. B(t) <=> k \in todo[t] /\ k # i
        BY <1>4, <1>6, <3>4
      <4>2. s \in pass[t] => s = x
        BY <1>4, <3>4
      <4>3. QED BY <3>2, <3>3, <4>1, <4>2
    <3>5. CASE new # {}
      <4>1. B(t) <=> s \in new \/ (k \in todo[t] /\ k # i)
        BY <1>6, <3>5 DEF i
      <4>2. QED BY <1>4, <3>2, <3>3, <4>1
    <3>6. QED BY <3>4, <3>5
  <2>6. \A u \in Team : u # t /\ A(u) => s # x
    <3> SUFFICES ASSUME NEW u \in Team, u # t, A(u), s = x PROVE FALSE
      OBVIOUS
    <3>1. k = i
      BY <1>3
    <3>2. k \in todo[u]
      BY <1>5
    <3>3. QED BY <1>2, <1>3, <3>1, <3>2
  <2> HIDE DEF A, B
  <2>7. QED BY <2>2, <2>3, <2>4, <2>5, <2>6
<1>13. Ahead(x)
  BY <1>2, <1>3 DEF Ahead
<1>14. QED BY <1>3, <1>11, <1>12, <1>13 DEF x
-----------------------------------------------------------------------------
(* The invariant of a step, action by action.                              *)
LEMMA Shape ==
  ASSUME Bound
  PROVE  /\ IsShape(sh) /\ P = home /\ Len(sh) \in 1 .. 4 /\ Dims(sh) = 1 .. Len(sh)
         /\ Directions \in 1 .. 4 /\ Cells = Sites(sh) \X (1 .. Directions)
         /\ NColors \in Nat \ {0}
         /\ kind = "link" => Directions = Len(sh) /\ NColors = 2 * Len(sh)
         /\ kind # "link" => Directions = 1 /\ NColors = 2
         /\ \A c \in Nat : FillsBefore(c) = IF kind = "link" THEN Directions + c ELSE 1
         /\ \A c \in Nat : FillsBefore(c) \in Nat
<1>1. IsShape(sh) /\ P = home /\ Len(sh) \in 1 .. 4 /\ Dims(sh) = 1 .. Len(sh)
  BY BoundHome, Extents
<1>2. CASE kind = "link"
  <2>1. Directions = Len(sh) /\ NColors = 2 * Len(sh) /\ Cells = Sites(sh) \X Dims(sh)
        /\ \A c : FillsBefore(c) = Len(sh) + c
    BY <1>2 DEF Directions, NColors, Cells, FillsBefore
  <2>2. Directions \in 1 .. 4 /\ NColors \in Nat \ {0}
    BY <1>1, <2>1
  <2>3. \A c \in Nat : FillsBefore(c) = Directions + c /\ FillsBefore(c) \in Nat
    BY <1>1, <2>1
  <2>4. Cells = Sites(sh) \X (1 .. Directions)
    BY <1>1, <2>1
  <2>5. QED BY <1>1, <1>2, <2>1, <2>2, <2>3, <2>4
<1>3. CASE kind # "link"
  <2>1. Directions = 1 /\ NColors = 2 /\ Cells = Sites(sh) \X {1} /\ \A c : FillsBefore(c) = 1
    BY <1>3 DEF Directions, NColors, Cells, FillsBefore
  <2>2. {1} = 1 .. 1
    OBVIOUS
  <2>3. QED BY <1>1, <1>3, <2>1, <2>2
<1>4. QED BY <1>2, <1>3

(* What the actions leave alone, and all that is read off it.              *)
LEMMA Frames ==
  ASSUME sh' = sh, kind' = kind, home' = home, team' = team, ambient' = ambient
  PROVE  /\ Cells' = Cells /\ Sites(sh)' = Sites(sh) /\ SlabIds(home)' = SlabIds(home)
         /\ NColors' = NColors /\ Directions' = Directions /\ Fills' = Fills /\ Team' = Team
         /\ CheckerboardOk(sh)' = CheckerboardOk(sh)
         /\ \A s : SlabAt(s)' = SlabAt(s)
         /\ \A i : Count(sh, home, i)' = Count(sh, home, i)
         /\ \A c : DirOf(c)' = DirOf(c) /\ FillsBefore(c)' = FillsBefore(c)
         /\ \A cell, c : InColor(cell, c)' <=> InColor(cell, c)
         /\ \A cell : Places(cell)' = Places(cell)
         /\ \A cell : Neighbours(cell)' = Neighbours(cell)
         /\ \A p, i, c : PassOf(p, i, c)' = PassOf(p, i, c)
<1>1. /\ Cells' = Cells /\ Sites(sh)' = Sites(sh) /\ SlabIds(home)' = SlabIds(home)
      /\ NColors' = NColors /\ Directions' = Directions /\ Team' = Team
      /\ CheckerboardOk(sh)' = CheckerboardOk(sh)
  BY DEF Cells, NColors, Directions, Team, NThreads
<1>2. /\ \A s : SlabAt(s)' = SlabAt(s)
      /\ \A i : Count(sh, home, i)' = Count(sh, home, i)
      /\ \A c : DirOf(c)' = DirOf(c) /\ FillsBefore(c)' = FillsBefore(c)
      /\ \A cell, c : InColor(cell, c)' <=> InColor(cell, c)
  BY DEF SlabAt, DirOf, FillsBefore, InColor
<1>3. Fills' = Fills
  BY <1>1 DEF Fills, FillsBefore
<1>4. \A cell : Places(cell)' = Places(cell)
  BY DEF Places
<1>5. \A cell : Neighbours(cell)' = Neighbours(cell)
  BY DEF Neighbours, Places
<1>6. \A p, i, c : PassOf(p, i, c)' = PassOf(p, i, c)
  BY DEF PassOf
<1>7. QED BY <1>1, <1>2, <1>3, <1>4, <1>5, <1>6

LEMMA DrawFrames ==
  ASSUME sh' = sh, kind' = kind, home' = home, expected'.from = expected.from
  PROVE  /\ \A s, k : DrawFor(s, k)' = DrawFor(s, k)
         /\ expected'.field = expected.field =>
              \A cell, c : Decision(cell, c)' = Decision(cell, c)
<1>1. \A s, k : DrawFor(s, k)' = DrawFor(s, k)
  BY DEF DrawFor, SlabAt
<1>2. ASSUME expected'.field = expected.field, NEW cell, NEW c
      PROVE  Decision(cell, c)' = Decision(cell, c)
  <2>1. Neighbours(cell)' = Neighbours(cell) /\ FillsBefore(c)' = FillsBefore(c)
    BY DEF Neighbours, Places, FillsBefore
  <2>2. DrawFor(cell[1], cell[2] - 1)' = DrawFor(cell[1], cell[2] - 1)
        /\ DrawFor(cell[1], FillsBefore(c))' = DrawFor(cell[1], FillsBefore(c))
    BY <1>1, <2>1
  <2>3. QED BY <1>2, <2>1, <2>2 DEF Decision
<1>3. QED BY <1>1, <1>2

(* A region opens: every slab and every site is ahead, nothing is held.    *)
LEMMA RegionOpened ==
  ASSUME Bound, Opened(home), Working', sh' = sh, kind' = kind, home' = home, team' = team,
         ambient' = ambient
  PROVE  /\ LanesInv' /\ HeldInv'
         /\ \A i \in SlabIds(home) : Waiting(i)'
         /\ \A s \in Sites(sh) : Ahead(s)'
<1>1. /\ todo' \in [Team -> SUBSET SlabIds(home)] /\ pass' = [t \in Team |-> {}]
      /\ held' = [t \in Team |-> <<>>]
      /\ \A t, u \in Team : t # u => todo'[t] \cap todo'[u] = {}
      /\ \A i \in SlabIds(home) : Waiting(i)'
      /\ \A s \in Sites(sh) : Ahead(s)'
  <2>1. NThreads(home)' = NThreads(home)
    BY DEF NThreads
  <2>2. QED BY <2>1, AllOpen
<1>2. LanesInv'
  <2>1. Team' = Team /\ SlabIds(home)' = SlabIds(home) /\ Sites(sh)' = Sites(sh)
    BY Frames
  <2>2. pass' \in [Team -> SUBSET Sites(sh)] /\ DOMAIN held' = Team
        /\ held' = [t \in Team |-> held'[t]]
    BY <1>1
  <2>3. \A t \in Team : pass'[t] = {} /\ held'[t] = <<>>
    BY <1>1
  <2>4. QED BY <1>1, <2>1, <2>2, <2>3 DEF LanesInv
<1>3. HeldInv'
  BY <1>1 DEF HeldInv
<1>4. QED BY <1>1, <1>2, <1>3

(* Init, then one lemma per action.                                         *)
LEMMA InitSweep == Init => SweepInv
<1> SUFFICES ASSUME Init PROVE SweepInv
  OBVIOUS
<1>1. /\ Bound /\ pc = "idle" /\ ~Working
      /\ home = P /\ drawn = [i \in SlabIds(home) |-> 0]
      /\ field = [c \in Cells |-> Hot(c)] /\ noise = [c \in Cells |-> <<>>]
      /\ logu = [s \in Sites(sh) |-> <<>>]
      /\ todo = <<>> /\ pass = <<>> /\ held = <<>> /\ used = {} /\ moves = 0
      /\ expected = [from |-> drawn, field |-> field, ds |-> Zero, drawn |-> drawn]
      /\ Constructible(sh, kind)
  BY InitBound DEF Init, Working
<1>2. Stage
  BY <1>1 DEF Stage, Constructible, Working
<1>3. LanesInv
  BY <1>1 DEF LanesInv
<1>4. DrawnInv
  <2>1. drawn \in [SlabIds(home) -> Nat] /\ expected.drawn = drawn
    BY <1>1
  <2>2. QED BY <1>1, <2>1 DEF DrawnInv
<1>5. NoiseInv
  BY <1>1 DEF NoiseInv
<1>6. LoguInv
  BY <1>1 DEF LoguInv
<1>7. FieldInv
  <2>1. expected.field = field /\ expected = [from |-> expected.from, field |-> expected.field,
                                              ds |-> expected.ds, drawn |-> expected.drawn]
    BY <1>1
  <2>2. \A cell : Passed(cell) = expected.field[cell]
    BY <1>1 DEF Passed
  <2>3. field = [cell \in Cells |-> expected.field[cell]]
    BY <1>1, <2>1
  <2>4. QED BY <2>1, <2>2, <2>3 DEF FieldInv
<1>8. HeldInv
  BY <1>1 DEF HeldInv
<1>9. UsedInv
  <2>1. IsFiniteSet({}) /\ Cardinality({}) = 0
    BY FS_EmptySet
  <2>2. QED BY <1>1, <2>1 DEF UsedInv
<1>10. QED BY <1>2, <1>3, <1>4, <1>5, <1>6, <1>7, <1>8, <1>9 DEF SweepInv

LEMMA StartSweep == Bound /\ SweepInv /\ StartStep => SweepInv'
<1> SUFFICES ASSUME Bound, SweepInv, StartStep PROVE SweepInv'
  OBVIOUS
<1>1. /\ pc = "idle" /\ ~Working /\ pc' = "noise" /\ Working' /\ Opened(home)
      /\ expected' = ExpectedStart /\ dir' = 1 /\ color' = 0
      /\ sh' = sh /\ kind' = kind /\ team' = team /\ ambient' = ambient /\ home' = home
      /\ UNCHANGED <<drawn, field, noise, logu, used, moves>>
  <2>1. P = home /\ P.items = Cardinality(DOMAIN drawn)
    BY BoundHome
  <2>2. QED BY <2>1 DEF StartStep, config, Working
<1>2. /\ Stage /\ DrawnInv /\ NoiseInv /\ LoguInv /\ FieldInv /\ UsedInv
  BY DEF SweepInv
<1>3. /\ LanesInv' /\ HeldInv'
      /\ \A i \in SlabIds(home) : Waiting(i)'
      /\ \A s \in Sites(sh) : Ahead(s)'
  BY <1>1, RegionOpened
<1>4. Stage'
  <2>1. Directions' \in 1 .. 4 /\ NColors' \in Nat \ {0} /\ CheckerboardOk(sh)' = CheckerboardOk(sh)
    BY <1>1, Frames, Shape
  <2>2. dir' \in 1 .. Directions' /\ color' \in 0 .. NColors' - 1
    <3>1. 1 \in 1 .. Directions /\ 0 \in 0 .. NColors - 1
      <4>1. Directions \in 1 .. 4 /\ NColors \in Nat \ {0}
        BY Shape
      <4>2. QED BY <4>1
    <3>2. Directions' = Directions /\ NColors' = NColors
      BY <1>1, Frames
    <3>3. QED BY <1>1, <3>1, <3>2
  <2>3. QED BY <1>1, <1>2, <2>1, <2>2 DEF Stage
<1>5. /\ expected'.from = drawn /\ expected'.field = field
      /\ expected'.drawn = [i \in SlabIds(home) |-> drawn[i] + Fills * Count(sh, home, i)]
      /\ expected' = [from |-> expected'.from, field |-> expected'.field,
                      ds |-> expected'.ds, drawn |-> expected'.drawn]
  BY <1>1 DEF ExpectedStart, Bound
<1>6. DrawnInv'
  <2>1. /\ SlabIds(home)' = SlabIds(home) /\ Fills' = Fills
        /\ \A i : Count(sh, home, i)' = Count(sh, home, i)
    BY <1>1, Frames
  <2>2. drawn \in [SlabIds(home) -> Nat]
    BY <1>2 DEF DrawnInv
  <2>3. FillsDone' = 0
    BY <1>1 DEF FillsDone
  <2>4. \A i \in SlabIds(home) : FillsOf(i)' = 0
    BY <1>3, <2>3 DEF FillsOf
  <2>5. \A i \in SlabIds(home) : drawn[i] = drawn[i] + 0 * Count(sh, home, i)
    <3> SUFFICES ASSUME NEW i \in SlabIds(home) PROVE drawn[i] = drawn[i] + 0 * Count(sh, home, i)
      OBVIOUS
    <3>1. drawn[i] \in Nat /\ Count(sh, home, i) \in Nat
      BY <2>2, CountsNat
    <3>2. QED BY <3>1
  <2>6. QED BY <1>1, <1>5, <2>1, <2>2, <2>4, <2>5 DEF DrawnInv
<1>7. NoiseInv'
  <2>1. Cells' = Cells /\ Cells = Sites(sh) \X (1 .. Directions)
    BY <1>1, Frames, Shape
  <2>2. \A cell \in Cells : cell[2] > dir' \/ (cell[2] = dir' /\ Ahead(cell[1])')
    <3> SUFFICES ASSUME NEW cell \in Cells PROVE cell[2] > 1 \/ (cell[2] = 1 /\ Ahead(cell[1])')
      BY <1>1
    <3>1. cell[1] \in Sites(sh) /\ cell[2] \in 1 .. Directions /\ Directions \in 1 .. 4
      BY <2>1, Shape
    <3>2. Ahead(cell[1])'
      BY <1>3, <3>1
    <3>3. QED BY <3>1, <3>2
  <2>3. QED BY <1>1, <1>2, <2>1, <2>2 DEF NoiseInv
<1>8. LoguInv'
  <2>1. Sites(sh)' = Sites(sh)
    BY <1>1
  <2>2. QED BY <1>1, <1>2, <2>1 DEF LoguInv
<1>9. FieldInv'
  <2>1. Cells' = Cells
    BY <1>1, Frames
  <2>2. field = [cell \in Cells |-> field[cell]]
    <3>1. field = [cell \in Cells |-> Passed(cell)]
      BY <1>2 DEF FieldInv
    <3>2. QED BY <3>1
  <2>3. \A cell : Passed(cell)' = expected'.field[cell]
    BY <1>1 DEF Passed
  <2>4. field' = field
    BY <1>1
  <2>5. QED BY <1>5, <2>1, <2>2, <2>3, <2>4 DEF FieldInv
<1>10. UsedInv'
  <2>1. \A d : Spent(d) => FALSE
    BY <1>1 DEF Spent
  <2>2. ASSUME NEW d \in used PROVE Old(d)'
    <3>1. Old(d)
      BY <1>2, <2>1, <2>2 DEF UsedInv
    <3>2. d = <<d[1], d[2]>> /\ d[1] \in SlabIds(home) /\ d[2] \in Nat /\ d[2] <= drawn[d[1]]
      BY <1>1, <3>1 DEF Old
    <3>3. expected'.from[d[1]] = drawn[d[1]] /\ SlabIds(home)' = SlabIds(home)
      BY <1>1, <1>5
    <3>4. QED BY <1>1, <3>2, <3>3 DEF Old
  <2>3. QED BY <1>1, <1>2, <2>2 DEF UsedInv
<1>11. QED BY <1>3, <1>4, <1>6, <1>7, <1>8, <1>9, <1>10 DEF SweepInv

(* The cell a thread is at is one of the colour's.                         *)
LEMMA CellFacts ==
  ASSUME Bound, Stage, LanesInv, Working, NEW t \in Team, pass[t] # {}
  PROVE  /\ CellOf(t) = <<Least(pass[t]), DirOf(color)>>
         /\ CellOf(t)[1] = Least(pass[t]) /\ CellOf(t)[2] = DirOf(color)
         /\ CellOf(t) \in Cells /\ InColor(CellOf(t), color) /\ CellOf(t)[1] \in Sites(sh)
<1>1. Least(pass[t]) \in pass[t]
  BY LanesFacts
<1>2. Least(pass[t]) \in Sites(sh) /\ CoordSum(sh, Least(pass[t]), Dims(sh)) % 2 = color % 2
  BY <1>1, PassFacts
<1>3. color \in 0 .. NColors - 1 /\ color \in Nat /\ Directions \in Nat
  <2>1. color \in 0 .. NColors - 1 /\ NColors \in Nat /\ Directions \in 1 .. 4
    BY Shape DEF Stage
  <2>2. QED BY <2>1
<1>4. DirOf(color) \in 1 .. Directions
  <2>1. CASE kind = "link"
    <3>1. color < 2 * Directions
      BY <1>3, <2>1, Shape, SMTT(60)
    <3>2. color \div 2 \in Nat /\ color \div 2 < Directions
      BY <1>3, <3>1
    <3>3. QED BY <1>3, <2>1, <3>2 DEF DirOf
  <2>2. CASE kind # "link"
    <3>1. Directions = 1 /\ DirOf(color) = 1
      BY <2>2, Shape DEF DirOf
    <3>2. QED BY <3>1
  <2>3. QED BY <2>1, <2>2
<1>5. CellOf(t) = <<Least(pass[t]), DirOf(color)>>
  BY DEF CellOf
<1>6. CellOf(t)[1] = Least(pass[t]) /\ CellOf(t)[2] = DirOf(color)
  BY <1>5
<1>7. CellOf(t) \in Cells
  BY <1>2, <1>4, <1>5, Shape
<1>8. InColor(CellOf(t), color)
  BY <1>2, <1>6 DEF InColor
<1>9. QED BY <1>2, <1>5, <1>6, <1>7, <1>8

(* A cell has one colour,                                                  *)
LEMMA OneColor ==
  ASSUME Bound, NEW cell \in Cells, NEW c \in 0 .. NColors - 1, NEW e \in 0 .. NColors - 1,
         InColor(cell, c), InColor(cell, e)
  PROVE  c = e
<1>1. DirOf(c) = DirOf(e) /\ c % 2 = e % 2
  BY DEF InColor
<1>2. NColors \in Nat /\ c \in Nat /\ e \in Nat /\ c < NColors /\ e < NColors
  <2>1. NColors \in Nat
    BY Shape
  <2>2. QED BY <2>1
<1>3. CASE kind = "link"
  <2>1. (c \div 2) + 1 = (e \div 2) + 1
    BY <1>1, <1>3 DEF DirOf
  <2>2. QED BY <1>1, <1>2, <2>1
<1>4. CASE kind # "link"
  <2>1. NColors = 2
    BY <1>4, Shape
  <2>2. QED BY <1>1, <1>2, <2>1
<1>5. QED BY <1>3, <1>4

(* the two draws of its decision come from different fills,                *)
LEMMA FillsOrder ==
  ASSUME Bound, NEW cell \in Cells, NEW c \in Nat
  PROVE  /\ cell = <<cell[1], cell[2]>> /\ cell[1] \in Sites(sh)
         /\ cell[2] - 1 \in Nat /\ FillsBefore(c) \in Nat /\ cell[2] - 1 < FillsBefore(c)
<1>1. cell = <<cell[1], cell[2]>> /\ cell[1] \in Sites(sh) /\ cell[2] \in 1 .. Directions
      /\ Directions \in 1 .. 4
  <2>1. Cells = Sites(sh) \X (1 .. Directions) /\ Directions \in 1 .. 4
    BY Shape
  <2>2. QED BY <2>1
<1>2. cell[2] \in Nat /\ cell[2] - 1 \in Nat /\ cell[2] - 1 < Directions /\ Directions \in Nat
  BY <1>1
<1>3. FillsBefore(c) \in Nat /\ FillsBefore(c) >= Directions
  <2>1. CASE kind = "link"
    <3>1. FillsBefore(c) = Directions + c
      BY <2>1, Shape
    <3>2. QED BY <1>2, <3>1
  <2>2. CASE kind # "link"
    <3>1. FillsBefore(c) = 1 /\ Directions = 1
      BY <2>2, Shape
    <3>2. QED BY <3>1
  <2>3. QED BY <2>1, <2>2
<1>4. QED BY <1>1, <1>2, <1>3

(* and they are those of no other decision.                                *)
DrawsOf(cell, c) == {DrawFor(cell[1], cell[2] - 1), DrawFor(cell[1], FillsBefore(c))}

LEMMA DrawsApart ==
  ASSUME Bound, expected.from \in [SlabIds(home) -> Nat],
         NEW cell \in Cells, NEW c \in 0 .. NColors - 1, InColor(cell, c),
         NEW other \in Cells, NEW e \in 0 .. NColors - 1, InColor(other, e),
         NEW d \in DrawsOf(cell, c), d \in DrawsOf(other, e)
  PROVE  cell = other /\ c = e
<1>1. c \in Nat /\ e \in Nat
  BY Shape
<1>2. /\ cell = <<cell[1], cell[2]>> /\ cell[1] \in Sites(sh)
      /\ cell[2] - 1 \in Nat /\ FillsBefore(c) \in Nat /\ cell[2] - 1 < FillsBefore(c)
      /\ cell[2] - 1 < FillsBefore(e)
  BY <1>1, FillsOrder
<1>3. /\ other = <<other[1], other[2]>> /\ other[1] \in Sites(sh)
      /\ other[2] - 1 \in Nat /\ FillsBefore(e) \in Nat /\ other[2] - 1 < FillsBefore(e)
      /\ other[2] - 1 < FillsBefore(c)
  BY <1>1, FillsOrder
<1>4. PICK j \in {cell[2] - 1, FillsBefore(c)} : d = DrawFor(cell[1], j)
  BY DEF DrawsOf
<1>5. PICK k \in {other[2] - 1, FillsBefore(e)} : d = DrawFor(other[1], k)
  BY DEF DrawsOf
<1>6. j \in Nat /\ k \in Nat
  BY <1>2, <1>3, <1>4, <1>5
<1>7. cell[1] = other[1] /\ j = k
  <2>1. DrawFor(cell[1], j) = DrawFor(other[1], k)
    BY <1>4, <1>5
  <2>2. QED BY <1>2, <1>3, <1>6, <2>1, DrawsDiffer
<1>8. cell[2] - 1 = other[2] - 1 \/ FillsBefore(c) = FillsBefore(e)
  BY <1>2, <1>3, <1>7
<1>9. cell[2] \in Int /\ other[2] \in Int
  <2>1. cell[2] - 1 \in Nat /\ Cells = Sites(sh) \X (1 .. Directions)
    BY <1>2, Shape
  <2>2. QED BY <2>1
<1>10. ASSUME cell[2] = other[2] PROVE cell = other /\ c = e
  <2>1. cell = other
    BY <1>2, <1>3, <1>7, <1>10
  <2>2. QED BY <2>1, OneColor
<1>11. CASE cell[2] - 1 = other[2] - 1
  BY <1>9, <1>10, <1>11
<1>12. CASE FillsBefore(c) = FillsBefore(e)
  <2>1. CASE kind = "link"
    <3>1. Directions \in Int /\ FillsBefore(c) = Directions + c /\ FillsBefore(e) = Directions + e
      BY <1>1, <2>1, Shape
    <3>2. c = e
      <4>1. Directions + c = Directions + e
        BY <1>12, <3>1
      <4>2. QED BY <1>1, <3>1, <4>1
    <3>3. cell[2] = other[2]
      BY <3>2 DEF InColor
    <3>4. QED BY <1>10, <3>3
  <2>2. CASE kind # "link"
    <3>1. cell[2] = 1 /\ other[2] = 1
      BY <2>2 DEF InColor, DirOf
    <3>2. QED BY <1>10, <3>1
  <2>3. QED BY <2>1, <2>2
<1>13. QED BY <1>8, <1>11, <1>12

LEMMA CellDirection ==
  ASSUME Bound, NEW cell \in Cells
  PROVE  cell = <<cell[1], cell[2]>> /\ cell[2] \in Dims(sh)
<1>1. Dims(sh) = 1 .. Len(sh) /\ Len(sh) \in 1 .. 4
  BY Shape
<1>2. 1 \in Dims(sh)
  BY <1>1
<1>3. Cells = Sites(sh) \X (IF kind = "link" THEN Dims(sh) ELSE {1})
  BY DEF Cells
<1>4. QED BY <1>2, <1>3

LEMMA FillSweep ==
  ASSUME NEW t
  PROVE  Bound /\ SweepInv /\ t \in DOMAIN todo /\ FillSlab(t) => SweepInv'
<1> SUFFICES ASSUME Bound, SweepInv, t \in DOMAIN todo, FillSlab(t) PROVE SweepInv'
  OBVIOUS
<1> DEFINE i == Least(todo[t])
           draw(s) == <<i, drawn[i] + s - Base(home, i) + 1>>
<1>1. /\ pc \in {"noise", "logu"} /\ pc' = pc /\ Working /\ Working' /\ todo[t] # {}
      /\ drawn' = [drawn EXCEPT ![i] = @ + Count(sh, home, i)]
      /\ IF pc = "noise"
         THEN /\ noise' = [c \in Cells |-> IF c[1] \in Span(sh, home, i) /\ c[2] = dir
                                           THEN draw(c[1]) ELSE noise[c]]
              /\ logu' = logu
         ELSE /\ logu' = [s \in Sites(sh) |-> IF s \in Span(sh, home, i) THEN draw(s) ELSE logu[s]]
              /\ noise' = noise
      /\ todo' = [todo EXCEPT ![t] = Rest(@)]
      /\ sh' = sh /\ kind' = kind /\ team' = team /\ ambient' = ambient /\ home' = home
      /\ UNCHANGED <<field, color, dir, pass, held, expected, used, moves>>
  BY BoundHome DEF FillSlab, StreamOf, config, history, Working
<1>2. Stage /\ LanesInv /\ DrawnInv /\ NoiseInv /\ LoguInv /\ FieldInv /\ HeldInv /\ UsedInv
  BY DEF SweepInv
<1>3. t \in Team /\ DOMAIN todo = Team
  BY <1>1, <1>2, LanesFacts
<1>4. /\ i \in SlabIds(home) /\ Waiting(i)
      /\ \A j : Waiting(j)' <=> Waiting(j) /\ j # i
      /\ \A s : Ahead(s)' <=> Ahead(s) /\ SlabAt(s) # i
      /\ \A s : SlabAt(s) = i => Ahead(s)
  BY <1>1, <1>2, <1>3, SlabLeft
<1>5. /\ Cells' = Cells /\ Sites(sh)' = Sites(sh) /\ SlabIds(home)' = SlabIds(home)
      /\ NColors' = NColors /\ Directions' = Directions /\ Fills' = Fills /\ Team' = Team
      /\ CheckerboardOk(sh)' = CheckerboardOk(sh)
      /\ \A s : SlabAt(s)' = SlabAt(s)
      /\ \A j : Count(sh, home, j)' = Count(sh, home, j)
      /\ \A c : DirOf(c)' = DirOf(c) /\ FillsBefore(c)' = FillsBefore(c)
      /\ \A cell, c : InColor(cell, c)' <=> InColor(cell, c)
      /\ \A cell : Places(cell)' = Places(cell)
      /\ \A cell : Neighbours(cell)' = Neighbours(cell)
      /\ \A s, k : DrawFor(s, k)' = DrawFor(s, k)
  <2>1. expected'.from = expected.from
    BY <1>1
  <2>2. QED BY <1>1, <2>1, Frames, DrawFrames
<1>6. Stage'
  BY <1>1, <1>2, <1>5 DEF Stage
<1>7. LanesInv'
  <2>1. /\ todo \in [Team -> SUBSET SlabIds(home)] /\ pass \in [Team -> SUBSET Sites(sh)]
        /\ DOMAIN held = Team /\ held = [u \in Team |-> held[u]]
        /\ \A u, v \in Team : u # v => todo[u] \cap todo[v] = {}
        /\ \A u \in Team : pass[u] = {} /\ held[u] = <<>>
    BY <1>1, <1>2 DEF LanesInv
  <2>2. Rest(todo[t]) \subseteq todo[t]
    BY DEF Rest
  <2>3. todo' \in [Team -> SUBSET SlabIds(home)]
    <3>1. Rest(todo[t]) \in SUBSET SlabIds(home)
      BY <1>3, <2>1, <2>2
    <3>2. QED BY <1>1, <2>1, <3>1
  <2>4. \A u, v \in Team : u # v => todo'[u] \cap todo'[v] = {}
    <3>1. \A u \in Team : todo'[u] \subseteq todo[u]
      BY <1>1, <1>3, <2>2
    <3>2. QED BY <2>1, <3>1
  <2>5. QED BY <1>1, <1>5, <2>1, <2>3, <2>4 DEF LanesInv
<1>8. /\ drawn \in [SlabIds(home) -> Nat] /\ expected.from \in [SlabIds(home) -> Nat]
      /\ expected.drawn = [j \in SlabIds(home) |-> expected.from[j] + Fills * Count(sh, home, j)]
      /\ \A j \in SlabIds(home) : drawn[j] = expected.from[j] + FillsOf(j) * Count(sh, home, j)
  BY <1>1, <1>2 DEF DrawnInv
<1>9. /\ FillsDone \in Nat /\ FillsDone' = FillsDone /\ FillsOf(i) = FillsDone
      /\ \A j \in SlabIds(home) : j = i => FillsOf(j)' = FillsDone + 1
      /\ \A j \in SlabIds(home) : j # i => FillsOf(j)' = FillsOf(j)
  <2>1. color \in Nat /\ dir \in Nat \ {0}
    <3>1. dir \in 1 .. Directions /\ color \in 0 .. NColors - 1 /\ Directions \in 1 .. 4
          /\ NColors \in Nat
      BY <1>1, <1>2, Shape DEF Stage
    <3>2. QED BY <3>1
  <2>2. FillsDone = IF pc = "noise" THEN dir - 1 ELSE FillsBefore(color)
    BY <1>1 DEF FillsDone
  <2>3. FillsDone \in Nat
    BY <2>1, <2>2, Shape
  <2>4. FillsDone' = FillsDone
    <3>1. FillsDone' = IF pc = "noise" THEN dir - 1 ELSE FillsBefore(color)
      BY <1>1, <1>5 DEF FillsDone
    <3>2. QED BY <2>2, <3>1
  <2>5. \A j : FillsOf(j) = IF Waiting(j) THEN FillsDone ELSE FillsDone + 1
    BY <1>1 DEF FillsOf
  <2>6. \A j : FillsOf(j)' = IF Waiting(j)' THEN FillsDone ELSE FillsDone + 1
    BY <1>1, <2>4 DEF FillsOf
  <2> HIDE DEF i
  <2>7. FillsOf(i) = FillsDone /\ \A j : j = i => FillsOf(j)' = FillsDone + 1
    <3>1. Waiting(i) /\ FillsOf(i) = IF Waiting(i) THEN FillsDone ELSE FillsDone + 1
      BY <1>4, <2>5
    <3>2. \A j : j = i => FillsOf(j)' = FillsDone + 1
      BY <1>4, <2>6
    <3>3. QED BY <3>1, <3>2
  <2>8. \A j : j # i => FillsOf(j)' = FillsOf(j)
    BY <1>4, <2>5, <2>6
  <2>9. QED BY <2>3, <2>4, <2>7, <2>8
<1>10. DrawnInv'
  <2>1. drawn' \in [SlabIds(home) -> Nat]
    <3>1. drawn[i] + Count(sh, home, i) \in Nat
      BY <1>4, <1>8, CountsNat
    <3>2. QED BY <1>1, <1>8, <3>1
  <2>2. ASSUME NEW j \in SlabIds(home)
        PROVE  drawn'[j] = expected.from[j] + FillsOf(j)' * Count(sh, home, j)
    <3>1. CASE j = i
      <4> DEFINE n == Count(sh, home, i)
                 f == expected.from[i]
                 k == FillsDone
      <4>1. drawn'[i] = drawn[i] + n /\ drawn[i] = f + k * n /\ n \in Nat /\ f \in Nat /\ k \in Nat
        BY <1>1, <1>4, <1>8, <1>9, CountsNat
      <4> HIDE DEF n, f, k, i
      <4>2. (f + k * n) + n = f + (k + 1) * n
        BY <4>1
      <4>3. drawn'[j] = f + (k + 1) * n /\ FillsOf(j)' = k + 1
        BY <1>9, <3>1, <4>1, <4>2 DEF k
      <4>4. f = expected.from[j] /\ n = Count(sh, home, j)
        BY <3>1 DEF f, n
      <4>5. QED BY <4>3, <4>4
    <3>2. CASE j # i
      <4>1. drawn'[j] = drawn[j]
        BY <1>1, <1>8, <3>2
      <4>2. QED BY <1>8, <1>9, <3>2, <4>1
    <3>3. QED BY <3>1, <3>2
  <2>3. QED BY <1>1, <1>5, <1>8, <2>1, <2>2 DEF DrawnInv
<1>11. ASSUME NEW s \in Sites(sh), s \in Span(sh, home, i)
       PROVE  draw(s) = DrawFor(s, FillsDone) /\ SlabAt(s) = i
  <2> DEFINE n == Count(sh, home, i)
             f == expected.from[i]
             k == FillsDone
             x == s % home.len
             b == Base(home, i)
  <2>1. SlabAt(s) = i /\ s - b = x /\ n \in Nat /\ x \in Nat /\ s \in Nat
    <3> HIDE DEF i
    <3>1. SlabAt(s) = i
      BY <1>4, <1>11, SlabOfSite
    <3>2. QED BY <3>1, SlabOfSite
  <2>2. drawn[i] = f + k * n /\ f \in Nat /\ k \in Nat
    BY <1>4, <1>8, <1>9
  <2>3. DrawFor(s, k) = <<i, f + k * n + x + 1>>
    BY <2>1 DEF DrawFor
  <2>4. b \in Int
    <3>1. home.len \in Int /\ i \in Int
      BY <1>4, BoundHome DEF PartitionGood, SlabIds
    <3>2. QED BY <3>1 DEF Base
  <2> HIDE DEF i, n, f, k, x, b
  <2>5. drawn[i] + s - b + 1 = f + k * n + x + 1
    <3>1. k * n \in Nat
      BY <2>1, <2>2
    <3>2. QED BY <2>1, <2>2, <2>4, <3>1
  <2>6. QED BY <2>1, <2>3, <2>5 DEF b, k
<1>12. NoiseInv'
  <2>1. /\ DOMAIN noise = Cells
        /\ \A cell \in Cells :
             \/ pc = "noise" /\ (cell[2] > dir \/ (cell[2] = dir /\ Ahead(cell[1])))
             \/ noise[cell] = DrawFor(cell[1], cell[2] - 1)
    BY <1>1, <1>2 DEF NoiseInv
  <2>2. DOMAIN noise' = Cells
    BY <1>1, <2>1
  <2>3. ASSUME NEW cell \in Cells
        PROVE  \/ pc = "noise" /\ (cell[2] > dir \/ (cell[2] = dir /\ Ahead(cell[1])'))
               \/ noise'[cell] = DrawFor(cell[1], cell[2] - 1)
    <3>1. cell[1] \in Sites(sh)
      BY Shape
    <3>2. CASE pc # "noise"
      BY <1>1, <2>1, <3>2
    <3>3. CASE pc = "noise" /\ cell[2] = dir /\ cell[1] \in Span(sh, home, i)
      <4>1. noise'[cell] = draw(cell[1])
        BY <1>1, <3>3
      <4>2. FillsDone = dir - 1
        BY <3>3 DEF FillsDone
      <4>3. QED BY <1>11, <3>1, <3>3, <4>1, <4>2
    <3>4. CASE pc = "noise" /\ ~(cell[2] = dir /\ cell[1] \in Span(sh, home, i))
      <4>1. noise'[cell] = noise[cell]
        BY <1>1, <3>4
      <4>2. cell[2] = dir => SlabAt(cell[1]) # i
        <5> HIDE DEF i
        <5>1. QED BY <1>4, <3>1, <3>4, SlabOfSite
      <4>3. cell[2] = dir => (Ahead(cell[1])' <=> Ahead(cell[1]))
        BY <1>4, <4>2
      <4>4. QED BY <2>1, <3>4, <4>1, <4>3
    <3>5. QED BY <3>2, <3>3, <3>4
  <2>4. QED BY <1>1, <1>5, <2>2, <2>3 DEF NoiseInv
<1>13. LoguInv'
  <2>1. DOMAIN logu = Sites(sh) /\ DOMAIN logu' = Sites(sh)
    BY <1>1, <1>2 DEF LoguInv
  <2>2. ASSUME pc = "logu", NEW s \in Sites(sh)
        PROVE  Ahead(s)' \/ logu'[s] = DrawFor(s, FillsBefore(color))
    <3>1. Ahead(s) \/ logu[s] = DrawFor(s, FillsBefore(color))
      BY <1>2, <2>2 DEF LoguInv
    <3>2. FillsDone = FillsBefore(color)
      BY <2>2 DEF FillsDone
    <3>3. CASE s \in Span(sh, home, i)
      <4>1. logu'[s] = draw(s)
        BY <1>1, <2>2, <3>3
      <4>2. QED BY <1>11, <3>2, <3>3, <4>1
    <3>4. CASE s \notin Span(sh, home, i)
      <4>1. logu'[s] = logu[s]
        BY <1>1, <2>2, <3>4
      <4>2. SlabAt(s) # i
        <5> HIDE DEF i
        <5>1. QED BY <1>4, <3>4, SlabOfSite
      <4>3. QED BY <1>4, <3>1, <4>1, <4>2
    <3>5. QED BY <3>3, <3>4
  <2>3. QED BY <1>1, <1>5, <2>1, <2>2 DEF LoguInv
<1>14. FieldInv'
  <2>1. \A cell : Passed(cell) = expected.field[cell] /\ Passed(cell)' = expected.field[cell]
    BY <1>1 DEF Passed
  <2>2. /\ expected = [from |-> expected.from, field |-> expected.field,
                       ds |-> expected.ds, drawn |-> expected.drawn]
        /\ expected.field = [cell \in Cells |-> expected.field[cell]]
        /\ field = [cell \in Cells |-> Passed(cell)]
    BY <1>2 DEF FieldInv
  <2>3. field = [cell \in Cells |-> expected.field[cell]]
    BY <2>1, <2>2
  <2>4. QED BY <1>1, <1>5, <2>1, <2>2, <2>3 DEF FieldInv
<1>15. HeldInv'
  <2>1. \A u \in Team : held[u] = <<>>
    BY <1>1, <1>2 DEF LanesInv
  <2>2. DOMAIN held = Team
    BY <1>1, <1>2 DEF LanesInv
  <2>3. QED BY <1>1, <2>1, <2>2 DEF HeldInv
<1>16. UsedInv'
  <2>1. \A d : Old(d)' <=> Old(d)
    BY <1>1, <1>5 DEF Old
  <2>2. \A cell, c : Taken(cell, c)' <=> Taken(cell, c)
    BY <1>1, <1>5 DEF Taken
  <2>3. \A d : Spent(d)' <=> Spent(d)
    BY <1>1, <1>5, <2>2 DEF Spent
  <2>4. QED BY <1>1, <1>2, <2>1, <2>3 DEF UsedInv
<1>17. QED BY <1>6, <1>7, <1>10, <1>12, <1>13, <1>14, <1>15, <1>16 DEF SweepInv

LEMMA DriftSweep ==
  ASSUME NEW t
  PROVE  Bound /\ SweepInv /\ t \in DOMAIN todo /\ DriftSlab(t) => SweepInv'
<1> SUFFICES ASSUME Bound, SweepInv, t \in DOMAIN todo, DriftSlab(t) PROVE SweepInv'
  OBVIOUS
<1> DEFINE i == Least(todo[t])
<1>1. /\ pc = "drift" /\ pc' = pc /\ Working /\ Working' /\ todo[t] # {}
      /\ field' = [c \in Cells |-> IF c[1] \in Span(sh, home, i)
                                   THEN Drift(field[c], noise[c]) ELSE field[c]]
      /\ todo' = [todo EXCEPT ![t] = Rest(@)]
      /\ sh' = sh /\ kind' = kind /\ team' = team /\ ambient' = ambient /\ home' = home
      /\ UNCHANGED <<drawn, noise, logu, color, dir, pass, held, expected, used, moves>>
  BY BoundHome DEF DriftSlab, config, history, Working
<1>2. Stage /\ LanesInv /\ DrawnInv /\ NoiseInv /\ LoguInv /\ FieldInv /\ HeldInv /\ UsedInv
  BY DEF SweepInv
<1>3. t \in Team /\ DOMAIN todo = Team
  BY <1>1, <1>2, LanesFacts
<1>4. /\ i \in SlabIds(home)
      /\ \A s : Ahead(s)' <=> Ahead(s) /\ SlabAt(s) # i
      /\ \A s : SlabAt(s) = i => Ahead(s)
  BY <1>1, <1>2, <1>3, SlabLeft
<1>5. /\ Cells' = Cells /\ Sites(sh)' = Sites(sh) /\ SlabIds(home)' = SlabIds(home)
      /\ NColors' = NColors /\ Directions' = Directions /\ Fills' = Fills /\ Team' = Team
      /\ CheckerboardOk(sh)' = CheckerboardOk(sh)
      /\ \A s : SlabAt(s)' = SlabAt(s)
      /\ \A j : Count(sh, home, j)' = Count(sh, home, j)
      /\ \A c : DirOf(c)' = DirOf(c) /\ FillsBefore(c)' = FillsBefore(c)
      /\ \A cell, c : InColor(cell, c)' <=> InColor(cell, c)
      /\ \A s, k : DrawFor(s, k)' = DrawFor(s, k)
  <2>1. expected'.from = expected.from
    BY <1>1
  <2>2. QED BY <1>1, <2>1, Frames, DrawFrames
<1>6. Stage'
  BY <1>1, <1>2, <1>5 DEF Stage
<1>7. LanesInv'
  <2>1. /\ todo \in [Team -> SUBSET SlabIds(home)] /\ pass \in [Team -> SUBSET Sites(sh)]
        /\ DOMAIN held = Team /\ held = [u \in Team |-> held[u]]
        /\ \A u, v \in Team : u # v => todo[u] \cap todo[v] = {}
        /\ \A u \in Team : pass[u] = {} /\ held[u] = <<>>
    BY <1>1, <1>2 DEF LanesInv
  <2>2. Rest(todo[t]) \subseteq todo[t]
    BY DEF Rest
  <2>3. todo' \in [Team -> SUBSET SlabIds(home)]
    <3>1. Rest(todo[t]) \in SUBSET SlabIds(home)
      BY <1>3, <2>1, <2>2
    <3>2. QED BY <1>1, <2>1, <3>1
  <2>4. \A u, v \in Team : u # v => todo'[u] \cap todo'[v] = {}
    <3>1. \A u \in Team : todo'[u] \subseteq todo[u]
      BY <1>1, <1>3, <2>2
    <3>2. QED BY <2>1, <3>1
  <2>5. QED BY <1>1, <1>5, <2>1, <2>3, <2>4 DEF LanesInv
<1>8. DrawnInv'
  <2>1. FillsDone = 1 /\ FillsDone' = 1
    BY <1>1 DEF FillsDone
  <2>2. \A j : FillsOf(j)' = FillsOf(j)
    BY <1>1, <2>1 DEF FillsOf
  <2>3. QED BY <1>1, <1>2, <1>5, <2>2 DEF DrawnInv
<1>9. NoiseInv'
  BY <1>1, <1>2, <1>5 DEF NoiseInv
<1>10. LoguInv'
  BY <1>1, <1>2, <1>5 DEF LoguInv
<1>11. FieldInv'
  <2>1. /\ expected = [from |-> expected.from, field |-> expected.field,
                       ds |-> expected.ds, drawn |-> expected.drawn]
        /\ expected.field = [cell \in Cells |-> expected.field[cell]]
        /\ \A cell \in Cells : field[cell] = Passed(cell)
    BY <1>2 DEF FieldInv
  <2>2. \A cell : Passed(cell) = IF ~Ahead(cell[1])
                                 THEN Drift(expected.field[cell], DrawFor(cell[1], 0))
                                 ELSE expected.field[cell]
    BY <1>1 DEF Passed
  <2>3. \A cell : Passed(cell)' = IF ~Ahead(cell[1])'
                                  THEN Drift(expected.field[cell], DrawFor(cell[1], 0))
                                  ELSE expected.field[cell]
    BY <1>1, <1>5 DEF Passed
  <2>4. ASSUME NEW cell \in Cells PROVE field'[cell] = Passed(cell)'
    <3>1. /\ cell[1] \in Sites(sh) /\ cell[2] = 1 /\ cell[2] - 1 = 0
      <4>1. kind = "hmc"
        BY <1>1, <1>2 DEF Stage
      <4>2. kind # "link"
        BY <4>1
      <4>3. cell \in Sites(sh) \X {1}
        BY <4>2 DEF Cells
      <4>4. QED BY <4>3
    <3>2. noise[cell] = DrawFor(cell[1], 0)
      BY <1>1, <1>2, <3>1 DEF NoiseInv
    <3> HIDE DEF i
    <3>3. cell[1] \in Span(sh, home, i) <=> SlabAt(cell[1]) = i
      BY <1>4, <3>1, SlabOfSite
    <3>4. field'[cell] = IF SlabAt(cell[1]) = i THEN Drift(field[cell], noise[cell])
                         ELSE field[cell]
      BY <1>1, <3>3 DEF i
    <3>5. CASE SlabAt(cell[1]) = i
      BY <1>4, <2>1, <2>2, <2>3, <3>2, <3>4, <3>5
    <3>6. CASE SlabAt(cell[1]) # i
      BY <1>4, <2>1, <2>2, <2>3, <3>4, <3>6
    <3>7. QED BY <3>5, <3>6
  <2>5. field' = [cell \in Cells |-> field'[cell]]
    BY <1>1
  <2>6. field' = [cell \in Cells |-> Passed(cell)']
    BY <2>4, <2>5
  <2>7. QED BY <1>1, <1>5, <2>1, <2>6 DEF FieldInv
<1>12. HeldInv'
  <2>1. \A u \in Team : held[u] = <<>>
    BY <1>1, <1>2 DEF LanesInv
  <2>2. DOMAIN held = Team
    BY <1>1, <1>2 DEF LanesInv
  <2>3. QED BY <1>1, <2>1, <2>2 DEF HeldInv
<1>13. UsedInv'
  <2>1. \A d : Old(d)' <=> Old(d)
    BY <1>1, <1>5 DEF Old
  <2>2. \A cell, c : Taken(cell, c)' <=> Taken(cell, c)
    BY <1>1, <1>5 DEF Taken
  <2>3. \A d : Spent(d)' <=> Spent(d)
    BY <1>1, <1>5, <2>2 DEF Spent
  <2>4. QED BY <1>1, <1>2, <2>1, <2>3 DEF UsedInv
<1>14. QED BY <1>6, <1>7, <1>8, <1>9, <1>10, <1>11, <1>12, <1>13 DEF SweepInv

LEMMA TakeSweep ==
  ASSUME NEW t
  PROVE  Bound /\ SweepInv /\ t \in DOMAIN todo /\ TakeSlab(t) => SweepInv'
<1> SUFFICES ASSUME Bound, SweepInv, t \in DOMAIN todo, TakeSlab(t) PROVE SweepInv'
  OBVIOUS
<1>1. /\ pc = "color" /\ pc' = pc /\ Working /\ Working' /\ todo[t] # {} /\ pass[t] = {}
      /\ pass' = [pass EXCEPT ![t] = PassOf(P, Least(todo[t]), color)]
      /\ sh' = sh /\ kind' = kind /\ team' = team /\ ambient' = ambient /\ home' = home
      /\ UNCHANGED <<drawn, field, noise, logu, color, dir, held, expected, used, moves>>
  BY DEF TakeSlab, config, history, Working
<1>2. Stage /\ LanesInv /\ DrawnInv /\ NoiseInv /\ LoguInv /\ FieldInv /\ HeldInv /\ UsedInv
  BY DEF SweepInv
<1>3. t \in Team /\ DOMAIN todo = Team /\ DOMAIN pass = Team /\ DOMAIN held = Team
  BY <1>1, <1>2, LanesFacts
<1>4. /\ LanesInv'
      /\ \A s \in Sites(sh) : CoordSum(sh, s, Dims(sh)) % 2 = color % 2 => (Ahead(s)' <=> Ahead(s))
  BY <1>1, <1>2, <1>3, SlabTaken
<1>5. \A cell \in Cells : \A c : InColor(cell, c) /\ c % 2 = color % 2
                                   => (Ahead(cell[1])' <=> Ahead(cell[1]))
  <2>1. \A cell \in Cells : cell[1] \in Sites(sh)
    BY Shape
  <2>2. QED BY <1>4, <2>1 DEF InColor
<1>6. /\ Cells' = Cells /\ Sites(sh)' = Sites(sh) /\ SlabIds(home)' = SlabIds(home)
      /\ NColors' = NColors /\ Directions' = Directions /\ Fills' = Fills /\ Team' = Team
      /\ CheckerboardOk(sh)' = CheckerboardOk(sh)
      /\ \A s : SlabAt(s)' = SlabAt(s)
      /\ \A j : Count(sh, home, j)' = Count(sh, home, j)
      /\ \A c : DirOf(c)' = DirOf(c) /\ FillsBefore(c)' = FillsBefore(c)
      /\ \A cell, c : InColor(cell, c)' <=> InColor(cell, c)
      /\ \A cell : Places(cell)' = Places(cell)
      /\ \A cell : Neighbours(cell)' = Neighbours(cell)
      /\ \A s, k : DrawFor(s, k)' = DrawFor(s, k)
      /\ \A cell, c : Decision(cell, c)' = Decision(cell, c)
  <2>1. expected'.from = expected.from /\ expected'.field = expected.field
    BY <1>1
  <2>2. QED BY <1>1, <2>1, Frames, DrawFrames
<1>7. Stage'
  BY <1>1, <1>2, <1>6 DEF Stage
<1>8. DrawnInv'
  <2>1. FillsDone = FillsBefore(color) + 1 /\ FillsDone' = FillsBefore(color) + 1
    BY <1>1, <1>6 DEF FillsDone
  <2>2. \A j : FillsOf(j)' = FillsOf(j)
    BY <1>1, <2>1 DEF FillsOf
  <2>3. QED BY <1>1, <1>2, <1>6, <2>2 DEF DrawnInv
<1>9. NoiseInv'
  BY <1>1, <1>2, <1>6 DEF NoiseInv
<1>10. LoguInv'
  BY <1>1, <1>2, <1>6 DEF LoguInv
<1>11. FieldInv'
  <2>1. /\ expected = [from |-> expected.from, field |-> expected.field,
                       ds |-> expected.ds, drawn |-> expected.drawn]
        /\ expected.field = [cell \in Cells |-> expected.field[cell]]
        /\ field = [cell \in Cells |-> Passed(cell)]
    BY <1>2 DEF FieldInv
  <2>2. \A cell \in Cells : Passed(cell)' = Passed(cell)
    BY <1>1, <1>5, <1>6 DEF Passed
  <2>3. field' = [cell \in Cells |-> Passed(cell)']
    BY <1>1, <2>1, <2>2
  <2>4. QED BY <1>1, <1>6, <2>1, <2>3 DEF FieldInv
<1>12. HeldInv'
  <2>1. held[t] = <<>>
    BY <1>1, <1>2, <1>3 DEF LanesInv
  <2>2. \A u \in Team : u # t => pass'[u] = pass[u]
    BY <1>1, <1>3
  <2>3. \A u \in Team : u # t => CellOf(u)' = CellOf(u)
    BY <1>1, <1>6, <2>2 DEF CellOf
  <2>4. QED BY <1>1, <1>2, <1>3, <1>6, <2>1, <2>3 DEF HeldInv
<1>13. UsedInv'
  <2>1. \A d : Old(d)' <=> Old(d)
    BY <1>1, <1>6 DEF Old
  <2>2. \A cell \in Cells : \A c \in 0 .. color : Taken(cell, c)' <=> Taken(cell, c)
    <3> SUFFICES ASSUME NEW cell \in Cells, NEW c \in 0 .. color
                 PROVE  Taken(cell, c)' <=> Taken(cell, c)
      OBVIOUS
    <3>1. color \in Nat
      <4>1. color \in 0 .. NColors - 1
        BY <1>1, <1>2 DEF Stage
      <4>2. QED BY <4>1
    <3>2. c < color \/ c = color
      BY <3>1
    <3>3. CASE c < color
      BY <1>1, <1>6, <3>3 DEF Taken
    <3>4. CASE c = color
      BY <1>1, <1>5, <1>6, <3>4 DEF Taken
    <3>5. QED BY <3>2, <3>3, <3>4
  <2>3. \A d : Spent(d)' <=> Spent(d)
    BY <1>1, <1>6, <2>2 DEF Spent
  <2>4. QED BY <1>1, <1>2, <2>1, <2>3 DEF UsedInv
<1>14. QED BY <1>4, <1>7, <1>8, <1>9, <1>10, <1>11, <1>12, <1>13 DEF SweepInv

(* What is gathered is what the sequential step reads: no cell of the      *)
(* neighbourhood is of the colour, so none has changed in this pass.       *)
LEMMA GatherSweep ==
  ASSUME NEW t
  PROVE  Bound /\ SweepInv /\ t \in DOMAIN todo /\ Gather(t) => SweepInv'
<1> SUFFICES ASSUME Bound, SweepInv, t \in DOMAIN todo, Gather(t) PROVE SweepInv'
  OBVIOUS
<1> DEFINE cell == CellOf(t)
           got == [w \in DOMAIN Reads(cell) |-> field[Reads(cell)[w]]]
<1>1. /\ pc = "color" /\ pc' = pc /\ Working /\ Working' /\ pass[t] # {}
      /\ held' = [held EXCEPT ![t] = got]
      /\ sh' = sh /\ kind' = kind /\ team' = team /\ ambient' = ambient /\ home' = home
      /\ UNCHANGED <<drawn, field, noise, logu, color, dir, todo, pass, expected, used, moves>>
  BY DEF Gather, config, history, Working
<1>2. Stage /\ LanesInv /\ DrawnInv /\ NoiseInv /\ LoguInv /\ FieldInv /\ HeldInv /\ UsedInv
  BY DEF SweepInv
<1>3. t \in Team /\ DOMAIN todo = Team /\ DOMAIN pass = Team /\ DOMAIN held = Team
  BY <1>1, <1>2, LanesFacts
<1>4. /\ Cells' = Cells /\ Sites(sh)' = Sites(sh) /\ SlabIds(home)' = SlabIds(home)
      /\ NColors' = NColors /\ Directions' = Directions /\ Fills' = Fills /\ Team' = Team
      /\ CheckerboardOk(sh)' = CheckerboardOk(sh)
      /\ \A s : SlabAt(s)' = SlabAt(s)
      /\ \A j : Count(sh, home, j)' = Count(sh, home, j)
      /\ \A c : DirOf(c)' = DirOf(c) /\ FillsBefore(c)' = FillsBefore(c)
      /\ \A x, c : InColor(x, c)' <=> InColor(x, c)
      /\ \A x : Places(x)' = Places(x)
      /\ \A x : Neighbours(x)' = Neighbours(x)
      /\ \A p, i, c : PassOf(p, i, c)' = PassOf(p, i, c)
      /\ \A s, k : DrawFor(s, k)' = DrawFor(s, k)
      /\ \A x, c : Decision(x, c)' = Decision(x, c)
  <2>1. expected'.from = expected.from /\ expected'.field = expected.field
    BY <1>1
  <2>2. QED BY <1>1, <2>1, Frames, DrawFrames
<1>5. \A s : Ahead(s)' <=> Ahead(s)
  BY <1>1, <1>4 DEF Ahead
<1>6. Stage'
  BY <1>1, <1>2, <1>4 DEF Stage
<1>7. LanesInv'
  <2>1. DOMAIN held' = Team /\ held' = [u \in Team |-> held'[u]]
        /\ \A u \in Team : u # t => held'[u] = held[u]
    BY <1>1, <1>2, <1>3 DEF LanesInv
  <2> HIDE DEF got
  <2>2. \A u \in Team : held'[u] # <<>> => pass[u] # {}
    BY <1>1, <1>2, <2>1 DEF LanesInv
  <2>3. QED BY <1>1, <1>2, <1>4, <2>1, <2>2 DEF LanesInv
<1>8. DrawnInv'
  <2>1. FillsDone = FillsBefore(color) + 1 /\ FillsDone' = FillsBefore(color) + 1
    BY <1>1, <1>4 DEF FillsDone
  <2>2. \A j : FillsOf(j)' = FillsOf(j)
    BY <1>1, <2>1 DEF FillsOf
  <2>3. QED BY <1>1, <1>2, <1>4, <2>2 DEF DrawnInv
<1>9. NoiseInv'
  BY <1>1, <1>2, <1>4 DEF NoiseInv
<1>10. LoguInv'
  BY <1>1, <1>2, <1>4 DEF LoguInv
<1>11. FieldInv'
  <2>1. \A x : Passed(x)' = Passed(x)
    BY <1>1, <1>4, <1>5 DEF Passed
  <2>2. QED BY <1>1, <1>2, <1>4, <2>1 DEF FieldInv
<1>12. /\ cell \in Cells /\ InColor(cell, color) /\ cell[1] \in Sites(sh)
  BY <1>1, <1>2, <1>3, CellFacts
<1>13. got = [w \in Places(cell) |-> expected.field[Neighbours(cell)[w]]]
  <2>1. Reads(cell) = Neighbours(cell)
    <3>1. cell = <<cell[1], cell[2]>> /\ cell[2] \in Dims(sh)
      BY <1>12, CellDirection
    <3> HIDE DEF cell
    <3>2. Reads(<<cell[1], cell[2]>>) = Neighbours(<<cell[1], cell[2]>>)
      BY <1>12, <3>1, Shape, ReadsAreNeighbours
    <3>3. QED BY <3>1, <3>2
  <2>2. DOMAIN Neighbours(cell) = Places(cell)
    BY DEF Neighbours
  <2>3. CheckerboardOk(sh)
    BY <1>1, <1>2 DEF Stage
  <2> HIDE DEF cell
  <2>4. \A w \in Places(cell) : /\ Neighbours(cell)[w] \in Cells
                                /\ ~InColor(Neighbours(cell)[w], color)
    BY <1>12, <2>3, Shape, NeighboursOutside
  <2>5. \A x \in Cells : ~InColor(x, color) => field[x] = expected.field[x]
    <3>1. \A x \in Cells : field[x] = Passed(x)
      BY <1>2 DEF FieldInv
    <3>2. \A x : ~InColor(x, color) => Passed(x) = expected.field[x]
      BY <1>1 DEF Passed
    <3>3. QED BY <3>1, <3>2
  <2>6. \A w \in Places(cell) : field[Neighbours(cell)[w]] = expected.field[Neighbours(cell)[w]]
    BY <2>4, <2>5
  <2>7. got = [w \in Places(cell) |-> field[Neighbours(cell)[w]]]
    BY <2>1, <2>2
  <2>8. QED BY <2>6, <2>7
<1>14. HeldInv'
  <2>1. \A u : CellOf(u)' = CellOf(u)
    BY <1>1, <1>4 DEF CellOf
  <2>2. \A u \in Team : u # t => held'[u] = held[u]
    BY <1>1, <1>2, <1>3 DEF LanesInv
  <2>3. held'[t] = got
    BY <1>1, <1>3
  <2>4. ASSUME NEW u \in Team, held'[u] # <<>>
        PROVE  held'[u] = [w \in Places(CellOf(u)) |-> expected.field[Neighbours(CellOf(u))[w]]]
    <3>1. CASE u = t
      BY <1>13, <2>3, <3>1
    <3>2. CASE u # t
      BY <1>2, <1>3, <2>2, <2>4, <3>2 DEF HeldInv
    <3>3. QED BY <3>1, <3>2
  <2>5. DOMAIN held' = Team
    BY <1>1, <1>3
  <2>6. QED BY <1>1, <1>4, <2>1, <2>4, <2>5 DEF HeldInv
<1>15. UsedInv'
  <2>1. \A d : Old(d)' <=> Old(d)
    BY <1>1, <1>4 DEF Old
  <2>2. \A x, c : Taken(x, c)' <=> Taken(x, c)
    BY <1>1, <1>4, <1>5 DEF Taken
  <2>3. \A d : Spent(d)' <=> Spent(d)
    BY <1>1, <1>4, <2>2 DEF Spent
  <2>4. QED BY <1>1, <1>2, <2>1, <2>3 DEF UsedInv
<1>16. QED BY <1>6, <1>7, <1>8, <1>9, <1>10, <1>11, <1>14, <1>15 DEF SweepInv

(* A decision is the one the sequential step takes there: the cell still   *)
(* has its value, the noise and the threshold are its own, and what was    *)
(* read has not changed since.                                             *)
LEMMA DecisionDue ==
  ASSUME Bound, SweepInv, Working, NEW t \in Team, held[t] # <<>>
  PROVE  LET cell == CellOf(t) IN
         /\ cell \in Cells /\ InColor(cell, color) /\ cell[1] \in Sites(sh)
         /\ Ahead(cell[1]) =>
              /\ noise[cell] = DrawFor(cell[1], cell[2] - 1)
              /\ logu[cell[1]] = DrawFor(cell[1], FillsBefore(color))
              /\ Move(field[cell], held[t], noise[cell], logu[cell[1]]) = Decision(cell, color)
<1>1. Stage /\ LanesInv /\ NoiseInv /\ LoguInv /\ FieldInv /\ HeldInv
  BY DEF SweepInv
<1>2. pass[t] # {} /\ pc = "color" /\ DOMAIN held = Team
  BY <1>1 DEF LanesInv
<1> DEFINE cell == CellOf(t)
<1>3. /\ cell \in Cells /\ InColor(cell, color) /\ cell[1] \in Sites(sh)
  BY <1>1, <1>2, CellFacts
<1>4. held[t] = [w \in Places(cell) |-> expected.field[Neighbours(cell)[w]]]
  BY <1>1, <1>2 DEF HeldInv
<1> HIDE DEF cell
<1>5. noise[cell] = DrawFor(cell[1], cell[2] - 1)
  BY <1>1, <1>2, <1>3 DEF NoiseInv
<1>6. logu[cell[1]] = DrawFor(cell[1], FillsBefore(color))
  BY <1>1, <1>2, <1>3 DEF LoguInv
<1>7. ASSUME Ahead(cell[1]) PROVE field[cell] = expected.field[cell]
  <2>1. field[cell] = Passed(cell)
    BY <1>1, <1>3 DEF FieldInv
  <2>2. Passed(cell) = expected.field[cell]
    BY <1>2, <1>7 DEF Passed
  <2>3. QED BY <2>1, <2>2
<1>8. DOMAIN Neighbours(cell) = Places(cell)
  BY DEF Neighbours
<1>9. ASSUME Ahead(cell[1])
      PROVE  Move(field[cell], held[t], noise[cell], logu[cell[1]]) = Decision(cell, color)
  <2>1. held[t] = [w \in DOMAIN Neighbours(cell) |-> expected.field[Neighbours(cell)[w]]]
    BY <1>4, <1>8
  <2>2. field[cell] = expected.field[cell]
    BY <1>7, <1>9
  <2>3. QED BY <1>5, <1>6, <2>1, <2>2 DEF Decision
<1>10. QED BY <1>3, <1>5, <1>6, <1>9 DEF cell

LEMMA DecideSweep ==
  ASSUME NEW t
  PROVE  Bound /\ SweepInv /\ t \in DOMAIN todo /\ Decide(t) => SweepInv'
<1> SUFFICES ASSUME Bound, SweepInv, t \in DOMAIN todo, Decide(t) PROVE SweepInv'
  OBVIOUS
<1> DEFINE cell == CellOf(t)
           m == Move(field[cell], held[t], noise[cell], logu[cell[1]])
<1>1. /\ pc = "color" /\ pc' = pc /\ Working /\ Working' /\ held[t] # <<>>
      /\ field' = [field EXCEPT ![cell] = m.v]
      /\ used' = used \cup {noise[cell], logu[cell[1]]} /\ moves' = moves + 1
      /\ held' = [held EXCEPT ![t] = <<>>] /\ pass' = [pass EXCEPT ![t] = Rest(@)]
      /\ sh' = sh /\ kind' = kind /\ team' = team /\ ambient' = ambient /\ home' = home
      /\ UNCHANGED <<drawn, noise, logu, color, dir, expected>>
  BY DEF Decide, config, Working
<1>2. Stage /\ LanesInv /\ DrawnInv /\ NoiseInv /\ LoguInv /\ FieldInv /\ HeldInv /\ UsedInv
  BY DEF SweepInv
<1>3. t \in Team /\ DOMAIN todo = Team /\ DOMAIN pass = Team /\ DOMAIN held = Team
  BY <1>1, <1>2, LanesFacts
<1>4. pass[t] # {}
  BY <1>1, <1>2, <1>3 DEF LanesInv
<1>5. /\ cell = <<Least(pass[t]), DirOf(color)>> /\ cell[2] = DirOf(color)
      /\ cell[1] = Least(pass[t])
      /\ cell \in Cells /\ InColor(cell, color) /\ cell[1] \in Sites(sh)
  BY <1>1, <1>2, <1>3, <1>4, CellFacts
<1>6. /\ LanesInv' /\ Ahead(cell[1])
      /\ \A s \in Sites(sh) : Ahead(s)' <=> Ahead(s) /\ s # cell[1]
  BY <1>1, <1>2, <1>3, <1>5, SiteDecided
<1>7. /\ noise[cell] = DrawFor(cell[1], cell[2] - 1)
      /\ logu[cell[1]] = DrawFor(cell[1], FillsBefore(color))
      /\ m = Decision(cell, color)
  BY <1>1, <1>3, <1>6, DecisionDue
<1>8. /\ Cells' = Cells /\ Sites(sh)' = Sites(sh) /\ SlabIds(home)' = SlabIds(home)
      /\ NColors' = NColors /\ Directions' = Directions /\ Fills' = Fills /\ Team' = Team
      /\ CheckerboardOk(sh)' = CheckerboardOk(sh)
      /\ \A s : SlabAt(s)' = SlabAt(s)
      /\ \A j : Count(sh, home, j)' = Count(sh, home, j)
      /\ \A c : DirOf(c)' = DirOf(c) /\ FillsBefore(c)' = FillsBefore(c)
      /\ \A x, c : InColor(x, c)' <=> InColor(x, c)
      /\ \A x : Places(x)' = Places(x)
      /\ \A x : Neighbours(x)' = Neighbours(x)
      /\ \A s, k : DrawFor(s, k)' = DrawFor(s, k)
      /\ \A x, c : Decision(x, c)' = Decision(x, c)
  <2>1. expected'.from = expected.from /\ expected'.field = expected.field
    BY <1>1
  <2>2. QED BY <1>1, <2>1, Frames, DrawFrames
<1>9. \A x \in Cells : x = <<x[1], x[2]>> /\ x[1] \in Sites(sh)
  BY FillsOrder, 0 \in Nat
<1>10. \A x \in Cells : InColor(x, color) /\ x # cell => x[1] # cell[1]
  BY <1>5, <1>9 DEF InColor
<1>11. Stage'
  BY <1>1, <1>2, <1>8 DEF Stage
<1>12. DrawnInv'
  <2>1. FillsDone = FillsBefore(color) + 1 /\ FillsDone' = FillsBefore(color) + 1
    BY <1>1, <1>8 DEF FillsDone
  <2>2. \A j : FillsOf(j)' = FillsOf(j)
    BY <1>1, <2>1 DEF FillsOf
  <2>3. QED BY <1>1, <1>2, <1>8, <2>2 DEF DrawnInv
<1>13. NoiseInv'
  BY <1>1, <1>2, <1>8 DEF NoiseInv
<1>14. LoguInv'
  BY <1>1, <1>2, <1>8 DEF LoguInv
<1>15. FieldInv'
  <2>1. /\ expected = [from |-> expected.from, field |-> expected.field,
                       ds |-> expected.ds, drawn |-> expected.drawn]
        /\ expected.field = [x \in Cells |-> expected.field[x]]
        /\ field = [x \in Cells |-> Passed(x)]
    BY <1>2 DEF FieldInv
  <2> HIDE DEF cell, m
  <2>2. field' = [x \in Cells |-> field'[x]]
    BY <1>1, <2>1
  <2>3. \A x : Passed(x) = IF InColor(x, color) /\ ~Ahead(x[1]) THEN Decision(x, color).v
                           ELSE expected.field[x]
    BY <1>1 DEF Passed
  <2>4. \A x : Passed(x)' = IF InColor(x, color) /\ ~Ahead(x[1])' THEN Decision(x, color).v
                            ELSE expected.field[x]
    BY <1>1, <1>8 DEF Passed
  <2>5. ASSUME NEW x \in Cells PROVE field'[x] = Passed(x)'
    <3>1. CASE x = cell
      <4>1. field'[x] = Decision(x, color).v
        BY <1>1, <1>5, <1>7, <2>1, <3>1
      <4>2. ~Ahead(x[1])' /\ InColor(x, color)
        BY <1>5, <1>6, <3>1
      <4>3. QED BY <2>4, <4>1, <4>2
    <3>2. CASE x # cell
      <4>1. field'[x] = Passed(x)
        BY <1>1, <2>1, <3>2
      <4>2. InColor(x, color) => (Ahead(x[1])' <=> Ahead(x[1]))
        BY <1>6, <1>9, <1>10, <3>2
      <4>3. QED BY <2>3, <2>4, <4>1, <4>2
    <3>3. QED BY <3>1, <3>2
  <2>6. field' = [x \in Cells |-> Passed(x)']
    BY <2>2, <2>5
  <2>7. QED BY <1>1, <1>8, <2>1, <2>6 DEF FieldInv
<1>16. HeldInv'
  <2>1. held'[t] = <<>> /\ DOMAIN held' = Team
    BY <1>1, <1>3
  <2>2. \A u \in Team : u # t => held'[u] = held[u] /\ CellOf(u)' = CellOf(u)
    <3>1. \A u \in Team : u # t => held'[u] = held[u] /\ pass'[u] = pass[u]
      BY <1>1, <1>3
    <3>2. QED BY <1>1, <1>8, <3>1 DEF CellOf
  <2>3. QED BY <1>1, <1>2, <1>3, <1>8, <2>1, <2>2 DEF HeldInv
<1>17. UsedInv'
  <2> DEFINE a == DrawFor(cell[1], cell[2] - 1)
             b == DrawFor(cell[1], FillsBefore(color))
  <2>1. /\ IsFiniteSet(used) /\ moves \in Nat /\ Cardinality(used) = 2 * moves
        /\ \A d \in used : Old(d) \/ Spent(d)
    BY <1>2 DEF UsedInv
  <2>2. used' = (used \cup {a}) \cup {b}
    BY <1>1, <1>7
  <2>3. expected.from \in [SlabIds(home) -> Nat]
    BY <1>1, <1>2 DEF DrawnInv
  <2>4. /\ color \in 0 .. NColors - 1 /\ color \in Nat /\ NColors \in Nat
    <3>1. color \in 0 .. NColors - 1 /\ NColors \in Nat
      BY <1>1, <1>2, Shape DEF Stage
    <3>2. QED BY <3>1
  <2> HIDE DEF cell, m
  <2>5. /\ cell[2] - 1 \in Nat /\ FillsBefore(color) \in Nat /\ cell[2] - 1 < FillsBefore(color)
    BY <1>5, <2>4, FillsOrder
  <2>6. ASSUME NEW k \in Nat PROVE ~Old(DrawFor(cell[1], k))
    <3>1. DrawFor(cell[1], k)[1] \in SlabIds(home) /\ DrawFor(cell[1], k)[2] \in Nat
          /\ DrawFor(cell[1], k)[2] > expected.from[DrawFor(cell[1], k)[1]]
      <4>1. k < k + 1 /\ k + 1 \in Nat
        OBVIOUS
      <4>2. QED BY <1>5, <2>3, <4>1, DrawsWithin
    <3>2. expected.from[DrawFor(cell[1], k)[1]] \in Nat
      BY <2>3, <3>1
    <3>3. QED BY <1>1, <3>1, <3>2 DEF Old
  <2>7. ASSUME NEW d \in DrawsOf(cell, color) PROVE ~Spent(d)
    <3>1. SUFFICES ASSUME NEW x \in Cells, NEW c \in 0 .. color, Taken(x, c), d \in DrawsOf(x, c)
                   PROVE  FALSE
      BY DEF Spent, DrawsOf
    <3>2. InColor(x, c) /\ (c < color \/ ~Ahead(x[1])) /\ c \in 0 .. NColors - 1
      BY <2>4, <3>1 DEF Taken
    <3>3. x = cell /\ c = color
      BY <1>5, <2>3, <2>4, <3>1, <3>2, DrawsApart
    <3>4. QED BY <1>6, <2>4, <3>2, <3>3
  <2>8. a \notin used /\ b \notin used
    <3>1. a \in DrawsOf(cell, color) /\ b \in DrawsOf(cell, color)
      BY DEF DrawsOf
    <3>2. QED BY <2>1, <2>5, <2>6, <2>7, <3>1
  <2>9. a # b
    <3>1. SUFFICES ASSUME a = b PROVE FALSE
      OBVIOUS
    <3>2. cell[2] - 1 = FillsBefore(color)
      BY <1>5, <2>3, <2>5, <3>1, DrawsDiffer
    <3>3. QED BY <2>5, <3>2
  <2>10. ASSUME NEW d PROVE (Old(d) => Old(d)') /\ (Spent(d) => Spent(d)')
    <3>1. Old(d)' <=> Old(d)
      BY <1>1, <1>8 DEF Old
    <3>2. \A x \in Cells : \A c : Taken(x, c) => Taken(x, c)'
      BY <1>1, <1>6, <1>8, <1>9 DEF Taken
    <3>3. Spent(d) => Spent(d)'
      BY <1>1, <1>8, <3>2 DEF Spent
    <3>4. QED BY <3>1, <3>3
  <2>11. ASSUME NEW d \in {a, b} PROVE Spent(d)'
    <3>1. ASSUME NEW x \in Cells, x = cell PROVE Taken(x, color)'
      BY <1>1, <1>5, <1>6, <1>8, <3>1 DEF Taken
    <3>2. color \in 0 .. color
      BY <2>4
    <3>3. \E x \in Cells : Taken(x, color)' /\ d \in DrawsOf(x, color)
      BY <1>5, <2>11, <3>1 DEF DrawsOf
    <3>4. QED BY <1>1, <1>8, <3>2, <3>3 DEF Spent, DrawsOf
  <2> HIDE DEF a, b
  <2>12. IsFiniteSet(used') /\ Cardinality(used') = 2 * moves'
    <3>1. IsFiniteSet(used \cup {a}) /\ Cardinality(used \cup {a}) = Cardinality(used) + 1
      BY <2>1, <2>8, FS_AddElement
    <3>2. b \notin used \cup {a}
      BY <2>8, <2>9
    <3>3. /\ IsFiniteSet((used \cup {a}) \cup {b})
          /\ Cardinality((used \cup {a}) \cup {b}) = Cardinality(used \cup {a}) + 1
      BY <3>1, <3>2, FS_AddElement
    <3>4. Cardinality(used') = (2 * moves + 1) + 1 /\ moves' = moves + 1
      BY <1>1, <2>1, <2>2, <3>1, <3>3
    <3>5. Cardinality(used') = 2 * moves'
      BY <2>1, <3>4
    <3>6. QED BY <2>2, <3>3, <3>5
  <2>13. moves' \in Nat
    BY <1>1, <2>1
  <2>14. \A d \in used' : Old(d)' \/ Spent(d)'
    BY <2>1, <2>2, <2>10, <2>11
  <2>15. QED BY <2>12, <2>13, <2>14 DEF UsedInv
<1>18. QED BY <1>6, <1>11, <1>12, <1>13, <1>14, <1>15, <1>16, <1>17 DEF SweepInv

LEMMA FilledSweep == Bound /\ SweepInv /\ Filled => SweepInv'
<1> SUFFICES ASSUME Bound, SweepInv, Filled PROVE SweepInv'
  OBVIOUS
<1>1. /\ pc = "noise" /\ Joined /\ Working /\ Opened(home) /\ Working'
      /\ \/ dir < Directions /\ pc' = "noise" /\ dir' = dir + 1
         \/ ~(dir < Directions) /\ dir' = dir /\ pc' = IF kind = "hmc" THEN "drift" ELSE "logu"
      /\ sh' = sh /\ kind' = kind /\ team' = team /\ ambient' = ambient /\ home' = home
      /\ UNCHANGED <<drawn, field, noise, logu, color, expected, used, moves>>
  BY BoundHome DEF Filled, Entered, Directions, config, history, Working
<1>2. Stage /\ LanesInv /\ DrawnInv /\ NoiseInv /\ LoguInv /\ FieldInv /\ HeldInv /\ UsedInv
  BY DEF SweepInv
<1>3. /\ LanesInv' /\ HeldInv'
      /\ \A i \in SlabIds(home) : Waiting(i)'
      /\ \A s \in Sites(sh) : Ahead(s)'
  BY <1>1, RegionOpened
<1>4. (\A s : ~Ahead(s)) /\ (\A i : ~Waiting(i))
  BY <1>1, <1>2, NothingAhead
<1>5. /\ Cells' = Cells /\ Sites(sh)' = Sites(sh) /\ SlabIds(home)' = SlabIds(home)
      /\ NColors' = NColors /\ Directions' = Directions /\ Fills' = Fills
      /\ CheckerboardOk(sh)' = CheckerboardOk(sh)
      /\ \A i : Count(sh, home, i)' = Count(sh, home, i)
      /\ \A c : FillsBefore(c)' = FillsBefore(c)
      /\ \A x, c : InColor(x, c)' <=> InColor(x, c)
      /\ \A s, k : DrawFor(s, k)' = DrawFor(s, k)
  <2>1. expected'.from = expected.from
    BY <1>1
  <2>2. QED BY <1>1, <2>1, Frames, DrawFrames
<1>6. /\ dir \in 1 .. Directions /\ color = 0 /\ dir \in Nat /\ Directions \in Nat
      /\ \/ dir < Directions /\ pc' = "noise" /\ dir' = dir + 1
         \/ dir = Directions /\ dir' = dir /\ pc' = IF kind = "hmc" THEN "drift" ELSE "logu"
  <2>1. dir \in 1 .. Directions /\ color = 0 /\ Directions \in 1 .. 4
    BY <1>1, <1>2, Shape DEF Stage
  <2>2. QED BY <1>1, <2>1
<1>7. Stage'
  <2>1. dir' \in 1 .. Directions
    BY <1>6
  <2>2. QED BY <1>1, <1>2, <1>5, <1>6, <2>1 DEF Stage
<1>8. DrawnInv'
  <2>1. \A i \in SlabIds(home) : FillsOf(i) = dir
    <3>1. FillsDone = dir - 1
      BY <1>1 DEF FillsDone
    <3>2. \A i : FillsOf(i) = FillsDone + 1
      BY <1>1, <1>4 DEF FillsOf
    <3>3. QED BY <1>6, <3>1, <3>2
  <2>2. FillsDone' = dir
    <3>1. CASE dir < Directions /\ pc' = "noise" /\ dir' = dir + 1
      BY <1>6, <3>1 DEF FillsDone
    <3>2. CASE dir = Directions /\ dir' = dir /\ pc' = IF kind = "hmc" THEN "drift" ELSE "logu"
      <4>1. CASE kind = "hmc"
        <5>1. Directions = 1 /\ FillsDone' = 1
          BY <3>2, <4>1 DEF Directions, FillsDone
        <5>2. QED BY <3>2, <5>1
      <4>2. CASE kind # "hmc"
        <5>1. FillsDone' = FillsBefore(0)
          BY <1>1, <1>5, <1>6, <3>2, <4>2 DEF FillsDone
        <5>2. FillsBefore(0) = IF kind = "link" THEN Directions + 0 ELSE 1
          BY Shape
        <5>3. FillsBefore(0) = Directions
          BY <1>6, <5>2 DEF Directions
        <5>4. QED BY <3>2, <5>1, <5>3
      <4>3. QED BY <4>1, <4>2
    <3>3. QED BY <1>6, <3>1, <3>2
  <2>3. \A i \in SlabIds(home) : FillsOf(i)' = FillsOf(i)
    BY <1>3, <2>1, <2>2 DEF FillsOf
  <2>4. QED BY <1>1, <1>2, <1>5, <2>3 DEF DrawnInv
<1>9. NoiseInv'
  <2>1. ASSUME NEW x \in Cells
        PROVE  \/ pc' = "noise" /\ (x[2] > dir' \/ (x[2] = dir' /\ Ahead(x[1])'))
               \/ noise[x] = DrawFor(x[1], x[2] - 1)
    <3>1. x[1] \in Sites(sh) /\ x[2] \in Int /\ x[2] <= Directions
      <4>1. Cells = Sites(sh) \X (1 .. Directions)
        BY Shape
      <4>2. QED BY <1>6, <4>1
    <3>2. x[2] > dir \/ noise[x] = DrawFor(x[1], x[2] - 1)
      BY <1>1, <1>2, <1>4 DEF NoiseInv
    <3>3. Ahead(x[1])'
      BY <1>3, <3>1
    <3>4. QED BY <1>6, <3>1, <3>2, <3>3
  <2>2. QED BY <1>1, <1>2, <1>5, <2>1 DEF NoiseInv
<1>10. LoguInv'
  BY <1>1, <1>2, <1>3, <1>5, <1>6 DEF LoguInv
<1>11. FieldInv'
  <2>1. \A x : Passed(x) = expected.field[x]
    BY <1>1 DEF Passed
  <2>2. \A x \in Cells : x[1] \in Sites(sh)
    BY FillsOrder, 0 \in Nat
  <2>3. \A x \in Cells : Passed(x)' = expected.field[x]
    BY <1>1, <1>3, <2>2 DEF Passed
  <2>4. field = [x \in Cells |-> Passed(x)']
    BY <1>2, <2>1, <2>3 DEF FieldInv
  <2>5. QED BY <1>1, <1>2, <1>5, <2>4 DEF FieldInv
<1>12. UsedInv'
  <2>1. \A d : Old(d)' <=> Old(d)
    BY <1>1, <1>5 DEF Old
  <2>2. \A x, c : Taken(x, c)' <=> Taken(x, c)
    BY <1>1, <1>5 DEF Taken
  <2>3. \A d : Spent(d)' <=> Spent(d)
    BY <1>1, <1>5, <2>2 DEF Spent
  <2>4. QED BY <1>1, <1>2, <2>1, <2>3 DEF UsedInv
<1>13. QED BY <1>3, <1>7, <1>8, <1>9, <1>10, <1>11, <1>12 DEF SweepInv

LEMMA ThresholdedSweep == Bound /\ SweepInv /\ Thresholded => SweepInv'
<1> SUFFICES ASSUME Bound, SweepInv, Thresholded PROVE SweepInv'
  OBVIOUS
<1>1. /\ pc = "logu" /\ pc' = "color" /\ Joined /\ Working /\ Opened(home) /\ Working'
      /\ sh' = sh /\ kind' = kind /\ team' = team /\ ambient' = ambient /\ home' = home
      /\ UNCHANGED <<drawn, field, noise, logu, color, dir, expected, used, moves>>
  BY BoundHome DEF Thresholded, Entered, config, history, Working
<1>2. Stage /\ LanesInv /\ DrawnInv /\ NoiseInv /\ LoguInv /\ FieldInv /\ HeldInv /\ UsedInv
  BY DEF SweepInv
<1>3. /\ LanesInv' /\ HeldInv'
      /\ \A i \in SlabIds(home) : Waiting(i)'
      /\ \A s \in Sites(sh) : Ahead(s)'
  BY <1>1, RegionOpened
<1>4. (\A s : ~Ahead(s)) /\ (\A i : ~Waiting(i))
  BY <1>1, <1>2, NothingAhead
<1>5. /\ Cells' = Cells /\ Sites(sh)' = Sites(sh) /\ SlabIds(home)' = SlabIds(home)
      /\ NColors' = NColors /\ Directions' = Directions /\ Fills' = Fills
      /\ CheckerboardOk(sh)' = CheckerboardOk(sh)
      /\ \A i : Count(sh, home, i)' = Count(sh, home, i)
      /\ \A c : FillsBefore(c)' = FillsBefore(c)
      /\ \A x, c : InColor(x, c)' <=> InColor(x, c)
      /\ \A s, k : DrawFor(s, k)' = DrawFor(s, k)
  <2>1. expected'.from = expected.from
    BY <1>1
  <2>2. QED BY <1>1, <2>1, Frames, DrawFrames
<1>6. \A x \in Cells : x[1] \in Sites(sh)
  BY FillsOrder, 0 \in Nat
<1>7. Stage'
  BY <1>1, <1>2, <1>5 DEF Stage
<1>8. DrawnInv'
  <2>1. \A i : FillsOf(i) = FillsBefore(color) + 1
    BY <1>1, <1>4 DEF FillsOf, FillsDone
  <2>2. \A i : FillsOf(i)' = FillsBefore(color) + 1
    BY <1>1, <1>5 DEF FillsOf, FillsDone
  <2>3. QED BY <1>1, <1>2, <1>5, <2>1, <2>2 DEF DrawnInv
<1>9. NoiseInv'
  BY <1>1, <1>2, <1>5 DEF NoiseInv
<1>10. LoguInv'
  BY <1>1, <1>2, <1>4, <1>5 DEF LoguInv
<1>11. FieldInv'
  <2>1. \A x : Passed(x) = expected.field[x]
    BY <1>1 DEF Passed
  <2>2. \A x \in Cells : Passed(x)' = expected.field[x]
    BY <1>1, <1>3, <1>6 DEF Passed
  <2>3. field = [x \in Cells |-> Passed(x)']
    BY <1>2, <2>1, <2>2 DEF FieldInv
  <2>4. QED BY <1>1, <1>2, <1>5, <2>3 DEF FieldInv
<1>12. UsedInv'
  <2>1. \A d : Old(d)' <=> Old(d)
    BY <1>1, <1>5 DEF Old
  <2>2. \A x \in Cells : \A c : Taken(x, c)' <=> Taken(x, c)
    BY <1>1, <1>3, <1>5, <1>6 DEF Taken
  <2>3. \A d : Spent(d)' <=> Spent(d)
    BY <1>1, <1>5, <2>2 DEF Spent
  <2>4. QED BY <1>1, <1>2, <2>1, <2>3 DEF UsedInv
<1>13. QED BY <1>3, <1>7, <1>8, <1>9, <1>10, <1>11, <1>12 DEF SweepInv

(* The draws of a step lie within what its fills have drawn.               *)
LEMMA SpentWithin ==
  ASSUME Bound, Stage, DrawnInv, Working, pc = "color", \A s : ~Ahead(s),
         NEW d, Old(d) \/ Spent(d)
  PROVE  d = <<d[1], d[2]>> /\ d[1] \in SlabIds(home) /\ d[2] \in Nat /\ d[2] <= drawn[d[1]]
<1>1. /\ expected.from \in [SlabIds(home) -> Nat] /\ drawn \in [SlabIds(home) -> Nat]
      /\ color \in Nat
      /\ \A i \in SlabIds(home) :
           drawn[i] = expected.from[i] + (FillsBefore(color) + 1) * Count(sh, home, i)
  <2>1. color \in 0 .. NColors - 1
    BY DEF Stage
  <2>2. \A i : FillsOf(i) = FillsBefore(color) + 1
    BY DEF FillsOf, FillsDone
  <2>3. QED BY <2>1, <2>2 DEF DrawnInv
<1>2. CASE Old(d)
  <2>1. d = <<d[1], d[2]>> /\ d[1] \in SlabIds(home) /\ d[2] \in Nat /\ d[2] <= expected.from[d[1]]
    BY <1>2 DEF Old
  <2>2. Count(sh, home, d[1]) \in Nat /\ FillsBefore(color) + 1 \in Nat
    <3>1. FillsBefore(color) \in Nat
      BY <1>1, Shape
    <3>2. QED BY <2>1, <3>1, CountsNat
  <2>3. (FillsBefore(color) + 1) * Count(sh, home, d[1]) \in Nat
    BY <2>2
  <2>4. expected.from[d[1]] \in Nat
    BY <1>1, <2>1
  <2>5. QED BY <1>1, <2>1, <2>3, <2>4
<1>3. CASE Spent(d)
  <2>1. PICK x \in Cells : \E c \in 0 .. color : d \in DrawsOf(x, c)
    BY <1>3 DEF Spent, DrawsOf
  <2>2. PICK c \in 0 .. color : d \in DrawsOf(x, c)
    BY <2>1
  <2>3. c \in Nat /\ c <= color
    BY <1>1
  <2>4. /\ x[1] \in Sites(sh) /\ x[2] - 1 \in Nat /\ FillsBefore(c) \in Nat
        /\ FillsBefore(color) \in Nat /\ x[2] - 1 < FillsBefore(color)
    BY <1>1, <2>3, FillsOrder
  <2>5. FillsBefore(c) <= FillsBefore(color)
    <3>1. CASE kind = "link"
      <4>1. FillsBefore(c) = Directions + c /\ FillsBefore(color) = Directions + color
            /\ Directions \in 1 .. 4
        BY <1>1, <2>3, <3>1, Shape
      <4>2. QED BY <1>1, <2>3, <4>1
    <3>2. CASE kind # "link"
      <4>1. FillsBefore(c) = 1 /\ FillsBefore(color) = 1
        BY <1>1, <2>3, <3>2, Shape
      <4>2. QED BY <4>1
    <3>3. QED BY <3>1, <3>2
  <2>6. PICK k \in {x[2] - 1, FillsBefore(c)} : d = DrawFor(x[1], k)
    BY <2>2 DEF DrawsOf
  <2>7. k \in Nat /\ FillsBefore(color) + 1 \in Nat /\ k < FillsBefore(color) + 1
    BY <2>4, <2>5, <2>6
  <2>8. QED BY <1>1, <2>4, <2>6, <2>7, DrawsWithin
<1>4. QED BY <1>2, <1>3

LEMMA ColoredSweep == Bound /\ SweepInv /\ Colored => SweepInv'
<1> SUFFICES ASSUME Bound, SweepInv, Colored PROVE SweepInv'
  OBVIOUS
<1>1. /\ pc = "color" /\ Joined /\ Working /\ color' = color + 1 /\ expected' = ExpectedColor
      /\ \/ color + 1 < NColors /\ Opened(home) /\ pc' = (IF kind = "link" THEN "logu" ELSE "color")
         \/ ~(color + 1 < NColors) /\ pc' = "idle" /\ Closed
      /\ sh' = sh /\ kind' = kind /\ team' = team /\ ambient' = ambient /\ home' = home
      /\ UNCHANGED <<drawn, field, noise, logu, dir, used, moves>>
  BY BoundHome DEF Colored, Entered, Idle, PerColor, config, Working
<1>2. Stage /\ LanesInv /\ DrawnInv /\ NoiseInv /\ LoguInv /\ FieldInv /\ HeldInv /\ UsedInv
  BY DEF SweepInv
<1>3. (\A s : ~Ahead(s)) /\ (\A i : ~Waiting(i))
  BY <1>1, <1>2, NothingAhead
<1>4. expected = [from |-> expected.from, field |-> expected.field,
                  ds |-> expected.ds, drawn |-> expected.drawn]
  BY <1>2 DEF FieldInv
<1>5. expected'.from = expected.from /\ expected'.drawn = expected.drawn
      /\ expected' = [from |-> expected'.from, field |-> expected'.field,
                      ds |-> expected'.ds, drawn |-> expected'.drawn]
      /\ expected'.field =
           [x \in Cells |-> IF InColor(x, color) THEN Decision(x, color).v ELSE expected.field[x]]
  <2> DEFINE made == [x \in {y \in Cells : InColor(y, color)} |-> Decision(x, color)]
             slab(i) == RunningSum(Terms, Base(home, i), Count(sh, home, i))
             total == Plus(expected.ds,
                           FoldLeft(Plus, Zero, [i \in 1 .. home.items |-> slab(i - 1)]))
             after == [x \in Cells |-> IF x \in DOMAIN made THEN made[x].v ELSE expected.field[x]]
  <2>1. after = [x \in Cells |-> IF InColor(x, color) THEN Decision(x, color).v
                                 ELSE expected.field[x]]
    OBVIOUS
  <2>2. expected' = [expected EXCEPT !.field = after, !.ds = total]
    BY <1>1 DEF ExpectedColor
  <2> HIDE DEF after, total
  <2>3. QED BY <1>4, <2>1, <2>2
<1>6. expected'.field = field /\ field' = field
  <2>1. \A x : Passed(x) = IF InColor(x, color) THEN Decision(x, color).v ELSE expected.field[x]
    BY <1>1, <1>3 DEF Passed
  <2>2. field = [x \in Cells |-> Passed(x)]
    BY <1>2 DEF FieldInv
  <2>3. QED BY <1>1, <1>5, <2>1, <2>2
<1>7. /\ Cells' = Cells /\ Sites(sh)' = Sites(sh) /\ SlabIds(home)' = SlabIds(home)
      /\ NColors' = NColors /\ Directions' = Directions /\ Fills' = Fills
      /\ CheckerboardOk(sh)' = CheckerboardOk(sh)
      /\ \A i : Count(sh, home, i)' = Count(sh, home, i)
      /\ \A c : FillsBefore(c)' = FillsBefore(c)
      /\ \A x, c : InColor(x, c)' <=> InColor(x, c)
      /\ \A s, k : DrawFor(s, k)' = DrawFor(s, k)
  BY <1>1, <1>5, Frames, DrawFrames
<1>8. /\ color \in 0 .. NColors - 1 /\ color \in Nat /\ NColors \in Nat /\ dir = Directions
      /\ dir \in 1 .. Directions /\ kind # "hmc" /\ Directions \in Nat
  <2>1. color \in 0 .. NColors - 1 /\ NColors \in Nat /\ Directions \in 1 .. 4
    BY <1>1, <1>2, Shape DEF Stage
  <2>2. QED BY <1>1, <1>2, <2>1 DEF Stage
<1>9. /\ expected.from \in [SlabIds(home) -> Nat] /\ drawn \in [SlabIds(home) -> Nat]
      /\ expected.drawn = [i \in SlabIds(home) |-> expected.from[i] + Fills * Count(sh, home, i)]
      /\ \A i \in SlabIds(home) :
           drawn[i] = expected.from[i] + (FillsBefore(color) + 1) * Count(sh, home, i)
  <2>1. \A i : FillsOf(i) = FillsBefore(color) + 1
    BY <1>1 DEF FillsOf, FillsDone
  <2>2. QED BY <1>1, <1>2, <2>1 DEF DrawnInv
<1>10. DOMAIN noise = Cells /\ \A x \in Cells : noise[x] = DrawFor(x[1], x[2] - 1)
  BY <1>1, <1>2 DEF NoiseInv
<1>11. DOMAIN logu = Sites(sh) /\ \A s \in Sites(sh) : logu[s] = DrawFor(s, FillsBefore(color))
  BY <1>1, <1>2 DEF LoguInv
<1>12. \A x \in Cells : x[1] \in Sites(sh)
  BY FillsOrder, 0 \in Nat
<1>13. field = [x \in Cells |-> field[x]]
  BY <1>2 DEF FieldInv
<1>14. CASE color + 1 < NColors
  <2>1. Working' /\ pc' \in {"logu", "color"} /\ Opened(home)
        /\ (kind = "link" => pc' = "logu") /\ (kind # "link" => pc' = "color")
    BY <1>1, <1>14 DEF Working
  <2>2. /\ LanesInv' /\ HeldInv'
        /\ \A i \in SlabIds(home) : Waiting(i)'
        /\ \A s \in Sites(sh) : Ahead(s)'
    BY <1>1, <2>1, RegionOpened
  <2>3. Stage'
    <3>1. color' \in 0 .. NColors - 1
      BY <1>1, <1>8, <1>14
    <3>2. QED BY <1>1, <1>2, <1>7, <1>8, <2>1, <3>1 DEF Stage
  <2>4. DrawnInv'
    <3>1. FillsDone' = FillsBefore(color) + 1
      <4>1. CASE kind = "link"
        <5>1. FillsDone' = FillsBefore(color + 1)
          BY <1>1, <1>7, <2>1, <4>1 DEF FillsDone
        <5>2. FillsBefore(color + 1) = Directions + (color + 1)
              /\ FillsBefore(color) = Directions + color
          BY <1>8, <4>1, Shape
        <5>3. QED BY <1>8, <5>1, <5>2
      <4>2. CASE kind # "link"
        <5>1. FillsDone' = FillsBefore(color + 1) + 1
          BY <1>1, <1>7, <2>1, <4>2 DEF FillsDone
        <5>2. FillsBefore(color + 1) = 1 /\ FillsBefore(color) = 1
          BY <1>8, <4>2, Shape
        <5>3. QED BY <5>1, <5>2
      <4>3. QED BY <4>1, <4>2
    <3>2. \A i \in SlabIds(home) : FillsOf(i)' = FillsBefore(color) + 1
      BY <2>2, <3>1 DEF FillsOf
    <3>3. QED BY <1>1, <1>5, <1>7, <1>9, <2>1, <3>2 DEF DrawnInv
  <2>5. NoiseInv'
    BY <1>1, <1>7, <1>10 DEF NoiseInv
  <2>6. LoguInv'
    <3>1. CASE kind = "link"
      BY <1>1, <1>7, <1>11, <2>1, <2>2, <3>1 DEF LoguInv
    <3>2. CASE kind # "link"
      <4>1. FillsBefore(color + 1) = FillsBefore(color)
        BY <1>8, <3>2, Shape
      <4>2. QED BY <1>1, <1>7, <1>11, <4>1 DEF LoguInv
    <3>3. QED BY <3>1, <3>2
  <2>7. FieldInv'
    <3>1. \A x \in Cells : Passed(x)' = field[x]
      BY <1>6, <1>12, <2>1, <2>2 DEF Passed
    <3>2. field' = [x \in Cells |-> Passed(x)']
      BY <1>6, <1>13, <3>1
    <3>3. expected'.field = [x \in Cells |-> expected'.field[x]]
      BY <1>6, <1>13
    <3>4. QED BY <1>5, <1>7, <3>2, <3>3 DEF FieldInv
  <2>8. UsedInv'
    <3>1. \A d : Old(d) => Old(d)'
      BY <1>1, <1>5, <1>7, <2>1 DEF Old
    <3>2. \A c \in 0 .. color : c \in 0 .. color' /\ c < color'
      BY <1>1, <1>8
    <3>3. \A x, c : c \in 0 .. color /\ Taken(x, c) => Taken(x, c)'
      BY <1>7, <3>2 DEF Taken
    <3>4. \A d : Spent(d) => Spent(d)'
      BY <1>7, <2>1, <3>2, <3>3 DEF Spent
    <3>5. QED BY <1>1, <1>2, <3>1, <3>4 DEF UsedInv
  <2>9. QED BY <2>2, <2>3, <2>4, <2>5, <2>6, <2>7, <2>8 DEF SweepInv
<1>15. CASE ~(color + 1 < NColors)
  <2>1. pc' = "idle" /\ ~Working' /\ todo' = <<>> /\ pass' = <<>> /\ held' = <<>>
    BY <1>1, <1>15 DEF Working, Closed
  <2>2. Stage'
    BY <1>1, <1>2, <1>7, <2>1 DEF Stage
  <2>3. LanesInv'
    BY <2>1 DEF LanesInv
  <2>4. DrawnInv'
    <3>1. color = NColors - 1
      BY <1>8, <1>15
    <3>2. Fills = FillsBefore(color) + 1
      BY <1>8, <3>1 DEF Fills
    <3>3. drawn = expected.drawn
      BY <1>9, <3>2
    <3>4. QED BY <1>1, <1>5, <1>7, <1>9, <2>1, <3>3 DEF DrawnInv
  <2>5. NoiseInv'
    BY <1>1, <1>7, <1>10, <2>1 DEF NoiseInv
  <2>6. LoguInv'
    BY <1>1, <1>7, <1>11, <2>1 DEF LoguInv
  <2>7. FieldInv'
    <3>1. \A x \in Cells : Passed(x)' = field[x]
      BY <1>6, <2>1 DEF Passed
    <3>2. field' = [x \in Cells |-> Passed(x)']
      BY <1>6, <1>13, <3>1
    <3>3. expected'.field = [x \in Cells |-> expected'.field[x]]
      BY <1>6, <1>13
    <3>4. QED BY <1>5, <1>7, <3>2, <3>3 DEF FieldInv
  <2>8. HeldInv'
    BY <2>1 DEF HeldInv
  <2>9. UsedInv'
    <3>1. ASSUME NEW d \in used PROVE Old(d)'
      <4>1. Old(d) \/ Spent(d)
        BY <1>2 DEF UsedInv
      <4>2. d = <<d[1], d[2]>> /\ d[1] \in SlabIds(home) /\ d[2] \in Nat /\ d[2] <= drawn[d[1]]
        BY <1>1, <1>2, <1>3, <4>1, SpentWithin
      <4>3. QED BY <1>1, <1>7, <2>1, <4>2 DEF Old
    <3>2. QED BY <1>1, <1>2, <3>1 DEF UsedInv
  <2>10. QED BY <2>2, <2>3, <2>4, <2>5, <2>6, <2>7, <2>8, <2>9 DEF SweepInv
<1>16. QED BY <1>14, <1>15

LEMMA DriftedSweep == Bound /\ SweepInv /\ Drifted => SweepInv'
<1> SUFFICES ASSUME Bound, SweepInv, Drifted PROVE SweepInv'
  OBVIOUS
<1>1. /\ pc = "drift" /\ Joined /\ Working /\ expected' = ExpectedDrift
      /\ pc' = "idle" /\ ~Working' /\ todo' = <<>> /\ pass' = <<>> /\ held' = <<>>
      /\ sh' = sh /\ kind' = kind /\ team' = team /\ ambient' = ambient /\ home' = home
      /\ UNCHANGED <<drawn, field, noise, logu, color, dir, used, moves>>
  BY DEF Drifted, Idle, Closed, config, Working
<1>2. Stage /\ LanesInv /\ DrawnInv /\ NoiseInv /\ LoguInv /\ FieldInv /\ HeldInv /\ UsedInv
  BY DEF SweepInv
<1>3. \A s : ~Ahead(s)
  BY <1>1, <1>2, NothingAhead
<1>4. /\ expected = [from |-> expected.from, field |-> expected.field,
                     ds |-> expected.ds, drawn |-> expected.drawn]
      /\ field = [x \in Cells |-> Passed(x)]
  BY <1>2 DEF FieldInv
<1>5. /\ expected'.from = expected.from /\ expected'.drawn = expected.drawn
      /\ expected' = [from |-> expected'.from, field |-> expected'.field,
                      ds |-> expected'.ds, drawn |-> expected'.drawn]
      /\ expected'.field = [x \in Cells |-> Drift(expected.field[x], DrawFor(x[1], 0))]
  <2> DEFINE after == [x \in Cells |-> Drift(expected.field[x], DrawFor(x[1], 0))]
  <2>1. expected' = [expected EXCEPT !.field = after]
    BY <1>1 DEF ExpectedDrift
  <2> HIDE DEF after
  <2>2. QED BY <1>4, <2>1 DEF after
<1>6. expected'.field = field /\ field' = field /\ field = [x \in Cells |-> field[x]]
  <2>1. \A x : Passed(x) = Drift(expected.field[x], DrawFor(x[1], 0))
    BY <1>1, <1>3 DEF Passed
  <2>2. QED BY <1>1, <1>4, <1>5, <2>1
<1>7. Cells' = Cells /\ CheckerboardOk(sh)' = CheckerboardOk(sh)
  BY <1>1, Frames
<1>8. Stage'
  BY <1>1, <1>2, <1>7 DEF Stage
<1>9. LanesInv'
  BY <1>1 DEF LanesInv
<1>10. /\ expected.from \in [SlabIds(home) -> Nat] /\ drawn \in [SlabIds(home) -> Nat]
       /\ drawn = expected.drawn
       /\ \A i \in SlabIds(home) : drawn[i] = expected.from[i] + Count(sh, home, i)
  <2>1. \A i : FillsOf(i) = 1
    BY <1>1 DEF FillsOf, FillsDone
  <2>2. Fills = 1
    BY <1>1, <1>2 DEF Stage, Fills
  <2>3. /\ drawn \in [SlabIds(home) -> Nat] /\ expected.from \in [SlabIds(home) -> Nat]
        /\ expected.drawn = [i \in SlabIds(home) |-> expected.from[i] + 1 * Count(sh, home, i)]
        /\ \A i \in SlabIds(home) : drawn[i] = expected.from[i] + 1 * Count(sh, home, i)
    BY <1>1, <1>2, <2>1, <2>2 DEF DrawnInv
  <2>4. \A i \in SlabIds(home) : 1 * Count(sh, home, i) = Count(sh, home, i)
    BY CountsNat
  <2>5. drawn = expected.drawn
    BY <2>3
  <2>6. QED BY <2>3, <2>4, <2>5
<1>11. DrawnInv'
  BY <1>1, <1>5, <1>10 DEF DrawnInv
<1>12. NoiseInv'
  BY <1>1, <1>2, <1>7 DEF NoiseInv
<1>13. LoguInv'
  BY <1>1, <1>2 DEF LoguInv
<1>14. FieldInv'
  <2>1. \A x \in Cells : Passed(x)' = field[x]
    BY <1>1, <1>6 DEF Passed
  <2>2. field' = [x \in Cells |-> Passed(x)']
    BY <1>6, <2>1
  <2>3. expected'.field = [x \in Cells |-> expected'.field[x]]
    BY <1>6
  <2>4. QED BY <1>5, <1>7, <2>2, <2>3 DEF FieldInv
<1>15. HeldInv'
  BY <1>1 DEF HeldInv
<1>16. UsedInv'
  <2>1. color = 0
    BY <1>1, <1>2 DEF Stage
  <2>2. \A d : ~Spent(d)
    <3>1. \A x, c : c \in 0 .. color => ~Taken(x, c)
      BY <1>1, <2>1 DEF Taken
    <3>2. QED BY <3>1 DEF Spent
  <2>3. ASSUME NEW d \in used PROVE Old(d)'
    <3>1. Old(d)
      BY <1>2, <2>2 DEF UsedInv
    <3>2. /\ d = <<d[1], d[2]>> /\ d[1] \in SlabIds(home) /\ d[2] \in Nat
          /\ d[2] <= expected.from[d[1]]
      BY <1>1, <3>1 DEF Old
    <3>3. expected.from[d[1]] \in Nat /\ Count(sh, home, d[1]) \in Nat
          /\ drawn[d[1]] = expected.from[d[1]] + Count(sh, home, d[1])
      BY <1>10, <3>2, CountsNat
    <3>4. d[2] <= drawn[d[1]]
      BY <3>2, <3>3
    <3>5. QED BY <1>1, <3>2, <3>4 DEF Old
  <2>4. QED BY <1>1, <1>2, <2>3 DEF UsedInv
<1>17. QED BY <1>8, <1>9, <1>11, <1>12, <1>13, <1>14, <1>15, <1>16 DEF SweepInv

(* Steps that leave the sampler alone: another process, another ambient.   *)
LEMMA QuietSweep ==
  ASSUME SweepInv, Working => Team' = Team,
         UNCHANGED <<sh, kind, home, drawn, field, noise, logu, pc, color, dir, lanes, expected,
                     used, moves>>
  PROVE  SweepInv'
<1>1. /\ sh' = sh /\ kind' = kind /\ home' = home /\ pc' = pc /\ expected' = expected
      /\ UNCHANGED <<drawn, field, noise, logu, color, dir, todo, pass, held, used, moves>>
  BY DEF lanes
<1>2. Stage /\ LanesInv /\ DrawnInv /\ NoiseInv /\ LoguInv /\ FieldInv /\ HeldInv /\ UsedInv
  BY DEF SweepInv
<1>3. /\ Cells' = Cells /\ NColors' = NColors /\ Directions' = Directions /\ Fills' = Fills
      /\ CheckerboardOk(sh)' = CheckerboardOk(sh) /\ Working' = Working
      /\ \A c : DirOf(c)' = DirOf(c) /\ FillsBefore(c)' = FillsBefore(c)
  BY <1>1 DEF Cells, NColors, Directions, Fills, FillsBefore, CheckerboardOk, Working, DirOf
<1>4. /\ \A p, i, c : PassOf(p, i, c)' = PassOf(p, i, c)
      /\ \A x : Places(x)' = Places(x) /\ Neighbours(x)' = Neighbours(x)
      /\ \A x, c : InColor(x, c)' <=> InColor(x, c)
      /\ \A s : SlabAt(s)' = SlabAt(s)
  BY <1>1 DEF PassOf, Places, Neighbours, InColor, DirOf, SlabAt
<1>5. /\ \A s, k : DrawFor(s, k)' = DrawFor(s, k)
      /\ \A x, c : Decision(x, c)' = Decision(x, c)
  BY <1>1, DrawFrames
<1>6. /\ \A s : Ahead(s)' <=> Ahead(s)
      /\ \A i : Waiting(i)' <=> Waiting(i)
      /\ \A t : CellOf(t)' = CellOf(t)
  BY <1>1, <1>3, <1>4 DEF Ahead, Waiting, CellOf
<1>7. Stage'
  BY <1>1, <1>2, <1>3 DEF Stage
<1>8. LanesInv'
  BY <1>1, <1>2, <1>3, <1>4 DEF LanesInv
<1>9. DrawnInv'
  <2>1. \A i : FillsOf(i)' = FillsOf(i)
    BY <1>1, <1>3, <1>6 DEF FillsOf, FillsDone
  <2>2. QED BY <1>1, <1>2, <1>3, <2>1 DEF DrawnInv
<1>10. NoiseInv'
  BY <1>1, <1>2, <1>3, <1>5, <1>6 DEF NoiseInv
<1>11. LoguInv'
  BY <1>1, <1>2, <1>3, <1>5, <1>6 DEF LoguInv
<1>12. FieldInv'
  <2>1. \A x : Passed(x)' = Passed(x)
    BY <1>1, <1>4, <1>5, <1>6 DEF Passed
  <2>2. QED BY <1>1, <1>2, <1>3, <2>1 DEF FieldInv
<1>13. HeldInv'
  BY <1>1, <1>2, <1>4, <1>6 DEF HeldInv
<1>14. UsedInv'
  <2>1. \A d : Old(d)' <=> Old(d)
    BY <1>1, <1>3 DEF Old
  <2>2. \A x, c : Taken(x, c)' <=> Taken(x, c)
    BY <1>1, <1>4, <1>6 DEF Taken
  <2>3. \A d : Spent(d)' <=> Spent(d)
    BY <1>1, <1>3, <1>5, <2>2 DEF Spent
  <2>4. QED BY <1>1, <1>2, <2>1, <2>3 DEF UsedInv
<1>15. QED BY <1>7, <1>8, <1>9, <1>10, <1>11, <1>12, <1>13, <1>14 DEF SweepInv

LEMMA StepSweep == Bound /\ SweepInv /\ [Next]_vars => SweepInv'
<1> SUFFICES ASSUME Bound, SweepInv, [Next]_vars PROVE SweepInv'
  OBVIOUS
<1>1. CASE StartStep
  BY <1>1, StartSweep
<1>2. CASE Filled
  BY <1>2, FilledSweep
<1>3. CASE Thresholded
  BY <1>3, ThresholdedSweep
<1>4. CASE Colored
  BY <1>4, ColoredSweep
<1>5. CASE Drifted
  BY <1>5, DriftedSweep
<1>6. CASE Resume
  <2>1. UNCHANGED <<sh, kind, home, drawn, field, noise, logu, pc, color, dir, lanes, expected,
                    used, moves>> /\ ~Working
    BY <1>6 DEF Resume, history, Working
  <2>2. QED BY <2>1, QuietSweep
<1>7. CASE SetAmbient
  <2>1. UNCHANGED <<sh, kind, home, drawn, field, noise, logu, pc, color, dir, lanes, expected,
                    used, moves>> /\ ~Working
    BY <1>7 DEF SetAmbient, history, Working
  <2>2. QED BY <2>1, QuietSweep
<1>8. ASSUME NEW t \in DOMAIN todo,
             FillSlab(t) \/ DriftSlab(t) \/ TakeSlab(t) \/ Gather(t) \/ Decide(t)
      PROVE  SweepInv'
  BY <1>8, FillSweep, DriftSweep, TakeSweep, GatherSweep, DecideSweep
<1>9. CASE UNCHANGED vars
  <2>1. UNCHANGED <<sh, kind, home, drawn, field, noise, logu, pc, color, dir, lanes, expected,
                    used, moves>>
        /\ team' = team /\ ambient' = ambient
    BY <1>9 DEF vars, config, history
  <2>2. Team' = Team
    BY <2>1 DEF Team, NThreads
  <2>3. QED BY <2>1, <2>2, QuietSweep
<1>10. QED BY <1>1, <1>2, <1>3, <1>4, <1>5, <1>6, <1>7, <1>8, <1>9 DEF Next

LEMMA AlwaysSweep == Spec => [](Bound /\ SweepInv)
<1>1. Init => Bound /\ SweepInv
  BY InitBound, InitSweep
<1>2. (Bound /\ SweepInv) /\ [Next]_vars => (Bound /\ SweepInv)'
  BY StepBound, StepSweep
<1>3. QED BY <1>1, <1>2, PTL DEF Spec

(* The invariant NoRace of run site_sweep, for every lattice and any       *)
(* threads: the pass of one colour writes no cell that another thread has  *)
(* read and not yet decided on, nor the one it is deciding                 *)
(* (nn_checkerboard.hpp, link_sweep.hpp).                                  *)
THEOREM SweepsNeverRace == Spec => []NoRace
<1>1. Bound /\ SweepInv => NoRace
  <2> SUFFICES ASSUME Bound, SweepInv, NEW t \in DOMAIN held, NEW u \in DOMAIN held,
                      t # u, held[t] # <<>>, held[u] # <<>>
               PROVE  CellOf(u) # CellOf(t) /\ CellOf(u) \notin Range(Reads(CellOf(t)))
    BY DEF NoRace
  <2>1. Stage /\ LanesInv
    BY DEF SweepInv
  <2>2. Working
    BY <2>1 DEF LanesInv
  <2>3. t \in Team /\ u \in Team /\ pass[t] # {} /\ pass[u] # {} /\ pc = "color"
    BY <2>1, <2>2 DEF LanesInv
  <2>4. /\ CellOf(t) = <<CellOf(t)[1], CellOf(t)[2]>> /\ CellOf(t)[1] = Least(pass[t])
        /\ CellOf(t) \in Cells /\ InColor(CellOf(t), color) /\ CellOf(t)[1] \in Sites(sh)
        /\ CellOf(u)[1] = Least(pass[u]) /\ InColor(CellOf(u), color)
    BY <2>1, <2>2, <2>3, CellFacts
  <2>5. CellOf(u) # CellOf(t)
    <3>1. Least(pass[t]) \in pass[t] /\ Least(pass[u]) \in pass[u]
      BY <2>1, <2>2, <2>3, LanesFacts
    <3>2. SlabAt(Least(pass[t])) \in todo[t] /\ SlabAt(Least(pass[u])) \in todo[u]
      BY <2>1, <2>2, <2>3, <3>1, PassFacts
    <3>3. todo[t] \cap todo[u] = {}
      BY <2>1, <2>2, <2>3 DEF LanesInv
    <3>4. QED BY <2>4, <3>2, <3>3
  <2>6. IsShape(sh) /\ CheckerboardOk(sh)
    BY <2>1, <2>3, Shape DEF Stage
  <2>7. CellOf(t)[2] \in Dims(sh)
    BY <2>1, <2>4, CellDirection
  <2>8. Reads(CellOf(t)) = Neighbours(CellOf(t))
    <3>1. Reads(<<CellOf(t)[1], CellOf(t)[2]>>) = Neighbours(<<CellOf(t)[1], CellOf(t)[2]>>)
      BY <2>4, <2>6, <2>7, ReadsAreNeighbours
    <3>2. QED BY <2>4, <3>1
  <2>9. \A w \in Places(CellOf(t)) : ~InColor(Neighbours(CellOf(t))[w], color)
    BY <2>4, <2>6, NeighboursOutside
  <2>10. DOMAIN Neighbours(CellOf(t)) = Places(CellOf(t))
    BY DEF Neighbours
  <2>11. CellOf(u) \notin Range(Reads(CellOf(t)))
    BY <2>4, <2>8, <2>9, <2>10 DEF Range
  <2>12. QED BY <2>5, <2>11
<1>2. QED BY <1>1, AlwaysSweep, PTL

(* The invariant DrawsUsedOnce of run site_sweep, for every lattice and    *)
(* any threads: two draws are consumed by each decision and none by two,   *)
(* in one step, over its colours, or in steps before a resume              *)
(* (fill_site_uniform_noise and the sweeps of metropolis.hpp).             *)
THEOREM NoDrawServesTwice == Spec => []DrawsUsedOnce
<1>1. SweepInv => DrawsUsedOnce
  BY DEF SweepInv, UsedInv, DrawsUsedOnce
<1>2. QED BY <1>1, AlwaysSweep, PTL

(* The invariant StepExact of run site_sweep, for every lattice, any       *)
(* values of the cells and any rule that decides them: a step ends with    *)
(* the field and the streams of the sequential step, for the threads of    *)
(* this process and of those whose file it loaded.                         *)
THEOREM StepsAreSequential == Spec => []StepExact
<1>1. SweepInv => StepExact
  <2> SUFFICES ASSUME SweepInv, pc = "idle" PROVE field = expected.field /\ drawn = expected.drawn
    BY DEF StepExact
  <2>1. DrawnInv /\ FieldInv /\ ~Working
    BY DEF SweepInv, Working
  <2>2. \A x : Passed(x) = expected.field[x]
    BY DEF Passed
  <2>3. QED BY <2>1, <2>2 DEF DrawnInv, FieldInv
<1>2. QED BY <1>1, AlwaysSweep, PTL
-----------------------------------------------------------------------------
(* The sum of a sweep.  The sum over the sites of a slab is a recursion,   *)
(* and what holds of it for every number of sites is shown on the least    *)
(* number that would break it.                                             *)

(* The running sum is what its recursion says. *)
LEMMA RunningSumIs ==
  ASSUME NEW term, NEW first
  PROVE  /\ RunningSum(term, first, 0) = Zero
         /\ \A n \in Nat : RunningSum(term, first, n + 1) =
              IF first + n \in DOMAIN term THEN Plus(RunningSum(term, first, n), term[first + n])
              ELSE RunningSum(term, first, n)
<1> DEFINE Step(g, k) == IF k = 0 THEN Zero
                         ELSE IF first + k - 1 \in DOMAIN term
                              THEN Plus(g[k - 1], term[first + k - 1])
                              ELSE g[k - 1]
           Full(g) == g = [k \in Nat |-> Step(g, k)]
           sum == CHOOSE g : Full(g)
<1>1. \E g : Full(g)
  <2> DEFINE Upto(g, n) == g = [k \in 0 .. n |-> Step(g, k)]
             G(n) == CHOOSE g : Upto(g, n)
             f == [k \in Nat |-> G(k)[k]]
  <2>1. ASSUME NEW g, NEW n \in Nat, Upto(g, n), NEW k \in 0 .. n PROVE g[k] = Step(g, k)
    <3> DEFINE h == [j \in 0 .. n |-> Step(g, j)]
    <3>1. h[k] = Step(g, k)
      BY Zenon
    <3>2. g = h
      BY <2>1, Zenon
    <3> HIDE DEF h
    <3>3. QED BY <3>1, <3>2
  <2>2. \A n \in Nat : \E g : Upto(g, n)
    <3> DEFINE T == {n \in Nat : ~\E g : Upto(g, n)}
    <3> SUFFICES ASSUME T # {} PROVE FALSE
      OBVIOUS
    <3>1. PICK n \in T : \A m \in T : n <= m
      <4> HIDE DEF Upto
      <4>1. T \subseteq Nat
        OBVIOUS
      <4>2. QED BY <4>1, LeastOf
    <3>2. n \in Nat /\ ~\E g : Upto(g, n)
      OBVIOUS
    <3>3. CASE n = 0
      <4> DEFINE h == [k \in 0 .. 0 |-> Zero]
      <4>1. \A k \in 0 .. 0 : Step(h, k) = Zero
        OBVIOUS
      <4>2. h = [k \in 0 .. 0 |-> Step(h, k)]
        BY <4>1
      <4>3. QED BY <3>2, <3>3, <4>2
    <3>4. CASE n # 0
      <4>1. n - 1 \in Nat /\ ~(n <= n - 1)
        BY <3>2, <3>4
      <4>2. n - 1 \notin T
        <5> HIDE DEF T
        <5>1. QED BY <3>1, <4>1
      <4>3. \E g : Upto(g, n - 1)
        <5> HIDE DEF Upto
        <5>1. QED BY <4>1, <4>2
      <4>4. PICK g : Upto(g, n - 1)
        <5> HIDE DEF Upto
        <5>1. QED BY <4>3
      <4> DEFINE h == [k \in 0 .. n |-> Step(g, k)]
      <4>5. \A k \in 0 .. n - 1 : h[k] = g[k]
        <5> SUFFICES ASSUME NEW k \in 0 .. n - 1 PROVE h[k] = g[k]
          OBVIOUS
        <5>1. g[k] = Step(g, k)
          <6> HIDE DEF Upto, Step, h
          <6>1. QED BY <4>1, <4>4, <2>1
        <5>2. k \in 0 .. n
          BY <3>2
        <5>3. QED BY <5>1, <5>2, Zenon
      <4>6. \A k \in 0 .. n : Step(h, k) = Step(g, k)
        <5> SUFFICES ASSUME NEW k \in 0 .. n PROVE Step(h, k) = Step(g, k)
          OBVIOUS
        <5>1. k # 0 => k - 1 \in 0 .. n - 1
          BY <3>2
        <5> HIDE DEF h
        <5>2. k # 0 => h[k - 1] = g[k - 1]
          BY <4>5, <5>1
        <5>3. QED BY <5>2
      <4>7. h = [k \in 0 .. n |-> Step(h, k)]
        BY <4>6
      <4>8. QED BY <3>2, <4>7
    <3>5. QED BY <3>3, <3>4
  <2>3. ASSUME NEW n \in Nat, NEW m \in Nat, NEW g, NEW h, Upto(g, n), Upto(h, m)
        PROVE  \A k \in Nat : k <= n /\ k <= m => g[k] = h[k]
    <3> DEFINE T == {k \in Nat : k <= n /\ k <= m /\ g[k] # h[k]}
    <3> HIDE DEF Upto
    <3> SUFFICES ASSUME T # {} PROVE FALSE
      OBVIOUS
    <3>1. PICK k \in T : \A j \in T : k <= j
      <4>1. T \subseteq Nat
        OBVIOUS
      <4>2. QED BY <4>1, LeastOf
    <3>2. k \in Nat /\ k \in 0 .. n /\ k \in 0 .. m /\ g[k] # h[k]
      OBVIOUS
    <3>3. k # 0 => g[k - 1] = h[k - 1]
      BY <3>1, <3>2
    <3>4. g[k] = Step(g, k) /\ h[k] = Step(h, k)
      BY <2>1, <2>3, <3>2
    <3>5. QED BY <3>2, <3>3, <3>4
  <2>4. \A n \in Nat : Upto(G(n), n)
    BY <2>2, Zenon
  <2>5. \A k \in Nat : f[k] = Step(f, k)
    <3> SUFFICES ASSUME NEW k \in Nat PROVE f[k] = Step(f, k)
      OBVIOUS
    <3> HIDE DEF Upto, G
    <3>1. f[k] = G(k)[k] /\ (k # 0 => f[k - 1] = G(k - 1)[k - 1])
      OBVIOUS
    <3>2. G(k)[k] = Step(G(k), k)
      BY <2>1, <2>4
    <3>3. k # 0 => G(k)[k - 1] = G(k - 1)[k - 1]
      BY <2>3, <2>4
    <3> HIDE DEF f
    <3>4. QED BY <3>1, <3>2, <3>3
  <2>6. f = [k \in Nat |-> Step(f, k)]
    <3>1. f = [k \in Nat |-> f[k]]
      <4> HIDE DEF G
      <4>1. QED OBVIOUS
    <3> HIDE DEF f
    <3>2. QED BY <2>5, <3>1
  <2>7. QED BY <2>6
<1>2. Full(sum)
  <2> HIDE DEF Full
  <2>1. QED BY <1>1, Zenon
<1>3. \A n : RunningSum(term, first, n) = sum[n]
  BY Zenon DEF RunningSum
<1>4. \A n \in Nat : sum[n] = Step(sum, n)
  <2> DEFINE h == [k \in Nat |-> Step(sum, k)]
  <2>1. sum = h
    BY <1>2, Zenon
  <2>2. \A n \in Nat : h[n] = Step(sum, n)
    BY Zenon
  <2>3. QED BY <2>1, <2>2, Zenon
<1> HIDE DEF sum
<1>5. QED BY <1>3, <1>4

(* Sites without a term change nothing.                                    *)
LEMMA FlatStretch ==
  ASSUME NEW term, NEW first, NEW m \in Nat, NEW n \in Nat, m <= n,
         \A k \in Nat : m <= k /\ k < n => first + k \notin DOMAIN term
  PROVE  RunningSum(term, first, n) = RunningSum(term, first, m)
<1> DEFINE sum(k) == RunningSum(term, first, k)
           T == {k \in Nat : m <= k /\ k <= n /\ sum(k) # sum(m)}
<1>1. \A k \in Nat : first + k \notin DOMAIN term => sum(k + 1) = sum(k)
  BY RunningSumIs
<1> HIDE DEF sum
<1>2. SUFFICES ASSUME T # {} PROVE FALSE
  BY DEF sum
<1>3. PICK k \in T : \A j \in T : k <= j
  <2>1. T \subseteq Nat
    OBVIOUS
  <2>2. QED BY <1>2, <2>1, LeastOf
<1>4. k \in Nat /\ m <= k /\ k <= n /\ sum(k) # sum(m)
  OBVIOUS
<1>5. k - 1 \in Nat /\ m <= k - 1 /\ k - 1 < n /\ (k - 1) + 1 = k /\ ~(k <= k - 1)
  <2>1. k # m
    BY <1>4
  <2>2. QED BY <1>4, <2>1
<1>6. sum(k - 1) = sum(m)
  BY <1>3, <1>5
<1>7. sum((k - 1) + 1) = sum(k - 1)
  BY <1>1, <1>5
<1>8. QED BY <1>4, <1>5, <1>6, <1>7

(* The sites of a slab, by their place in it.                              *)
LEMMA PlaceInSlab ==
  ASSUME Bound, NEW i \in SlabIds(home)
  PROVE  /\ Base(home, i) \in Nat
         /\ \A k \in 0 .. Count(sh, home, i) - 1 :
              Base(home, i) + k \in Sites(sh) /\ SlabAt(Base(home, i) + k) = i
         /\ \A x \in Sites(sh) : SlabAt(x) = i =>
              \E k \in 0 .. Count(sh, home, i) - 1 : x = Base(home, i) + k
<1>1. NSites(sh) \in Nat /\ Count(sh, home, i) \in Nat /\ home.len \in Nat /\ i \in Nat
  BY BoundHome, VolumePositive, CountsNat DEF PartitionGood, SlabIds
<1>2. Base(home, i) \in Nat
  BY <1>1 DEF Base
<1>3. Base(home, i) + Count(sh, home, i) <= NSites(sh)
  BY <1>1, <1>2 DEF Count, AtMost
<1>4. ASSUME NEW k \in 0 .. Count(sh, home, i) - 1
      PROVE  Base(home, i) + k \in Sites(sh) /\ SlabAt(Base(home, i) + k) = i
  <2>1. Base(home, i) + k \in Sites(sh) /\ Base(home, i) + k \in Span(sh, home, i)
    BY <1>1, <1>2, <1>3 DEF Sites, Span
  <2>2. QED BY <2>1, SlabOfSite
<1>5. ASSUME NEW x \in Sites(sh), SlabAt(x) = i
      PROVE  \E k \in 0 .. Count(sh, home, i) - 1 : x = Base(home, i) + k
  <2>1. /\ x % home.len \in 0 .. Count(sh, home, i) - 1
        /\ x - Base(home, i) = x % home.len /\ x \in Nat
    BY <1>5, SlabOfSite
  <2> DEFINE k == x % home.len
  <2>2. k \in 0 .. Count(sh, home, i) - 1 /\ x - Base(home, i) = k
    BY <2>1
  <2> HIDE DEF k
  <2>3. x = Base(home, i) + k
    BY <1>1, <1>2, <2>1, <2>2
  <2>4. QED BY <2>2, <2>3
<1>6. QED BY <1>2, <1>4, <1>5

(* The terms of a pass are those of the sites of its colour.               *)
LEMMA TermsAre ==
  ASSUME Bound, NEW s
  PROVE  /\ s \in DOMAIN Terms <=> s \in Sites(sh) /\ InColor(<<s, DirOf(color)>>, color)
         /\ s \in DOMAIN Terms => Terms[s] = Decision(<<s, DirOf(color)>>, color).ds
BY DEF Terms

LEMMA TermsKept ==
  ASSUME sh' = sh, kind' = kind, home' = home, color' = color, expected' = expected
  PROVE  Terms' = Terms
<1>1. \A x, c : Decision(x, c)' = Decision(x, c)
  BY DrawFrames
<1>2. Sites(sh)' = Sites(sh) /\ \A x, c : InColor(x, c)' <=> InColor(x, c)
  BY DEF InColor, DirOf
<1>3. \A c : DirOf(c)' = DirOf(c)
  BY DEF DirOf
<1>4. QED BY <1>1, <1>2, <1>3 DEF Terms

(* Slab i has added the terms of its first n sites, the others are ahead.  *)
Added(i, n) ==
  /\ \A k \in 0 .. Count(sh, home, i) - 1 :
       Base(home, i) + k \in DOMAIN Terms => (Ahead(Base(home, i) + k) <=> n <= k)
  /\ partials[i] = RunningSum(Terms, Base(home, i), n)

SlabsAdded ==
  /\ partials = [i \in SlabIds(home) |-> partials[i]]
  /\ \A i \in SlabIds(home) : \E n \in 0 .. Count(sh, home, i) : Added(i, n)

SumsInv == ds = expected.ds /\ (pc = "color" => SlabsAdded)

LEMMA NothingAdded ==
  ASSUME Bound, Opened(home), Working', sh' = sh, kind' = kind, home' = home, team' = team,
         ambient' = ambient, partials' = [i \in SlabIds(home) |-> Zero]
  PROVE  SlabsAdded'
<1>1. \A s \in Sites(sh) : Ahead(s)'
  BY RegionOpened
<1>2. /\ SlabIds(home)' = SlabIds(home) /\ \A i : Count(sh, home, i)' = Count(sh, home, i)
      /\ \A i : Base(home, i)' = Base(home, i)
  BY Frames DEF Base
<1>3. ASSUME NEW i \in SlabIds(home) PROVE 0 \in 0 .. Count(sh, home, i) /\ Added(i, 0)'
  <2>1. 0 \in 0 .. Count(sh, home, i) /\ \A k \in 0 .. Count(sh, home, i) - 1 : 0 <= k
    BY CountsNat
  <2>2. \A k \in 0 .. Count(sh, home, i) - 1 : Ahead(Base(home, i) + k)'
    BY <1>1, <1>2, PlaceInSlab
  <2>3. RunningSum(Terms', Base(home, i), 0) = Zero
    BY RunningSumIs
  <2>4. partials'[i] = Zero
    OBVIOUS
  <2>5. QED BY <1>2, <2>1, <2>2, <2>3, <2>4 DEF Added
<1>4. \A i \in SlabIds(home) : \E n \in 0 .. Count(sh, home, i) : Added(i, n)'
  BY <1>3
<1>5. partials' = [i \in SlabIds(home) |-> partials'[i]]
  OBVIOUS
<1>6. QED BY <1>2, <1>4, <1>5 DEF SlabsAdded

(* Steps that decide nothing.                                              *)
LEMMA KeepsSlabs ==
  ASSUME Bound, SlabsAdded, sh' = sh, kind' = kind, home' = home, color' = color,
         expected' = expected, partials' = partials,
         \A s \in DOMAIN Terms : Ahead(s)' <=> Ahead(s)
  PROVE  SlabsAdded'
<1>1. /\ SlabIds(home)' = SlabIds(home) /\ \A i : Count(sh, home, i)' = Count(sh, home, i)
      /\ \A i : Base(home, i)' = Base(home, i)
  BY DEF Base
<1>2. Terms' = Terms
  BY TermsKept
<1>3. \A i, n : Added(i, n) => Added(i, n)'
  <2>1. \A i : \A k \in 0 .. Count(sh, home, i) - 1 :
          Base(home, i) + k \in DOMAIN Terms =>
            (Ahead(Base(home, i) + k)' <=> Ahead(Base(home, i) + k))
    OBVIOUS
  <2>2. QED BY <1>1, <1>2, <2>1 DEF Added
<1>4. QED BY <1>1, <1>3 DEF SlabsAdded

(* The site a thread decides on is the next of its slab's with a term.     *)
LEMMA DecideSums ==
  ASSUME Bound, SweepInv, SlabsAdded, NEW t \in DOMAIN todo, Decide(t)
  PROVE  SlabsAdded'
<1> DEFINE x == Least(pass[t])
           i == Least(todo[t])
           cell == CellOf(t)
           m == Move(field[cell], held[t], noise[cell], logu[cell[1]])
           b(j) == Base(home, j)
           sum(j, n) == RunningSum(Terms, b(j), n)
<1>1. /\ pc = "color" /\ Working /\ held[t] # <<>>
      /\ partials' = [partials EXCEPT ![i] = Plus(@, m.ds)]
      /\ sh' = sh /\ kind' = kind /\ home' = home /\ color' = color /\ expected' = expected
  BY DEF Decide, config, Working
<1>2. Stage /\ LanesInv
  BY DEF SweepInv
<1>3. /\ t \in Team /\ DOMAIN todo = Team /\ DOMAIN held = Team
      /\ \A u \in Team : todo[u] \subseteq Nat /\ pass[u] \subseteq Nat
  BY <1>1, <1>2, LanesFacts
<1>4. pass[t] # {} /\ \A u \in Team : u # t => todo[u] \cap todo[t] = {}
  BY <1>1, <1>2, <1>3 DEF LanesInv
<1>5. x \in pass[t] /\ (\A y \in pass[t] : x <= y) /\ x \in Nat
  BY <1>3, <1>4, LeastFacts
<1>6. /\ x \in Sites(sh) /\ Ahead(x) /\ SlabAt(x) = i /\ i \in todo[t]
      /\ \A s \in Sites(sh) : Ahead(s)' <=> Ahead(s) /\ s # x
  BY <1>1, <1>2, <1>3, <1>5, SiteDecided, PassFacts
<1>7. i \in SlabIds(home)
  BY <1>6, SlabOfSite
<1>8. /\ cell = <<x, DirOf(color)>> /\ cell[1] = x /\ InColor(cell, color)
      /\ m = Decision(cell, color)
  <2>1. cell = <<x, DirOf(color)>> /\ cell[1] = x /\ InColor(cell, color)
    BY <1>1, <1>2, <1>3, <1>4, CellFacts
  <2>2. m = Decision(cell, color)
    BY <1>1, <1>3, <1>6, <2>1, DecisionDue
  <2>3. QED BY <2>1, <2>2
<1>9. x \in DOMAIN Terms /\ m.ds = Terms[x]
  BY <1>6, <1>8, TermsAre
<1> HIDE DEF x, i, cell, m
<1>10. PICK n \in 0 .. Count(sh, home, i) : Added(i, n)
  BY <1>7 DEF SlabsAdded
<1>11. PICK j \in 0 .. Count(sh, home, i) - 1 : x = b(i) + j
  BY <1>6, <1>7, PlaceInSlab
<1>12. /\ b(i) \in Nat /\ Count(sh, home, i) \in Nat /\ n \in Nat /\ j \in Nat
       /\ n <= j /\ j + 1 \in 0 .. Count(sh, home, i)
       /\ \A k \in 0 .. Count(sh, home, i) - 1 : k \in Nat /\ b(i) + k \in Sites(sh)
  <2>1. n <= j
    BY <1>6, <1>9, <1>10, <1>11 DEF Added
  <2>2. b(i) \in Nat /\ Count(sh, home, i) \in Nat
    BY <1>7, PlaceInSlab, CountsNat
  <2>3. \A k \in 0 .. Count(sh, home, i) - 1 : b(i) + k \in Sites(sh)
    BY <1>7, PlaceInSlab
  <2> HIDE DEF b
  <2>4. QED BY <1>10, <1>11, <2>1, <2>2, <2>3
<1>13. ASSUME NEW k \in Nat, n <= k, k < j PROVE b(i) + k \notin DOMAIN Terms
  <2> DEFINE y == b(i) + k
  <2>1. k \in 0 .. Count(sh, home, i) - 1
    BY <1>11, <1>12, <1>13
  <2>2. y \in Sites(sh) /\ SlabAt(y) = i
    BY <1>7, <2>1, PlaceInSlab
  <2>3. y < x
    <3> HIDE DEF b
    <3>1. QED BY <1>11, <1>12, <1>13
  <2> SUFFICES ASSUME y \in DOMAIN Terms PROVE FALSE
    OBVIOUS
  <2>4. Ahead(y)
    BY <1>10, <1>13, <2>1 DEF Added
  <2> HIDE DEF y
  <2>5. PICK u \in Team : y \in pass[u] \/ (i \in todo[u] /\ (pass[u] # {} => i # Least(todo[u])))
    BY <1>3, <2>2, <2>4 DEF Ahead
  <2>6. i \in todo[u]
    BY <1>1, <1>2, <2>2, <2>5, PassFacts
  <2>7. u = t
    BY <1>4, <1>6, <2>6
  <2>8. y \in pass[t]
    BY <1>4, <2>5, <2>7 DEF i
  <2>9. x <= y /\ y \in Nat
    BY <1>3, <1>5, <2>8
  <2>10. QED BY <1>5, <2>3, <2>9
<1>14. sum(i, j + 1) = Plus(sum(i, n), m.ds)
  <2>1. sum(i, j) = sum(i, n)
    <3> HIDE DEF b
    <3>1. QED BY <1>12, <1>13, FlatStretch
  <2>2. sum(i, j + 1) = Plus(sum(i, j), Terms[b(i) + j])
    BY <1>9, <1>11, <1>12, RunningSumIs
  <2>3. QED BY <1>9, <1>11, <2>1, <2>2
<1>15. /\ SlabIds(home)' = SlabIds(home) /\ \A r : Count(sh, home, r)' = Count(sh, home, r)
       /\ \A r : Base(home, r)' = Base(home, r)
  BY <1>1 DEF Base
<1>16. Terms' = Terms
  BY <1>1, TermsKept
<1>17. partials' = [r \in SlabIds(home) |-> partials'[r]] /\ partials'[i] = Plus(partials[i], m.ds)
       /\ \A r \in SlabIds(home) : r # i => partials'[r] = partials[r]
  <2>1. partials = [r \in SlabIds(home) |-> partials[r]]
    BY DEF SlabsAdded
  <2>2. QED BY <1>1, <1>7, <2>1
<1>18. ASSUME NEW q, q = i PROVE Added(q, j + 1)'
  <2>1. partials'[q] = RunningSum(Terms, Base(home, q), j + 1)
    BY <1>10, <1>14, <1>17, <1>18 DEF Added
  <2>2. ASSUME NEW k \in 0 .. Count(sh, home, q) - 1, NEW y, y = Base(home, q) + k,
               y \in DOMAIN Terms
        PROVE  Ahead(y)' <=> j + 1 <= k
    <3>1. y = b(i) + k /\ k \in 0 .. Count(sh, home, i) - 1
      BY <1>18, <2>2
    <3>2. (Ahead(y) <=> n <= k) /\ k \in Nat /\ y \in Sites(sh)
      BY <1>10, <1>12, <2>2, <3>1 DEF Added
    <3>3. n <= k => ~(k < j)
      BY <1>13, <2>2, <3>1, <3>2
    <3> HIDE DEF b
    <3>4. y # x <=> k # j
      BY <1>11, <1>12, <3>1, <3>2
    <3>5. Ahead(y)' <=> n <= k /\ k # j
      BY <1>6, <3>2, <3>4
    <3>6. QED BY <1>12, <3>2, <3>3, <3>5
  <2>3. QED BY <1>15, <1>16, <2>1, <2>2 DEF Added
<1>19. ASSUME NEW r \in SlabIds(home), r # i, NEW c, Added(r, c) PROVE Added(r, c)'
  <2>1. \A k \in 0 .. Count(sh, home, r) - 1 : Ahead(b(r) + k)' <=> Ahead(b(r) + k)
    <3>1. ASSUME NEW k \in 0 .. Count(sh, home, r) - 1, NEW y, y = b(r) + k
          PROVE  Ahead(y)' <=> Ahead(y)
      BY <1>6, <1>19, <3>1, PlaceInSlab
    <3>2. b(r)' = b(r)
      BY <1>15
    <3> HIDE DEF b
    <3>3. QED BY <3>1, <3>2
  <2>2. partials'[r] = partials[r]
    BY <1>17, <1>19
  <2>3. QED BY <1>1, <1>15, <1>16, <1>19, <2>1, <2>2 DEF Added
<1>20. ASSUME NEW r \in SlabIds(home) PROVE \E c \in 0 .. Count(sh, home, r) : Added(r, c)'
  <2>1. CASE r = i
    <3>1. Added(r, j + 1)' /\ j + 1 \in 0 .. Count(sh, home, r)
      BY <1>12, <1>18, <2>1
    <3>2. QED BY <3>1
  <2>2. CASE r # i
    <3>1. PICK c \in 0 .. Count(sh, home, r) : Added(r, c)
      BY DEF SlabsAdded
    <3>2. QED BY <1>19, <2>2, <3>1
  <2>3. QED BY <2>1, <2>2
<1>21. QED BY <1>1, <1>15, <1>17, <1>20 DEF SlabsAdded

(* When all threads are through, the slabs have added all their terms.     *)
LEMMA SlabsComplete ==
  ASSUME Bound, SweepInv, SlabsAdded, pc = "color", Joined
  PROVE  \A i \in SlabIds(home) :
           partials[i] = RunningSum(Terms, Base(home, i), Count(sh, home, i))
<1>1. \A s : ~Ahead(s)
  BY NothingAhead DEF SweepInv, Working
<1> SUFFICES ASSUME NEW i \in SlabIds(home)
             PROVE  partials[i] = RunningSum(Terms, Base(home, i), Count(sh, home, i))
  OBVIOUS
<1>2. PICK n \in 0 .. Count(sh, home, i) : Added(i, n)
  BY DEF SlabsAdded
<1>3. Count(sh, home, i) \in Nat /\ n \in Nat /\ n <= Count(sh, home, i)
  BY CountsNat
<1>4. ASSUME NEW k \in Nat, n <= k, k < Count(sh, home, i)
      PROVE  Base(home, i) + k \notin DOMAIN Terms
  <2>1. k \in 0 .. Count(sh, home, i) - 1
    BY <1>3, <1>4
  <2>2. QED BY <1>1, <1>2, <1>4, <2>1 DEF Added
<1>5. RunningSum(Terms, Base(home, i), Count(sh, home, i)) = RunningSum(Terms, Base(home, i), n)
  BY <1>3, <1>4, FlatStretch
<1>6. QED BY <1>2, <1>5 DEF Added

LEMMA ColoredSums == Bound /\ SweepInv /\ SumsInv /\ Colored => SumsInv'
<1> SUFFICES ASSUME Bound, SweepInv, SumsInv, Colored PROVE SumsInv'
  OBVIOUS
<1> DEFINE slab(i) == RunningSum(Terms, Base(home, i), Count(sh, home, i))
           total == FoldLeft(Plus, Zero, [i \in 1 .. home.items |-> slab(i - 1)])
           made == [y \in {z \in Cells : InColor(z, color)} |-> Decision(y, color)]
           after == [y \in Cells |-> IF y \in DOMAIN made THEN made[y].v ELSE expected.field[y]]
<1>1. /\ pc = "color" /\ Joined /\ ds' = Plus(ds, Total) /\ expected' = ExpectedColor
      /\ ds = expected.ds /\ SlabsAdded /\ P = home
      /\ sh' = sh /\ kind' = kind /\ team' = team /\ ambient' = ambient /\ home' = home
  BY BoundHome DEF Colored, SumsInv, config
<1>2. Total = total
  <2>1. \A i \in 1 .. home.items : i - 1 \in SlabIds(home)
    <3>1. home.items \in Nat
      BY BoundHome DEF PartitionGood
    <3>2. QED BY <3>1 DEF SlabIds
  <2> HIDE DEF slab
  <2>2. \A i \in 1 .. home.items : partials[i - 1] = slab(i - 1)
    BY <1>1, <2>1, SlabsComplete DEF slab
  <2>3. [i \in 1 .. home.items |-> partials[i - 1]] = [i \in 1 .. home.items |-> slab(i - 1)]
    BY <2>2
  <2>4. QED BY <1>1, <2>3 DEF Total
<1> HIDE DEF total, slab
<1>3. expected'.ds = Plus(expected.ds, total)
  <2>1. expected = [from |-> expected.from, field |-> expected.field,
                    ds |-> expected.ds, drawn |-> expected.drawn]
    BY DEF SweepInv, FieldInv
  <2>2. expected' = [expected EXCEPT !.field = after, !.ds = Plus(expected.ds, total)]
    BY <1>1 DEF ExpectedColor, total, slab
  <2> HIDE DEF after
  <2>3. QED BY <2>1, <2>2
<1>4. pc' = "color" => SlabsAdded'
  <2> SUFFICES ASSUME pc' = "color" PROVE SlabsAdded'
    OBVIOUS
  <2>1. Opened(home) /\ partials' = [i \in SlabIds(home) |-> Zero] /\ Working'
    BY <1>1 DEF Colored, Entered, Idle, Working
  <2>2. QED BY <1>1, <2>1, NothingAdded
<1>5. QED BY <1>1, <1>2, <1>3, <1>4 DEF SumsInv

LEMMA StepSums == Bound /\ SweepInv /\ SumsInv /\ [Next]_vars => SumsInv'
<1> SUFFICES ASSUME Bound, SweepInv, SumsInv, [Next]_vars PROVE SumsInv'
  OBVIOUS
<1>1. /\ P = home /\ ds = expected.ds /\ (pc = "color" => SlabsAdded)
      /\ Stage /\ LanesInv
      /\ expected = [from |-> expected.from, field |-> expected.field,
                     ds |-> expected.ds, drawn |-> expected.drawn]
  BY BoundHome DEF SumsInv, SweepInv, FieldInv
<1>2. CASE StartStep
  <2>1. P.items = Cardinality(DOMAIN drawn)
    BY BoundHome
  <2>2. pc' = "noise" /\ expected' = ExpectedStart /\ ds' = Zero
    BY <1>2, <2>1 DEF StartStep
  <2>3. QED BY <2>2 DEF SumsInv, ExpectedStart
<1>3. CASE Filled
  <2>1. pc' # "color" /\ ds' = ds /\ expected' = expected
    BY <1>3 DEF Filled, Entered, history
  <2>2. QED BY <1>1, <2>1 DEF SumsInv
<1>4. CASE Thresholded
  <2>1. /\ Opened(home) /\ partials' = [i \in SlabIds(home) |-> Zero] /\ Working'
        /\ sh' = sh /\ kind' = kind /\ team' = team /\ ambient' = ambient /\ home' = home
        /\ ds' = ds /\ expected' = expected
    BY <1>1, <1>4 DEF Thresholded, Entered, history, config, Working
  <2>2. QED BY <1>1, <2>1, NothingAdded DEF SumsInv
<1>5. CASE Colored
  BY <1>5, ColoredSums
<1>6. CASE Drifted
  <2> DEFINE after == [y \in Cells |-> Drift(expected.field[y], DrawFor(y[1], 0))]
  <2>1. pc' = "idle" /\ ds' = ds /\ expected' = [expected EXCEPT !.field = after]
    BY <1>6 DEF Drifted, Idle, ExpectedDrift
  <2> HIDE DEF after
  <2>2. expected'.ds = expected.ds
    BY <1>1, <2>1
  <2>3. QED BY <1>1, <2>1, <2>2 DEF SumsInv
<1>7. CASE Resume \/ SetAmbient
  <2>1. pc' # "color" /\ ds' = ds /\ expected' = expected
    BY <1>7 DEF Resume, SetAmbient, history
  <2>2. QED BY <1>1, <2>1 DEF SumsInv
<1>8. ASSUME NEW t \in DOMAIN todo, FillSlab(t) \/ DriftSlab(t) PROVE SumsInv'
  <2>1. pc' # "color" /\ ds' = ds /\ expected' = expected
    BY <1>8 DEF FillSlab, DriftSlab, history
  <2>2. QED BY <1>1, <2>1 DEF SumsInv
<1>9. ASSUME NEW t \in DOMAIN todo, TakeSlab(t) PROVE SumsInv'
  <2>1. /\ pc = "color" /\ Working /\ UNCHANGED <<ds, expected, sh, kind, home, color, partials>>
    BY <1>9 DEF TakeSlab, history, config, Working
  <2>2. t \in Team
    BY <1>1, <2>1, LanesFacts
  <2>3. \A s \in Sites(sh) : CoordSum(sh, s, Dims(sh)) % 2 = color % 2 => (Ahead(s)' <=> Ahead(s))
    BY <1>1, <1>9, <2>1, <2>2, SlabTaken
  <2>4. \A s \in DOMAIN Terms : s \in Sites(sh) /\ CoordSum(sh, s, Dims(sh)) % 2 = color % 2
    BY TermsAre DEF InColor
  <2>5. QED BY <1>1, <2>1, <2>3, <2>4, KeepsSlabs DEF SumsInv
<1>10. ASSUME NEW t \in DOMAIN todo, Gather(t) PROVE SumsInv'
  <2>1. /\ pc = "color"
        /\ UNCHANGED <<ds, expected, sh, kind, home, color, partials, todo, pass>>
    BY <1>10 DEF Gather, history, config
  <2>2. \A s : Ahead(s)' <=> Ahead(s)
    BY <2>1 DEF Ahead, SlabAt
  <2>3. QED BY <1>1, <2>1, <2>2, KeepsSlabs DEF SumsInv
<1>11. ASSUME NEW t \in DOMAIN todo, Decide(t) PROVE SumsInv'
  <2>1. pc = "color" /\ ds' = ds /\ expected' = expected
    BY <1>11 DEF Decide
  <2>2. QED BY <1>1, <1>11, <2>1, DecideSums DEF SumsInv
<1>12. CASE UNCHANGED vars
  <2>1. UNCHANGED <<pc, ds, expected, sh, kind, home, color, partials, todo, pass>>
    BY <1>12 DEF vars, config, lanes, history
  <2>2. \A s : Ahead(s)' <=> Ahead(s)
    BY <2>1 DEF Ahead, SlabAt
  <2>3. QED BY <1>1, <2>1, <2>2, KeepsSlabs DEF SumsInv
<1>13. QED BY <1>2, <1>3, <1>4, <1>5, <1>6, <1>7, <1>8, <1>9, <1>10, <1>11, <1>12 DEF Next

(* The invariant SumExact of run site_sweep, for every lattice, any        *)
(* threads and any addition, associative or not: the action difference a   *)
(* sweep returns is that of the sequential sweep, bit for bit              *)
(* (traverse_reduce and the sweeps of metropolis.hpp).                     *)
THEOREM SumsAreSequential == Spec => []SumExact
<1>1. Init => SumsInv
  BY DEF Init, SumsInv
<1>2. (Bound /\ SweepInv) /\ SumsInv /\ [Next]_vars => SumsInv'
  BY StepSums
<1>3. SumsInv => SumExact
  BY DEF SumsInv, SumExact
<1>4. QED BY <1>1, <1>2, <1>3, AlwaysSweep, PTL DEF Spec
=============================================================================
