--------------------------- MODULE Kernels_proofs ---------------------------
(***************************************************************************)
(* The algebra of the group, for every N, every matrix and every angle:    *)
(* the unrolled, looped and batched code computes the products, traces,    *)
(* projections and exponentials of the textbook.  From sums over finite    *)
(* sets to matrices of any size, from there to the entries of 2 x 2 and    *)
(* 3 x 3 ones, which are identities of polynomials over the integers.      *)
(***************************************************************************)
EXTENDS Kernels, TLAPS, FiniteSetTheorems, WellFoundedInduction, SequenceTheorems

-----------------------------------------------------------------------------
(* Sums over finite sets. SumFunction folds over a CHOOSE; a function that *)
(* adds the elements of every subset exists, and the fold is its value.    *)

(* A set of numbers that is not empty has a least one.                     *)
LEMMA LeastOf ==
  ASSUME NEW T, T \subseteq Nat, T # {}
  PROVE  \E m \in T : \A x \in T : m <= x
<1>1. PICK m \in T : \A x \in T : <<x, m>> \notin OpToRel(<, Nat)
  BY NatLessThanWellFounded, WFMin, Zenon
<1>2. \A x \in T : ~(x < m)
  BY <1>1 DEF OpToRel
<1>3. QED BY <1>2

(* g has the sum of f over every subset of S.                              *)
Adds(f, S, g) ==
  g \in [SUBSET S -> Int] /\ g[{}] = 0 /\ \A s \in SUBSET S : \A x \in s : g[s] = f[x] + g[s \ {x}]

(* Some function adds up f over every subset of a finite set.              *)
LEMMA SumsExist ==
  ASSUME NEW S, IsFiniteSet(S), NEW f, \A x \in S : f[x] \in Int
  PROVE  \E g : Adds(f, S, g)
<1>1. SUFFICES ASSUME ~ \E g : Adds(f, S, g) PROVE FALSE
  OBVIOUS
<1> DEFINE Bad == {n \in Nat : \E R \in SUBSET S : Cardinality(R) = n /\ ~ \E g : Adds(f, R, g)}
<1>2. Bad # {} /\ Bad \subseteq Nat
  BY <1>1, FS_CardinalityType
<1> HIDE DEF Bad
<1>3. PICK n \in Bad : \A m \in Bad : n <= m
  BY <1>2, LeastOf
<1>4. PICK R \in SUBSET S : Cardinality(R) = n /\ ~ \E g : Adds(f, R, g)
  BY <1>3 DEF Bad
<1>5. IsFiniteSet(R)
  BY FS_Subset
<1>6. CASE R = {}
  <2>1. Adds(f, R, [s \in SUBSET R |-> 0])
    BY <1>6 DEF Adds
  <2>2. QED BY <2>1, <1>4
<1>7. CASE R # {}
  <2>1. PICK y \in R : TRUE
    BY <1>7
  <2>2. IsFiniteSet(R \ {y}) /\ Cardinality(R \ {y}) = n - 1 /\ n \in Nat /\ n - 1 \in Nat
    <3>1. IsFiniteSet(R \ {y}) /\ Cardinality(R \ {y}) = Cardinality(R) - 1
      BY <1>5, <2>1, FS_RemoveElement
    <3>2. Cardinality(R \ {y}) \in Nat
      BY <3>1, FS_CardinalityType
    <3>3. Cardinality(R) \in Nat
      BY <1>5, FS_CardinalityType
    <3>4. QED BY <1>4, <3>1, <3>2, <3>3
  <2>3. n - 1 \notin Bad
    BY <1>3, <2>2
  <2>4. R \ {y} \in SUBSET S
    OBVIOUS
  <2>5. PICK g : Adds(f, R \ {y}, g)
    BY <2>2, <2>3, <2>4 DEF Bad
  <2> DEFINE h == [s \in SUBSET R |-> (IF y \in s THEN f[y] ELSE 0) + g[s \ {y}]]
  <2>6. h \in [SUBSET R -> Int]
    <3>1. \A s \in SUBSET R : s \ {y} \in SUBSET (R \ {y})
      OBVIOUS
    <3>2. \A s \in SUBSET R : g[s \ {y}] \in Int
      BY <3>1, <2>5 DEF Adds
    <3>3. f[y] \in Int
      BY <2>1
    <3>4. QED BY <3>2, <3>3
  <2>7. h[{}] = 0
    <3>1. {} \ {y} = {} /\ {} \in SUBSET R
      OBVIOUS
    <3>2. QED BY <3>1, <2>5 DEF Adds
  <2>8. ASSUME NEW s \in SUBSET R, NEW x \in s PROVE h[s] = f[x] + h[s \ {x}]
    <3>1. s \ {y} \in SUBSET (R \ {y}) /\ (s \ {x}) \ {y} \in SUBSET (R \ {y}) /\ s \ {x} \in SUBSET R
      OBVIOUS
    <3>2. f[x] \in Int /\ g[s \ {y}] \in Int /\ g[(s \ {x}) \ {y}] \in Int
      BY <3>1, <2>5 DEF Adds
    <3>3. CASE x = y
      <4>1. (s \ {x}) \ {y} = s \ {y} /\ y \in s /\ y \notin s \ {x}
        BY <3>3
      <4>2. h[s] = f[y] + g[s \ {y}]
        BY <4>1
      <4>3. h[s \ {x}] = 0 + g[s \ {y}]
        BY <4>1, <3>1
      <4>4. QED BY <4>2, <4>3, <3>2, <3>3
    <3>4. CASE x # y
      <4>1. (s \ {x}) \ {y} = (s \ {y}) \ {x} /\ x \in s \ {y} /\ (y \in s \ {x} <=> y \in s)
        BY <3>4
      <4>2. g[s \ {y}] = f[x] + g[(s \ {x}) \ {y}]
        <5>1. \A r \in SUBSET (R \ {y}) : \A z \in r : g[r] = f[z] + g[r \ {z}]
          BY <2>5, Zenon DEF Adds
        <5>2. g[s \ {y}] = f[x] + g[(s \ {y}) \ {x}]
          BY <3>1, <4>1, <5>1, Zenon
        <5>3. QED BY <4>1, <5>2, Zenon
      <4>3. f[y] \in Int
        BY <2>1
      <4>4. QED BY <4>1, <4>2, <4>3, <3>1, <3>2
    <3>5. QED BY <3>3, <3>4
  <2>9. Adds(f, R, h)
    BY <2>6, <2>7, <2>8 DEF Adds
  <2>10. QED BY <2>9, <1>4
<1>8. QED BY <1>6, <1>7

(* CHOOSE picks the function that any Adds is. *)
(* SumFunction(f) is what a function that adds up f gives the whole domain.*)
LEMMA SumIs ==
  ASSUME NEW f, IsFiniteSet(DOMAIN f), NEW g, Adds(f, DOMAIN f, g)
  PROVE  SumFunction(f) = g[DOMAIN f]
<1> DEFINE S == DOMAIN f
           Step(k) == [s \in SUBSET S |-> IF s = {} THEN 0 ELSE f[CHOOSE x \in s : TRUE] + k[s \ {CHOOSE x \in s : TRUE}]]
           iter == CHOOSE k : k = Step(k)
<1>1. SumFunction(f) = iter[S]
  BY DEF SumFunction, SumFunctionOnSet, FoldFunctionOnSet, MapThenFoldSet
<1>2. g = Step(g)
  <2>1. \A s \in SUBSET S : g[s] = Step(g)[s]
    BY DEF Adds
  <2>2. g \in [SUBSET S -> Int]
    BY DEF Adds
  <2>3. QED BY <2>1, <2>2
<1>3. iter = Step(iter)
  BY <1>2
<1> HIDE DEF iter
<1> DEFINE Bad == {n \in Nat : \E s \in SUBSET S : Cardinality(s) = n /\ iter[s] # g[s]}
<1>4. SUFFICES ASSUME iter[S] # g[S] PROVE FALSE
  BY <1>1
<1>5. Bad # {} /\ Bad \subseteq Nat
  BY <1>4, FS_CardinalityType
<1>6. PICK n \in Bad : \A m \in Bad : n <= m
  <2> HIDE DEF Bad
  <2> QED BY <1>5, LeastOf
<1>7. PICK s \in SUBSET S : Cardinality(s) = n /\ iter[s] # g[s]
  BY <1>6
<1>8. iter[s] = Step(iter)[s] /\ g[s] = Step(g)[s]
  BY <1>2, <1>3
<1>9. s # {}
  BY <1>7, <1>8
<1> DEFINE y == CHOOSE x \in s : TRUE
<1>10. y \in s
  BY <1>9
<1>11. IsFiniteSet(s) /\ Cardinality(s \ {y}) = n - 1 /\ n \in Nat /\ n - 1 \in Nat
  <2>1. IsFiniteSet(s)
    BY FS_Subset
  <2>2. IsFiniteSet(s \ {y}) /\ Cardinality(s \ {y}) = Cardinality(s) - 1
    BY <1>10, <2>1, FS_RemoveElement
  <2>3. Cardinality(s \ {y}) \in Nat
    BY <2>2, FS_CardinalityType
  <2>4. QED BY <1>7, <2>1, <2>2, <2>3
<1>12. iter[s \ {y}] = g[s \ {y}]
  <2>1. n - 1 \notin Bad
    BY <1>6, <1>11
  <2>2. QED BY <2>1, <1>11
<1>13. iter[s] = f[y] + iter[s \ {y}] /\ g[s] = f[y] + g[s \ {y}]
  BY <1>8, <1>9
<1>14. QED BY <1>7, <1>12, <1>13

(* A sum of integers is an integer.                                        *)
LEMMA SumType ==
  ASSUME NEW f, IsFiniteSet(DOMAIN f), \A x \in DOMAIN f : f[x] \in Int
  PROVE  SumFunction(f) \in Int
<1>1. PICK g : Adds(f, DOMAIN f, g)
  BY SumsExist
<1>2. SumFunction(f) = g[DOMAIN f]
  BY <1>1, SumIs
<1>3. QED BY <1>1, <1>2 DEF Adds

(* The sum of no terms is zero.                                            *)
LEMMA SumEmpty ==
  ASSUME NEW f, DOMAIN f = {}
  PROVE  SumFunction(f) = 0
<1>1. IsFiniteSet(DOMAIN f)
  BY FS_EmptySet
<1>2. PICK g : Adds(f, DOMAIN f, g)
  BY <1>1, SumsExist
<1>3. QED BY <1>1, <1>2, SumIs DEF Adds

(* One term more. *)
(* Any one term of a sum can be taken out of it.                           *)
LEMMA SumAdds ==
  ASSUME NEW f, IsFiniteSet(DOMAIN f), \A x \in DOMAIN f : f[x] \in Int, NEW y \in DOMAIN f
  PROVE  SumFunction(f) = f[y] + SumFunction([x \in DOMAIN f \ {y} |-> f[x]])
<1> DEFINE S == DOMAIN f
           h == [x \in S \ {y} |-> f[x]]
<1>1. PICK g : Adds(f, S, g)
  BY SumsExist
<1>2. Adds(h, S \ {y}, [s \in SUBSET (S \ {y}) |-> g[s]])
  <2>1. SUBSET (S \ {y}) \subseteq SUBSET S
    OBVIOUS
  <2>2. \A s \in SUBSET (S \ {y}) : \A x \in s : h[x] = f[x] /\ s \ {x} \in SUBSET (S \ {y})
    OBVIOUS
  <2>3. QED BY <1>1, <2>1, <2>2 DEF Adds
<1>3. IsFiniteSet(DOMAIN h) /\ DOMAIN h = S \ {y}
  BY FS_Subset
<1>4. SumFunction(h) = g[S \ {y}]
  <2> HIDE DEF h
  <2>1. SumFunction(h) = [s \in SUBSET (S \ {y}) |-> g[s]][S \ {y}]
    BY <1>2, <1>3, SumIs
  <2>2. QED BY <2>1
<1>5. SumFunction(f) = g[S] /\ g[S] = f[y] + g[S \ {y}]
  BY <1>1, SumIs DEF Adds
<1>6. QED BY <1>4, <1>5

-----------------------------------------------------------------------------
(* Sums of sums, of multiples, and in the other order.                     *)

Cplx == Int \X Int
Ints(S) == [S -> Int]
Cplxs(S) == [S -> Cplx]

(* Functions made from functions, so that the lemmas have no bound variables. *)
PlusFun(f, g) == [x \in DOMAIN f |-> f[x] + g[x]]
TimesFun(c, f) == [x \in DOMAIN f |-> c * f[x]]
RowSums(f) == [i \in DOMAIN f |-> SumFunction(f[i])]
(* f and g are one table by rows and by columns.                           *)
Transposed(f, g, S, T) == /\ f \in [S -> Ints(T)] /\ g \in [T -> Ints(S)]
                          /\ \A i \in S, j \in T : f[i][j] = g[j][i]

(* The sum of a function to the integers is an integer.                    *)
LEMMA SumInt ==
  ASSUME NEW S, IsFiniteSet(S), NEW f \in Ints(S)
  PROVE  SumFunction(f) \in Int
BY SumType DEF Ints

(* The sum of two functions added is that of their sums.                   *)
LEMMA SumPlus ==
  ASSUME NEW S, IsFiniteSet(S), NEW f \in Ints(S), NEW g \in Ints(S)
  PROVE  PlusFun(f, g) \in Ints(S) /\ SumFunction(PlusFun(f, g)) = SumFunction(f) + SumFunction(g)
<1>1. PICK F : Adds(f, S, F)
  BY SumsExist DEF Ints
<1>2. PICK G : Adds(g, S, G)
  BY SumsExist DEF Ints
<1> DEFINE h == PlusFun(f, g)
           H == [s \in SUBSET S |-> F[s] + G[s]]
<1>3. Adds(h, S, H)
  <2>1. ASSUME NEW s \in SUBSET S, NEW x \in s PROVE H[s] = h[x] + H[s \ {x}]
    <3>1. F[s] = f[x] + F[s \ {x}] /\ G[s] = g[x] + G[s \ {x}]
      BY <1>1, <1>2 DEF Adds
    <3>2. f[x] \in Int /\ g[x] \in Int /\ F[s \ {x}] \in Int /\ G[s \ {x}] \in Int
      BY <1>1, <1>2 DEF Adds, Ints
    <3>3. s \ {x} \in SUBSET S /\ x \in S
      OBVIOUS
    <3>4. h[x] = f[x] + g[x]
      BY DEF PlusFun, Ints
    <3>5. QED BY <3>1, <3>2, <3>3, <3>4
  <2>2. H \in [SUBSET S -> Int] /\ H[{}] = 0
    BY <1>1, <1>2 DEF Adds
  <2>3. QED BY <2>1, <2>2 DEF Adds
<1>4. DOMAIN f = S /\ DOMAIN g = S /\ DOMAIN h = S
  BY DEF PlusFun, Ints
<1>5. SumFunction(h) = H[S]
  <2> HIDE DEF h, H
  <2> QED BY <1>3, <1>4, SumIs
<1>6. SumFunction(f) = F[S] /\ SumFunction(g) = G[S]
  BY <1>1, <1>2, <1>4, SumIs
<1>7. h \in Ints(S)
  BY DEF PlusFun, Ints
<1>8. QED BY <1>5, <1>6, <1>7

(* A factor can be taken out of a sum.                                     *)
LEMMA SumTimes ==
  ASSUME NEW S, IsFiniteSet(S), NEW f \in Ints(S), NEW c \in Int
  PROVE  TimesFun(c, f) \in Ints(S) /\ SumFunction(TimesFun(c, f)) = c * SumFunction(f)
<1>1. PICK F : Adds(f, S, F)
  BY SumsExist DEF Ints
<1> DEFINE h == TimesFun(c, f)
           H == [s \in SUBSET S |-> c * F[s]]
<1>2. Adds(h, S, H)
  <2>1. ASSUME NEW s \in SUBSET S, NEW x \in s PROVE H[s] = h[x] + H[s \ {x}]
    <3>1. F[s] = f[x] + F[s \ {x}]
      BY <1>1 DEF Adds
    <3>2. f[x] \in Int /\ F[s \ {x}] \in Int
      BY <1>1 DEF Adds, Ints
    <3>3. s \ {x} \in SUBSET S /\ x \in S
      OBVIOUS
    <3>4. c * (f[x] + F[s \ {x}]) = c * f[x] + c * F[s \ {x}]
      BY <3>2
    <3>5. h[x] = c * f[x]
      BY DEF TimesFun, Ints
    <3>6. QED BY <3>1, <3>3, <3>4, <3>5
  <2>2. H \in [SUBSET S -> Int] /\ H[{}] = 0
    BY <1>1 DEF Adds
  <2>3. QED BY <2>1, <2>2 DEF Adds
<1>3. DOMAIN f = S /\ DOMAIN h = S
  BY DEF TimesFun, Ints
<1>4. SumFunction(h) = H[S]
  <2> HIDE DEF h, H
  <2> QED BY <1>2, <1>3, SumIs
<1>5. SumFunction(f) = F[S]
  BY <1>1, <1>3, SumIs
<1>6. h \in Ints(S)
  BY DEF TimesFun, Ints
<1>7. QED BY <1>4, <1>5, <1>6

(* A sum of zeros is zero.                                                 *)
LEMMA SumZero ==
  ASSUME NEW S, IsFiniteSet(S)
  PROVE  SumFunction([x \in S |-> 0]) = 0
<1> DEFINE h == [x \in S |-> 0]
           H == [s \in SUBSET S |-> 0]
<1>1. Adds(h, S, H) /\ DOMAIN h = S
  BY DEF Adds
<1>2. SumFunction(h) = H[S]
  <2> HIDE DEF h, H
  <2> QED BY <1>1, SumIs
<1>3. QED BY <1>2

(* A double sum in either order. *)
(* A double sum is the same in either order.                               *)
LEMMA SumSwap ==
  ASSUME NEW S, NEW T, IsFiniteSet(S), IsFiniteSet(T), NEW f, NEW g, Transposed(f, g, S, T)
  PROVE  /\ RowSums(f) \in Ints(S) /\ RowSums(g) \in Ints(T)
         /\ SumFunction(RowSums(f)) = SumFunction(RowSums(g))
<1> DEFINE col(s) == [j \in T |-> SumFunction([i \in s |-> f[i][j]])]
           h == RowSums(f)
           H == [s \in SUBSET S |-> SumFunction(col(s))]
<1>0. /\ DOMAIN f = S /\ DOMAIN g = T /\ g = [j \in T |-> g[j]]
      /\ \A i \in S : f[i] \in Ints(T)
      /\ \A j \in T : g[j] \in Ints(S)
      /\ \A i \in S, j \in T : f[i][j] \in Int /\ f[i][j] = g[j][i]
  BY DEF Transposed, Ints
<1>1. ASSUME NEW s \in SUBSET S PROVE col(s) \in Ints(T) /\ H[s] \in Int
  <2>1. IsFiniteSet(s)
    BY FS_Subset
  <2>2. ASSUME NEW j \in T PROVE SumFunction([i \in s |-> f[i][j]]) \in Int
    BY <1>0, <2>1, SumType
  <2>3. col(s) \in Ints(T)
    BY <2>2 DEF Ints
  <2>4. SumFunction(col(s)) \in Int
    <3> HIDE DEF col
    <3> QED BY <2>3, SumInt
  <2>5. QED BY <2>3, <2>4
<1>2. H[{}] = 0
  <2>1. \A j \in T : SumFunction([i \in {} |-> f[i][j]]) = 0
    BY SumEmpty
  <2>2. col({}) = [j \in T |-> 0]
    BY <2>1
  <2>3. SumFunction(col({})) = 0
    BY <2>2, SumZero
  <2>4. QED BY <2>3
<1>3. ASSUME NEW s \in SUBSET S, NEW x \in s PROVE H[s] = h[x] + H[s \ {x}]
  <2>1. IsFiniteSet(s) /\ s \ {x} \in SUBSET S /\ x \in S
    BY FS_Subset
  <2>2. ASSUME NEW j \in T PROVE col(s)[j] = f[x][j] + col(s \ {x})[j]
    <3> DEFINE c == [i \in s |-> f[i][j]]
    <3>1. DOMAIN c = s /\ \A i \in s : c[i] \in Int
      BY <1>0
    <3>2. SumFunction(c) = c[x] + SumFunction([i \in s \ {x} |-> c[i]])
      <4> HIDE DEF c
      <4> QED BY <2>1, <3>1, SumAdds
    <3>3. [i \in s \ {x} |-> c[i]] = [i \in s \ {x} |-> f[i][j]]
      OBVIOUS
    <3>4. QED BY <3>2, <3>3
  <2> DEFINE k == col(s \ {x})
  <2>3. f[x] \in Ints(T) /\ k \in Ints(T) /\ DOMAIN f[x] = T
    BY <1>0, <1>1, <2>1 DEF Ints
  <2>4. col(s) = PlusFun(f[x], k)
    BY <2>2, <2>3 DEF PlusFun
  <2>5. SumFunction(PlusFun(f[x], k)) = SumFunction(f[x]) + SumFunction(k)
    <3> HIDE DEF k
    <3> QED BY <2>3, SumPlus
  <2>6. h[x] = SumFunction(f[x])
    BY <1>0 DEF RowSums
  <2>7. QED BY <2>1, <2>4, <2>5, <2>6
<1>4. H \in [SUBSET S -> Int]
  BY <1>1
<1>5. Adds(h, S, H) /\ DOMAIN h = S
  <2>1. DOMAIN h = S
    BY <1>0 DEF RowSums
  <2> HIDE DEF h, H
  <2>2. QED BY <1>2, <1>3, <1>4, <2>1 DEF Adds
<1>6. SumFunction(h) = H[S]
  <2> HIDE DEF h, H
  <2> QED BY <1>5, SumIs
<1>7. col(S) = RowSums(g)
  <2>1. \A j \in T : [i \in S |-> f[i][j]] = g[j]
    BY <1>0 DEF Ints
  <2>2. QED BY <1>0, <2>1 DEF RowSums
<1>8. RowSums(f) \in Ints(S) /\ RowSums(g) \in Ints(T)
  <2>1. \A i \in S : SumFunction(f[i]) \in Int
    BY <1>0, SumInt
  <2>2. \A j \in T : SumFunction(g[j]) \in Int
    BY <1>0, SumInt
  <2>3. QED BY <1>0, <2>1, <2>2 DEF RowSums, Ints
<1>9. QED BY <1>6, <1>7, <1>8

-----------------------------------------------------------------------------
(* Gaussian integers and their sums.                                       *)

Re(f) == [k \in DOMAIN f |-> f[k][1]]
Im(f) == [k \in DOMAIN f |-> f[k][2]]
CPlusFun(f, g) == [k \in DOMAIN f |-> cadd(f[k], g[k])]
CTimesFun(c, f) == [k \in DOMAIN f |-> cmul(c, f[k])]
ConjFun(f) == [k \in DOMAIN f |-> conj(f[k])]
CRowSums(f) == [i \in DOMAIN f |-> CSumOf(f[i])]
(* f and g are one table by rows and by columns.                           *)
CTransposed(f, g, S, T) == /\ f \in [S -> Cplxs(T)] /\ g \in [T -> Cplxs(S)]
                           /\ \A i \in S, j \in T : f[i][j] = g[j][i]

(* Sums, differences and products of Gaussian integers are Gaussian        *)
(* integers.                                                               *)
LEMMA CplxTypes ==
  ASSUME NEW x \in Cplx, NEW y \in Cplx
  PROVE  cadd(x, y) \in Cplx /\ csub(x, y) \in Cplx /\ cmul(x, y) \in Cplx
BY DEF Cplx, cadd, csub, cmul

(* So are conjugates.                                                      *)
LEMMA ConjType ==
  ASSUME NEW x \in Cplx
  PROVE  conj(x) \in Cplx
BY DEF Cplx, conj

(* So are multiples.                                                       *)
LEMMA TimesType ==
  ASSUME NEW x \in Cplx, NEW k \in Int
  PROVE  times(k, x) \in Cplx
BY DEF Cplx, times

(* The laws of the ring, of the conjugate, and of the products with it.    *)
LEMMA CplxLaws ==
  ASSUME NEW x \in Cplx, NEW y \in Cplx, NEW z \in Cplx
  PROVE  /\ cmul(x, y) = cmul(y, x)
         /\ cmul(x, cmul(y, z)) = cmul(cmul(x, y), z)
         /\ cmul(x, cadd(y, z)) = cadd(cmul(x, y), cmul(x, z))
         /\ cmul(cadd(y, z), x) = cadd(cmul(y, x), cmul(z, x))
         /\ conj(cmul(x, y)) = cmul(conj(x), conj(y))
         /\ conj(conj(x)) = x
         /\ cmul_b_conj(x, y) = cmul(x, conj(y))
         /\ cmul_a_conj(x, y) = cmul(conj(x), y)
<1>1. PICK a \in Int, b \in Int : x = <<a, b>>
  BY DEF Cplx
<1>2. PICK c \in Int, d \in Int : y = <<c, d>>
  BY DEF Cplx
<1>3. PICK e \in Int, f \in Int : z = <<e, f>>
  BY DEF Cplx
<1>4. QED BY <1>1, <1>2, <1>3 DEF cadd, cmul, conj, cmul_b_conj, cmul_a_conj

(* A sum of Gaussian integers is the sum of the real parts and that of the *)
(* imaginary ones.                                                         *)
LEMMA CSumParts ==
  ASSUME NEW f
  PROVE  CSumOf(f) = <<SumFunction(Re(f)), SumFunction(Im(f))>>
BY DEF CSumOf, SumOver, Re, Im

(* Both parts of a function to the Gaussian integers go to the integers.   *)
LEMMA PartsTypes ==
  ASSUME NEW S, NEW f \in Cplxs(S)
  PROVE  Re(f) \in Ints(S) /\ Im(f) \in Ints(S)
BY DEF Re, Im, Cplx, Cplxs, Ints

(* A sum of Gaussian integers is one.                                      *)
LEMMA CSumType ==
  ASSUME NEW S, IsFiniteSet(S), NEW f \in Cplxs(S)
  PROVE  CSumOf(f) \in Cplx
<1>1. Re(f) \in Ints(S) /\ Im(f) \in Ints(S)
  BY PartsTypes
<1>2. QED BY <1>1, CSumParts, SumInt DEF Cplx

(* The sum of two functions added is that of their sums.                   *)
LEMMA CSumPlus ==
  ASSUME NEW S, IsFiniteSet(S), NEW f \in Cplxs(S), NEW g \in Cplxs(S)
  PROVE  CSumOf(CPlusFun(f, g)) = cadd(CSumOf(f), CSumOf(g))
<1>1. Re(f) \in Ints(S) /\ Im(f) \in Ints(S) /\ Re(g) \in Ints(S) /\ Im(g) \in Ints(S)
  BY PartsTypes
<1>2. Re(CPlusFun(f, g)) = PlusFun(Re(f), Re(g)) /\ Im(CPlusFun(f, g)) = PlusFun(Im(f), Im(g))
  BY DEF Re, Im, cadd, CPlusFun, PlusFun, Cplxs
<1>3. /\ SumFunction(PlusFun(Re(f), Re(g))) = SumFunction(Re(f)) + SumFunction(Re(g))
      /\ SumFunction(PlusFun(Im(f), Im(g))) = SumFunction(Im(f)) + SumFunction(Im(g))
  BY <1>1, SumPlus
<1>4. QED BY <1>2, <1>3, CSumParts DEF cadd

(* A factor can be taken out of a sum.                                     *)
LEMMA CSumTimes ==
  ASSUME NEW S, IsFiniteSet(S), NEW f \in Cplxs(S), NEW c \in Cplx
  PROVE  CSumOf(CTimesFun(c, f)) = cmul(c, CSumOf(f))
<1> DEFINE p == TimesFun(c[1], Re(f))
           q == TimesFun(-c[2], Im(f))
           r == TimesFun(c[1], Im(f))
           t == TimesFun(c[2], Re(f))
           h == CTimesFun(c, f)
<1>1. Re(f) \in Ints(S) /\ Im(f) \in Ints(S) /\ c[1] \in Int /\ c[2] \in Int /\ -c[2] \in Int
  BY PartsTypes DEF Cplx
<1>2. p \in Ints(S) /\ q \in Ints(S) /\ r \in Ints(S) /\ t \in Ints(S)
  BY <1>1, SumTimes
<1>3. Re(h) = PlusFun(p, q) /\ Im(h) = PlusFun(r, t)
  <2>1. DOMAIN h = S /\ DOMAIN p = S /\ DOMAIN q = S /\ DOMAIN r = S /\ DOMAIN t = S
    BY <1>2 DEF Ints, CTimesFun, Cplxs
  <2>2. ASSUME NEW k \in S PROVE h[k][1] = p[k] + q[k] /\ h[k][2] = r[k] + t[k]
    <3>1. Re(f)[k] = f[k][1] /\ Im(f)[k] = f[k][2] /\ f[k][1] \in Int /\ f[k][2] \in Int
      BY DEF Cplx, Re, Im, Cplxs
    <3>2. h[k] = <<c[1] * f[k][1] - c[2] * f[k][2], c[1] * f[k][2] + c[2] * f[k][1]>>
      BY DEF cmul, CTimesFun, Cplxs
    <3>3. PICK a \in Int, b \in Int, u \in Int, v \in Int : c[1] = a /\ c[2] = b /\ f[k][1] = u /\ f[k][2] = v
      BY <1>1, <3>1
    <3>4. a * u - b * v = a * u + (-b) * v
      BY SMT
    <3>5. p[k] = c[1] * Re(f)[k] /\ q[k] = (-c[2]) * Im(f)[k] /\ r[k] = c[1] * Im(f)[k] /\ t[k] = c[2] * Re(f)[k]
      BY <1>1 DEF TimesFun, Ints
    <3>6. QED BY <3>1, <3>2, <3>3, <3>4, <3>5
  <2> HIDE DEF p, q, r, t, h
  <2>3. QED BY <2>1, <2>2 DEF Re, Im, PlusFun
<1>4. SumFunction(PlusFun(p, q)) = SumFunction(p) + SumFunction(q)
      /\ SumFunction(PlusFun(r, t)) = SumFunction(r) + SumFunction(t)
  <2> HIDE DEF p, q, r, t
  <2> QED BY <1>2, SumPlus
<1>5. /\ SumFunction(p) = c[1] * SumFunction(Re(f)) /\ SumFunction(q) = (-c[2]) * SumFunction(Im(f))
      /\ SumFunction(r) = c[1] * SumFunction(Im(f)) /\ SumFunction(t) = c[2] * SumFunction(Re(f))
  BY <1>1, SumTimes
<1>6. SumFunction(Re(f)) \in Int /\ SumFunction(Im(f)) \in Int
  BY <1>1, SumInt
<1> HIDE DEF p, q, r, t, h
<1>7. cmul(c, CSumOf(f)) = <<c[1] * SumFunction(Re(f)) - c[2] * SumFunction(Im(f)),
                             c[1] * SumFunction(Im(f)) + c[2] * SumFunction(Re(f))>>
  BY CSumParts DEF cmul
<1>8. c[1] * SumFunction(Re(f)) - c[2] * SumFunction(Im(f)) = c[1] * SumFunction(Re(f)) + (-c[2]) * SumFunction(Im(f))
  BY <1>1, <1>6
<1>9. CSumOf(h) = cmul(c, CSumOf(f))
  BY <1>3, <1>4, <1>5, <1>7, <1>8, CSumParts
<1>10. QED BY <1>9 DEF h

(* The conjugate of a sum is the sum of the conjugates.                    *)
LEMMA CSumConj ==
  ASSUME NEW S, IsFiniteSet(S), NEW f \in Cplxs(S)
  PROVE  CSumOf(ConjFun(f)) = conj(CSumOf(f))
<1>1. Re(f) \in Ints(S) /\ Im(f) \in Ints(S)
  BY PartsTypes
<1>2. Re(ConjFun(f)) = Re(f)
  BY DEF Re, conj, ConjFun
<1>3. Im(ConjFun(f)) = TimesFun(-1, Im(f))
  BY DEF Im, conj, ConjFun, TimesFun, Cplxs, Cplx
<1>4. SumFunction(TimesFun(-1, Im(f))) = (-1) * SumFunction(Im(f)) /\ SumFunction(Im(f)) \in Int
  BY <1>1, SumTimes, SumInt
<1>5. QED BY <1>2, <1>3, <1>4, CSumParts DEF conj

(* A double sum is the same in either order.                               *)
LEMMA CSumSwap ==
  ASSUME NEW S, NEW T, IsFiniteSet(S), IsFiniteSet(T), NEW f, NEW g, CTransposed(f, g, S, T)
  PROVE  CSumOf(CRowSums(f)) = CSumOf(CRowSums(g))
<1> DEFINE fr == [i \in S |-> Re(f[i])]
           fi == [i \in S |-> Im(f[i])]
           gr == [j \in T |-> Re(g[j])]
           gi == [j \in T |-> Im(g[j])]
<1>1. /\ \A i \in S : f[i] \in Cplxs(T)
      /\ \A j \in T : g[j] \in Cplxs(S)
      /\ \A i \in S, j \in T : f[i][j] = g[j][i]
      /\ DOMAIN f = S /\ DOMAIN g = T
  BY DEF CTransposed
<1>2. Transposed(fr, gr, S, T) /\ Transposed(fi, gi, S, T)
  <2>1. \A i \in S : fr[i] \in Ints(T) /\ fi[i] \in Ints(T)
    BY <1>1, PartsTypes
  <2>2. \A j \in T : gr[j] \in Ints(S) /\ gi[j] \in Ints(S)
    BY <1>1, PartsTypes
  <2>3. ASSUME NEW i \in S, NEW j \in T PROVE fr[i][j] = gr[j][i] /\ fi[i][j] = gi[j][i]
    <3>1. fr[i][j] = f[i][j][1] /\ fi[i][j] = f[i][j][2]
      BY <1>1 DEF Re, Im, Cplxs
    <3>2. gr[j][i] = g[j][i][1] /\ gi[j][i] = g[j][i][2]
      BY <1>1 DEF Re, Im, Cplxs
    <3>3. QED BY <1>1, <3>1, <3>2
  <2>4. fr \in [S -> Ints(T)] /\ fi \in [S -> Ints(T)] /\ gr \in [T -> Ints(S)] /\ gi \in [T -> Ints(S)]
    BY <2>1, <2>2
  <2> HIDE DEF fr, fi, gr, gi
  <2>5. QED BY <2>3, <2>4 DEF Transposed
<1>3. Re(CRowSums(f)) = RowSums(fr) /\ Im(CRowSums(f)) = RowSums(fi)
  BY <1>1, CSumParts DEF Re, Im, CRowSums, RowSums
<1>4. Re(CRowSums(g)) = RowSums(gr) /\ Im(CRowSums(g)) = RowSums(gi)
  BY <1>1, CSumParts DEF Re, Im, CRowSums, RowSums
<1> HIDE DEF fr, fi, gr, gi
<1>5. SumFunction(RowSums(fr)) = SumFunction(RowSums(gr)) /\ SumFunction(RowSums(fi)) = SumFunction(RowSums(gi))
  BY <1>2, SumSwap
<1>6. QED BY <1>3, <1>4, <1>5, CSumParts

-----------------------------------------------------------------------------
(* Matrices, by their entries N * i + j.                                   *)

Dim(N) == 0 .. N - 1
Mat(N) == Cplxs(Entries(N))
(* The terms of entry (i, j) of a product.                                 *)
RowCol(N, x, y, i, j) == [k \in Dim(N) |-> cmul(x[N * i + k], y[N * k + j])]

(* Table(f) is f.                                                          *)
LEMMA TableIs ==
  ASSUME NEW f
  PROVE  Table(f) = f
BY DEF Table

(* Entry and pair of row and column determine each other.                  *)
LEMMA SizeFacts ==
  ASSUME NEW N \in 1 .. 3
  PROVE  /\ IsFiniteSet(Dim(N)) /\ IsFiniteSet(Entries(N))
         /\ \A e \in Entries(N) : /\ e \div N \in Dim(N) /\ e % N \in Dim(N)
                                  /\ N * (e \div N) + (e % N) = e
         /\ \A i, j \in Dim(N) : /\ N * i + j \in Entries(N)
                                 /\ (N * i + j) \div N = i /\ (N * i + j) % N = j
         /\ \A i \in Dim(N) : (N + 1) * i = N * i + i
<1>1. IsFiniteSet(0 .. N - 1) /\ IsFiniteSet(0 .. N * N - 1)
  <2>1. N - 1 \in Int /\ N * N - 1 \in Int
    OBVIOUS
  <2>2. QED BY <2>1, FS_Interval
<1>2. CASE N = 1
  BY <1>1, <1>2 DEF Dim, Entries
<1>3. CASE N = 2
  BY <1>1, <1>3 DEF Dim, Entries
<1>4. CASE N = 3
  BY <1>1, <1>4 DEF Dim, Entries
<1>5. QED BY <1>2, <1>3, <1>4

(* Two matrices are equal if their entries are. *)
(* Matrices that agree in every row and column are the same.               *)
LEMMA SameMatrix ==
  ASSUME NEW N \in 1 .. 3, NEW x \in Mat(N), NEW y \in Mat(N),
         \A i, j \in Dim(N) : x[N * i + j] = y[N * i + j]
  PROVE  x = y
<1>1. \A e \in Entries(N) : x[e] = y[e]
  BY SizeFacts
<1>2. QED BY <1>1 DEF Mat, Cplxs

(* An entry is a Gaussian integer.                                         *)
LEMMA EntryType ==
  ASSUME NEW N \in 1 .. 3, NEW x \in Mat(N), NEW i \in Dim(N), NEW j \in Dim(N)
  PROVE  x[N * i + j] \in Cplx
BY SizeFacts DEF Mat, Cplxs

(* The terms of an entry of a product, and their sum, are Gaussian         *)
(* integers.                                                               *)
LEMMA RowColType ==
  ASSUME NEW N \in 1 .. 3, NEW x \in Mat(N), NEW y \in Mat(N), NEW i \in Dim(N), NEW j \in Dim(N)
  PROVE  RowCol(N, x, y, i, j) \in Cplxs(Dim(N)) /\ CSumOf(RowCol(N, x, y, i, j)) \in Cplx
<1>1. ASSUME NEW k \in Dim(N) PROVE cmul(x[N * i + k], y[N * k + j]) \in Cplx
  <2>1. x[N * i + k] \in Cplx /\ y[N * k + j] \in Cplx
    BY EntryType
  <2>2. QED BY <2>1, CplxTypes
<1>2. RowCol(N, x, y, i, j) \in Cplxs(Dim(N))
  BY <1>1 DEF RowCol, Cplxs
<1>3. QED BY <1>2, CSumType, SizeFacts

(* The entries of a product.                                               *)
LEMMA ProductAt ==
  ASSUME NEW N \in 1 .. 3, NEW x \in Mat(N), NEW y \in Mat(N)
  PROVE  /\ Product(N, x, y) \in Mat(N)
         /\ \A i, j \in Dim(N) : Product(N, x, y)[N * i + j] = CSumOf(RowCol(N, x, y, i, j))
<1> DEFINE p == [e \in Entries(N) |-> CSumOf(RowCol(N, x, y, e \div N, e % N))]
<1>1. Product(N, x, y) = p
  <2>1. Product(N, x, y) = Table(p)
    BY DEF Product, CSum, RowCol, Dim
  <2>2. QED BY <2>1, TableIs
<1>2. p \in Mat(N)
  BY RowColType, SizeFacts DEF Mat, Cplxs
<1>3. \A i, j \in Dim(N) : p[N * i + j] = CSumOf(RowCol(N, x, y, i, j))
  BY SizeFacts
<1>4. QED BY <1>1, <1>2, <1>3

(* The entries of the adjoint.                                             *)
LEMMA DaggerAt ==
  ASSUME NEW N \in 1 .. 3, NEW x \in Mat(N)
  PROVE  /\ Dagger(N, x) \in Mat(N)
         /\ \A i, j \in Dim(N) : Dagger(N, x)[N * i + j] = conj(x[N * j + i])
<1> DEFINE p == [e \in Entries(N) |-> conj(x[N * (e % N) + (e \div N)])]
<1>1. Dagger(N, x) = p
  <2>1. Dagger(N, x) = Table(p)
    BY DEF Dagger
  <2>2. QED BY <2>1, TableIs
<1>2. ASSUME NEW e \in Entries(N) PROVE conj(x[N * (e % N) + (e \div N)]) \in Cplx
  <2>1. e % N \in Dim(N) /\ e \div N \in Dim(N)
    BY SizeFacts
  <2>2. x[N * (e % N) + (e \div N)] \in Cplx
    BY <2>1, EntryType
  <2>3. QED BY <2>2, ConjType
<1>3. p \in Mat(N)
  BY <1>2 DEF Mat, Cplxs
<1>4. \A i, j \in Dim(N) : p[N * i + j] = conj(x[N * j + i])
  BY SizeFacts
<1>5. QED BY <1>1, <1>3, <1>4

(* The entries of a sum.                                                   *)
LEMMA PlusAt ==
  ASSUME NEW N \in 1 .. 3, NEW x \in Mat(N), NEW y \in Mat(N)
  PROVE  /\ Plus(x, y) \in Mat(N)
         /\ \A e \in Entries(N) : Plus(x, y)[e] = cadd(x[e], y[e])
<1> DEFINE p == [e \in DOMAIN x |-> cadd(x[e], y[e])]
<1>1. Plus(x, y) = p
  <2>1. Plus(x, y) = Table(p)
    BY DEF Plus
  <2>2. QED BY <2>1, TableIs
<1>2. DOMAIN x = Entries(N)
  BY DEF Mat, Cplxs
<1>3. \A e \in Entries(N) : cadd(x[e], y[e]) \in Cplx
  BY CplxTypes DEF Mat, Cplxs
<1>4. QED BY <1>1, <1>2, <1>3 DEF Mat, Cplxs

(* The entries of a multiple.                                              *)
LEMMA ScaledAt ==
  ASSUME NEW N \in 1 .. 3, NEW x \in Mat(N), NEW k \in Int
  PROVE  /\ Scaled(k, x) \in Mat(N)
         /\ \A e \in Entries(N) : Scaled(k, x)[e] = times(k, x[e])
BY TimesType DEF Scaled, Mat, Cplxs

-----------------------------------------------------------------------------
(* The algebra of matrices of any size: products associate, the adjoint    *)
(* reverses them, the trace is cyclic.                                     *)

Diagonal(N, x) == [i \in Dim(N) |-> x[N * i + i]]

(* Products associate.                                                     *)
LEMMA Associative ==
  ASSUME NEW N \in 1 .. 3, NEW x \in Mat(N), NEW y \in Mat(N), NEW z \in Mat(N)
  PROVE  Product(N, Product(N, x, y), z) = Product(N, x, Product(N, y, z))
<1> DEFINE xy == Product(N, x, y)
           yz == Product(N, y, z)
<1>1. xy \in Mat(N) /\ yz \in Mat(N)
  BY ProductAt
<1>2. ASSUME NEW i \in Dim(N), NEW j \in Dim(N)
      PROVE  CSumOf(RowCol(N, xy, z, i, j)) = CSumOf(RowCol(N, x, yz, i, j))
  <2> DEFINE f == [l \in Dim(N) |-> CTimesFun(z[N * l + j], RowCol(N, x, y, i, l))]
             g == [k \in Dim(N) |-> CTimesFun(x[N * i + k], RowCol(N, y, z, k, j))]
  <2>1. ASSUME NEW k \in Dim(N), NEW l \in Dim(N)
        PROVE  /\ f[l][k] = g[k][l] /\ f[l][k] \in Cplx
               /\ f[l][k] = cmul(z[N * l + j], cmul(x[N * i + k], y[N * k + l]))
    <3>1. x[N * i + k] \in Cplx /\ y[N * k + l] \in Cplx /\ z[N * l + j] \in Cplx
      BY EntryType
    <3>2. f[l][k] = cmul(z[N * l + j], cmul(x[N * i + k], y[N * k + l]))
      BY DEF CTimesFun, RowCol
    <3>3. g[k][l] = cmul(x[N * i + k], cmul(y[N * k + l], z[N * l + j]))
      BY DEF CTimesFun, RowCol
    <3>4. cmul(x[N * i + k], y[N * k + l]) \in Cplx
      BY <3>1, CplxTypes
    <3>5. cmul(z[N * l + j], cmul(x[N * i + k], y[N * k + l])) = cmul(cmul(x[N * i + k], y[N * k + l]), z[N * l + j])
      BY <3>1, <3>4, CplxLaws
    <3>6. cmul(cmul(x[N * i + k], y[N * k + l]), z[N * l + j]) = cmul(x[N * i + k], cmul(y[N * k + l], z[N * l + j]))
      BY <3>1, CplxLaws
    <3>7. cmul(z[N * l + j], cmul(x[N * i + k], y[N * k + l])) \in Cplx
      BY <3>1, <3>4, CplxTypes
    <3>8. QED BY <3>2, <3>3, <3>5, <3>6, <3>7
  <2>2. CTransposed(f, g, Dim(N), Dim(N))
    <3>1. \A l \in Dim(N) : f[l] = [k \in Dim(N) |-> f[l][k]] /\ g[l] = [k \in Dim(N) |-> g[l][k]]
      BY DEF CTimesFun, RowCol
    <3>2. \A l \in Dim(N) : f[l] \in Cplxs(Dim(N)) /\ g[l] \in Cplxs(Dim(N))
      <4> HIDE DEF f, g
      <4> QED BY <2>1, <3>1 DEF Cplxs
    <3>3. f \in [Dim(N) -> Cplxs(Dim(N))] /\ g \in [Dim(N) -> Cplxs(Dim(N))]
      BY <3>2
    <3> HIDE DEF f, g
    <3>4. QED BY <2>1, <3>3 DEF CTransposed
  <2>3. IsFiniteSet(Dim(N))
    BY SizeFacts
  <2>4. CRowSums(f) = RowCol(N, xy, z, i, j)
    <3>1. ASSUME NEW l \in Dim(N) PROVE CSumOf(f[l]) = cmul(xy[N * i + l], z[N * l + j])
      <4>1. RowCol(N, x, y, i, l) \in Cplxs(Dim(N)) /\ CSumOf(RowCol(N, x, y, i, l)) \in Cplx
        BY RowColType
      <4>2. z[N * l + j] \in Cplx
        BY EntryType
      <4>3. CSumOf(CTimesFun(z[N * l + j], RowCol(N, x, y, i, l))) = cmul(z[N * l + j], CSumOf(RowCol(N, x, y, i, l)))
        BY <2>3, <4>1, <4>2, CSumTimes
      <4>4. xy[N * i + l] = CSumOf(RowCol(N, x, y, i, l))
        BY ProductAt
      <4>5. cmul(z[N * l + j], CSumOf(RowCol(N, x, y, i, l))) = cmul(CSumOf(RowCol(N, x, y, i, l)), z[N * l + j])
        BY <4>1, <4>2, CplxLaws
      <4>6. QED BY <4>3, <4>4, <4>5
    <3>2. DOMAIN f = Dim(N)
      OBVIOUS
    <3> HIDE DEF f, xy
    <3>3. QED BY <3>1, <3>2 DEF CRowSums, RowCol
  <2>5. CRowSums(g) = RowCol(N, x, yz, i, j)
    <3>1. ASSUME NEW k \in Dim(N) PROVE CSumOf(g[k]) = cmul(x[N * i + k], yz[N * k + j])
      <4>1. RowCol(N, y, z, k, j) \in Cplxs(Dim(N))
        BY RowColType
      <4>2. x[N * i + k] \in Cplx
        BY EntryType
      <4>3. CSumOf(CTimesFun(x[N * i + k], RowCol(N, y, z, k, j))) = cmul(x[N * i + k], CSumOf(RowCol(N, y, z, k, j)))
        BY <2>3, <4>1, <4>2, CSumTimes
      <4>4. yz[N * k + j] = CSumOf(RowCol(N, y, z, k, j))
        BY ProductAt
      <4>5. QED BY <4>3, <4>4
    <3>2. DOMAIN g = Dim(N)
      OBVIOUS
    <3> HIDE DEF g, yz
    <3>3. QED BY <3>1, <3>2 DEF CRowSums, RowCol
  <2> HIDE DEF f, g, xy, yz
  <2>6. QED BY <2>2, <2>3, <2>4, <2>5, CSumSwap
<1> HIDE DEF xy, yz
<1>3. /\ Product(N, xy, z) \in Mat(N) /\ Product(N, x, yz) \in Mat(N)
      /\ \A i, j \in Dim(N) : Product(N, xy, z)[N * i + j] = Product(N, x, yz)[N * i + j]
  BY <1>1, <1>2, ProductAt
<1>4. Product(N, xy, z) = Product(N, x, yz)
  BY <1>3, SameMatrix
<1>5. QED BY <1>4 DEF xy, yz

(* The adjoint of a product is the product of the adjoints, reversed.      *)
LEMMA DaggerOfProduct ==
  ASSUME NEW N \in 1 .. 3, NEW x \in Mat(N), NEW y \in Mat(N)
  PROVE  Dagger(N, Product(N, x, y)) = Product(N, Dagger(N, y), Dagger(N, x))
<1>1. /\ Product(N, x, y) \in Mat(N) /\ Dagger(N, x) \in Mat(N) /\ Dagger(N, y) \in Mat(N)
      /\ Dagger(N, Product(N, x, y)) \in Mat(N) /\ Product(N, Dagger(N, y), Dagger(N, x)) \in Mat(N)
  BY ProductAt, DaggerAt
<1>2. ASSUME NEW i \in Dim(N), NEW j \in Dim(N)
      PROVE  Dagger(N, Product(N, x, y))[N * i + j] = Product(N, Dagger(N, y), Dagger(N, x))[N * i + j]
  <2>1. Dagger(N, Product(N, x, y))[N * i + j] = conj(CSumOf(RowCol(N, x, y, j, i)))
    BY <1>1, DaggerAt, ProductAt
  <2>2. Product(N, Dagger(N, y), Dagger(N, x))[N * i + j] = CSumOf(RowCol(N, Dagger(N, y), Dagger(N, x), i, j))
    BY <1>1, ProductAt
  <2>3. RowCol(N, Dagger(N, y), Dagger(N, x), i, j) = ConjFun(RowCol(N, x, y, j, i))
    <3>1. ASSUME NEW k \in Dim(N)
          PROVE  cmul(Dagger(N, y)[N * i + k], Dagger(N, x)[N * k + j]) = conj(cmul(x[N * j + k], y[N * k + i]))
      <4>1. Dagger(N, y)[N * i + k] = conj(y[N * k + i]) /\ Dagger(N, x)[N * k + j] = conj(x[N * j + k])
        BY DaggerAt
      <4>2. x[N * j + k] \in Cplx /\ y[N * k + i] \in Cplx
        BY EntryType
      <4>3. conj(x[N * j + k]) \in Cplx /\ conj(y[N * k + i]) \in Cplx
        BY <4>2, ConjType
      <4>4. conj(cmul(x[N * j + k], y[N * k + i])) = cmul(conj(x[N * j + k]), conj(y[N * k + i]))
        BY <4>2, CplxLaws
      <4>5. cmul(conj(x[N * j + k]), conj(y[N * k + i])) = cmul(conj(y[N * k + i]), conj(x[N * j + k]))
        BY <4>3, CplxLaws
      <4>6. QED BY <4>1, <4>4, <4>5
    <3>2. QED BY <3>1 DEF RowCol, ConjFun
  <2>4. CSumOf(ConjFun(RowCol(N, x, y, j, i))) = conj(CSumOf(RowCol(N, x, y, j, i)))
    BY RowColType, SizeFacts, CSumConj
  <2>5. QED BY <2>1, <2>2, <2>3, <2>4
<1>3. QED BY <1>1, <1>2, SameMatrix

(* The adjoint of the adjoint is the matrix.                               *)
LEMMA DaggerTwice ==
  ASSUME NEW N \in 1 .. 3, NEW x \in Mat(N)
  PROVE  Dagger(N, Dagger(N, x)) = x
<1>1. Dagger(N, x) \in Mat(N) /\ Dagger(N, Dagger(N, x)) \in Mat(N)
  BY DaggerAt
<1>2. ASSUME NEW i \in Dim(N), NEW j \in Dim(N) PROVE Dagger(N, Dagger(N, x))[N * i + j] = x[N * i + j]
  <2>1. Dagger(N, Dagger(N, x))[N * i + j] = conj(conj(x[N * i + j]))
    BY <1>1, DaggerAt
  <2>2. x[N * i + j] \in Cplx
    BY EntryType
  <2>3. QED BY <2>1, <2>2, CplxLaws
<1>3. QED BY <1>1, <1>2, SameMatrix

(* The trace is the sum of the diagonal.                                   *)
LEMMA TraceIs ==
  ASSUME NEW N \in 1 .. 3, NEW x \in Mat(N)
  PROVE  Trace(N, x) = CSumOf(Diagonal(N, x)) /\ Diagonal(N, x) \in Cplxs(Dim(N))
<1>1. \A i \in Dim(N) : (N + 1) * i = N * i + i /\ x[N * i + i] \in Cplx
  BY SizeFacts, EntryType
<1>2. [i \in Dim(N) |-> x[(N + 1) * i]] = Diagonal(N, x)
  BY <1>1 DEF Diagonal
<1>3. Trace(N, x) = CSumOf([i \in Dim(N) |-> x[(N + 1) * i]])
  BY DEF Trace, CSum, Dim
<1>4. QED BY <1>1, <1>2, <1>3 DEF Diagonal, Cplxs

(* The trace of a product does not depend on the order.                    *)
LEMMA TraceCyclic ==
  ASSUME NEW N \in 1 .. 3, NEW x \in Mat(N), NEW y \in Mat(N)
  PROVE  Trace(N, Product(N, x, y)) = Trace(N, Product(N, y, x))
<1> DEFINE f == [i \in Dim(N) |-> RowCol(N, x, y, i, i)]
           g == [i \in Dim(N) |-> RowCol(N, y, x, i, i)]
<1>1. Product(N, x, y) \in Mat(N) /\ Product(N, y, x) \in Mat(N)
  BY ProductAt
<1>2. Diagonal(N, Product(N, x, y)) = CRowSums(f) /\ Diagonal(N, Product(N, y, x)) = CRowSums(g)
  BY ProductAt DEF Diagonal, CRowSums
<1>3. CTransposed(f, g, Dim(N), Dim(N))
  <2>1. \A i \in Dim(N) : f[i] \in Cplxs(Dim(N)) /\ g[i] \in Cplxs(Dim(N))
    BY RowColType
  <2>2. f \in [Dim(N) -> Cplxs(Dim(N))] /\ g \in [Dim(N) -> Cplxs(Dim(N))]
    BY <2>1
  <2>3. ASSUME NEW i \in Dim(N), NEW j \in Dim(N) PROVE f[i][j] = g[j][i]
    <3>1. x[N * i + j] \in Cplx /\ y[N * j + i] \in Cplx
      BY EntryType
    <3>2. f[i][j] = cmul(x[N * i + j], y[N * j + i]) /\ g[j][i] = cmul(y[N * j + i], x[N * i + j])
      BY DEF RowCol
    <3>3. QED BY <3>1, <3>2, CplxLaws
  <2> HIDE DEF f, g
  <2>4. QED BY <2>2, <2>3 DEF CTransposed
<1>4. IsFiniteSet(Dim(N))
  BY SizeFacts
<1> HIDE DEF f, g
<1>5. CSumOf(CRowSums(f)) = CSumOf(CRowSums(g))
  BY <1>3, <1>4, CSumSwap
<1>6. QED BY <1>1, <1>2, <1>5, TraceIs

(* The trace of the adjoint is the conjugate.                              *)
LEMMA TraceDagger ==
  ASSUME NEW N \in 1 .. 3, NEW x \in Mat(N)
  PROVE  Trace(N, Dagger(N, x)) = conj(Trace(N, x)) /\ Trace(N, Dagger(N, x))[1] = Trace(N, x)[1]
<1>1. Dagger(N, x) \in Mat(N)
  BY DaggerAt
<1>2. Diagonal(N, Dagger(N, x)) = ConjFun(Diagonal(N, x))
  BY DaggerAt DEF Diagonal, ConjFun
<1>3. CSumOf(ConjFun(Diagonal(N, x))) = conj(CSumOf(Diagonal(N, x)))
  BY TraceIs, SizeFacts, CSumConj
<1>4. Trace(N, Dagger(N, x)) = conj(Trace(N, x))
  BY <1>1, <1>2, <1>3, TraceIs
<1>5. QED BY <1>4 DEF conj

(* The trace of a sum.                                                     *)
LEMMA TraceOfPlus ==
  ASSUME NEW N \in 1 .. 3, NEW x \in Mat(N), NEW y \in Mat(N)
  PROVE  Trace(N, Plus(x, y)) = cadd(Trace(N, x), Trace(N, y))
<1>1. Plus(x, y) \in Mat(N)
  BY PlusAt
<1>2. Diagonal(N, Plus(x, y)) = CPlusFun(Diagonal(N, x), Diagonal(N, y))
  <2>1. ASSUME NEW i \in Dim(N) PROVE Plus(x, y)[N * i + i] = cadd(x[N * i + i], y[N * i + i])
    BY PlusAt, SizeFacts
  <2>2. QED BY <2>1 DEF Diagonal, CPlusFun
<1>3. QED BY <1>1, <1>2, TraceIs, SizeFacts, CSumPlus

(* Products distribute over sums.                                          *)
LEMMA ProductOfPlus ==
  ASSUME NEW N \in 1 .. 3, NEW x \in Mat(N), NEW y \in Mat(N), NEW z \in Mat(N)
  PROVE  Product(N, x, Plus(y, z)) = Plus(Product(N, x, y), Product(N, x, z))
<1>1. /\ Plus(y, z) \in Mat(N) /\ Product(N, x, y) \in Mat(N) /\ Product(N, x, z) \in Mat(N)
      /\ Product(N, x, Plus(y, z)) \in Mat(N) /\ Plus(Product(N, x, y), Product(N, x, z)) \in Mat(N)
  BY PlusAt, ProductAt
<1>2. ASSUME NEW i \in Dim(N), NEW j \in Dim(N)
      PROVE  Product(N, x, Plus(y, z))[N * i + j] = Plus(Product(N, x, y), Product(N, x, z))[N * i + j]
  <2>1. RowCol(N, x, Plus(y, z), i, j) = CPlusFun(RowCol(N, x, y, i, j), RowCol(N, x, z, i, j))
    <3>1. ASSUME NEW k \in Dim(N)
          PROVE  cmul(x[N * i + k], Plus(y, z)[N * k + j])
                   = cadd(cmul(x[N * i + k], y[N * k + j]), cmul(x[N * i + k], z[N * k + j]))
      <4>1. Plus(y, z)[N * k + j] = cadd(y[N * k + j], z[N * k + j])
        BY PlusAt, SizeFacts
      <4>2. x[N * i + k] \in Cplx /\ y[N * k + j] \in Cplx /\ z[N * k + j] \in Cplx
        BY EntryType
      <4>3. QED BY <4>1, <4>2, CplxLaws
    <3>2. QED BY <3>1 DEF RowCol, CPlusFun
  <2>2. RowCol(N, x, y, i, j) \in Cplxs(Dim(N)) /\ RowCol(N, x, z, i, j) \in Cplxs(Dim(N)) /\ IsFiniteSet(Dim(N))
    BY RowColType, SizeFacts
  <2>3. Product(N, x, Plus(y, z))[N * i + j] = cadd(CSumOf(RowCol(N, x, y, i, j)), CSumOf(RowCol(N, x, z, i, j)))
    BY <1>1, <2>1, <2>2, CSumPlus, ProductAt
  <2>4. Plus(Product(N, x, y), Product(N, x, z))[N * i + j]
          = cadd(Product(N, x, y)[N * i + j], Product(N, x, z)[N * i + j])
    BY <1>1, PlusAt, SizeFacts
  <2>5. QED BY <2>3, <2>4, ProductAt
<1>3. QED BY <1>1, <1>2, SameMatrix

(* TraceSum, of the local update, is the real trace of the product.        *)
LEMMA TraceSumIs ==
  ASSUME NEW N \in 1 .. 3, NEW a \in Mat(N), NEW b \in Mat(N)
  PROVE  TraceSum(N, a, b) = Trace(N, Product(N, a, b))[1]
<1> DEFINE row(i) == [j \in Dim(N) |-> a[N * i + j][1] * b[N * j + i][1] - a[N * i + j][2] * b[N * j + i][2]]
<1>1. \A i \in Dim(N) : Re(RowCol(N, a, b, i, i)) = row(i)
  BY DEF Re, RowCol, cmul
<1>2. Product(N, a, b) \in Mat(N)
  BY ProductAt
<1>3. Re(Diagonal(N, Product(N, a, b))) = [i \in Dim(N) |-> SumFunction(row(i))]
  <2>1. \A i \in Dim(N) : Product(N, a, b)[N * i + i] = CSumOf(RowCol(N, a, b, i, i))
    BY ProductAt
  <2>2. \A i \in Dim(N) : Product(N, a, b)[N * i + i][1] = SumFunction(row(i))
    <3> HIDE DEF row
    <3> QED BY <1>1, <2>1, CSumParts
  <2> HIDE DEF row
  <2>3. QED BY <2>2 DEF Re, Diagonal
<1>4. TraceSum(N, a, b) = SumFunction([i \in Dim(N) |-> SumFunction(row(i))])
  BY DEF TraceSum, SumOver, Dim
<1>5. Trace(N, Product(N, a, b)) = CSumOf(Diagonal(N, Product(N, a, b)))
  BY <1>2, TraceIs
<1> HIDE DEF row
<1>6. QED BY <1>3, <1>4, <1>5, CSumParts

-----------------------------------------------------------------------------
(* Sums of a known number of terms.                                        *)

(* The partial sum of f from lo to k.                                      *)
SumTo(f, lo, k) == SumFunction(Restrict(f, lo .. k))

(* A sum over a range, term by term.                                       *)
LEMMA SumSteps ==
  ASSUME NEW lo \in Int, NEW hi \in Int, NEW f \in Ints(lo .. hi)
  PROVE  /\ SumTo(f, lo, lo - 1) = 0
         /\ \A k \in lo .. hi : SumTo(f, lo, k) = SumTo(f, lo, k - 1) + f[k] /\ SumTo(f, lo, k) \in Int
         /\ SumFunction(f) = SumTo(f, lo, hi)
<1>1. SumTo(f, lo, lo - 1) = 0
  <2>1. lo .. lo - 1 = {}
    OBVIOUS
  <2>2. DOMAIN Restrict(f, lo .. lo - 1) = {}
    BY <2>1 DEF Restrict
  <2>3. QED BY <2>2, SumEmpty DEF SumTo
<1>2. ASSUME NEW k \in lo .. hi
      PROVE  SumTo(f, lo, k) = SumTo(f, lo, k - 1) + f[k] /\ SumTo(f, lo, k) \in Int
  <2> DEFINE g == Restrict(f, lo .. k)
  <2>1. DOMAIN g = lo .. k /\ IsFiniteSet(lo .. k) /\ IsFiniteSet(lo .. k - 1)
    BY FS_Interval DEF Restrict
  <2>2. \A x \in lo .. k : g[x] = f[x] /\ g[x] \in Int
    BY DEF Restrict, Ints
  <2>3. k \in lo .. k /\ (lo .. k) \ {k} = lo .. k - 1
    OBVIOUS
  <2>4. [x \in lo .. k - 1 |-> g[x]] = Restrict(f, lo .. k - 1)
    BY <2>2 DEF Restrict
  <2>5. SumFunction(g) = g[k] + SumFunction([x \in (lo .. k) \ {k} |-> g[x]])
    <3> HIDE DEF g
    <3> QED BY <2>1, <2>2, <2>3, SumAdds
  <2>6. SumTo(f, lo, k) = f[k] + SumTo(f, lo, k - 1)
    BY <2>2, <2>3, <2>4, <2>5 DEF SumTo
  <2>7. f[k] \in Int /\ SumTo(f, lo, k) \in Int /\ SumTo(f, lo, k - 1) \in Int
    <3>1. Restrict(f, lo .. k) \in Ints(lo .. k) /\ Restrict(f, lo .. k - 1) \in Ints(lo .. k - 1)
      BY DEF Restrict, Ints
    <3>2. QED BY <2>1, <2>2, <2>3, <3>1, SumInt DEF SumTo
  <2>8. QED BY <2>6, <2>7
<1>3. f = Restrict(f, lo .. hi)
  BY DEF Restrict, Ints
<1>4. QED BY <1>1, <1>2, <1>3 DEF SumTo

(* A sum over 0 .. hi, its partial sums written out.                       *)
LEMMA SumUpTo ==
  ASSUME NEW hi \in 0 .. 8, NEW f \in Ints(0 .. hi)
  PROVE  /\ SumFunction(f) = SumTo(f, 0, hi) /\ \A k \in 0 .. hi : f[k] \in Int /\ SumTo(f, 0, k) \in Int
         /\ SumTo(f, 0, 0) = f[0]
         /\ hi >= 1 => SumTo(f, 0, 1) = SumTo(f, 0, 0) + f[1]
         /\ hi >= 2 => SumTo(f, 0, 2) = SumTo(f, 0, 1) + f[2]
         /\ hi >= 3 => SumTo(f, 0, 3) = SumTo(f, 0, 2) + f[3]
         /\ hi >= 4 => SumTo(f, 0, 4) = SumTo(f, 0, 3) + f[4]
         /\ hi >= 5 => SumTo(f, 0, 5) = SumTo(f, 0, 4) + f[5]
         /\ hi >= 6 => SumTo(f, 0, 6) = SumTo(f, 0, 5) + f[6]
         /\ hi >= 7 => SumTo(f, 0, 7) = SumTo(f, 0, 6) + f[7]
         /\ hi >= 8 => SumTo(f, 0, 8) = SumTo(f, 0, 7) + f[8]
<1>1. hi \in Int /\ 0 \in Int /\ \A k \in 0 .. hi : f[k] \in Int
  BY DEF Ints
<1>2. /\ SumTo(f, 0, 0 - 1) = 0 /\ SumFunction(f) = SumTo(f, 0, hi)
      /\ \A k \in 0 .. hi : SumTo(f, 0, k) = SumTo(f, 0, k - 1) + f[k] /\ SumTo(f, 0, k) \in Int
  BY <1>1, SumSteps
<1>3. \A k, m \in 0 .. hi : m = k - 1 => SumTo(f, 0, k) = SumTo(f, 0, m) + f[k]
  BY <1>1, <1>2
<1>4. SumTo(f, 0, 0) = f[0]
  BY <1>1, <1>2
<1>5. hi >= 1 => SumTo(f, 0, 1) = SumTo(f, 0, 0) + f[1]
  BY <1>1, <1>3
<1>6. hi >= 2 => SumTo(f, 0, 2) = SumTo(f, 0, 1) + f[2]
  BY <1>1, <1>3
<1>7. hi >= 3 => SumTo(f, 0, 3) = SumTo(f, 0, 2) + f[3]
  BY <1>1, <1>3
<1>8. hi >= 4 => SumTo(f, 0, 4) = SumTo(f, 0, 3) + f[4]
  BY <1>1, <1>3
<1>9. hi >= 5 => SumTo(f, 0, 5) = SumTo(f, 0, 4) + f[5]
  BY <1>1, <1>3
<1>10. hi >= 6 => SumTo(f, 0, 6) = SumTo(f, 0, 5) + f[6]
  BY <1>1, <1>3
<1>11. hi >= 7 => SumTo(f, 0, 7) = SumTo(f, 0, 6) + f[7]
  BY <1>1, <1>3
<1>12. hi >= 8 => SumTo(f, 0, 8) = SumTo(f, 0, 7) + f[8]
  BY <1>1, <1>3
<1>13. QED BY <1>1, <1>2, <1>3, <1>4, <1>5, <1>6, <1>7, <1>8, <1>9, <1>10, <1>11, <1>12

(* A sum over 1 .. hi, its partial sums written out.                       *)
LEMMA SumUpFrom1 ==
  ASSUME NEW hi \in 1 .. 8, NEW f \in Ints(1 .. hi)
  PROVE  /\ SumFunction(f) = SumTo(f, 1, hi) /\ \A k \in 1 .. hi : f[k] \in Int /\ SumTo(f, 1, k) \in Int
         /\ SumTo(f, 1, 1) = f[1]
         /\ hi >= 2 => SumTo(f, 1, 2) = SumTo(f, 1, 1) + f[2]
         /\ hi >= 3 => SumTo(f, 1, 3) = SumTo(f, 1, 2) + f[3]
         /\ hi >= 4 => SumTo(f, 1, 4) = SumTo(f, 1, 3) + f[4]
         /\ hi >= 5 => SumTo(f, 1, 5) = SumTo(f, 1, 4) + f[5]
         /\ hi >= 6 => SumTo(f, 1, 6) = SumTo(f, 1, 5) + f[6]
         /\ hi >= 7 => SumTo(f, 1, 7) = SumTo(f, 1, 6) + f[7]
         /\ hi >= 8 => SumTo(f, 1, 8) = SumTo(f, 1, 7) + f[8]
<1>1. hi \in Int /\ 1 \in Int /\ \A k \in 1 .. hi : f[k] \in Int
  BY DEF Ints
<1>2. /\ SumTo(f, 1, 1 - 1) = 0 /\ SumFunction(f) = SumTo(f, 1, hi)
      /\ \A k \in 1 .. hi : SumTo(f, 1, k) = SumTo(f, 1, k - 1) + f[k] /\ SumTo(f, 1, k) \in Int
  BY <1>1, SumSteps
<1>3. \A k, m \in 1 .. hi : m = k - 1 => SumTo(f, 1, k) = SumTo(f, 1, m) + f[k]
  BY <1>1, <1>2
<1>4. SumTo(f, 1, 1) = f[1]
  BY <1>1, <1>2
<1>5. hi >= 2 => SumTo(f, 1, 2) = SumTo(f, 1, 1) + f[2]
  BY <1>1, <1>3
<1>6. hi >= 3 => SumTo(f, 1, 3) = SumTo(f, 1, 2) + f[3]
  BY <1>1, <1>3
<1>7. hi >= 4 => SumTo(f, 1, 4) = SumTo(f, 1, 3) + f[4]
  BY <1>1, <1>3
<1>8. hi >= 5 => SumTo(f, 1, 5) = SumTo(f, 1, 4) + f[5]
  BY <1>1, <1>3
<1>9. hi >= 6 => SumTo(f, 1, 6) = SumTo(f, 1, 5) + f[6]
  BY <1>1, <1>3
<1>10. hi >= 7 => SumTo(f, 1, 7) = SumTo(f, 1, 6) + f[7]
  BY <1>1, <1>3
<1>11. hi >= 8 => SumTo(f, 1, 8) = SumTo(f, 1, 7) + f[8]
  BY <1>1, <1>3
<1>12. QED BY <1>1, <1>2, <1>3, <1>4, <1>5, <1>6, <1>7, <1>8, <1>9, <1>10, <1>11

(* A sum of one term.                                                      *)
LEMMA SumOf1 ==
  ASSUME NEW f \in Ints(0 .. 0)
  PROVE  SumFunction(f) = f[0]
         /\ f[0] \in Int
<1> DEFINE hi == 0
<1>1. hi \in 0 .. 8 /\ hi = 0 /\ f \in Ints(0 .. hi)
  OBVIOUS
<1> HIDE DEF hi
<1>2. QED BY <1>1, SumUpTo

(* A sum of two terms.                                                     *)
LEMMA SumOf2 ==
  ASSUME NEW f \in Ints(0 .. 1)
  PROVE  SumFunction(f) = f[0] + f[1]
         /\ f[0] \in Int /\ f[1] \in Int
<1> DEFINE hi == 1
<1>1. hi \in 0 .. 8 /\ hi = 1 /\ f \in Ints(0 .. hi)
  OBVIOUS
<1> HIDE DEF hi
<1>2. QED BY <1>1, SumUpTo

(* A sum of three terms.                                                   *)
LEMMA SumOf3 ==
  ASSUME NEW f \in Ints(0 .. 2)
  PROVE  SumFunction(f) = f[0] + f[1] + f[2]
         /\ f[0] \in Int /\ f[1] \in Int /\ f[2] \in Int
<1> DEFINE hi == 2
<1>1. hi \in 0 .. 8 /\ hi = 2 /\ f \in Ints(0 .. hi)
  OBVIOUS
<1> HIDE DEF hi
<1>2. QED BY <1>1, SumUpTo

(* A sum of four terms, those of a 2 x 2 matrix.                           *)
LEMMA SumOf4 ==
  ASSUME NEW f \in Ints(0 .. 3)
  PROVE  SumFunction(f) = f[0] + f[1] + f[2] + f[3]
         /\ f[0] \in Int /\ f[1] \in Int /\ f[2] \in Int /\ f[3] \in Int
<1> DEFINE hi == 3
<1>1. hi \in 0 .. 8 /\ hi = 3 /\ f \in Ints(0 .. hi)
  OBVIOUS
<1> HIDE DEF hi
<1>2. QED BY <1>1, SumUpTo

(* A sum of nine terms, those of a 3 x 3 matrix.                           *)
LEMMA SumOf9 ==
  ASSUME NEW f \in Ints(0 .. 8)
  PROVE  SumFunction(f) = f[0] + f[1] + f[2] + f[3] + f[4] + f[5] + f[6] + f[7] + f[8]
         /\ f[0] \in Int /\ f[1] \in Int /\ f[2] \in Int /\ f[3] \in Int /\ f[4] \in Int /\ f[5] \in Int
           /\ f[6] \in Int /\ f[7] \in Int /\ f[8] \in Int
<1> DEFINE hi == 8
<1>1. hi \in 0 .. 8 /\ hi = 8 /\ f \in Ints(0 .. hi)
  OBVIOUS
<1> HIDE DEF hi
<1>2. QED BY <1>1, SumUpTo

(* A sum of three terms counted from 1.                                    *)
LEMMA SumFrom1To3 ==
  ASSUME NEW f \in Ints(1 .. 3)
  PROVE  SumFunction(f) = f[1] + f[2] + f[3]
         /\ f[1] \in Int /\ f[2] \in Int /\ f[3] \in Int
<1> DEFINE hi == 3
<1>1. hi \in 1 .. 8 /\ hi = 3 /\ f \in Ints(1 .. hi)
  OBVIOUS
<1> HIDE DEF hi
<1>2. QED BY <1>1, SumUpFrom1

(* A sum of eight terms counted from 1, the generators of SU(3).           *)
LEMMA SumFrom1To8 ==
  ASSUME NEW f \in Ints(1 .. 8)
  PROVE  SumFunction(f) = f[1] + f[2] + f[3] + f[4] + f[5] + f[6] + f[7] + f[8]
         /\ f[1] \in Int /\ f[2] \in Int /\ f[3] \in Int /\ f[4] \in Int /\ f[5] \in Int /\ f[6] \in Int
           /\ f[7] \in Int /\ f[8] \in Int
<1> DEFINE hi == 8
<1>1. hi \in 1 .. 8 /\ hi = 8 /\ f \in Ints(1 .. hi)
  OBVIOUS
<1> HIDE DEF hi
<1>2. QED BY <1>1, SumUpFrom1

-----------------------------------------------------------------------------
(* The unrolled products of SU(2) are the product of matrices.             *)

(* A complex sum of one term.                                              *)
LEMMA CSumOf1 ==
  ASSUME NEW f \in Cplxs(0 .. 0)
  PROVE  CSumOf(f) = f[0]
<1>1. Re(f) \in Ints(0 .. 0) /\ Im(f) \in Ints(0 .. 0)
  BY PartsTypes
<1>2. SumFunction(Re(f)) = Re(f)[0] /\ SumFunction(Im(f)) = Im(f)[0]
  BY <1>1, SumOf1
<1>3. Re(f)[0] = f[0][1] /\ Im(f)[0] = f[0][2] /\ f[0] \in Cplx
  BY DEF Re, Im, Cplxs
<1>4. QED BY <1>2, <1>3, CSumParts DEF Cplx

(* A complex sum of two terms.                                             *)
LEMMA CSumOf2 ==
  ASSUME NEW f \in Cplxs(0 .. 1)
  PROVE  CSumOf(f) = cadd(f[0], f[1])
<1>1. Re(f) \in Ints(0 .. 1) /\ Im(f) \in Ints(0 .. 1)
  BY PartsTypes
<1>2. SumFunction(Re(f)) = Re(f)[0] + Re(f)[1] /\ SumFunction(Im(f)) = Im(f)[0] + Im(f)[1]
  BY <1>1, SumOf2
<1>3. \A k \in 0 .. 1 : Re(f)[k] = f[k][1] /\ Im(f)[k] = f[k][2]
  BY DEF Re, Im, Cplxs
<1>4. 0 \in 0 .. 1 /\ 1 \in 0 .. 1
  OBVIOUS
<1>5. QED BY <1>2, <1>3, <1>4, CSumParts DEF cadd

(* A complex sum of three terms.                                           *)
LEMMA CSumOf3 ==
  ASSUME NEW f \in Cplxs(0 .. 2)
  PROVE  CSumOf(f) = cadd(cadd(f[0], f[1]), f[2])
<1>1. Re(f) \in Ints(0 .. 2) /\ Im(f) \in Ints(0 .. 2)
  BY PartsTypes
<1>2. SumFunction(Re(f)) = Re(f)[0] + Re(f)[1] + Re(f)[2] /\ SumFunction(Im(f)) = Im(f)[0] + Im(f)[1] + Im(f)[2]
  BY <1>1, SumOf3
<1>3. \A k \in 0 .. 2 : Re(f)[k] = f[k][1] /\ Im(f)[k] = f[k][2]
  BY DEF Re, Im, Cplxs
<1>4. 0 \in 0 .. 2 /\ 1 \in 0 .. 2 /\ 2 \in 0 .. 2
  OBVIOUS
<1>5. QED BY <1>2, <1>3, <1>4, CSumParts DEF cadd

(* The products with a conjugate are products with the conjugate.          *)
LEMMA Conjugates ==
  ASSUME NEW x \in Cplx, NEW y \in Cplx
  PROVE  cmul_b_conj(x, y) = cmul(x, conj(y)) /\ cmul_a_conj(x, y) = cmul(conj(x), y)
<1>1. PICK p \in Int, q \in Int : x = <<p, q>>
  BY DEF Cplx
<1>2. PICK r \in Int, s \in Int : y = <<r, s>>
  BY DEF Cplx
<1>3. QED BY <1>1, <1>2 DEF cmul_b_conj, cmul_a_conj, cmul, conj

(* The entries of products of 2 x 2 matrices and of daggers. *)
(* An entry of a 2 x 2 product, written out.                               *)
LEMMA Product2 ==
  ASSUME NEW x \in Mat(2), NEW y \in Mat(2)
  PROVE  \A i, j \in 0 .. 1 : Product(2, x, y)[2 * i + j] = cadd(cmul(x[2 * i], y[j]), cmul(x[2 * i + 1], y[2 + j]))
<1>1. 2 \in 1 .. 3 /\ Dim(2) = 0 .. 1
  BY DEF Dim
<1>2. ASSUME NEW i \in 0 .. 1, NEW j \in 0 .. 1
      PROVE  Product(2, x, y)[2 * i + j] = cadd(cmul(x[2 * i], y[j]), cmul(x[2 * i + 1], y[2 + j]))
  <2> DEFINE f == RowCol(2, x, y, i, j)
  <2>1. f \in Cplxs(0 .. 1)
    BY <1>1, RowColType
  <2>2. Product(2, x, y)[2 * i + j] = CSumOf(f)
    <3> DEFINE N == 2
    <3>1. N \in 1 .. 3 /\ x \in Mat(N) /\ y \in Mat(N) /\ i \in Dim(N) /\ j \in Dim(N)
      BY <1>1
    <3> HIDE DEF N
    <3>2. Product(N, x, y)[N * i + j] = CSumOf(RowCol(N, x, y, i, j))
      BY <3>1, ProductAt
    <3>3. QED BY <3>2 DEF N
  <2>3. f[0] = cmul(x[2 * i + 0], y[2 * 0 + j]) /\ f[1] = cmul(x[2 * i + 1], y[2 * 1 + j])
    BY <1>1 DEF RowCol
  <2>4. 2 * i + 0 = 2 * i /\ 2 * 0 + j = j /\ 2 * 1 + j = 2 + j
    OBVIOUS
  <2> HIDE DEF f
  <2>5. CSumOf(f) = cadd(f[0], f[1])
    BY <2>1, CSumOf2
  <2>6. QED BY <2>2, <2>3, <2>4, <2>5
<1>3. QED BY <1>2

(* An entry of a 3 x 3 product, written out.                               *)
LEMMA Product3 ==
  ASSUME NEW x \in Mat(3), NEW y \in Mat(3)
  PROVE  \A i, j \in 0 .. 2 : Product(3, x, y)[3 * i + j] =
           cadd(cadd(cmul(x[3 * i], y[j]), cmul(x[3 * i + 1], y[3 + j])), cmul(x[3 * i + 2], y[6 + j]))
<1>1. 3 \in 1 .. 3 /\ Dim(3) = 0 .. 2
  BY DEF Dim
<1>2. ASSUME NEW i \in 0 .. 2, NEW j \in 0 .. 2
      PROVE  Product(3, x, y)[3 * i + j] =
               cadd(cadd(cmul(x[3 * i], y[j]), cmul(x[3 * i + 1], y[3 + j])), cmul(x[3 * i + 2], y[6 + j]))
  <2> DEFINE f == RowCol(3, x, y, i, j)
  <2>1. f \in Cplxs(0 .. 2)
    BY <1>1, RowColType
  <2>2. Product(3, x, y)[3 * i + j] = CSumOf(f)
    <3> DEFINE N == 3
    <3>1. N \in 1 .. 3 /\ x \in Mat(N) /\ y \in Mat(N) /\ i \in Dim(N) /\ j \in Dim(N)
      BY <1>1
    <3> HIDE DEF N
    <3>2. Product(N, x, y)[N * i + j] = CSumOf(RowCol(N, x, y, i, j))
      BY <3>1, ProductAt
    <3>3. QED BY <3>2 DEF N
  <2>3. /\ f[0] = cmul(x[3 * i + 0], y[3 * 0 + j]) /\ f[1] = cmul(x[3 * i + 1], y[3 * 1 + j])
        /\ f[2] = cmul(x[3 * i + 2], y[3 * 2 + j])
    BY <1>1 DEF RowCol
  <2>4. 3 * i + 0 = 3 * i /\ 3 * 0 + j = j /\ 3 * 1 + j = 3 + j /\ 3 * 2 + j = 6 + j
    OBVIOUS
  <2> HIDE DEF f
  <2>5. CSumOf(f) = cadd(cadd(f[0], f[1]), f[2])
    BY <2>1, CSumOf3
  <2>6. QED BY <2>2, <2>3, <2>4, <2>5
<1>3. QED BY <1>2

(* The entries of a 2 x 2 matrix and of its adjoint.                       *)
LEMMA Entries2 ==
  ASSUME NEW x \in Mat(2)
  PROVE  /\ x[0] \in Cplx /\ x[1] \in Cplx /\ x[2] \in Cplx /\ x[3] \in Cplx
         /\ Dagger(2, x) \in Mat(2) /\ Dagger(2, x)[0] = conj(x[0]) /\ Dagger(2, x)[1] = conj(x[2])
         /\ Dagger(2, x)[2] = conj(x[1]) /\ Dagger(2, x)[3] = conj(x[3])
<1>1. x[0] \in Cplx /\ x[1] \in Cplx /\ x[2] \in Cplx /\ x[3] \in Cplx
  BY DEF Mat, Cplxs, Entries
<1>2. 2 \in 1 .. 3 /\ Dim(2) = 0 .. 1
  BY DEF Dim
<1>3. Dagger(2, x) \in Mat(2) /\ \A i, j \in 0 .. 1 : Dagger(2, x)[2 * i + j] = conj(x[2 * j + i])
  BY <1>2, DaggerAt
<1>4. /\ Dagger(2, x)[2 * 0 + 0] = conj(x[2 * 0 + 0]) /\ Dagger(2, x)[2 * 0 + 1] = conj(x[2 * 1 + 0])
      /\ Dagger(2, x)[2 * 1 + 0] = conj(x[2 * 0 + 1]) /\ Dagger(2, x)[2 * 1 + 1] = conj(x[2 * 1 + 1])
  BY <1>3
<1>5. 2 * 0 + 0 = 0 /\ 2 * 0 + 1 = 1 /\ 2 * 1 + 0 = 2 /\ 2 * 1 + 1 = 3
  OBVIOUS
<1>6. QED BY <1>1, <1>3, <1>4, <1>5

(* The four entries of a 2 x 2 product.                                    *)
LEMMA ProductEntries2 ==
  ASSUME NEW x \in Mat(2), NEW y \in Mat(2)
  PROVE  /\ Product(2, x, y) \in Mat(2)
         /\ Product(2, x, y)[0] = cadd(cmul(x[0], y[0]), cmul(x[1], y[2]))
         /\ Product(2, x, y)[1] = cadd(cmul(x[0], y[1]), cmul(x[1], y[3]))
         /\ Product(2, x, y)[2] = cadd(cmul(x[2], y[0]), cmul(x[3], y[2]))
         /\ Product(2, x, y)[3] = cadd(cmul(x[2], y[1]), cmul(x[3], y[3]))
<1> DEFINE At(i, j) == Product(2, x, y)[2 * i + j] = cadd(cmul(x[2 * i], y[j]), cmul(x[2 * i + 1], y[2 + j]))
<1>1. At(0, 0) /\ At(0, 1) /\ At(1, 0) /\ At(1, 1)
  <2>1. \A i, j \in 0 .. 1 : At(i, j)
    BY Product2
  <2> HIDE DEF At
  <2>2. 0 \in 0 .. 1 /\ 1 \in 0 .. 1
    OBVIOUS
  <2>3. QED BY <2>1, <2>2
<1>2. /\ 2 * 0 + 0 = 0 /\ 2 * 0 + 1 = 1 /\ 2 * 1 + 0 = 2 /\ 2 * 1 + 1 = 3 /\ 2 * 0 = 0 /\ 2 * 1 = 2
      /\ 0 + 1 = 1 /\ 2 + 1 = 3 /\ 2 + 0 = 2
  OBVIOUS
<1>3. Product(2, x, y) \in Mat(2)
  <2>1. 2 \in 1 .. 3
    OBVIOUS
  <2>2. QED BY <2>1, ProductAt
<1>4. QED BY <1>1, <1>2, <1>3

(* mul_2x2, mul_adj_2x2 and adj_mul_2x2 are products of matrices, with the *)
(* adjoint where they say so.                                              *)
LEMMA Products2 ==
  ASSUME NEW a \in Mat(2), NEW b \in Mat(2)
  PROVE  /\ mul_2x2(a, b) = Product(2, a, b)
         /\ mul_adj_2x2(a, b) = Product(2, a, Dagger(2, b))
         /\ adj_mul_2x2(a, b) = Product(2, Dagger(2, a), b)
<1>1. /\ a[0] \in Cplx /\ a[1] \in Cplx /\ a[2] \in Cplx /\ a[3] \in Cplx
      /\ b[0] \in Cplx /\ b[1] \in Cplx /\ b[2] \in Cplx /\ b[3] \in Cplx
  BY Entries2
<1>2. /\ \A x, y \in Cplx : cmul_b_conj(x, y) = cmul(x, conj(y))
      /\ \A x, y \in Cplx : cmul_a_conj(x, y) = cmul(conj(x), y)
  BY Conjugates
<1>3. Entries(2) = 0 .. 3
  BY DEF Entries
<1>4. mul_2x2(a, b) = Product(2, a, b)
  <2> DEFINE m == mul_2x2(a, b)
  <2>1. m = [k \in 0 .. 3 |-> m[k]]
    BY <1>3, TableIs DEF mul_2x2, Unrolled
  <2>2. m[0] = cadd(cmul(a[0], b[0]), cmul(a[1], b[2]))
    BY <1>3, TableIs DEF mul_2x2, Unrolled
  <2>3. m[1] = cadd(cmul(a[0], b[1]), cmul(a[1], b[3]))
    BY <1>3, TableIs DEF mul_2x2, Unrolled
  <2>4. m[2] = cadd(cmul(a[2], b[0]), cmul(a[3], b[2]))
    BY <1>3, TableIs DEF mul_2x2, Unrolled
  <2>5. m[3] = cadd(cmul(a[2], b[1]), cmul(a[3], b[3]))
    BY <1>3, TableIs DEF mul_2x2, Unrolled
  <2> HIDE DEF m
  <2>6. /\ Product(2, a, b) \in Mat(2)
        /\ Product(2, a, b)[0] = cadd(cmul(a[0], b[0]), cmul(a[1], b[2]))
        /\ Product(2, a, b)[1] = cadd(cmul(a[0], b[1]), cmul(a[1], b[3]))
        /\ Product(2, a, b)[2] = cadd(cmul(a[2], b[0]), cmul(a[3], b[2]))
        /\ Product(2, a, b)[3] = cadd(cmul(a[2], b[1]), cmul(a[3], b[3]))
    BY ProductEntries2
  <2>7. m[0] = Product(2, a, b)[0]
    BY <1>1, <1>2, <2>2, <2>6
  <2>8. m[1] = Product(2, a, b)[1]
    BY <1>1, <1>2, <2>3, <2>6
  <2>9. m[2] = Product(2, a, b)[2]
    BY <1>1, <1>2, <2>4, <2>6
  <2>10. m[3] = Product(2, a, b)[3]
    BY <1>1, <1>2, <2>5, <2>6
  <2>11. \A k \in 0 .. 3 : m[k] = Product(2, a, b)[k]
    BY <2>7, <2>8, <2>9, <2>10
  <2>12. Product(2, a, b) = [k \in 0 .. 3 |-> Product(2, a, b)[k]]
    BY <2>6, <1>3 DEF Mat, Cplxs
  <2>13. m = Product(2, a, b)
    BY <2>1, <2>11, <2>12
  <2>14. QED BY <2>13 DEF m
<1>5. mul_adj_2x2(a, b) = Product(2, a, Dagger(2, b))
  <2> DEFINE m == mul_adj_2x2(a, b)
             d == Dagger(2, b)
  <2>1. m = [k \in 0 .. 3 |-> m[k]]
    BY <1>3, TableIs, Zenon DEF mul_adj_2x2, Unrolled
  <2>2. m[0] = cadd(cmul_b_conj(a[0], b[0]), cmul_b_conj(a[1], b[1]))
    BY <1>3, TableIs DEF mul_adj_2x2, Unrolled
  <2>3. m[1] = cadd(cmul_b_conj(a[0], b[2]), cmul_b_conj(a[1], b[3]))
    BY <1>3, TableIs DEF mul_adj_2x2, Unrolled
  <2>4. m[2] = cadd(cmul_b_conj(a[2], b[0]), cmul_b_conj(a[3], b[1]))
    BY <1>3, TableIs DEF mul_adj_2x2, Unrolled
  <2>5. m[3] = cadd(cmul_b_conj(a[2], b[2]), cmul_b_conj(a[3], b[3]))
    BY <1>3, TableIs DEF mul_adj_2x2, Unrolled
  <2>6. d \in Mat(2) /\ d[0] = conj(b[0]) /\ d[1] = conj(b[2]) /\ d[2] = conj(b[1]) /\ d[3] = conj(b[3])
    BY Entries2
  <2> HIDE DEF m, d
  <2>7. /\ Product(2, a, d) \in Mat(2)
        /\ Product(2, a, d)[0] = cadd(cmul(a[0], d[0]), cmul(a[1], d[2]))
        /\ Product(2, a, d)[1] = cadd(cmul(a[0], d[1]), cmul(a[1], d[3]))
        /\ Product(2, a, d)[2] = cadd(cmul(a[2], d[0]), cmul(a[3], d[2]))
        /\ Product(2, a, d)[3] = cadd(cmul(a[2], d[1]), cmul(a[3], d[3]))
    BY <2>6, ProductEntries2
  <2>8. m[0] = Product(2, a, d)[0]
    BY <1>1, <1>2, <2>2, <2>6, <2>7
  <2>9. m[1] = Product(2, a, d)[1]
    BY <1>1, <1>2, <2>3, <2>6, <2>7
  <2>10. m[2] = Product(2, a, d)[2]
    BY <1>1, <1>2, <2>4, <2>6, <2>7
  <2>11. m[3] = Product(2, a, d)[3]
    BY <1>1, <1>2, <2>5, <2>6, <2>7
  <2>12. \A k \in 0 .. 3 : m[k] = Product(2, a, d)[k]
    BY <2>8, <2>9, <2>10, <2>11
  <2>13. Product(2, a, d) = [k \in 0 .. 3 |-> Product(2, a, d)[k]]
    BY <2>7, <1>3 DEF Mat, Cplxs
  <2>14. m = Product(2, a, d)
    BY <2>1, <2>12, <2>13
  <2>15. QED BY <2>14 DEF m, d
<1>6. adj_mul_2x2(a, b) = Product(2, Dagger(2, a), b)
  <2> DEFINE m == adj_mul_2x2(a, b)
             d == Dagger(2, a)
  <2>1. m = [k \in 0 .. 3 |-> m[k]]
    BY <1>3, TableIs DEF adj_mul_2x2, Unrolled
  <2>2. m[0] = cadd(cmul_a_conj(a[0], b[0]), cmul_a_conj(a[2], b[2]))
    BY <1>3, TableIs DEF adj_mul_2x2, Unrolled
  <2>3. m[1] = cadd(cmul_a_conj(a[0], b[1]), cmul_a_conj(a[2], b[3]))
    BY <1>3, TableIs DEF adj_mul_2x2, Unrolled
  <2>4. m[2] = cadd(cmul_a_conj(a[1], b[0]), cmul_a_conj(a[3], b[2]))
    BY <1>3, TableIs DEF adj_mul_2x2, Unrolled
  <2>5. m[3] = cadd(cmul_a_conj(a[1], b[1]), cmul_a_conj(a[3], b[3]))
    BY <1>3, TableIs DEF adj_mul_2x2, Unrolled
  <2>6. d \in Mat(2) /\ d[0] = conj(a[0]) /\ d[1] = conj(a[2]) /\ d[2] = conj(a[1]) /\ d[3] = conj(a[3])
    BY Entries2
  <2> HIDE DEF m, d
  <2>7. /\ Product(2, d, b) \in Mat(2)
        /\ Product(2, d, b)[0] = cadd(cmul(d[0], b[0]), cmul(d[1], b[2]))
        /\ Product(2, d, b)[1] = cadd(cmul(d[0], b[1]), cmul(d[1], b[3]))
        /\ Product(2, d, b)[2] = cadd(cmul(d[2], b[0]), cmul(d[3], b[2]))
        /\ Product(2, d, b)[3] = cadd(cmul(d[2], b[1]), cmul(d[3], b[3]))
    BY <2>6, ProductEntries2
  <2>8. m[0] = Product(2, d, b)[0]
    BY <1>1, <1>2, <2>2, <2>6, <2>7
  <2>9. m[1] = Product(2, d, b)[1]
    BY <1>1, <1>2, <2>3, <2>6, <2>7
  <2>10. m[2] = Product(2, d, b)[2]
    BY <1>1, <1>2, <2>4, <2>6, <2>7
  <2>11. m[3] = Product(2, d, b)[3]
    BY <1>1, <1>2, <2>5, <2>6, <2>7
  <2>12. \A k \in 0 .. 3 : m[k] = Product(2, d, b)[k]
    BY <2>8, <2>9, <2>10, <2>11
  <2>13. Product(2, d, b) = [k \in 0 .. 3 |-> Product(2, d, b)[k]]
    BY <2>7, <1>3 DEF Mat, Cplxs
  <2>14. m = Product(2, d, b)
    BY <2>1, <2>12, <2>13
  <2>15. QED BY <2>14 DEF m, d
<1>7. QED BY <1>4, <1>5, <1>6

-----------------------------------------------------------------------------
(* The looped products of SU(3), and the operations of the local update.   *)

(* The terms of an entry of the product with the adjoint.                  *)
RowRow(N, x, y, i, j) == [k \in Dim(N) |-> cmul_b_conj(x[N * i + k], y[N * j + k])]
(* The terms of an entry of the product of the adjoint.                    *)
ColCol(N, x, y, i, j) == [k \in Dim(N) |-> cmul_a_conj(x[N * k + i], y[N * k + j])]

(* Row times conjugate row is row times column of the adjoint.             *)
LEMMA RowRowIs ==
  ASSUME NEW N \in 1 .. 3, NEW x \in Mat(N), NEW y \in Mat(N), NEW i \in Dim(N), NEW j \in Dim(N)
  PROVE  RowRow(N, x, y, i, j) = RowCol(N, x, Dagger(N, y), i, j)
<1>1. ASSUME NEW k \in Dim(N)
      PROVE  cmul_b_conj(x[N * i + k], y[N * j + k]) = cmul(x[N * i + k], Dagger(N, y)[N * k + j])
  <2>1. x[N * i + k] \in Cplx /\ y[N * j + k] \in Cplx
    BY EntryType
  <2>2. Dagger(N, y)[N * k + j] = conj(y[N * j + k])
    BY DaggerAt
  <2>3. QED BY <2>1, <2>2, Conjugates
<1>2. QED BY <1>1 DEF RowRow, RowCol

(* Conjugate column times column is row of the adjoint times column.       *)
LEMMA ColColIs ==
  ASSUME NEW N \in 1 .. 3, NEW x \in Mat(N), NEW y \in Mat(N), NEW i \in Dim(N), NEW j \in Dim(N)
  PROVE  ColCol(N, x, y, i, j) = RowCol(N, Dagger(N, x), y, i, j)
<1>1. ASSUME NEW k \in Dim(N)
      PROVE  cmul_a_conj(x[N * k + i], y[N * k + j]) = cmul(Dagger(N, x)[N * i + k], y[N * k + j])
  <2>1. x[N * k + i] \in Cplx /\ y[N * k + j] \in Cplx
    BY EntryType
  <2>2. Dagger(N, x)[N * i + k] = conj(x[N * k + i])
    BY DaggerAt
  <2>3. QED BY <2>1, <2>2, Conjugates
<1>2. QED BY <1>1 DEF ColCol, RowCol

(* Entry e of the three products, as sums. *)
(* An entry of the three products as a sum.                                *)
LEMMA ProductsAt ==
  ASSUME NEW N \in 1 .. 3, NEW x \in Mat(N), NEW y \in Mat(N), NEW e \in Entries(N)
  PROVE  /\ Product(N, x, y)[e] = CSumOf(RowCol(N, x, y, e \div N, e % N))
         /\ Product(N, x, Dagger(N, y))[e] = CSumOf(RowRow(N, x, y, e \div N, e % N))
         /\ Product(N, Dagger(N, x), y)[e] = CSumOf(ColCol(N, x, y, e \div N, e % N))
<1> DEFINE i == e \div N
           j == e % N
<1>1. i \in Dim(N) /\ j \in Dim(N) /\ N * i + j = e
  BY SizeFacts
<1> HIDE DEF i, j
<1>2. Dagger(N, x) \in Mat(N) /\ Dagger(N, y) \in Mat(N)
  BY DaggerAt
<1>3. Product(N, x, y)[N * i + j] = CSumOf(RowCol(N, x, y, i, j))
  BY <1>1, ProductAt
<1>4. Product(N, x, Dagger(N, y))[N * i + j] = CSumOf(RowRow(N, x, y, i, j))
  BY <1>1, <1>2, ProductAt, RowRowIs
<1>5. Product(N, Dagger(N, x), y)[N * i + j] = CSumOf(ColCol(N, x, y, i, j))
  BY <1>1, <1>2, ProductAt, ColColIs
<1>6. QED BY <1>1, <1>3, <1>4, <1>5 DEF i, j

(* mul_3x3, mul_adj_3x3 and adj_mul_3x3 are products of matrices, with the *)
(* adjoint where they say so.                                              *)
LEMMA Products3 ==
  ASSUME NEW a \in Mat(3), NEW b \in Mat(3)
  PROVE  /\ mul_3x3(a, b) = Product(3, a, b)
         /\ mul_adj_3x3(a, b) = Product(3, a, Dagger(3, b))
         /\ adj_mul_3x3(a, b) = Product(3, Dagger(3, a), b)
<1>1. 3 \in 1 .. 3 /\ Dagger(3, a) \in Mat(3) /\ Dagger(3, b) \in Mat(3)
  <2>1. 3 \in 1 .. 3
    OBVIOUS
  <2>2. QED BY <2>1, DaggerAt
<1>2. /\ Product(3, a, b) \in Mat(3) /\ Product(3, a, Dagger(3, b)) \in Mat(3)
      /\ Product(3, Dagger(3, a), b) \in Mat(3)
  BY <1>1, ProductAt
<1>3. \A e \in Entries(3) :
        /\ Product(3, a, b)[e] = CSumOf(RowCol(3, a, b, e \div 3, e % 3))
        /\ Product(3, a, Dagger(3, b))[e] = CSumOf(RowRow(3, a, b, e \div 3, e % 3))
        /\ Product(3, Dagger(3, a), b)[e] = CSumOf(ColCol(3, a, b, e \div 3, e % 3))
  BY <1>1, ProductsAt
<1>4. mul_3x3(a, b) = [e \in Entries(3) |-> CSumOf(RowCol(3, a, b, e \div 3, e % 3))]
  BY TableIs DEF mul_3x3, Looped, CSum, RowCol, Dim
<1>5. mul_adj_3x3(a, b) = [e \in Entries(3) |-> CSumOf(RowRow(3, a, b, e \div 3, e % 3))]
  BY TableIs DEF mul_adj_3x3, Looped, CSum, RowRow, Dim
<1>6. adj_mul_3x3(a, b) = [e \in Entries(3) |-> CSumOf(ColCol(3, a, b, e \div 3, e % 3))]
  BY TableIs DEF adj_mul_3x3, Looped, CSum, ColCol, Dim
<1>7. mul_3x3(a, b) = Product(3, a, b)
  BY <1>2, <1>3, <1>4 DEF Mat, Cplxs
<1>8. mul_adj_3x3(a, b) = Product(3, a, Dagger(3, b))
  BY <1>2, <1>3, <1>5 DEF Mat, Cplxs
<1>9. adj_mul_3x3(a, b) = Product(3, Dagger(3, a), b)
  BY <1>2, <1>3, <1>6 DEF Mat, Cplxs
<1>10. QED BY <1>7, <1>8, <1>9

(* The local operations of each N. *)
(* The operations of U(1) are those of 1 x 1 matrices.                     *)
LEMMA U1Ops ==
  ASSUME NEW a \in Mat(1), NEW b \in Mat(1)
  PROVE  /\ u1_local_ops(a, b).mm = Product(1, a, b)
         /\ u1_local_ops(a, b).mmd = Product(1, a, Dagger(1, b))
         /\ u1_local_ops(a, b).mdm = Product(1, Dagger(1, a), b)
         /\ u1_local_ops(a, b).re_tr_mm = Trace(1, Product(1, a, b))[1]
<1>1. Entries(1) = 0 .. 0 /\ Dim(1) = 0 .. 0
  BY DEF Entries, Dim
<1>2. a[0] \in Cplx /\ b[0] \in Cplx
  BY <1>1 DEF Mat, Cplxs
<1> DEFINE N == 1
<1>3. N \in 1 .. 3 /\ a \in Mat(N) /\ b \in Mat(N) /\ 0 \in Entries(N) /\ 0 \div N = 0 /\ 0 % N = 0
  BY <1>1
<1>4. Dagger(N, a) \in Mat(N) /\ Dagger(N, b) \in Mat(N)
  <2> HIDE DEF N
  <2> QED BY <1>3, DaggerAt
<1>5. /\ Product(N, a, b) \in Mat(N) /\ Product(N, a, Dagger(N, b)) \in Mat(N)
      /\ Product(N, Dagger(N, a), b) \in Mat(N)
  <2> HIDE DEF N
  <2> QED BY <1>3, <1>4, ProductAt
<1>6. /\ Product(N, a, b)[0] = CSumOf(RowCol(N, a, b, 0, 0))
      /\ Product(N, a, Dagger(N, b))[0] = CSumOf(RowRow(N, a, b, 0, 0))
      /\ Product(N, Dagger(N, a), b)[0] = CSumOf(ColCol(N, a, b, 0, 0))
  <2> HIDE DEF N
  <2>1. /\ Product(N, a, b)[0] = CSumOf(RowCol(N, a, b, 0 \div N, 0 % N))
        /\ Product(N, a, Dagger(N, b))[0] = CSumOf(RowRow(N, a, b, 0 \div N, 0 % N))
        /\ Product(N, Dagger(N, a), b)[0] = CSumOf(ColCol(N, a, b, 0 \div N, 0 % N))
    BY <1>3, ProductsAt
  <2>2. QED BY <1>3, <2>1
<1>7. 1 * 0 + 0 = 0
  OBVIOUS
<1>8. /\ cmul(a[0], b[0]) \in Cplx
      /\ cmul_b_conj(a[0], b[0]) \in Cplx
      /\ cmul_a_conj(a[0], b[0]) \in Cplx
  BY <1>2 DEF cmul, cmul_b_conj, cmul_a_conj, Cplx
<1>9. Product(1, a, b)[0] = cmul(a[0], b[0])
  <2>1. RowCol(1, a, b, 0, 0) = [k \in 0 .. 0 |-> cmul(a[0], b[0])]
    BY <1>1, <1>7 DEF RowCol
  <2>2. RowCol(1, a, b, 0, 0) \in Cplxs(0 .. 0) /\ RowCol(1, a, b, 0, 0)[0] = cmul(a[0], b[0])
    BY <2>1, <1>8 DEF Cplxs
  <2>3. QED BY <2>2, <1>6, CSumOf1
<1>10. Product(1, a, Dagger(1, b))[0] = cmul_b_conj(a[0], b[0])
  <2>1. RowRow(1, a, b, 0, 0) = [k \in 0 .. 0 |-> cmul_b_conj(a[0], b[0])]
    BY <1>1, <1>7 DEF RowRow
  <2>2. RowRow(1, a, b, 0, 0) \in Cplxs(0 .. 0) /\ RowRow(1, a, b, 0, 0)[0] = cmul_b_conj(a[0], b[0])
    BY <2>1, <1>8 DEF Cplxs
  <2>3. QED BY <2>2, <1>6, CSumOf1
<1>11. Product(1, Dagger(1, a), b)[0] = cmul_a_conj(a[0], b[0])
  <2>1. ColCol(1, a, b, 0, 0) = [k \in 0 .. 0 |-> cmul_a_conj(a[0], b[0])]
    BY <1>1, <1>7 DEF ColCol
  <2>2. ColCol(1, a, b, 0, 0) \in Cplxs(0 .. 0) /\ ColCol(1, a, b, 0, 0)[0] = cmul_a_conj(a[0], b[0])
    BY <2>1, <1>8 DEF Cplxs
  <2>3. QED BY <2>2, <1>6, CSumOf1
<1>12. u1_local_ops(a, b).mm = Product(1, a, b)
  BY <1>1, <1>5, <1>9 DEF u1_local_ops, Mat, Cplxs
<1>13. u1_local_ops(a, b).mmd = Product(1, a, Dagger(1, b))
  BY <1>1, <1>5, <1>10 DEF u1_local_ops, Mat, Cplxs
<1>14. u1_local_ops(a, b).mdm = Product(1, Dagger(1, a), b)
  BY <1>1, <1>5, <1>11 DEF u1_local_ops, Mat, Cplxs
<1>15. u1_local_ops(a, b).re_tr_mm = Trace(1, Product(1, a, b))[1]
  <2> DEFINE p == Product(N, a, b)
  <2>1. p \in Mat(N)
    BY <1>5
  <2>2. Trace(N, p) = CSumOf(Diagonal(N, p)) /\ Diagonal(N, p) \in Cplxs(Dim(N))
    <3> HIDE DEF N, p
    <3> QED BY <2>1, <1>3, TraceIs
  <2>3. Diagonal(N, p)[0] = p[0]
    BY <1>1, <1>7 DEF Diagonal
  <2>4. Trace(N, p) = p[0]
    BY <2>2, <2>3, <1>1, CSumOf1
  <2>5. QED BY <2>4, <1>9 DEF u1_local_ops, cmul
<1>16. QED BY <1>12, <1>13, <1>14, <1>15

(* The operations of the local update are products and a real trace, for   *)
(* each group.                                                             *)
LEMMA LocalOps ==
  ASSUME NEW N \in 1 .. 3, NEW a \in Mat(N), NEW b \in Mat(N)
  PROVE  /\ gauge_local_ops(N, a, b).mm = Product(N, a, b)
         /\ gauge_local_ops(N, a, b).mmd = Product(N, a, Dagger(N, b))
         /\ gauge_local_ops(N, a, b).mdm = Product(N, Dagger(N, a), b)
         /\ gauge_local_ops(N, a, b).re_tr_mm = Trace(N, Product(N, a, b))[1]
<1>1. CASE N = 1
  BY <1>1, U1Ops DEF gauge_local_ops
<1>2. CASE N = 2
  <2>1. gauge_local_ops(N, a, b) = su2_local_ops(a, b)
    BY <1>2 DEF gauge_local_ops
  <2>2. TraceSum(2, a, b) = Trace(2, Product(2, a, b))[1]
    BY <1>2, TraceSumIs
  <2>3. QED BY <2>1, <2>2, <1>2, Products2 DEF su2_local_ops
<1>3. CASE N = 3
  <2>1. gauge_local_ops(N, a, b) = su3_local_ops(a, b)
    BY <1>3 DEF gauge_local_ops
  <2>2. TraceSum(3, a, b) = Trace(3, Product(3, a, b))[1]
    BY <1>3, TraceSumIs
  <2>3. QED BY <2>1, <2>2, <1>3, Products3 DEF su3_local_ops
<1>4. QED BY <1>1, <1>2, <1>3

-----------------------------------------------------------------------------
(* The local update: the change of the action from one staple is that of   *)
(* the plaquettes through the link.                                        *)

(* The real trace around a plaquette.                                      *)
LoopOf(N, w, x, y, z) == Trace(N, Product(N, Product(N, w, x), Product(N, Dagger(N, y), Dagger(N, z))))[1]

(* The trace around a plaquette, as link times staple.                     *)
LEMMA ForwardLoop ==
  ASSUME NEW N, NEW l, NEW p, NEW m, NEW s,
         N \in 1 .. 3, l \in Mat(N), p \in Mat(N), m \in Mat(N), s \in Mat(N)
  PROVE  Trace(N, Product(N, l, Product(N, Product(N, p, Dagger(N, m)), Dagger(N, s))))[1] = LoopOf(N, l, p, m, s)
<1> DEFINE md == Dagger(N, m)
           sd == Dagger(N, s)
<1>1. md \in Mat(N) /\ sd \in Mat(N)
  BY DaggerAt
<1> HIDE DEF md, sd
<1>2. Product(N, md, sd) \in Mat(N)
  BY <1>1, ProductAt
<1>3. Product(N, Product(N, p, md), sd) = Product(N, p, Product(N, md, sd))
  BY <1>1, Associative
<1>4. Product(N, Product(N, l, p), Product(N, md, sd)) = Product(N, l, Product(N, p, Product(N, md, sd)))
  BY <1>2, Associative
<1>5. QED BY <1>3, <1>4 DEF md, sd, LoopOf

(* The trace around the plaquette behind the link, as link times staple.   *)
LEMMA BackwardLoop ==
  ASSUME NEW N, NEW l, NEW a, NEW b, NEW c,
         N \in 1 .. 3, l \in Mat(N), a \in Mat(N), b \in Mat(N), c \in Mat(N)
  PROVE  Trace(N, Product(N, l, Product(N, Dagger(N, Product(N, a, b)), c)))[1] = LoopOf(N, a, b, l, c)
<1> DEFINE ab == Product(N, a, b)
           abD == Dagger(N, ab)
           lD == Dagger(N, l)
           cD == Dagger(N, c)
           x == Product(N, abD, c)
<1>1. ab \in Mat(N)
  BY ProductAt
<1>2. abD \in Mat(N) /\ lD \in Mat(N) /\ cD \in Mat(N)
  <2> HIDE DEF ab
  <2> QED BY <1>1, DaggerAt
<1>3. x \in Mat(N)
  <2> HIDE DEF abD
  <2> QED BY <1>2, ProductAt
<1>4. Dagger(N, abD) = ab
  <2> HIDE DEF ab
  <2> QED BY <1>1, DaggerTwice
<1>5. Dagger(N, x) = Product(N, cD, ab)
  <2>1. Dagger(N, x) = Product(N, cD, Dagger(N, abD))
    <3> HIDE DEF abD
    <3> QED BY <1>2, DaggerOfProduct
  <2>2. QED BY <2>1, <1>4
<1> HIDE DEF ab, abD, lD, cD, x
<1>6. Product(N, l, x) \in Mat(N) /\ Product(N, cD, ab) \in Mat(N)
  BY <1>1, <1>2, <1>3, ProductAt
<1>7. Dagger(N, Product(N, l, x)) = Product(N, Product(N, cD, ab), lD)
  BY <1>3, <1>5, DaggerOfProduct DEF lD
<1>8. Trace(N, Product(N, l, x))[1] = Trace(N, Product(N, Product(N, cD, ab), lD))[1]
  BY <1>6, <1>7, TraceDagger
<1>9. Trace(N, Product(N, Product(N, cD, ab), lD)) = Trace(N, Product(N, lD, Product(N, cD, ab)))
  BY <1>2, <1>6, TraceCyclic
<1>10. Product(N, lD, Product(N, cD, ab)) = Product(N, Product(N, lD, cD), ab)
  BY <1>1, <1>2, Associative
<1>11. Product(N, lD, cD) \in Mat(N)
  BY <1>2, ProductAt
<1>12. Trace(N, Product(N, Product(N, lD, cD), ab)) = Trace(N, Product(N, ab, Product(N, lD, cD)))
  BY <1>1, <1>11, TraceCyclic
<1>13. QED BY <1>8, <1>9, <1>10, <1>12 DEF ab, abD, lD, cD, x, LoopOf

(* The staples of one plane. *)
(* The links of a plane around a link: two staples.                        *)
Around(s, p, m, a, c, b) ==
  [nu_s |-> s, nu_pmu |-> p, mu_pnu |-> m, mu_mnu |-> a, nu_mnu |-> c, nu_pmu_mnu |-> b]

Fwd(N, p, m, s) == Product(N, Product(N, p, Dagger(N, m)), Dagger(N, s))
Bwd(N, a, b, c) == Product(N, Dagger(N, Product(N, a, b)), c)

(* local_staple is the sum of the two staples of the plane.                *)
LEMMA StapleIs ==
  ASSUME NEW N, NEW s, NEW p, NEW m, NEW a, NEW c, NEW b,
         N \in 1 .. 3, s \in Mat(N), p \in Mat(N), m \in Mat(N), a \in Mat(N),
         c \in Mat(N), b \in Mat(N)
  PROVE  /\ local_staple(N, Around(s, p, m, a, c, b)) = Plus(Fwd(N, p, m, s), Bwd(N, a, b, c))
         /\ Fwd(N, p, m, s) \in Mat(N) /\ Bwd(N, a, b, c) \in Mat(N)
<1> DEFINE u == Around(s, p, m, a, c, b)
           pm == Product(N, p, Dagger(N, m))
           ab == Product(N, a, b)
           fwd == Product(N, pm, Dagger(N, s))
           bwd == Product(N, Dagger(N, ab), c)
<1>1. Dagger(N, m) \in Mat(N) /\ Dagger(N, s) \in Mat(N)
  BY DaggerAt
<1>2. pm \in Mat(N) /\ ab \in Mat(N)
  BY <1>1, ProductAt
<1>3. gauge_local_ops(N, p, m).mmd = pm /\ gauge_local_ops(N, a, b).mm = ab
  BY LocalOps
<1> HIDE DEF pm, ab
<1>4. Dagger(N, ab) \in Mat(N)
  BY <1>2, DaggerAt
<1>5. fwd \in Mat(N) /\ bwd \in Mat(N)
  BY <1>1, <1>2, <1>4, ProductAt
<1>6. gauge_local_ops(N, pm, s).mmd = fwd /\ gauge_local_ops(N, ab, c).mdm = bwd
  BY <1>2, LocalOps
<1> HIDE DEF fwd, bwd
<1>7. gauge_local_ops(N, gauge_local_ops(N, u.nu_pmu, u.mu_pnu).mmd, u.nu_s).mmd = fwd
  BY <1>3, <1>6 DEF Around
<1>8. gauge_local_ops(N, gauge_local_ops(N, u.mu_mnu, u.nu_pmu_mnu).mm, u.nu_mnu).mdm = bwd
  BY <1>3, <1>6 DEF Around
<1>9. local_staple(N, u) = Table([e \in Entries(N) |-> cadd(fwd[e], bwd[e])])
  BY <1>7, <1>8 DEF local_staple
<1>10. DOMAIN fwd = Entries(N)
  BY <1>5 DEF Mat, Cplxs
<1>11. local_staple(N, u) = Plus(fwd, bwd)
  BY <1>9, <1>10 DEF Plus
<1>12. QED BY <1>5, <1>11 DEF fwd, bwd, pm, ab, Fwd, Bwd

(* The real trace of link times staple is that of both plaquettes.         *)
LEMMA StapleLoops ==
  ASSUME NEW N, NEW s, NEW p, NEW m, NEW a, NEW c, NEW b, NEW l,
         N \in 1 .. 3, s \in Mat(N), p \in Mat(N), m \in Mat(N), a \in Mat(N),
         c \in Mat(N), b \in Mat(N), l \in Mat(N)
  PROVE  gauge_local_ops(N, l, local_staple(N, Around(s, p, m, a, c, b))).re_tr_mm
           = LoopOf(N, l, p, m, s) + LoopOf(N, a, b, l, c)
<1> DEFINE u == Around(s, p, m, a, c, b)
           fwd == Fwd(N, p, m, s)
           bwd == Bwd(N, a, b, c)
<1>1. fwd \in Mat(N) /\ bwd \in Mat(N) /\ local_staple(N, u) = Plus(fwd, bwd)
  BY StapleIs
<1>2. Trace(N, Product(N, l, fwd))[1] = LoopOf(N, l, p, m, s)
  BY ForwardLoop DEF Fwd
<1>3. Trace(N, Product(N, l, bwd))[1] = LoopOf(N, a, b, l, c)
  BY BackwardLoop DEF Bwd
<1> HIDE DEF fwd, bwd
<1>4. Product(N, l, fwd) \in Mat(N) /\ Product(N, l, bwd) \in Mat(N) /\ Plus(fwd, bwd) \in Mat(N)
  BY <1>1, ProductAt, PlusAt
<1>5. gauge_local_ops(N, l, Plus(fwd, bwd)).re_tr_mm = Trace(N, Product(N, l, Plus(fwd, bwd)))[1]
  BY <1>4, LocalOps
<1>6. Product(N, l, Plus(fwd, bwd)) = Plus(Product(N, l, fwd), Product(N, l, bwd))
  BY <1>1, ProductOfPlus
<1>7. Trace(N, Plus(Product(N, l, fwd), Product(N, l, bwd)))
        = cadd(Trace(N, Product(N, l, fwd)), Trace(N, Product(N, l, bwd)))
  BY <1>4, TraceOfPlus
<1>8. Trace(N, Product(N, l, fwd)) \in Cplx /\ Trace(N, Product(N, l, bwd)) \in Cplx
  <2>1. \A x \in Mat(N) : Trace(N, x) \in Cplx
    BY TraceIs, CSumType, SizeFacts
  <2>2. QED BY <2>1, <1>4
<1>9. cadd(Trace(N, Product(N, l, fwd)), Trace(N, Product(N, l, bwd)))[1]
        = Trace(N, Product(N, l, fwd))[1] + Trace(N, Product(N, l, bwd))[1]
  BY DEF cadd
<1>10. Trace(N, Product(N, l, fwd))[1] \in Int /\ Trace(N, Product(N, l, bwd))[1] \in Int
  BY <1>8 DEF Cplx
<1>11. QED BY <1>1, <1>2, <1>3, <1>5, <1>6, <1>7, <1>9, <1>10

(* local_ds is the change of both plaquettes, for any links and any        *)
(* proposal of the form of LocalExact.                                     *)
LEMMA LocalIsExact ==
  ASSUME NEW N \in 1 .. 3, NEW a \in Mat(N), NEW b \in Mat(N)
  PROVE  LocalExact(N, a, b)
<1> DEFINE at(k) == Plus(Scaled(k, a), Product(N, b, Dagger(N, a)))
           u == [nu_s |-> a, nu_pmu |-> b, mu_pnu |-> at(1), mu_mnu |-> at(2), nu_mnu |-> Dagger(N, b), nu_pmu_mnu |-> at(-1)]
           link == at(3)
           prop == Product(N, a, b)
<1>1. Dagger(N, a) \in Mat(N) /\ Dagger(N, b) \in Mat(N)
  BY DaggerAt
<1>2. Product(N, b, Dagger(N, a)) \in Mat(N) /\ prop \in Mat(N)
  BY <1>1, ProductAt
<1>3. ASSUME NEW k \in Int PROVE at(k) \in Mat(N)
  <2>1. Scaled(k, a) \in Mat(N)
    BY ScaledAt
  <2>2. QED BY <2>1, <1>2, PlusAt
<1> DEFINE m == at(1)
           c == at(2)
           d == at(-1)
<1>4. m \in Mat(N) /\ c \in Mat(N) /\ d \in Mat(N) /\ link \in Mat(N)
  <2> HIDE DEF at
  <2>1. 1 \in Int /\ 2 \in Int /\ -1 \in Int /\ 3 \in Int
    OBVIOUS
  <2>2. QED BY <2>1, <1>3
<1>5. u = [nu_s |-> a, nu_pmu |-> b, mu_pnu |-> m, mu_mnu |-> c, nu_mnu |-> Dagger(N, b), nu_pmu_mnu |-> d]
  OBVIOUS
<1> DEFINE cN == Dagger(N, b)
           both(l) == LoopOf(N, l, b, m, a) + LoopOf(N, c, d, l, cN)
<1>6. local_ds(N, u, link, prop) = both(prop) - both(link)
  <2>1. u = Around(a, b, m, c, cN, d)
    BY <1>5 DEF Around
  <2> HIDE DEF m, c, d, link, prop, at, cN, u
  <2>2. cN \in Mat(N)
    BY <1>1 DEF cN
  <2>3. gauge_local_ops(N, prop, local_staple(N, u)).re_tr_mm = both(prop)
    BY <2>1, <2>2, <1>2, <1>4, StapleLoops
  <2>4. gauge_local_ops(N, link, local_staple(N, u)).re_tr_mm = both(link)
    BY <2>1, <2>2, <1>4, StapleLoops
  <2>5. QED BY <2>3, <2>4 DEF local_ds
<1>7. QED BY <1>6 DEF LocalExact, LoopOf

-----------------------------------------------------------------------------
(* The products of the slabs, lane by lane.                                *)

(* A lane of two matrices in a slab.                                       *)
LEMMA LanesAt ==
  ASSUME NEW N \in 1 .. 3, NEW x \in Mat(N), NEW y \in Mat(N), NEW e \in Entries(N)
  PROVE  Lanes(x, y)[e][1] = x[e] /\ Lanes(x, y)[e][2] = y[e] /\ Lanes(x, y)[e] = <<x[e], y[e]>>
<1>1. DOMAIN x = Entries(N)
  BY DEF Mat, Cplxs
<1>2. Lanes(x, y)[e] = <<x[e], y[e]>>
  BY <1>1 DEF Lanes
<1>3. QED BY <1>2

(* A slab of two lanes.                                                    *)
LEMMA TwoLanes ==
  ASSUME NEW f, f = [l \in {1, 2} |-> f[l]]
  PROVE  f = <<f[1], f[2]>>
OBVIOUS

(* The two lanes of a batched product. *)
(* The product of two slabs, lane by lane.                                 *)
LEMMA MulBatchedAt ==
  ASSUME NEW N \in 1 .. 3, NEW a \in Mat(N), NEW b \in Mat(N), NEW e \in Entries(N)
  PROVE  mul_batched(N, Lanes(a, b), Lanes(b, a), {1, 2})[e] = <<Product(N, a, b)[e], Product(N, b, a)[e]>>
<1> DEFINE i == e \div N
           j == e % N
           g(l) == [k \in Dim(N) |-> cmul(Lanes(a, b)[N * i + k][l], Lanes(b, a)[N * k + j][l])]
           f == [l \in {1, 2} |-> CSumOf(g(l))]
<1>1. mul_batched(N, Lanes(a, b), Lanes(b, a), {1, 2})[e] = f
  BY DEF mul_batched, Batched, CSum, Dim
<1>2. i \in Dim(N) /\ j \in Dim(N) /\ \A k, l \in Dim(N) : N * k + l \in Entries(N)
  BY SizeFacts
<1> HIDE DEF i, j
<1>3. g(1) = RowCol(N, a, b, i, j) /\ g(2) = RowCol(N, b, a, i, j)
  <2>1. ASSUME NEW k \in Dim(N)
        PROVE  /\ Lanes(a, b)[N * i + k][1] = a[N * i + k] /\ Lanes(b, a)[N * k + j][1] = b[N * k + j]
               /\ Lanes(a, b)[N * i + k][2] = b[N * i + k] /\ Lanes(b, a)[N * k + j][2] = a[N * k + j]
    <3>1. N * i + k \in Entries(N) /\ N * k + j \in Entries(N)
      BY <1>2
    <3>2. QED BY <3>1, LanesAt
  <2>2. QED BY <2>1 DEF RowCol
<1>4. f[1] = Product(N, a, b)[e] /\ f[2] = Product(N, b, a)[e]
  BY <1>3, ProductsAt DEF i, j
<1>5. f = <<f[1], f[2]>>
  BY TwoLanes
<1>6. QED BY <1>1, <1>4, <1>5

(* The product with the adjoint, lane by lane.                             *)
LEMMA MulAdjBatchedAt ==
  ASSUME NEW N \in 1 .. 3, NEW a \in Mat(N), NEW b \in Mat(N), NEW e \in Entries(N), NEW out
  PROVE  mul_adj_batched(N, FALSE, out, Lanes(a, b), Lanes(b, a), {1, 2})[e]
           = <<Product(N, a, Dagger(N, b))[e], Product(N, b, Dagger(N, a))[e]>>
<1> DEFINE i == e \div N
           j == e % N
           g(l) == [k \in Dim(N) |-> cmul_b_conj(Lanes(a, b)[N * i + k][l], Lanes(b, a)[N * j + k][l])]
           f == [l \in {1, 2} |-> CSumOf(g(l))]
<1>1. mul_adj_batched(N, FALSE, out, Lanes(a, b), Lanes(b, a), {1, 2})[e] = f
  BY DEF mul_adj_batched, Batched, CSum, Dim
<1>2. i \in Dim(N) /\ j \in Dim(N) /\ \A k, l \in Dim(N) : N * k + l \in Entries(N)
  BY SizeFacts
<1> HIDE DEF i, j
<1>3. g(1) = RowRow(N, a, b, i, j) /\ g(2) = RowRow(N, b, a, i, j)
  <2>1. ASSUME NEW k \in Dim(N)
        PROVE  /\ Lanes(a, b)[N * i + k][1] = a[N * i + k] /\ Lanes(b, a)[N * j + k][1] = b[N * j + k]
               /\ Lanes(a, b)[N * i + k][2] = b[N * i + k] /\ Lanes(b, a)[N * j + k][2] = a[N * j + k]
    <3>1. N * i + k \in Entries(N) /\ N * j + k \in Entries(N)
      BY <1>2
    <3>2. QED BY <3>1, LanesAt
  <2>2. QED BY <2>1 DEF RowRow
<1>4. f[1] = Product(N, a, Dagger(N, b))[e] /\ f[2] = Product(N, b, Dagger(N, a))[e]
  BY <1>3, ProductsAt DEF i, j
<1>5. f = <<f[1], f[2]>>
  BY TwoLanes
<1>6. QED BY <1>1, <1>4, <1>5

(* The product of the adjoint, lane by lane.                               *)
LEMMA AdjMulBatchedAt ==
  ASSUME NEW N \in 1 .. 3, NEW a \in Mat(N), NEW b \in Mat(N), NEW e \in Entries(N), NEW out
  PROVE  adj_mul_batched(N, FALSE, out, Lanes(a, b), Lanes(b, a), {1, 2})[e]
           = <<Product(N, Dagger(N, a), b)[e], Product(N, Dagger(N, b), a)[e]>>
<1> DEFINE i == e \div N
           j == e % N
           g(l) == [k \in Dim(N) |-> cmul_a_conj(Lanes(a, b)[N * k + i][l], Lanes(b, a)[N * k + j][l])]
           f == [l \in {1, 2} |-> CSumOf(g(l))]
<1>1. adj_mul_batched(N, FALSE, out, Lanes(a, b), Lanes(b, a), {1, 2})[e] = f
  BY DEF adj_mul_batched, Batched, CSum, Dim
<1>2. i \in Dim(N) /\ j \in Dim(N) /\ \A k, l \in Dim(N) : N * k + l \in Entries(N)
  BY SizeFacts
<1> HIDE DEF i, j
<1>3. g(1) = ColCol(N, a, b, i, j) /\ g(2) = ColCol(N, b, a, i, j)
  <2>1. ASSUME NEW k \in Dim(N)
        PROVE  /\ Lanes(a, b)[N * k + i][1] = a[N * k + i] /\ Lanes(b, a)[N * k + j][1] = b[N * k + j]
               /\ Lanes(a, b)[N * k + i][2] = b[N * k + i] /\ Lanes(b, a)[N * k + j][2] = a[N * k + j]
    <3>1. N * k + i \in Entries(N) /\ N * k + j \in Entries(N)
      BY <1>2
    <3>2. QED BY <3>1, LanesAt
  <2>2. QED BY <2>1 DEF ColCol
<1>4. f[1] = Product(N, Dagger(N, a), b)[e] /\ f[2] = Product(N, Dagger(N, b), a)[e]
  BY <1>3, ProductsAt DEF i, j
<1>5. f = <<f[1], f[2]>>
  BY TwoLanes
<1>6. QED BY <1>1, <1>4, <1>5

AddedTo(N, o, x) == [e \in Entries(N) |-> <<cadd(o[e][1], x[e][1]), cadd(o[e][2], x[e][2])>>]

(* The products of slabs are the products of the matrices in their lanes,  *)
(* added to what is there if asked.                                        *)
LEMMA BatchedProducts ==
  ASSUME NEW N \in 1 .. 3, NEW a \in Mat(N), NEW b \in Mat(N), NEW o
  PROVE  /\ mul_batched(N, Lanes(a, b), Lanes(b, a), {1, 2}) = Lanes(Product(N, a, b), Product(N, b, a))
         /\ mul_adj_batched(N, FALSE, o, Lanes(a, b), Lanes(b, a), {1, 2})
              = Lanes(Product(N, a, Dagger(N, b)), Product(N, b, Dagger(N, a)))
         /\ mul_adj_batched(N, TRUE, o, Lanes(a, b), Lanes(b, a), {1, 2})
              = AddedTo(N, o, Lanes(Product(N, a, Dagger(N, b)), Product(N, b, Dagger(N, a))))
         /\ adj_mul_batched(N, FALSE, o, Lanes(a, b), Lanes(b, a), {1, 2})
              = Lanes(Product(N, Dagger(N, a), b), Product(N, Dagger(N, b), a))
         /\ adj_mul_batched(N, TRUE, o, Lanes(a, b), Lanes(b, a), {1, 2})
              = AddedTo(N, o, Lanes(Product(N, Dagger(N, a), b), Product(N, Dagger(N, b), a)))
<1> DEFINE both == Lanes(a, b)
           swapped == Lanes(b, a)
<1>1. Dagger(N, a) \in Mat(N) /\ Dagger(N, b) \in Mat(N)
  BY DaggerAt
<1>2. /\ Product(N, a, b) \in Mat(N) /\ Product(N, a, Dagger(N, b)) \in Mat(N) /\ Product(N, b, Dagger(N, a)) \in Mat(N)
      /\ Product(N, Dagger(N, a), b) \in Mat(N)
  BY <1>1, ProductAt
<1>3. /\ DOMAIN Product(N, a, b) = Entries(N) /\ DOMAIN Product(N, a, Dagger(N, b)) = Entries(N)
      /\ DOMAIN Product(N, Dagger(N, a), b) = Entries(N)
  BY <1>2 DEF Mat, Cplxs
<1>4. mul_batched(N, both, swapped, {1, 2}) = Lanes(Product(N, a, b), Product(N, b, a))
  <2> DEFINE m == mul_batched(N, both, swapped, {1, 2})
  <2>1. m = [e \in Entries(N) |-> m[e]]
    BY DEF mul_batched, Batched
  <2>2. \A e \in Entries(N) : m[e] = <<Product(N, a, b)[e], Product(N, b, a)[e]>>
    BY MulBatchedAt
  <2> HIDE DEF m
  <2>3. QED BY <1>3, <2>1, <2>2 DEF Lanes, m
<1>5. mul_adj_batched(N, FALSE, o, both, swapped, {1, 2}) = Lanes(Product(N, a, Dagger(N, b)), Product(N, b, Dagger(N, a)))
  <2> DEFINE m == mul_adj_batched(N, FALSE, o, both, swapped, {1, 2})
  <2>1. m = [e \in Entries(N) |-> m[e]]
    BY DEF mul_adj_batched, Batched
  <2>2. \A e \in Entries(N) : m[e] = <<Product(N, a, Dagger(N, b))[e], Product(N, b, Dagger(N, a))[e]>>
    BY MulAdjBatchedAt
  <2> HIDE DEF m
  <2>3. QED BY <1>3, <2>1, <2>2 DEF Lanes, m
<1>6. adj_mul_batched(N, FALSE, o, both, swapped, {1, 2}) = Lanes(Product(N, Dagger(N, a), b), Product(N, Dagger(N, b), a))
  <2> DEFINE m == adj_mul_batched(N, FALSE, o, both, swapped, {1, 2})
  <2>1. m = [e \in Entries(N) |-> m[e]]
    BY DEF adj_mul_batched, Batched
  <2>2. \A e \in Entries(N) : m[e] = <<Product(N, Dagger(N, a), b)[e], Product(N, Dagger(N, b), a)[e]>>
    BY AdjMulBatchedAt
  <2> HIDE DEF m
  <2>3. QED BY <1>3, <2>1, <2>2 DEF Lanes, m
<1>7. ASSUME NEW c PROVE [e \in Entries(N) |-> [l \in {1, 2} |-> cadd(o[e][l], c[e][l])]] = AddedTo(N, o, c)
  <2>1. ASSUME NEW e \in Entries(N)
        PROVE  [l \in {1, 2} |-> cadd(o[e][l], c[e][l])] = <<cadd(o[e][1], c[e][1]), cadd(o[e][2], c[e][2])>>
    <3> DEFINE f == [l \in {1, 2} |-> cadd(o[e][l], c[e][l])]
    <3>1. f = <<f[1], f[2]>>
      BY TwoLanes
    <3>2. QED BY <3>1
  <2>2. QED BY <2>1 DEF AddedTo
<1>8. mul_adj_batched(N, TRUE, o, both, swapped, {1, 2})
        = [e \in Entries(N) |-> [l \in {1, 2} |-> cadd(o[e][l], mul_adj_batched(N, FALSE, o, both, swapped, {1, 2})[e][l])]]
  BY DEF mul_adj_batched
<1>9. adj_mul_batched(N, TRUE, o, both, swapped, {1, 2})
        = [e \in Entries(N) |-> [l \in {1, 2} |-> cadd(o[e][l], adj_mul_batched(N, FALSE, o, both, swapped, {1, 2})[e][l])]]
  BY DEF adj_mul_batched
<1> HIDE DEF both, swapped
<1>10. mul_adj_batched(N, TRUE, o, both, swapped, {1, 2})
        = AddedTo(N, o, Lanes(Product(N, a, Dagger(N, b)), Product(N, b, Dagger(N, a))))
  BY <1>5, <1>7, <1>8
<1>11. adj_mul_batched(N, TRUE, o, both, swapped, {1, 2})
        = AddedTo(N, o, Lanes(Product(N, Dagger(N, a), b), Product(N, Dagger(N, b), a)))
  BY <1>6, <1>7, <1>9
<1>12. QED BY <1>4, <1>5, <1>6, <1>10, <1>11 DEF both, swapped

-----------------------------------------------------------------------------
(* The trace of a product without the product; all products are exact.     *)

(* The terms of retr_mul_adj.                                              *)
Weights(N, x, y) == [k \in Entries(N) |-> x[k][1] * y[k][1] + x[k][2] * y[k][2]]
RowOf(N, f, i) == [k \in Dim(N) |-> f[N * i + k]]

(* The diagonal of x times the adjoint of y is a sum of weights of a row.  *)
LEMMA RowSumIs ==
  ASSUME NEW N \in 1 .. 3, NEW x \in Mat(N), NEW y \in Mat(N), NEW i \in Dim(N)
  PROVE  /\ Weights(N, x, y) \in Ints(Entries(N)) /\ RowOf(N, Weights(N, x, y), i) \in Ints(Dim(N))
         /\ Product(N, x, Dagger(N, y))[(N + 1) * i][1] = SumFunction(RowOf(N, Weights(N, x, y), i))
<1>1. Weights(N, x, y) \in Ints(Entries(N))
  BY DEF Weights, Ints, Mat, Cplxs, Cplx
<1>2. RowOf(N, Weights(N, x, y), i) \in Ints(Dim(N))
  BY <1>1, SizeFacts DEF RowOf, Ints
<1>3. Dagger(N, y) \in Mat(N)
  BY DaggerAt
<1>4. Product(N, x, Dagger(N, y))[N * i + i] = CSumOf(RowRow(N, x, y, i, i))
  BY <1>3, ProductAt, RowRowIs
<1>5. Re(RowRow(N, x, y, i, i)) = RowOf(N, Weights(N, x, y), i)
  <2>1. ASSUME NEW k \in Dim(N)
        PROVE  cmul_b_conj(x[N * i + k], y[N * i + k])[1] = Weights(N, x, y)[N * i + k]
    BY SizeFacts DEF Weights, cmul_b_conj
  <2>2. QED BY <2>1 DEF Re, RowRow, RowOf
<1>6. (N + 1) * i = N * i + i
  BY DEF Dim
<1>7. QED BY <1>1, <1>2, <1>4, <1>5, <1>6, CSumParts

(* retr_mul_adj of SU(2) is the real trace of the product.                 *)
LEMMA RetrIs2 ==
  ASSUME NEW a \in Mat(2), NEW b \in Mat(2)
  PROVE  retr_mul_adj(2, a, b) = retr(2, Product(2, a, Dagger(2, b)))
<1> DEFINE f == Weights(2, a, b)
           m == Product(2, a, Dagger(2, b))
           r(i) == RowOf(2, f, i)
           d == [i \in 0 .. 1 |-> m[(2 + 1) * i][1]]
<1>1. Entries(2) = 0 .. 3 /\ Dim(2) = 0 .. 1 /\ 2 \in 1 .. 3
  BY DEF Entries, Dim
<1>2. \A i \in 0 .. 1 : f \in Ints(0 .. 3) /\ r(i) \in Ints(0 .. 1) /\ m[(2 + 1) * i][1] = SumFunction(r(i))
  BY <1>1, RowSumIs
<1>3. ASSUME NEW i \in 0 .. 1 PROVE d[i] = f[2 * i + 0] + f[2 * i + 1]
  <2> DEFINE g == r(i)
  <2>1. g[0] = f[2 * i + 0] /\ g[1] = f[2 * i + 1]
    BY <1>1 DEF RowOf
  <2>2. d[i] = SumFunction(g) /\ g \in Ints(0 .. 1)
    BY <1>2
  <2> HIDE DEF g, d
  <2>3. QED BY <2>1, <2>2, SumOf2
<1>4. \A k \in 0 .. 3 : f[k] \in Int
  BY <1>2 DEF Ints
<1> HIDE DEF f, m
<1>5. d[0] = f[0] + f[1] /\ d[1] = f[2] + f[3]
  <2>1. d[0] = f[2 * 0 + 0] + f[2 * 0 + 1] /\ d[1] = f[2 * 1 + 0] + f[2 * 1 + 1]
    <3> HIDE DEF d
    <3> QED BY <1>3
  <2>2. 2 * 0 + 0 = 0 /\ 2 * 0 + 1 = 1 /\ 2 * 1 + 0 = 2 /\ 2 * 1 + 1 = 3
    OBVIOUS
  <2> HIDE DEF d
  <2>3. QED BY <2>1, <2>2
<1>6. d \in Ints(0 .. 1)
  <2>1. d[0] \in Int /\ d[1] \in Int
    <3> HIDE DEF d
    <3> QED BY <1>4, <1>5
  <2>2. \A i \in 0 .. 1 : d[i] \in Int
    <3> HIDE DEF d
    <3> QED BY <2>1
  <2>3. QED BY <2>2 DEF Ints
<1>7. retr(2, m) = SumFunction(d)
  BY DEF retr, SumOver
<1>8. retr_mul_adj(2, a, b) = SumFunction(f)
  BY DEF retr_mul_adj, SumOver, Weights, f
<1> HIDE DEF d
<1>9. SumFunction(f) = f[0] + f[1] + f[2] + f[3]
  BY <1>2, SumOf4
<1>10. SumFunction(d) = d[0] + d[1]
  BY <1>6, SumOf2
<1>11. SumFunction(f) = SumFunction(d)
  BY <1>4, <1>5, <1>9, <1>10
<1>12. QED BY <1>7, <1>8, <1>11 DEF m

(* retr_mul_adj of SU(3) is the real trace of the product.                 *)
LEMMA RetrIs3 ==
  ASSUME NEW a \in Mat(3), NEW b \in Mat(3)
  PROVE  retr_mul_adj(3, a, b) = retr(3, Product(3, a, Dagger(3, b)))
<1> DEFINE f == Weights(3, a, b)
           m == Product(3, a, Dagger(3, b))
           r(i) == RowOf(3, f, i)
           d == [i \in 0 .. 2 |-> m[(3 + 1) * i][1]]
<1>1. Entries(3) = 0 .. 8 /\ Dim(3) = 0 .. 2 /\ 3 \in 1 .. 3
  BY DEF Entries, Dim
<1>2. \A i \in 0 .. 2 : f \in Ints(0 .. 8) /\ r(i) \in Ints(0 .. 2) /\ m[(3 + 1) * i][1] = SumFunction(r(i))
  BY <1>1, RowSumIs
<1>3. ASSUME NEW i \in 0 .. 2 PROVE d[i] = f[3 * i + 0] + f[3 * i + 1] + f[3 * i + 2]
  <2> DEFINE g == r(i)
  <2>1. g[0] = f[3 * i + 0] /\ g[1] = f[3 * i + 1] /\ g[2] = f[3 * i + 2]
    BY <1>1 DEF RowOf
  <2>2. d[i] = SumFunction(g) /\ g \in Ints(0 .. 2)
    BY <1>2
  <2> HIDE DEF g, d
  <2>3. QED BY <2>1, <2>2, SumOf3
<1>4. \A k \in 0 .. 8 : f[k] \in Int
  BY <1>2 DEF Ints
<1> HIDE DEF f, m
<1>5. d[0] = f[0] + f[1] + f[2] /\ d[1] = f[3] + f[4] + f[5] /\ d[2] = f[6] + f[7] + f[8]
  <2>1. /\ d[0] = f[3 * 0 + 0] + f[3 * 0 + 1] + f[3 * 0 + 2] /\ d[1] = f[3 * 1 + 0] + f[3 * 1 + 1] + f[3 * 1 + 2]
        /\ d[2] = f[3 * 2 + 0] + f[3 * 2 + 1] + f[3 * 2 + 2]
    <3> HIDE DEF d
    <3> QED BY <1>3
  <2>2. /\ 3 * 0 + 0 = 0 /\ 3 * 0 + 1 = 1 /\ 3 * 0 + 2 = 2 /\ 3 * 1 + 0 = 3 /\ 3 * 1 + 1 = 4 /\ 3 * 1 + 2 = 5
        /\ 3 * 2 + 0 = 6 /\ 3 * 2 + 1 = 7 /\ 3 * 2 + 2 = 8
    OBVIOUS
  <2> HIDE DEF d
  <2>3. QED BY <2>1, <2>2
<1>6. d \in Ints(0 .. 2)
  <2>1. d[0] \in Int /\ d[1] \in Int /\ d[2] \in Int
    <3> HIDE DEF d
    <3> QED BY <1>4, <1>5
  <2>2. \A i \in 0 .. 2 : d[i] \in Int
    <3> HIDE DEF d
    <3> QED BY <2>1
  <2>3. QED BY <2>2 DEF Ints
<1>7. retr(3, m) = SumFunction(d)
  BY DEF retr, SumOver
<1>8. retr_mul_adj(3, a, b) = SumFunction(f)
  BY DEF retr_mul_adj, SumOver, Weights, f
<1> HIDE DEF d
<1>9. SumFunction(f) = f[0] + f[1] + f[2] + f[3] + f[4] + f[5] + f[6] + f[7] + f[8]
  BY <1>2, SumOf9
<1>10. SumFunction(d) = d[0] + d[1] + d[2]
  BY <1>6, SumOf3
<1>11. SumFunction(f) = SumFunction(d)
  BY <1>4, <1>5, <1>9, <1>10
<1>12. QED BY <1>7, <1>8, <1>11 DEF m

(* Every product, of a link or of a slab, is the product of matrices.      *)
LEMMA ProductsAreExact ==
  ASSUME NEW N \in 2 .. 3, NEW a \in Mat(N), NEW b \in Mat(N)
  PROVE  ProductsExact(N, a, b)
<1>1. N = 2 => mul_2x2(a, b) = Product(N, a, b) /\ mul_adj_2x2(a, b) = Product(N, a, Dagger(N, b))
                 /\ adj_mul_2x2(a, b) = Product(N, Dagger(N, a), b)
  BY Products2
<1>2. N = 3 => mul_3x3(a, b) = Product(N, a, b) /\ mul_adj_3x3(a, b) = Product(N, a, Dagger(N, b))
                 /\ adj_mul_3x3(a, b) = Product(N, Dagger(N, a), b)
  BY Products3
<1>3. retr_mul_adj(N, a, b) = retr(N, Product(N, a, Dagger(N, b)))
  BY RetrIs2, RetrIs3
<1> DEFINE both == Lanes(a, b)
           swapped == Lanes(b, a)
<1>4. N \in 1 .. 3
  OBVIOUS
<1>5. mul_batched(N, both, swapped, {1, 2}) = Lanes(Product(N, a, b), Product(N, b, a))
  BY <1>4, BatchedProducts
<1>6. mul_adj_batched(N, FALSE, both, both, swapped, {1, 2}) = Lanes(Product(N, a, Dagger(N, b)), Product(N, b, Dagger(N, a)))
  BY <1>4, BatchedProducts
<1>7. mul_adj_batched(N, TRUE, both, both, swapped, {1, 2})
        = AddedTo(N, both, Lanes(Product(N, a, Dagger(N, b)), Product(N, b, Dagger(N, a))))
  BY <1>4, BatchedProducts
<1>8. adj_mul_batched(N, FALSE, both, both, swapped, {1, 2}) = Lanes(Product(N, Dagger(N, a), b), Product(N, Dagger(N, b), a))
  BY <1>4, BatchedProducts
<1>9. adj_mul_batched(N, TRUE, both, both, swapped, {1, 2})
        = AddedTo(N, both, Lanes(Product(N, Dagger(N, a), b), Product(N, Dagger(N, b), a)))
  BY <1>4, BatchedProducts
<1>10. QED BY <1>1, <1>2, <1>3, <1>5, <1>6, <1>7, <1>8, <1>9, Zenon DEF ProductsExact, AddedTo

-----------------------------------------------------------------------------
(* The traceless antihermitian part of SU(3) in a slab is that of each     *)
(* lane.                                                                   *)

(* The entries of the antihermitian part, for one matrix and for a lane. *)
Diag3(x, k) == <<0, 6 * x[k][2] - 2 * (x[0][2] + x[4][2] + x[8][2])>>
Up3(x, k, j) == <<3 * (x[k][1] - x[j][1]), 3 * (x[k][2] + x[j][2])>>
Down3(x, k, j) == <<-Up3(x, k, j)[1], Up3(x, k, j)[2]>>

Anti3(t, x) ==
  /\ t = [k \in 0 .. 8 |-> t[k]]
  /\ t[0] = Diag3(x, 0) /\ t[4] = Diag3(x, 4) /\ t[8] = Diag3(x, 8)
  /\ t[1] = Up3(x, 1, 3) /\ t[2] = Up3(x, 2, 6) /\ t[5] = Up3(x, 5, 7)
  /\ t[3] = Down3(x, 1, 3) /\ t[6] = Down3(x, 2, 6) /\ t[7] = Down3(x, 5, 7)

(* traceless_antiherm_3x3, entry by entry.                                 *)
LEMMA Anti3Is ==
  ASSUME NEW x
  PROVE  Anti3(traceless_antiherm_3x3(x), x)
<1> DEFINE t == traceless_antiherm_3x3(x)
<1>1. Entries(3) = 0 .. 8
  BY DEF Entries
<1>2. t = [k \in 0 .. 8 |-> t[k]]
  BY <1>1 DEF traceless_antiherm_3x3
<1>3. t[0] = Diag3(x, 0)
  <2>1. 0 \in 0 .. 8 /\ 0 \div 3 = 0 /\ 0 % 3 = 0
    OBVIOUS
  <2>2. QED BY <1>1, <2>1 DEF traceless_antiherm_3x3, Diag3
<1>4. t[4] = Diag3(x, 4)
  <2>1. 4 \in 0 .. 8 /\ 4 \div 3 = 1 /\ 4 % 3 = 1
    OBVIOUS
  <2>2. QED BY <1>1, <2>1 DEF traceless_antiherm_3x3, Diag3
<1>5. t[8] = Diag3(x, 8)
  <2>1. 8 \in 0 .. 8 /\ 8 \div 3 = 2 /\ 8 % 3 = 2
    OBVIOUS
  <2>2. QED BY <1>1, <2>1 DEF traceless_antiherm_3x3, Diag3
<1>6. t[1] = Up3(x, 1, 3)
  <2>1. 1 \in 0 .. 8 /\ 1 \div 3 = 0 /\ 1 % 3 = 1
    OBVIOUS
  <2>2. QED BY <1>1, <2>1 DEF traceless_antiherm_3x3, Up3
<1>7. t[2] = Up3(x, 2, 6)
  <2>1. 2 \in 0 .. 8 /\ 2 \div 3 = 0 /\ 2 % 3 = 2
    OBVIOUS
  <2>2. QED BY <1>1, <2>1 DEF traceless_antiherm_3x3, Up3
<1>8. t[5] = Up3(x, 5, 7)
  <2>1. 5 \in 0 .. 8 /\ 5 \div 3 = 1 /\ 5 % 3 = 2
    OBVIOUS
  <2>2. QED BY <1>1, <2>1 DEF traceless_antiherm_3x3, Up3
<1>9. t[3] = Down3(x, 1, 3)
  <2>1. 3 \in 0 .. 8 /\ 3 \div 3 = 1 /\ 3 % 3 = 0
    OBVIOUS
  <2>2. QED BY <1>1, <2>1 DEF traceless_antiherm_3x3, Down3, Up3
<1>10. t[6] = Down3(x, 2, 6)
  <2>1. 6 \in 0 .. 8 /\ 6 \div 3 = 2 /\ 6 % 3 = 0
    OBVIOUS
  <2>2. QED BY <1>1, <2>1 DEF traceless_antiherm_3x3, Down3, Up3
<1>11. t[7] = Down3(x, 5, 7)
  <2>1. 7 \in 0 .. 8 /\ 7 \div 3 = 2 /\ 7 % 3 = 1
    OBVIOUS
  <2>2. QED BY <1>1, <2>1 DEF traceless_antiherm_3x3, Down3, Up3
<1>12. QED BY <1>2, <1>3, <1>4, <1>5, <1>6, <1>7, <1>8, <1>9, <1>10, <1>11 DEF Anti3

Below == [k \in {1, 2, 5} |-> CASE k = 1 -> 3 [] k = 2 -> 6 [] OTHER -> 7]

LaneEntry(m, below, k, b) ==
  LET t == m[0][b][2] + m[4][b][2] + m[8][b][2]
      part(i, j) == <<3 * (m[i][b][1] - m[j][b][1]), 3 * (m[i][b][2] + m[j][b][2])>>
      above == CHOOSE i \in DOMAIN below : below[i] = k
  IN  IF k \in {0, 4, 8} THEN <<0, 6 * m[k][b][2] - 2 * t>>
      ELSE IF k \in DOMAIN below THEN part(k, below[k]) ELSE <<-part(above, k)[1], part(above, k)[2]>>

(* The entry below the diagonal for each above it, and back.               *)
LEMMA BelowIs ==
  /\ DOMAIN Below = {1, 2, 5} /\ Below[1] = 3 /\ Below[2] = 6 /\ Below[5] = 7
  /\ (CHOOSE i \in DOMAIN Below : Below[i] = 3) = 1 /\ (CHOOSE i \in DOMAIN Below : Below[i] = 6) = 2
  /\ (CHOOSE i \in DOMAIN Below : Below[i] = 7) = 5
<1>1. DOMAIN Below = {1, 2, 5} /\ Below[1] = 3 /\ Below[2] = 6 /\ Below[5] = 7
  BY DEF Below
<1>2. QED BY <1>1

(* The part of one lane of a slab.                                         *)
LEMMA Anti3Lane ==
  ASSUME NEW m, NEW lanes
  PROVE  traceless_antiherm_3x3_batched(m, lanes) = [k \in 0 .. 8 |-> [b \in lanes |-> LaneEntry(m, Below, k, b)]]
<1>1. Entries(3) = 0 .. 8
  BY DEF Entries
<1>2. traceless_antiherm_3x3_batched(m, lanes) = [k \in Entries(3) |-> [b \in lanes |-> LaneEntry(m, Below, k, b)]]
  BY Zenon DEF traceless_antiherm_3x3_batched, LaneEntry, Below
<1>3. QED BY <1>1, <1>2

(* An entry of the slab is that of the lane.                               *)
LEMMA LaneEntryIs ==
  ASSUME NEW m, NEW b, NEW x, \A k \in 0 .. 8 : m[k][b] = x[k]
  PROVE  /\ LaneEntry(m, Below, 0, b) = Diag3(x, 0) /\ LaneEntry(m, Below, 4, b) = Diag3(x, 4)
         /\ LaneEntry(m, Below, 8, b) = Diag3(x, 8) /\ LaneEntry(m, Below, 1, b) = Up3(x, 1, 3)
         /\ LaneEntry(m, Below, 2, b) = Up3(x, 2, 6) /\ LaneEntry(m, Below, 5, b) = Up3(x, 5, 7)
         /\ LaneEntry(m, Below, 3, b) = Down3(x, 1, 3) /\ LaneEntry(m, Below, 6, b) = Down3(x, 2, 6)
         /\ LaneEntry(m, Below, 7, b) = Down3(x, 5, 7)
<1>1. /\ m[0][b] = x[0] /\ m[1][b] = x[1] /\ m[2][b] = x[2] /\ m[3][b] = x[3] /\ m[4][b] = x[4]
      /\ m[5][b] = x[5] /\ m[6][b] = x[6] /\ m[7][b] = x[7] /\ m[8][b] = x[8]
  OBVIOUS
<1>2. /\ LaneEntry(m, Below, 0, b) = Diag3(x, 0) /\ LaneEntry(m, Below, 4, b) = Diag3(x, 4)
      /\ LaneEntry(m, Below, 8, b) = Diag3(x, 8)
  BY <1>1 DEF LaneEntry, Diag3
<1>3. /\ LaneEntry(m, Below, 1, b) = Up3(x, 1, 3) /\ LaneEntry(m, Below, 2, b) = Up3(x, 2, 6)
      /\ LaneEntry(m, Below, 5, b) = Up3(x, 5, 7)
  BY <1>1, BelowIs DEF LaneEntry, Up3
<1>4. LaneEntry(m, Below, 3, b) = Down3(x, 1, 3)
  BY <1>1, BelowIs DEF LaneEntry, Down3, Up3
<1>5. LaneEntry(m, Below, 6, b) = Down3(x, 2, 6)
  BY <1>1, BelowIs DEF LaneEntry, Down3, Up3
<1>6. LaneEntry(m, Below, 7, b) = Down3(x, 5, 7)
  BY <1>1, BelowIs DEF LaneEntry, Down3, Up3
<1>7. QED BY <1>2, <1>3, <1>4, <1>5, <1>6

(* traceless_antiherm_3x3_batched is traceless_antiherm_3x3 of each lane.  *)
LEMMA Batched3Is ==
  ASSUME NEW x \in Mat(3), NEW y \in Mat(3)
  PROVE  traceless_antiherm_3x3_batched(Lanes(x, y), {1, 2}) = Lanes(traceless_antiherm_3x3(x), traceless_antiherm_3x3(y))
<1> DEFINE m == Lanes(x, y)
           tx == traceless_antiherm_3x3(x)
           ty == traceless_antiherm_3x3(y)
           z(k) == [b \in {1, 2} |-> LaneEntry(m, Below, k, b)]
<1>1. Anti3(tx, x) /\ Anti3(ty, y)
  BY Anti3Is
<1>2. \A k \in 0 .. 8 : m[k][1] = x[k] /\ m[k][2] = y[k]
  <2>1. 3 \in 1 .. 3 /\ Entries(3) = 0 .. 8
    BY DEF Entries
  <2>2. QED BY <2>1, LanesAt
<1> HIDE DEF m, tx, ty
<1>3. \A k \in 0 .. 8 : LaneEntry(m, Below, k, 1) = tx[k]
  <2>1. /\ LaneEntry(m, Below, 0, 1) = tx[0] /\ LaneEntry(m, Below, 1, 1) = tx[1] /\ LaneEntry(m, Below, 2, 1) = tx[2]
        /\ LaneEntry(m, Below, 3, 1) = tx[3] /\ LaneEntry(m, Below, 4, 1) = tx[4] /\ LaneEntry(m, Below, 5, 1) = tx[5]
        /\ LaneEntry(m, Below, 6, 1) = tx[6] /\ LaneEntry(m, Below, 7, 1) = tx[7] /\ LaneEntry(m, Below, 8, 1) = tx[8]
    BY <1>1, <1>2, LaneEntryIs DEF Anti3
  <2>2. QED BY <2>1
<1>4. \A k \in 0 .. 8 : LaneEntry(m, Below, k, 2) = ty[k]
  <2>1. /\ LaneEntry(m, Below, 0, 2) = ty[0] /\ LaneEntry(m, Below, 1, 2) = ty[1] /\ LaneEntry(m, Below, 2, 2) = ty[2]
        /\ LaneEntry(m, Below, 3, 2) = ty[3] /\ LaneEntry(m, Below, 4, 2) = ty[4] /\ LaneEntry(m, Below, 5, 2) = ty[5]
        /\ LaneEntry(m, Below, 6, 2) = ty[6] /\ LaneEntry(m, Below, 7, 2) = ty[7] /\ LaneEntry(m, Below, 8, 2) = ty[8]
    BY <1>1, <1>2, LaneEntryIs DEF Anti3
  <2>2. QED BY <2>1
<1>5. ASSUME NEW k \in 0 .. 8 PROVE z(k) = <<tx[k], ty[k]>>
  <2>1. z(k) = <<z(k)[1], z(k)[2]>>
    BY TwoLanes
  <2>2. z(k)[1] = LaneEntry(m, Below, k, 1) /\ z(k)[2] = LaneEntry(m, Below, k, 2)
    OBVIOUS
  <2> HIDE DEF z
  <2>3. QED BY <2>1, <2>2, <1>3, <1>4
<1>6. traceless_antiherm_3x3_batched(m, {1, 2}) = [k \in 0 .. 8 |-> z(k)]
  BY Anti3Lane
<1>7. DOMAIN tx = 0 .. 8
  BY <1>1 DEF Anti3
<1> HIDE DEF z
<1>8. QED BY <1>5, <1>6, <1>7 DEF Lanes, m, tx, ty

-----------------------------------------------------------------------------
(* The traceless antihermitian part is the one of the textbook.            *)

(* traceless_antiherm_2x2, entry by entry.                                 *)
LEMMA Anti2Is ==
  ASSUME NEW x, NEW t, t = traceless_antiherm_2x2(x)
  PROVE  /\ t = [k \in 0 .. 3 |-> t[k]]
         /\ t[0] = <<0, x[0][2] - x[3][2]>> /\ t[1] = <<x[1][1] - x[2][1], x[1][2] + x[2][2]>>
         /\ t[2] = <<-(x[1][1] - x[2][1]), x[1][2] + x[2][2]>> /\ t[3] = <<0, -(x[0][2] - x[3][2])>>
<1>1. Entries(2) = 0 .. 3
  BY DEF Entries
<1>2. QED BY <1>1 DEF traceless_antiherm_2x2

Lane2(m, k, b) ==
  <<<<0, m[0][b][2] - m[3][b][2]>>, <<m[1][b][1] - m[2][b][1], m[1][b][2] + m[2][b][2]>>,
    <<-(m[1][b][1] - m[2][b][1]), m[1][b][2] + m[2][b][2]>>, <<0, -(m[0][b][2] - m[3][b][2])>>>>[k + 1]

(* An entry of the slab is that of the lane.                               *)
LEMMA Lane2Is ==
  ASSUME NEW m, NEW b, NEW x, \A k \in 0 .. 3 : m[k][b] = x[k], NEW t, t = traceless_antiherm_2x2(x)
  PROVE  \A k \in 0 .. 3 : Lane2(m, k, b) = t[k]
<1>1. /\ t[0] = <<0, x[0][2] - x[3][2]>> /\ t[1] = <<x[1][1] - x[2][1], x[1][2] + x[2][2]>>
      /\ t[2] = <<-(x[1][1] - x[2][1]), x[1][2] + x[2][2]>> /\ t[3] = <<0, -(x[0][2] - x[3][2])>>
  BY Anti2Is
<1>2. m[0][b] = x[0] /\ m[1][b] = x[1] /\ m[2][b] = x[2] /\ m[3][b] = x[3]
  OBVIOUS
<1>3. Lane2(m, 0, b) = t[0] /\ Lane2(m, 1, b) = t[1] /\ Lane2(m, 2, b) = t[2] /\ Lane2(m, 3, b) = t[3]
  BY <1>1, <1>2 DEF Lane2
<1>4. QED BY <1>3

(* traceless_antiherm_2x2_batched is traceless_antiherm_2x2 of each lane.  *)
LEMMA Batched2Is ==
  ASSUME NEW x \in Mat(2), NEW y \in Mat(2)
  PROVE  traceless_antiherm_2x2_batched(Lanes(x, y), {1, 2}) = Lanes(traceless_antiherm_2x2(x), traceless_antiherm_2x2(y))
<1> DEFINE m == Lanes(x, y)
           tx == traceless_antiherm_2x2(x)
           ty == traceless_antiherm_2x2(y)
           z(k) == [b \in {1, 2} |-> Lane2(m, k, b)]
<1>1. DOMAIN tx = 0 .. 3
  BY Anti2Is
<1>2. \A k \in 0 .. 3 : m[k][1] = x[k] /\ m[k][2] = y[k]
  <2>1. 2 \in 1 .. 3 /\ Entries(2) = 0 .. 3
    BY DEF Entries
  <2>2. QED BY <2>1, LanesAt
<1>3. traceless_antiherm_2x2_batched(m, {1, 2}) = [k \in 0 .. 3 |-> z(k)]
  <2>1. Entries(2) = 0 .. 3
    BY DEF Entries
  <2>2. traceless_antiherm_2x2_batched(m, {1, 2}) = [k \in Entries(2) |-> z(k)]
    BY Zenon DEF traceless_antiherm_2x2_batched, Lane2
  <2>3. QED BY <2>1, <2>2
<1> HIDE DEF m
<1>4. \A k \in 0 .. 3 : Lane2(m, k, 1) = tx[k] /\ Lane2(m, k, 2) = ty[k]
  BY <1>2, Lane2Is
<1>5. ASSUME NEW k \in 0 .. 3 PROVE z(k) = <<tx[k], ty[k]>>
  <2>1. z(k) = <<z(k)[1], z(k)[2]>>
    BY TwoLanes
  <2>2. z(k)[1] = Lane2(m, k, 1) /\ z(k)[2] = Lane2(m, k, 2)
    OBVIOUS
  <2> HIDE DEF z, tx, ty
  <2>3. QED BY <2>1, <2>2, <1>4
<1> HIDE DEF tx, ty, z
<1>6. QED BY <1>1, <1>3, <1>5 DEF Lanes, m, tx, ty

(* The textbook's projection, entry by entry. *)
Anti(N, m) == Plus(m, Scaled(-1, Dagger(N, m)))
Projected(N, m) == Plus(Scaled(N, Anti(N, m)), TimesComplex(times(-1, Trace(N, Anti(N, m))), Identity(N)))

(* The difference of an entry and a conjugate one.                         *)
LEMMA AntiTerm ==
  ASSUME NEW z \in Cplx, NEW w \in Cplx
  PROVE  cadd(z, times(-1, conj(w))) = <<z[1] - w[1], z[2] + w[2]>>
<1>1. PICK p \in Int, q \in Int : z = <<p, q>>
  BY DEF Cplx
<1>2. PICK r \in Int, s \in Int : w = <<r, s>>
  BY DEF Cplx
<1>3. QED BY <1>1, <1>2 DEF cadd, times, conj

(* The entries of the antihermitian part.                                  *)
LEMMA AntiAt ==
  ASSUME NEW N \in 1 .. 3, NEW m \in Mat(N)
  PROVE  /\ Anti(N, m) \in Mat(N)
         /\ \A i, j \in Dim(N) : Anti(N, m)[N * i + j] = <<m[N * i + j][1] - m[N * j + i][1], m[N * i + j][2] + m[N * j + i][2]>>
<1> DEFINE d == Dagger(N, m)
           s == Scaled(-1, d)
<1>1. d \in Mat(N) /\ \A i, j \in Dim(N) : d[N * i + j] = conj(m[N * j + i])
  BY DaggerAt
<1>2. s \in Mat(N) /\ \A e \in Entries(N) : s[e] = times(-1, d[e])
  <2> HIDE DEF d
  <2> QED BY <1>1, ScaledAt
<1> HIDE DEF d, s
<1>3. Plus(m, s) \in Mat(N) /\ \A e \in Entries(N) : Plus(m, s)[e] = cadd(m[e], s[e])
  BY <1>2, PlusAt
<1>4. ASSUME NEW i \in Dim(N), NEW j \in Dim(N)
      PROVE  Plus(m, s)[N * i + j] = <<m[N * i + j][1] - m[N * j + i][1], m[N * i + j][2] + m[N * j + i][2]>>
  <2>1. N * i + j \in Entries(N)
    BY SizeFacts
  <2>2. Plus(m, s)[N * i + j] = cadd(m[N * i + j], times(-1, conj(m[N * j + i])))
    BY <2>1, <1>1, <1>2, <1>3
  <2>3. m[N * i + j] \in Cplx /\ m[N * j + i] \in Cplx
    BY EntryType
  <2>4. QED BY <2>2, <2>3, AntiTerm
<1>5. QED BY <1>3, <1>4 DEF Anti, d, s

(* The entries of the antihermitian part without its trace.                *)
LEMMA ProjectedAt ==
  ASSUME NEW N \in 1 .. 3, NEW m \in Mat(N)
  PROVE  /\ Projected(N, m) = [e \in Entries(N) |-> Projected(N, m)[e]]
         /\ \A e \in Entries(N) : Projected(N, m)[e] =
              cadd(times(N, Anti(N, m)[e]), cmul(times(-1, Trace(N, Anti(N, m))), Identity(N)[e]))
<1> DEFINE s == Scaled(N, Anti(N, m))
           z == times(-1, Trace(N, Anti(N, m)))
           t == TimesComplex(z, Identity(N))
<1>1. s \in Mat(N) /\ \A e \in Entries(N) : s[e] = times(N, Anti(N, m)[e])
  BY AntiAt, ScaledAt
<1>2. DOMAIN Identity(N) = Entries(N)
  BY DEF Identity
<1>3. \A e \in Entries(N) : t[e] = cmul(z, Identity(N)[e])
  BY <1>2 DEF TimesComplex
<1> HIDE DEF s, z, t
<1>4. DOMAIN s = Entries(N)
  BY <1>1 DEF Mat, Cplxs
<1>5. Plus(s, t) = [e \in Entries(N) |-> cadd(s[e], t[e])]
  BY <1>4, TableIs DEF Plus
<1>6. Projected(N, m) = Plus(s, t)
  BY DEF Projected, s, t, z
<1>7. QED BY <1>1, <1>3, <1>5, <1>6 DEF z

(* The entries of the 2 x 2 identity.                                      *)
LEMMA Identity2 ==
  Identity(2)[0] = <<1, 0>> /\ Identity(2)[1] = <<0, 0>> /\ Identity(2)[2] = <<0, 0>> /\ Identity(2)[3] = <<1, 0>>
<1>1. Entries(2) = 0 .. 3
  BY DEF Entries
<1>2. QED BY <1>1 DEF Identity

(* traceless_antiherm_2x2 is half the traceless antihermitian part, times  *)
(* two.                                                                    *)
LEMMA Part2 ==
  ASSUME NEW m \in Mat(2)
  PROVE  Scaled(2, traceless_antiherm_2x2(m)) = Projected(2, m)
<1> DEFINE t == traceless_antiherm_2x2(m)
           a == Anti(2, m)
           p == Projected(2, m)
           tr == Trace(2, a)
<1>1. 2 \in 1 .. 3 /\ Entries(2) = 0 .. 3 /\ Dim(2) = 0 .. 1
  BY DEF Entries, Dim
<1>2. a \in Mat(2) /\ \A i, j \in 0 .. 1 : a[2 * i + j] = <<m[2 * i + j][1] - m[2 * j + i][1], m[2 * i + j][2] + m[2 * j + i][2]>>
  BY <1>1, AntiAt
<1>3. p = [e \in 0 .. 3 |-> p[e]] /\ \A e \in 0 .. 3 : p[e] = cadd(times(2, a[e]), cmul(times(-1, tr), Identity(2)[e]))
  BY <1>1, ProjectedAt
<1>4. tr = CSumOf(Diagonal(2, a)) /\ Diagonal(2, a) \in Cplxs(0 .. 1)
  BY <1>1, <1>2, TraceIs
<1>5. tr = cadd(a[0], a[3])
  <2>1. Diagonal(2, a)[0] = a[2 * 0 + 0] /\ Diagonal(2, a)[1] = a[2 * 1 + 1]
    BY <1>1 DEF Diagonal
  <2>2. 2 * 0 + 0 = 0 /\ 2 * 1 + 1 = 3
    OBVIOUS
  <2> HIDE DEF a, tr
  <2>3. QED BY <2>1, <2>2, <1>4, CSumOf2
<1> HIDE DEF a, tr, p
<1>6. PICK x0 \in Int, y0 \in Int : m[0] = <<x0, y0>>
  BY <1>1 DEF Mat, Cplxs, Cplx
<1>7. PICK x1 \in Int, y1 \in Int : m[1] = <<x1, y1>>
  BY <1>1 DEF Mat, Cplxs, Cplx
<1>8. PICK x2 \in Int, y2 \in Int : m[2] = <<x2, y2>>
  BY <1>1 DEF Mat, Cplxs, Cplx
<1>9. PICK x3 \in Int, y3 \in Int : m[3] = <<x3, y3>>
  BY <1>1 DEF Mat, Cplxs, Cplx
<1>10. a[0] = <<x0 - x0, y0 + y0>>
  <2>1. 0 \in 0 .. 1 /\ 0 \in 0 .. 1 /\ 2 * 0 + 0 = 0 /\ 2 * 0 + 0 = 0
    OBVIOUS
  <2>2. a[2 * 0 + 0] = <<m[2 * 0 + 0][1] - m[2 * 0 + 0][1], m[2 * 0 + 0][2] + m[2 * 0 + 0][2]>>
    BY <2>1, <1>2
  <2>3. QED BY <2>1, <2>2, <1>6, <1>6
<1>11. a[1] = <<x1 - x2, y1 + y2>>
  <2>1. 0 \in 0 .. 1 /\ 1 \in 0 .. 1 /\ 2 * 0 + 1 = 1 /\ 2 * 1 + 0 = 2
    OBVIOUS
  <2>2. a[2 * 0 + 1] = <<m[2 * 0 + 1][1] - m[2 * 1 + 0][1], m[2 * 0 + 1][2] + m[2 * 1 + 0][2]>>
    BY <2>1, <1>2
  <2>3. QED BY <2>1, <2>2, <1>7, <1>8
<1>12. a[2] = <<x2 - x1, y2 + y1>>
  <2>1. 1 \in 0 .. 1 /\ 0 \in 0 .. 1 /\ 2 * 1 + 0 = 2 /\ 2 * 0 + 1 = 1
    OBVIOUS
  <2>2. a[2 * 1 + 0] = <<m[2 * 1 + 0][1] - m[2 * 0 + 1][1], m[2 * 1 + 0][2] + m[2 * 0 + 1][2]>>
    BY <2>1, <1>2
  <2>3. QED BY <2>1, <2>2, <1>8, <1>7
<1>13. a[3] = <<x3 - x3, y3 + y3>>
  <2>1. 1 \in 0 .. 1 /\ 1 \in 0 .. 1 /\ 2 * 1 + 1 = 3 /\ 2 * 1 + 1 = 3
    OBVIOUS
  <2>2. a[2 * 1 + 1] = <<m[2 * 1 + 1][1] - m[2 * 1 + 1][1], m[2 * 1 + 1][2] + m[2 * 1 + 1][2]>>
    BY <2>1, <1>2
  <2>3. QED BY <2>1, <2>2, <1>9, <1>9
<1>14. tr = <<0, 2 * (y0 + y3)>>
  BY <1>5, <1>10, <1>13 DEF cadd
<1>15. p[0] = <<0, 2 * (y0 + y0) - 2 * (y0 + y3)>>
  <2>1. p[0] = cadd(times(2, a[0]), cmul(times(-1, tr), Identity(2)[0]))
    BY <1>3
  <2>2. QED BY <2>1, <1>10, <1>14, Identity2 DEF cadd, times, cmul
<1>16. p[1] = <<2 * (x1 - x2), 2 * (y1 + y2)>>
  <2>1. p[1] = cadd(times(2, a[1]), cmul(times(-1, tr), Identity(2)[1]))
    BY <1>3
  <2>2. QED BY <2>1, <1>11, <1>14, Identity2 DEF cadd, times, cmul
<1>17. p[2] = <<2 * (x2 - x1), 2 * (y2 + y1)>>
  <2>1. p[2] = cadd(times(2, a[2]), cmul(times(-1, tr), Identity(2)[2]))
    BY <1>3
  <2>2. QED BY <2>1, <1>12, <1>14, Identity2 DEF cadd, times, cmul
<1>18. p[3] = <<0, 2 * (y3 + y3) - 2 * (y0 + y3)>>
  <2>1. p[3] = cadd(times(2, a[3]), cmul(times(-1, tr), Identity(2)[3]))
    BY <1>3
  <2>2. QED BY <2>1, <1>13, <1>14, Identity2 DEF cadd, times, cmul
<1> DEFINE s == Scaled(2, t)
<1>19. s = [k \in 0 .. 3 |-> times(2, t[k])] /\ DOMAIN t = 0 .. 3
  BY Anti2Is DEF Scaled
<1>20. t[0] = <<0, y0 - y3>> /\ t[1] = <<x1 - x2, y1 + y2>> /\ t[2] = <<-(x1 - x2), y1 + y2>> /\ t[3] = <<0, -(y0 - y3)>>
  <2>1. /\ t[0] = <<0, m[0][2] - m[3][2]>> /\ t[1] = <<m[1][1] - m[2][1], m[1][2] + m[2][2]>>
        /\ t[2] = <<-(m[1][1] - m[2][1]), m[1][2] + m[2][2]>> /\ t[3] = <<0, -(m[0][2] - m[3][2])>>
    BY Anti2Is
  <2> HIDE DEF t
  <2>2. QED BY <2>1, <1>6, <1>7, <1>8, <1>9
<1> HIDE DEF t
<1>21. times(2, t[0]) = p[0]
  BY <1>20, <1>15 DEF times
<1>22. times(2, t[1]) = p[1]
  BY <1>20, <1>16 DEF times
<1>23. times(2, t[2]) = p[2]
  BY <1>20, <1>17 DEF times
<1>24. times(2, t[3]) = p[3]
  BY <1>20, <1>18 DEF times
<1>25. \A k \in 0 .. 3 : times(2, t[k]) = p[k]
  BY <1>21, <1>22, <1>23, <1>24
<1>26. QED BY <1>3, <1>19, <1>25 DEF t, p

(* The entries of the 3 x 3 identity.                                      *)
LEMMA Identity3 ==
  /\ Identity(3)[0] = <<1, 0>> /\ Identity(3)[1] = <<0, 0>> /\ Identity(3)[2] = <<0, 0>>
    /\ Identity(3)[3] = <<0, 0>> /\ Identity(3)[4] = <<1, 0>>
  /\ Identity(3)[5] = <<0, 0>> /\ Identity(3)[6] = <<0, 0>> /\ Identity(3)[7] = <<0, 0>> /\ Identity(3)[8] = <<1, 0>>
<1>1. Entries(3) = 0 .. 8
  BY DEF Entries
<1>2. QED BY <1>1 DEF Identity

(* traceless_antiherm_3x3 is the traceless antihermitian part, in its      *)
(* units.                                                                  *)
LEMMA Part3 ==
  ASSUME NEW m \in Mat(3)
  PROVE  traceless_antiherm_3x3(m) = Projected(3, m)
<1> DEFINE t == traceless_antiherm_3x3(m)
           a == Anti(3, m)
           p == Projected(3, m)
           tr == Trace(3, a)
<1>1. 3 \in 1 .. 3 /\ Entries(3) = 0 .. 8 /\ Dim(3) = 0 .. 2
  BY DEF Entries, Dim
<1>2. a \in Mat(3) /\ \A i, j \in 0 .. 2 : a[3 * i + j] = <<m[3 * i + j][1] - m[3 * j + i][1], m[3 * i + j][2] + m[3 * j + i][2]>>
  BY <1>1, AntiAt
<1>3. p = [e \in 0 .. 8 |-> p[e]] /\ \A e \in 0 .. 8 : p[e] = cadd(times(3, a[e]), cmul(times(-1, tr), Identity(3)[e]))
  BY <1>1, ProjectedAt
<1>4. tr = CSumOf(Diagonal(3, a)) /\ Diagonal(3, a) \in Cplxs(0 .. 2)
  BY <1>1, <1>2, TraceIs
<1>5. tr = cadd(cadd(a[0], a[4]), a[8])
  <2>1. Diagonal(3, a)[0] = a[3 * 0 + 0] /\ Diagonal(3, a)[1] = a[3 * 1 + 1] /\ Diagonal(3, a)[2] = a[3 * 2 + 2]
    BY <1>1 DEF Diagonal
  <2>2. 3 * 0 + 0 = 0 /\ 3 * 1 + 1 = 4 /\ 3 * 2 + 2 = 8
    OBVIOUS
  <2> HIDE DEF a, tr
  <2>3. QED BY <2>1, <2>2, <1>4, CSumOf3
<1> HIDE DEF a, tr, p
<1>6. PICK x0 \in Int, y0 \in Int : m[0] = <<x0, y0>>
  BY <1>1 DEF Mat, Cplxs, Cplx
<1>7. PICK x1 \in Int, y1 \in Int : m[1] = <<x1, y1>>
  BY <1>1 DEF Mat, Cplxs, Cplx
<1>8. PICK x2 \in Int, y2 \in Int : m[2] = <<x2, y2>>
  BY <1>1 DEF Mat, Cplxs, Cplx
<1>9. PICK x3 \in Int, y3 \in Int : m[3] = <<x3, y3>>
  BY <1>1 DEF Mat, Cplxs, Cplx
<1>10. PICK x4 \in Int, y4 \in Int : m[4] = <<x4, y4>>
  BY <1>1 DEF Mat, Cplxs, Cplx
<1>11. PICK x5 \in Int, y5 \in Int : m[5] = <<x5, y5>>
  BY <1>1 DEF Mat, Cplxs, Cplx
<1>12. PICK x6 \in Int, y6 \in Int : m[6] = <<x6, y6>>
  BY <1>1 DEF Mat, Cplxs, Cplx
<1>13. PICK x7 \in Int, y7 \in Int : m[7] = <<x7, y7>>
  BY <1>1 DEF Mat, Cplxs, Cplx
<1>14. PICK x8 \in Int, y8 \in Int : m[8] = <<x8, y8>>
  BY <1>1 DEF Mat, Cplxs, Cplx
<1>15. a[0] = <<x0 - x0, y0 + y0>>
  <2>1. 0 \in 0 .. 2 /\ 0 \in 0 .. 2 /\ 3 * 0 + 0 = 0 /\ 3 * 0 + 0 = 0
    OBVIOUS
  <2>2. a[3 * 0 + 0] = <<m[3 * 0 + 0][1] - m[3 * 0 + 0][1], m[3 * 0 + 0][2] + m[3 * 0 + 0][2]>>
    BY <2>1, <1>2
  <2>3. QED BY <2>1, <2>2, <1>6, <1>6
<1>16. a[1] = <<x1 - x3, y1 + y3>>
  <2>1. 0 \in 0 .. 2 /\ 1 \in 0 .. 2 /\ 3 * 0 + 1 = 1 /\ 3 * 1 + 0 = 3
    OBVIOUS
  <2>2. a[3 * 0 + 1] = <<m[3 * 0 + 1][1] - m[3 * 1 + 0][1], m[3 * 0 + 1][2] + m[3 * 1 + 0][2]>>
    BY <2>1, <1>2
  <2>3. QED BY <2>1, <2>2, <1>7, <1>9
<1>17. a[2] = <<x2 - x6, y2 + y6>>
  <2>1. 0 \in 0 .. 2 /\ 2 \in 0 .. 2 /\ 3 * 0 + 2 = 2 /\ 3 * 2 + 0 = 6
    OBVIOUS
  <2>2. a[3 * 0 + 2] = <<m[3 * 0 + 2][1] - m[3 * 2 + 0][1], m[3 * 0 + 2][2] + m[3 * 2 + 0][2]>>
    BY <2>1, <1>2
  <2>3. QED BY <2>1, <2>2, <1>8, <1>12
<1>18. a[3] = <<x3 - x1, y3 + y1>>
  <2>1. 1 \in 0 .. 2 /\ 0 \in 0 .. 2 /\ 3 * 1 + 0 = 3 /\ 3 * 0 + 1 = 1
    OBVIOUS
  <2>2. a[3 * 1 + 0] = <<m[3 * 1 + 0][1] - m[3 * 0 + 1][1], m[3 * 1 + 0][2] + m[3 * 0 + 1][2]>>
    BY <2>1, <1>2
  <2>3. QED BY <2>1, <2>2, <1>9, <1>7
<1>19. a[4] = <<x4 - x4, y4 + y4>>
  <2>1. 1 \in 0 .. 2 /\ 1 \in 0 .. 2 /\ 3 * 1 + 1 = 4 /\ 3 * 1 + 1 = 4
    OBVIOUS
  <2>2. a[3 * 1 + 1] = <<m[3 * 1 + 1][1] - m[3 * 1 + 1][1], m[3 * 1 + 1][2] + m[3 * 1 + 1][2]>>
    BY <2>1, <1>2
  <2>3. QED BY <2>1, <2>2, <1>10, <1>10
<1>20. a[5] = <<x5 - x7, y5 + y7>>
  <2>1. 1 \in 0 .. 2 /\ 2 \in 0 .. 2 /\ 3 * 1 + 2 = 5 /\ 3 * 2 + 1 = 7
    OBVIOUS
  <2>2. a[3 * 1 + 2] = <<m[3 * 1 + 2][1] - m[3 * 2 + 1][1], m[3 * 1 + 2][2] + m[3 * 2 + 1][2]>>
    BY <2>1, <1>2
  <2>3. QED BY <2>1, <2>2, <1>11, <1>13
<1>21. a[6] = <<x6 - x2, y6 + y2>>
  <2>1. 2 \in 0 .. 2 /\ 0 \in 0 .. 2 /\ 3 * 2 + 0 = 6 /\ 3 * 0 + 2 = 2
    OBVIOUS
  <2>2. a[3 * 2 + 0] = <<m[3 * 2 + 0][1] - m[3 * 0 + 2][1], m[3 * 2 + 0][2] + m[3 * 0 + 2][2]>>
    BY <2>1, <1>2
  <2>3. QED BY <2>1, <2>2, <1>12, <1>8
<1>22. a[7] = <<x7 - x5, y7 + y5>>
  <2>1. 2 \in 0 .. 2 /\ 1 \in 0 .. 2 /\ 3 * 2 + 1 = 7 /\ 3 * 1 + 2 = 5
    OBVIOUS
  <2>2. a[3 * 2 + 1] = <<m[3 * 2 + 1][1] - m[3 * 1 + 2][1], m[3 * 2 + 1][2] + m[3 * 1 + 2][2]>>
    BY <2>1, <1>2
  <2>3. QED BY <2>1, <2>2, <1>13, <1>11
<1>23. a[8] = <<x8 - x8, y8 + y8>>
  <2>1. 2 \in 0 .. 2 /\ 2 \in 0 .. 2 /\ 3 * 2 + 2 = 8 /\ 3 * 2 + 2 = 8
    OBVIOUS
  <2>2. a[3 * 2 + 2] = <<m[3 * 2 + 2][1] - m[3 * 2 + 2][1], m[3 * 2 + 2][2] + m[3 * 2 + 2][2]>>
    BY <2>1, <1>2
  <2>3. QED BY <2>1, <2>2, <1>14, <1>14
<1>24. tr = <<0, 2 * (y0 + y4 + y8)>>
  BY <1>5, <1>15, <1>19, <1>23 DEF cadd
<1>25. p[0] = <<0, 3 * (y0 + y0) - 2 * (y0 + y4 + y8)>>
  <2>1. p[0] = cadd(times(3, a[0]), cmul(times(-1, tr), Identity(3)[0]))
    BY <1>3
  <2>2. QED BY <2>1, <1>15, <1>24, Identity3 DEF cadd, times, cmul
<1>26. p[1] = <<3 * (x1 - x3), 3 * (y1 + y3)>>
  <2>1. p[1] = cadd(times(3, a[1]), cmul(times(-1, tr), Identity(3)[1]))
    BY <1>3
  <2>2. QED BY <2>1, <1>16, <1>24, Identity3 DEF cadd, times, cmul
<1>27. p[2] = <<3 * (x2 - x6), 3 * (y2 + y6)>>
  <2>1. p[2] = cadd(times(3, a[2]), cmul(times(-1, tr), Identity(3)[2]))
    BY <1>3
  <2>2. QED BY <2>1, <1>17, <1>24, Identity3 DEF cadd, times, cmul
<1>28. p[3] = <<3 * (x3 - x1), 3 * (y3 + y1)>>
  <2>1. p[3] = cadd(times(3, a[3]), cmul(times(-1, tr), Identity(3)[3]))
    BY <1>3
  <2>2. QED BY <2>1, <1>18, <1>24, Identity3 DEF cadd, times, cmul
<1>29. p[4] = <<0, 3 * (y4 + y4) - 2 * (y0 + y4 + y8)>>
  <2>1. p[4] = cadd(times(3, a[4]), cmul(times(-1, tr), Identity(3)[4]))
    BY <1>3
  <2>2. QED BY <2>1, <1>19, <1>24, Identity3 DEF cadd, times, cmul
<1>30. p[5] = <<3 * (x5 - x7), 3 * (y5 + y7)>>
  <2>1. p[5] = cadd(times(3, a[5]), cmul(times(-1, tr), Identity(3)[5]))
    BY <1>3
  <2>2. QED BY <2>1, <1>20, <1>24, Identity3 DEF cadd, times, cmul
<1>31. p[6] = <<3 * (x6 - x2), 3 * (y6 + y2)>>
  <2>1. p[6] = cadd(times(3, a[6]), cmul(times(-1, tr), Identity(3)[6]))
    BY <1>3
  <2>2. QED BY <2>1, <1>21, <1>24, Identity3 DEF cadd, times, cmul
<1>32. p[7] = <<3 * (x7 - x5), 3 * (y7 + y5)>>
  <2>1. p[7] = cadd(times(3, a[7]), cmul(times(-1, tr), Identity(3)[7]))
    BY <1>3
  <2>2. QED BY <2>1, <1>22, <1>24, Identity3 DEF cadd, times, cmul
<1>33. p[8] = <<0, 3 * (y8 + y8) - 2 * (y0 + y4 + y8)>>
  <2>1. p[8] = cadd(times(3, a[8]), cmul(times(-1, tr), Identity(3)[8]))
    BY <1>3
  <2>2. QED BY <2>1, <1>23, <1>24, Identity3 DEF cadd, times, cmul
<1>34. Anti3(t, m)
  BY Anti3Is
<1> HIDE DEF t
<1>35. t[0] = p[0]
  BY <1>34, <1>6, <1>7, <1>8, <1>9, <1>10, <1>11, <1>12, <1>13, <1>14, <1>25 DEF Anti3, Diag3, Up3, Down3
<1>36. t[1] = p[1]
  BY <1>34, <1>6, <1>7, <1>8, <1>9, <1>10, <1>11, <1>12, <1>13, <1>14, <1>26 DEF Anti3, Diag3, Up3, Down3
<1>37. t[2] = p[2]
  BY <1>34, <1>6, <1>7, <1>8, <1>9, <1>10, <1>11, <1>12, <1>13, <1>14, <1>27 DEF Anti3, Diag3, Up3, Down3
<1>38. t[3] = p[3]
  BY <1>34, <1>6, <1>7, <1>8, <1>9, <1>10, <1>11, <1>12, <1>13, <1>14, <1>28 DEF Anti3, Diag3, Up3, Down3
<1>39. t[4] = p[4]
  BY <1>34, <1>6, <1>7, <1>8, <1>9, <1>10, <1>11, <1>12, <1>13, <1>14, <1>29 DEF Anti3, Diag3, Up3, Down3
<1>40. t[5] = p[5]
  BY <1>34, <1>6, <1>7, <1>8, <1>9, <1>10, <1>11, <1>12, <1>13, <1>14, <1>30 DEF Anti3, Diag3, Up3, Down3
<1>41. t[6] = p[6]
  BY <1>34, <1>6, <1>7, <1>8, <1>9, <1>10, <1>11, <1>12, <1>13, <1>14, <1>31 DEF Anti3, Diag3, Up3, Down3
<1>42. t[7] = p[7]
  BY <1>34, <1>6, <1>7, <1>8, <1>9, <1>10, <1>11, <1>12, <1>13, <1>14, <1>32 DEF Anti3, Diag3, Up3, Down3
<1>43. t[8] = p[8]
  BY <1>34, <1>6, <1>7, <1>8, <1>9, <1>10, <1>11, <1>12, <1>13, <1>14, <1>33 DEF Anti3, Diag3, Up3, Down3
<1>44. \A k \in 0 .. 8 : t[k] = p[k]
  BY <1>35, <1>36, <1>37, <1>38, <1>39, <1>40, <1>41, <1>42, <1>43
<1>45. t = [k \in 0 .. 8 |-> t[k]]
  BY <1>34 DEF Anti3
<1>46. QED BY <1>3, <1>44, <1>45 DEF t, p

-----------------------------------------------------------------------------
(* The generators, entry by entry.                                         *)

Appended(s, t, r) ==
  /\ Len(r) = Len(s) + Len(t)
  /\ \A i \in 1 .. Len(s) : r[i] = s[i]
  /\ \A i \in 1 .. Len(t) : r[Len(s) + i] = t[i]

(* The elements of a concatenation.                                        *)
LEMMA Concat ==
  ASSUME NEW S, NEW s, NEW t, NEW r, s \in Seq(S), t \in Seq(S), r \in Seq(S), Appended(s, t, r)
  PROVE  s \o t = r
<1>1. s \o t \in Seq(S) /\ Len(s \o t) = Len(s) + Len(t)
  BY ConcatProperties
<1>2. ASSUME NEW i \in 1 .. Len(r) PROVE (s \o t)[i] = r[i]
  <2>1. Len(s) \in Nat /\ Len(t) \in Nat /\ Len(r) = Len(s) + Len(t)
    BY LenProperties DEF Appended
  <2>2. (s \o t)[i] = IF i <= Len(s) THEN s[i] ELSE t[i - Len(s)]
    BY <2>1, ConcatProperties
  <2>3. CASE i <= Len(s)
    BY <2>1, <2>2, <2>3 DEF Appended
  <2>4. CASE i > Len(s)
    <3>1. i - Len(s) \in 1 .. Len(t) /\ Len(s) + (i - Len(s)) = i
      BY <2>1, <2>4
    <3>2. r[Len(s) + (i - Len(s))] = t[i - Len(s)]
      BY <3>1 DEF Appended
    <3>3. QED BY <2>1, <2>2, <2>4, <3>1, <3>2
  <2>5. QED BY <2>1, <2>3, <2>4
<1>3. QED BY <1>1, <1>2, SeqEqual DEF Appended

(* Of two and one.                                                         *)
LEMMA Concat21 ==
  ASSUME NEW x, NEW y, NEW z
  PROVE  <<x, y>> \o <<z>> = <<x, y, z>>
<1> DEFINE S == {x, y, z}
           s == <<x, y>>
           t == <<z>>
           r == <<x, y, z>>
<1>1. s \in Seq(S) /\ t \in Seq(S) /\ r \in Seq(S)
  OBVIOUS
<1>2. Appended(s, t, r)
  BY DEF Appended
<1> HIDE DEF S, s, t, r
<1>3. s \o t = r
  BY <1>1, <1>2, Concat
<1>4. QED BY <1>3 DEF s, t, r

(* Of three and two.                                                       *)
LEMMA Concat32 ==
  ASSUME NEW x, NEW y, NEW z, NEW u, NEW v
  PROVE  <<x, y, z>> \o <<u, v>> = <<x, y, z, u, v>>
<1> DEFINE S == {x, y, z, u, v}
           s == <<x, y, z>>
           t == <<u, v>>
           r == <<x, y, z, u, v>>
<1>1. s \in Seq(S) /\ t \in Seq(S) /\ r \in Seq(S)
  OBVIOUS
<1>2. Appended(s, t, r)
  BY DEF Appended
<1> HIDE DEF S, s, t, r
<1>3. s \o t = r
  BY <1>1, <1>2, Concat
<1>4. QED BY <1>3 DEF s, t, r

(* Of five and two.                                                        *)
LEMMA Concat52 ==
  ASSUME NEW x, NEW y, NEW z, NEW u, NEW v, NEW p, NEW q
  PROVE  <<x, y, z, u, v>> \o <<p, q>> = <<x, y, z, u, v, p, q>>
<1> DEFINE S == {x, y, z, u, v, p, q}
           s == <<x, y, z, u, v>>
           t == <<p, q>>
           r == <<x, y, z, u, v, p, q>>
<1>1. s \in Seq(S) /\ t \in Seq(S) /\ r \in Seq(S)
  OBVIOUS
<1>2. Appended(s, t, r)
  BY DEF Appended
<1> HIDE DEF S, s, t, r
<1>3. s \o t = r
  BY <1>1, <1>2, Concat
<1>4. QED BY <1>3 DEF s, t, r

(* Of seven and one.                                                       *)
LEMMA Concat71 ==
  ASSUME NEW x, NEW y, NEW z, NEW u, NEW v, NEW p, NEW q, NEW w
  PROVE  <<x, y, z, u, v, p, q>> \o <<w>> = <<x, y, z, u, v, p, q, w>>
<1> DEFINE S == {x, y, z, u, v, p, q, w}
           s == <<x, y, z, u, v, p, q>>
           t == <<w>>
           r == <<x, y, z, u, v, p, q, w>>
<1>1. s \in Seq(S) /\ t \in Seq(S) /\ r \in Seq(S)
  OBVIOUS
<1>2. Appended(s, t, r)
  BY DEF Appended
<1> HIDE DEF S, s, t, r
<1>3. s \o t = r
  BY <1>1, <1>2, Concat
<1>4. QED BY <1>3 DEF s, t, r

Sparse(N, S) == [e \in Entries(N) |-> IF \E v \in S : v[1] = e THEN (CHOOSE v \in S : v[1] = e)[2] ELSE <<0, 0>>]

Two(N, a, x, b, y) == Sparse(N, {<<a, x>>, <<b, y>>})
Three(N, a, x, b, y, c, z) == Sparse(N, {<<a, x>>, <<b, y>>, <<c, z>>})

(* A matrix given by the entries that are not zero.                        *)
LEMMA SparseAt ==
  ASSUME NEW N, NEW S, NEW e \in Entries(N)
  PROVE  /\ \A w : <<e, w>> \in S /\ (\A v \in S : v[1] = e => v = <<e, w>>) => Sparse(N, S)[e] = w
         /\ (\A v \in S : v[1] # e) => Sparse(N, S)[e] = <<0, 0>>
<1>1. Sparse(N, S)[e] = IF \E v \in S : v[1] = e THEN (CHOOSE v \in S : v[1] = e)[2] ELSE <<0, 0>>
  BY DEF Sparse
<1>2. ASSUME NEW w, <<e, w>> \in S, \A v \in S : v[1] = e => v = <<e, w>> PROVE Sparse(N, S)[e] = w
  <2>1. (CHOOSE v \in S : v[1] = e) = <<e, w>>
    BY <1>2
  <2>2. QED BY <1>1, <1>2, <2>1
<1>3. QED BY <1>1, <1>2

(* One of two entries.                                                     *)
LEMMA TwoAt ==
  ASSUME NEW N, NEW a, NEW x, NEW b, NEW y, a # b
  PROVE  \A e \in Entries(N) : Two(N, a, x, b, y)[e] = IF e = a THEN x ELSE IF e = b THEN y ELSE <<0, 0>>
<1> DEFINE S == {<<a, x>>, <<b, y>>}
<1>1. SUFFICES ASSUME NEW e \in Entries(N)
               PROVE  Sparse(N, S)[e] = IF e = a THEN x ELSE IF e = b THEN y ELSE <<0, 0>>
  BY DEF Two
<1>2. /\ e = a => <<e, x>> \in S /\ \A v \in S : v[1] = e => v = <<e, x>>
      /\ e = b => <<e, y>> \in S /\ \A v \in S : v[1] = e => v = <<e, y>>
      /\ e # a /\ e # b => \A v \in S : v[1] # e
  OBVIOUS
<1> HIDE DEF S
<1>3. QED BY <1>2, SparseAt

(* One of three entries.                                                   *)
LEMMA ThreeAt ==
  ASSUME NEW N, NEW a, NEW x, NEW b, NEW y, NEW c, NEW z, a # b, a # c, b # c
  PROVE  \A e \in Entries(N) : Three(N, a, x, b, y, c, z)[e] =
           IF e = a THEN x ELSE IF e = b THEN y ELSE IF e = c THEN z ELSE <<0, 0>>
<1> DEFINE S == {<<a, x>>, <<b, y>>, <<c, z>>}
<1>1. SUFFICES ASSUME NEW e \in Entries(N)
               PROVE  Sparse(N, S)[e] = IF e = a THEN x ELSE IF e = b THEN y ELSE IF e = c THEN z ELSE <<0, 0>>
  BY DEF Three
<1>2. /\ e = a => <<e, x>> \in S /\ \A v \in S : v[1] = e => v = <<e, x>>
      /\ e = b => <<e, y>> \in S /\ \A v \in S : v[1] = e => v = <<e, y>>
      /\ e = c => <<e, z>> \in S /\ \A v \in S : v[1] = e => v = <<e, z>>
      /\ e # a /\ e # b /\ e # c => \A v \in S : v[1] # e
  OBVIOUS
<1> HIDE DEF S
<1>3. QED BY <1>2, SparseAt

(* The three Pauli matrices.                                               *)
LEMMA Generators2 ==
  Generators(2) = <<Two(2, 1, <<1, 0>>, 2, <<1, 0>>), Two(2, 1, <<0, -1>>, 2, <<0, 1>>), Two(2, 0, <<1, 0>>, 3, <<-1, 0>>)>>
<1>1. Generators(2) = <<Two(2, 1, <<1, 0>>, 2, <<1, 0>>), Two(2, 1, <<0, -1>>, 2, <<0, 1>>)>>
                        \o <<Two(2, 0, <<1, 0>>, 2 + 1, <<-1, 0>>)>>
  BY Zenon DEF Generators, Two, Sparse
<1>2. 2 + 1 = 3
  OBVIOUS
<1>3. QED BY <1>1, <1>2, Concat21

(* The eight Gell-Mann matrices.                                           *)
LEMMA Generators3 ==
  Generators(3) = <<Two(3, 1, <<1, 0>>, 3, <<1, 0>>), Two(3, 1, <<0, -1>>, 3, <<0, 1>>), Two(3, 0, <<1, 0>>, 4, <<-1, 0>>),
                    Two(3, 2, <<1, 0>>, 6, <<1, 0>>), Two(3, 2, <<0, -1>>, 6, <<0, 1>>),
                    Two(3, 5, <<1, 0>>, 7, <<1, 0>>), Two(3, 5, <<0, -1>>, 7, <<0, 1>>),
                    Three(3, 0, <<1, 0>>, 4, <<1, 0>>, 8, <<-2, 0>>)>>
<1>1. Generators(3) = (((<<Two(3, 1, <<1, 0>>, 3, <<1, 0>>), Two(3, 1, <<0, -1>>, 3, <<0, 1>>)>>
                        \o <<Two(3, 0, <<1, 0>>, 3 + 1, <<-1, 0>>)>>)
                        \o <<Two(3, 2, <<1, 0>>, 6, <<1, 0>>), Two(3, 2, <<0, -1>>, 6, <<0, 1>>)>>)
                        \o <<Two(3, 5, <<1, 0>>, 7, <<1, 0>>), Two(3, 5, <<0, -1>>, 7, <<0, 1>>)>>)
                        \o <<Three(3, 0, <<1, 0>>, 4, <<1, 0>>, 8, <<-2, 0>>)>>
  <2>1. 3 # 2
    OBVIOUS
  <2>2. QED BY <2>1, Zenon DEF Generators, Two, Three, Sparse
<1>2. 3 + 1 = 4
  OBVIOUS
<1>3. QED BY <1>1, <1>2, Concat21, Concat32, Concat52, Concat71

-----------------------------------------------------------------------------
(* The momentum of coordinates h is the combination of the generators, and *)
(* its kinetic term twice the sum of the squares.                          *)

(* A complex sum of three terms counted from 1.                            *)
LEMMA CSumFrom1To3 ==
  ASSUME NEW f \in Cplxs(1 .. 3)
  PROVE  CSumOf(f) = <<f[1][1] + f[2][1] + f[3][1],
                       f[1][2] + f[2][2] + f[3][2]>>
<1>1. Re(f) \in Ints(1 .. 3) /\ Im(f) \in Ints(1 .. 3)
  BY PartsTypes
<1>2. SumFunction(Re(f)) = Re(f)[1] + Re(f)[2] + Re(f)[3]
  BY <1>1, SumFrom1To3
<1>3. SumFunction(Im(f)) = Im(f)[1] + Im(f)[2] + Im(f)[3]
  BY <1>1, SumFrom1To3
<1>4. \A k \in 1 .. 3 : Re(f)[k] = f[k][1] /\ Im(f)[k] = f[k][2]
  BY DEF Re, Im, Cplxs
<1>5. Re(f)[1] = f[1][1] /\ Re(f)[2] = f[2][1] /\ Re(f)[3] = f[3][1]
  BY <1>4
<1>6. Im(f)[1] = f[1][2] /\ Im(f)[2] = f[2][2] /\ Im(f)[3] = f[3][2]
  BY <1>4
<1>7. QED BY <1>2, <1>3, <1>5, <1>6, CSumParts

(* A complex sum of eight terms counted from 1.                            *)
LEMMA CSumFrom1To8 ==
  ASSUME NEW f \in Cplxs(1 .. 8)
  PROVE  CSumOf(f) = <<f[1][1] + f[2][1] + f[3][1] + f[4][1] + f[5][1] + f[6][1] + f[7][1] + f[8][1],
                       f[1][2] + f[2][2] + f[3][2] + f[4][2] + f[5][2] + f[6][2] + f[7][2] + f[8][2]>>
<1>1. Re(f) \in Ints(1 .. 8) /\ Im(f) \in Ints(1 .. 8)
  BY PartsTypes
<1>2. SumFunction(Re(f)) = Re(f)[1] + Re(f)[2] + Re(f)[3] + Re(f)[4] + Re(f)[5] + Re(f)[6] + Re(f)[7] + Re(f)[8]
  BY <1>1, SumFrom1To8
<1>3. SumFunction(Im(f)) = Im(f)[1] + Im(f)[2] + Im(f)[3] + Im(f)[4] + Im(f)[5] + Im(f)[6] + Im(f)[7] + Im(f)[8]
  BY <1>1, SumFrom1To8
<1>4. \A k \in 1 .. 8 : Re(f)[k] = f[k][1] /\ Im(f)[k] = f[k][2]
  BY DEF Re, Im, Cplxs
<1>5. Re(f)[1] = f[1][1] /\ Re(f)[2] = f[2][1] /\ Re(f)[3] = f[3][1] /\ Re(f)[4] = f[4][1] /\ Re(f)[5] = f[5][1]
        /\ Re(f)[6] = f[6][1] /\ Re(f)[7] = f[7][1] /\ Re(f)[8] = f[8][1]
  BY <1>4
<1>6. Im(f)[1] = f[1][2] /\ Im(f)[2] = f[2][2] /\ Im(f)[3] = f[3][2] /\ Im(f)[4] = f[4][2] /\ Im(f)[5] = f[5][2]
        /\ Im(f)[6] = f[6][2] /\ Im(f)[7] = f[7][2] /\ Im(f)[8] = f[8][2]
  BY <1>4
<1>7. QED BY <1>2, <1>3, <1>5, <1>6, CSumParts

(* A coordinate times i times the values that occur in a generator.        *)
LEMMA TimesUnit ==
  ASSUME NEW h \in Int
  PROVE  /\ cmul(<<0, h>>, <<0, 0>>) = <<0, 0>> /\ cmul(<<0, h>>, <<1, 0>>) = <<0, h>>
         /\ cmul(<<0, h>>, <<0, -1>>) = <<h, 0>> /\ cmul(<<0, h>>, <<0, 1>>) = <<-h, 0>>
         /\ cmul(<<0, h>>, <<-1, 0>>) = <<0, -h>> /\ cmul(<<0, h>>, <<-2, 0>>) = <<0, -2 * h>>
BY DEF cmul

(* The entries of pack_algebra_2.                                          *)
LEMMA Pack2 ==
  ASSUME NEW h
  PROVE  /\ pack_algebra_2(h) = [e \in 0 .. 3 |-> pack_algebra_2(h)[e]]
         /\ pack_algebra_2(h)[0] = <<0, h[3]>>
         /\ pack_algebra_2(h)[1] = <<h[2], h[1]>>
         /\ pack_algebra_2(h)[2] = <<-h[2], h[1]>>
         /\ pack_algebra_2(h)[3] = <<0, -h[3]>>
<1>1. Entries(2) = 0 .. 3
  BY DEF Entries
<1>2. QED BY <1>1 DEF pack_algebra_2

(* The entries of the Pauli matrices.                                      *)
LEMMA GeneratorsAt2 ==
  /\ DOMAIN Generators(2) = 1 .. 3
  /\ \A e \in 0 .. 3 :
       /\ Generators(2)[1][e] = (IF e = 1 THEN <<1, 0>> ELSE IF e = 2 THEN <<1, 0>> ELSE <<0, 0>>)
       /\ Generators(2)[2][e] = (IF e = 1 THEN <<0, -1>> ELSE IF e = 2 THEN <<0, 1>> ELSE <<0, 0>>)
       /\ Generators(2)[3][e] = (IF e = 0 THEN <<1, 0>> ELSE IF e = 3 THEN <<-1, 0>> ELSE <<0, 0>>)
<1> DEFINE g == Generators(2)
<1>1. Entries(2) = 0 .. 3
  BY DEF Entries
<1>2. DOMAIN g = 1 .. 3
  BY Generators2
<1>3. \A e \in 0 .. 3 : g[1][e] = (IF e = 1 THEN <<1, 0>> ELSE IF e = 2 THEN <<1, 0>> ELSE <<0, 0>>)
  <2>1. g[1] = Two(2, 1, <<1, 0>>, 2, <<1, 0>>)
    BY Generators2
  <2>2. \A e \in Entries(2) : Two(2, 1, <<1, 0>>, 2, <<1, 0>>)[e] =
          (IF e = 1 THEN <<1, 0>> ELSE IF e = 2 THEN <<1, 0>> ELSE <<0, 0>>)
    BY TwoAt
  <2> HIDE DEF g
  <2>3. QED BY <1>1, <2>1, <2>2
<1>4. \A e \in 0 .. 3 : g[2][e] = (IF e = 1 THEN <<0, -1>> ELSE IF e = 2 THEN <<0, 1>> ELSE <<0, 0>>)
  <2>1. g[2] = Two(2, 1, <<0, -1>>, 2, <<0, 1>>)
    BY Generators2
  <2>2. \A e \in Entries(2) : Two(2, 1, <<0, -1>>, 2, <<0, 1>>)[e] =
          (IF e = 1 THEN <<0, -1>> ELSE IF e = 2 THEN <<0, 1>> ELSE <<0, 0>>)
    BY TwoAt
  <2> HIDE DEF g
  <2>3. QED BY <1>1, <2>1, <2>2
<1>5. \A e \in 0 .. 3 : g[3][e] = (IF e = 0 THEN <<1, 0>> ELSE IF e = 3 THEN <<-1, 0>> ELSE <<0, 0>>)
  <2>1. g[3] = Two(2, 0, <<1, 0>>, 3, <<-1, 0>>)
    BY Generators2
  <2>2. \A e \in Entries(2) : Two(2, 0, <<1, 0>>, 3, <<-1, 0>>)[e] =
          (IF e = 0 THEN <<1, 0>> ELSE IF e = 3 THEN <<-1, 0>> ELSE <<0, 0>>)
    BY TwoAt
  <2> HIDE DEF g
  <2>3. QED BY <1>1, <2>1, <2>2
<1> HIDE DEF g
<1>6. QED BY <1>2, <1>3, <1>4, <1>5 DEF g

(* pack_algebra_2 combines the Pauli matrices.                             *)
LEMMA Basis2 ==
  ASSUME NEW h \in [1 .. 8 -> Int]
  PROVE  \A e \in 0 .. 3 : pack_algebra_2(h)[e] = CSumOf([a \in 1 .. 3 |-> cmul(<<0, h[a]>>, Generators(2)[a][e])])
<1> DEFINE g == Generators(2)
           p == pack_algebra_2(h)
           f(e) == [a \in 1 .. 3 |-> cmul(<<0, h[a]>>, g[a][e])]
<1>1. h[1] \in Int /\ h[2] \in Int /\ h[3] \in Int
  OBVIOUS
<1>2. \A a \in 1 .. 3 : \A e \in 0 .. 3 : f(e)[a] = cmul(<<0, h[a]>>, g[a][e])
  OBVIOUS
<1>3. \A e \in 0 .. 3 : f(e)[1] = (IF e = 1 THEN <<0, h[1]>> ELSE IF e = 2 THEN <<0, h[1]>> ELSE <<0, 0>>)
  <2>1. \A e \in 0 .. 3 : g[1][e] = (IF e = 1 THEN <<1, 0>> ELSE IF e = 2 THEN <<1, 0>> ELSE <<0, 0>>)
    BY GeneratorsAt2
  <2> HIDE DEF g, f
  <2>2. h[1] \in Int
    BY <1>1
  <2> DEFINE u == h[1]
  <2>3. /\ cmul(<<0, u>>, <<0, 0>>) = <<0, 0>> /\ cmul(<<0, u>>, <<1, 0>>) = <<0, u>>
        /\ cmul(<<0, u>>, <<0, -1>>) = <<u, 0>> /\ cmul(<<0, u>>, <<0, 1>>) = <<-u, 0>>
        /\ cmul(<<0, u>>, <<-1, 0>>) = <<0, -u>> /\ cmul(<<0, u>>, <<-2, 0>>) = <<0, -2 * u>>
    BY <2>2, TimesUnit
  <2>4. \A e \in 0 .. 3 : f(e)[1] = cmul(<<0, u>>, g[1][e])
    BY <1>2
  <2>5. QED BY <2>1, <2>3, <2>4
<1>4. \A e \in 0 .. 3 : f(e)[2] = (IF e = 1 THEN <<h[2], 0>> ELSE IF e = 2 THEN <<-h[2], 0>> ELSE <<0, 0>>)
  <2>1. \A e \in 0 .. 3 : g[2][e] = (IF e = 1 THEN <<0, -1>> ELSE IF e = 2 THEN <<0, 1>> ELSE <<0, 0>>)
    BY GeneratorsAt2
  <2> HIDE DEF g, f
  <2>2. h[2] \in Int
    BY <1>1
  <2> DEFINE u == h[2]
  <2>3. /\ cmul(<<0, u>>, <<0, 0>>) = <<0, 0>> /\ cmul(<<0, u>>, <<1, 0>>) = <<0, u>>
        /\ cmul(<<0, u>>, <<0, -1>>) = <<u, 0>> /\ cmul(<<0, u>>, <<0, 1>>) = <<-u, 0>>
        /\ cmul(<<0, u>>, <<-1, 0>>) = <<0, -u>> /\ cmul(<<0, u>>, <<-2, 0>>) = <<0, -2 * u>>
    BY <2>2, TimesUnit
  <2>4. \A e \in 0 .. 3 : f(e)[2] = cmul(<<0, u>>, g[2][e])
    BY <1>2
  <2>5. QED BY <2>1, <2>3, <2>4
<1>5. \A e \in 0 .. 3 : f(e)[3] = (IF e = 0 THEN <<0, h[3]>> ELSE IF e = 3 THEN <<0, -h[3]>> ELSE <<0, 0>>)
  <2>1. \A e \in 0 .. 3 : g[3][e] = (IF e = 0 THEN <<1, 0>> ELSE IF e = 3 THEN <<-1, 0>> ELSE <<0, 0>>)
    BY GeneratorsAt2
  <2> HIDE DEF g, f
  <2>2. h[3] \in Int
    BY <1>1
  <2> DEFINE u == h[3]
  <2>3. /\ cmul(<<0, u>>, <<0, 0>>) = <<0, 0>> /\ cmul(<<0, u>>, <<1, 0>>) = <<0, u>>
        /\ cmul(<<0, u>>, <<0, -1>>) = <<u, 0>> /\ cmul(<<0, u>>, <<0, 1>>) = <<-u, 0>>
        /\ cmul(<<0, u>>, <<-1, 0>>) = <<0, -u>> /\ cmul(<<0, u>>, <<-2, 0>>) = <<0, -2 * u>>
    BY <2>2, TimesUnit
  <2>4. \A e \in 0 .. 3 : f(e)[3] = cmul(<<0, u>>, g[3][e])
    BY <1>2
  <2>5. QED BY <2>1, <2>3, <2>4
<1>6. \A e \in 0 .. 3 : f(e) = [a \in 1 .. 3 |-> f(e)[a]]
  OBVIOUS
<1> HIDE DEF f
<1>7. ASSUME NEW e \in 0 .. 3 PROVE f(e) \in Cplxs(1 .. 3)
  <2>1. f(e)[1] \in Cplx
    <3>1. <<0, 0>> \in Cplx /\ <<0, h[1]>> \in Cplx
      BY <1>1 DEF Cplx
    <3>2. QED BY <3>1, <1>3
  <2>2. f(e)[2] \in Cplx
    <3>1. <<0, 0>> \in Cplx /\ <<h[2], 0>> \in Cplx /\ <<-h[2], 0>> \in Cplx
      BY <1>1 DEF Cplx
    <3>2. QED BY <3>1, <1>4
  <2>3. f(e)[3] \in Cplx
    <3>1. <<0, 0>> \in Cplx /\ <<0, h[3]>> \in Cplx /\ <<0, -h[3]>> \in Cplx
      BY <1>1 DEF Cplx
    <3>2. QED BY <3>1, <1>5
  <2>4. \A a \in 1 .. 3 : f(e)[a] \in Cplx
    BY <2>1, <2>2, <2>3
  <2>5. QED BY <1>6, <2>4 DEF Cplxs
<1>8. p[0] = CSumOf(f(0))
  <2> DEFINE s == f(0)
  <2>1. s \in Cplxs(1 .. 3)
    BY <1>7
  <2>2. s[1] = <<0, 0>> /\ s[2] = <<0, 0>> /\ s[3] = <<0, h[3]>>
    BY <1>3, <1>4, <1>5
  <2> HIDE DEF s
  <2>3. CSumOf(s) = <<s[1][1] + s[2][1] + s[3][1], s[1][2] + s[2][2] + s[3][2]>>
    BY <2>1, CSumFrom1To3
  <2>4. CSumOf(s) = <<0, h[3]>>
    BY <1>1, <2>2, <2>3
  <2>5. p[0] = <<0, h[3]>>
    BY Pack2
  <2>6. QED BY <2>4, <2>5 DEF s
<1>9. p[1] = CSumOf(f(1))
  <2> DEFINE s == f(1)
  <2>1. s \in Cplxs(1 .. 3)
    BY <1>7
  <2>2. s[1] = <<0, h[1]>> /\ s[2] = <<h[2], 0>> /\ s[3] = <<0, 0>>
    BY <1>3, <1>4, <1>5
  <2> HIDE DEF s
  <2>3. CSumOf(s) = <<s[1][1] + s[2][1] + s[3][1], s[1][2] + s[2][2] + s[3][2]>>
    BY <2>1, CSumFrom1To3
  <2>4. CSumOf(s) = <<h[2], h[1]>>
    BY <1>1, <2>2, <2>3
  <2>5. p[1] = <<h[2], h[1]>>
    BY Pack2
  <2>6. QED BY <2>4, <2>5 DEF s
<1>10. p[2] = CSumOf(f(2))
  <2> DEFINE s == f(2)
  <2>1. s \in Cplxs(1 .. 3)
    BY <1>7
  <2>2. s[1] = <<0, h[1]>> /\ s[2] = <<-h[2], 0>> /\ s[3] = <<0, 0>>
    BY <1>3, <1>4, <1>5
  <2> HIDE DEF s
  <2>3. CSumOf(s) = <<s[1][1] + s[2][1] + s[3][1], s[1][2] + s[2][2] + s[3][2]>>
    BY <2>1, CSumFrom1To3
  <2>4. CSumOf(s) = <<-h[2], h[1]>>
    BY <1>1, <2>2, <2>3
  <2>5. p[2] = <<-h[2], h[1]>>
    BY Pack2
  <2>6. QED BY <2>4, <2>5 DEF s
<1>11. p[3] = CSumOf(f(3))
  <2> DEFINE s == f(3)
  <2>1. s \in Cplxs(1 .. 3)
    BY <1>7
  <2>2. s[1] = <<0, 0>> /\ s[2] = <<0, 0>> /\ s[3] = <<0, -h[3]>>
    BY <1>3, <1>4, <1>5
  <2> HIDE DEF s
  <2>3. CSumOf(s) = <<s[1][1] + s[2][1] + s[3][1], s[1][2] + s[2][2] + s[3][2]>>
    BY <2>1, CSumFrom1To3
  <2>4. CSumOf(s) = <<0, -h[3]>>
    BY <1>1, <2>2, <2>3
  <2>5. p[3] = <<0, -h[3]>>
    BY Pack2
  <2>6. QED BY <2>4, <2>5 DEF s
<1> HIDE DEF p
<1>12. \A e \in 0 .. 3 : p[e] = CSumOf(f(e))
  BY <1>8, <1>9, <1>10, <1>11
<1>13. QED BY <1>12 DEF p, f, g

(* The sum of the squares of the coordinates of SU(2).                     *)
LEMMA Norm2 ==
  ASSUME NEW h \in [1 .. 8 -> Int]
  PROVE  SumOver(DOMAIN Generators(2), LAMBDA a : (IF a = 8 THEN 3 ELSE 1) * h[a] * h[a])
           = h[1] * h[1] + h[2] * h[2] + h[3] * h[3]
<1> DEFINE f == [a \in 1 .. 3 |-> (IF a = 8 THEN 3 ELSE 1) * h[a] * h[a]]
<1>1. SumOver(DOMAIN Generators(2), LAMBDA a : (IF a = 8 THEN 3 ELSE 1) * h[a] * h[a]) = SumFunction(f)
  BY GeneratorsAt2 DEF SumOver
<1>2. f \in Ints(1 .. 3)
  BY DEF Ints
<1>3. h[1] \in Int /\ h[2] \in Int /\ h[3] \in Int
  OBVIOUS
<1>4. f[1] = h[1] * h[1] /\ f[2] = h[2] * h[2] /\ f[3] = h[3] * h[3]
  BY <1>3
<1> HIDE DEF f
<1>5. SumFunction(f) = f[1] + f[2] + f[3]
  BY <1>2, SumFrom1To3
<1>6. QED BY <1>1, <1>4, <1>5, Zenon

(* The entries of pack_algebra_3.                                          *)
LEMMA Pack3 ==
  ASSUME NEW h
  PROVE  /\ pack_algebra_3(h) = [e \in 0 .. 8 |-> pack_algebra_3(h)[e]]
         /\ pack_algebra_3(h)[0] = <<0, h[3] + h[8]>>
         /\ pack_algebra_3(h)[1] = <<h[2], h[1]>>
         /\ pack_algebra_3(h)[2] = <<h[5], h[4]>>
         /\ pack_algebra_3(h)[3] = <<-h[2], h[1]>>
         /\ pack_algebra_3(h)[4] = <<0, -h[3] + h[8]>>
         /\ pack_algebra_3(h)[5] = <<h[7], h[6]>>
         /\ pack_algebra_3(h)[6] = <<-h[5], h[4]>>
         /\ pack_algebra_3(h)[7] = <<-h[7], h[6]>>
         /\ pack_algebra_3(h)[8] = <<0, -2 * h[8]>>
<1>1. Entries(3) = 0 .. 8
  BY DEF Entries
<1>2. QED BY <1>1 DEF pack_algebra_3

(* The entries of the Gell-Mann matrices.                                  *)
LEMMA GeneratorsAt3 ==
  /\ DOMAIN Generators(3) = 1 .. 8
  /\ \A e \in 0 .. 8 :
       /\ Generators(3)[1][e] = (IF e = 1 THEN <<1, 0>> ELSE IF e = 3 THEN <<1, 0>> ELSE <<0, 0>>)
       /\ Generators(3)[2][e] = (IF e = 1 THEN <<0, -1>> ELSE IF e = 3 THEN <<0, 1>> ELSE <<0, 0>>)
       /\ Generators(3)[3][e] = (IF e = 0 THEN <<1, 0>> ELSE IF e = 4 THEN <<-1, 0>> ELSE <<0, 0>>)
       /\ Generators(3)[4][e] = (IF e = 2 THEN <<1, 0>> ELSE IF e = 6 THEN <<1, 0>> ELSE <<0, 0>>)
       /\ Generators(3)[5][e] = (IF e = 2 THEN <<0, -1>> ELSE IF e = 6 THEN <<0, 1>> ELSE <<0, 0>>)
       /\ Generators(3)[6][e] = (IF e = 5 THEN <<1, 0>> ELSE IF e = 7 THEN <<1, 0>> ELSE <<0, 0>>)
       /\ Generators(3)[7][e] = (IF e = 5 THEN <<0, -1>> ELSE IF e = 7 THEN <<0, 1>> ELSE <<0, 0>>)
       /\ Generators(3)[8][e] = (IF e = 0 THEN <<1, 0>> ELSE IF e = 4 THEN <<1, 0>> ELSE IF e = 8 THEN <<-2, 0>> ELSE <<0, 0>>)
<1> DEFINE g == Generators(3)
<1>1. Entries(3) = 0 .. 8
  BY DEF Entries
<1>2. DOMAIN g = 1 .. 8
  BY Generators3
<1>3. \A e \in 0 .. 8 : g[1][e] = (IF e = 1 THEN <<1, 0>> ELSE IF e = 3 THEN <<1, 0>> ELSE <<0, 0>>)
  <2>1. g[1] = Two(3, 1, <<1, 0>>, 3, <<1, 0>>)
    BY Generators3
  <2>2. \A e \in Entries(3) : Two(3, 1, <<1, 0>>, 3, <<1, 0>>)[e] =
          (IF e = 1 THEN <<1, 0>> ELSE IF e = 3 THEN <<1, 0>> ELSE <<0, 0>>)
    BY TwoAt
  <2> HIDE DEF g
  <2>3. QED BY <1>1, <2>1, <2>2
<1>4. \A e \in 0 .. 8 : g[2][e] = (IF e = 1 THEN <<0, -1>> ELSE IF e = 3 THEN <<0, 1>> ELSE <<0, 0>>)
  <2>1. g[2] = Two(3, 1, <<0, -1>>, 3, <<0, 1>>)
    BY Generators3
  <2>2. \A e \in Entries(3) : Two(3, 1, <<0, -1>>, 3, <<0, 1>>)[e] =
          (IF e = 1 THEN <<0, -1>> ELSE IF e = 3 THEN <<0, 1>> ELSE <<0, 0>>)
    BY TwoAt
  <2> HIDE DEF g
  <2>3. QED BY <1>1, <2>1, <2>2
<1>5. \A e \in 0 .. 8 : g[3][e] = (IF e = 0 THEN <<1, 0>> ELSE IF e = 4 THEN <<-1, 0>> ELSE <<0, 0>>)
  <2>1. g[3] = Two(3, 0, <<1, 0>>, 4, <<-1, 0>>)
    BY Generators3
  <2>2. \A e \in Entries(3) : Two(3, 0, <<1, 0>>, 4, <<-1, 0>>)[e] =
          (IF e = 0 THEN <<1, 0>> ELSE IF e = 4 THEN <<-1, 0>> ELSE <<0, 0>>)
    BY TwoAt
  <2> HIDE DEF g
  <2>3. QED BY <1>1, <2>1, <2>2
<1>6. \A e \in 0 .. 8 : g[4][e] = (IF e = 2 THEN <<1, 0>> ELSE IF e = 6 THEN <<1, 0>> ELSE <<0, 0>>)
  <2>1. g[4] = Two(3, 2, <<1, 0>>, 6, <<1, 0>>)
    BY Generators3
  <2>2. \A e \in Entries(3) : Two(3, 2, <<1, 0>>, 6, <<1, 0>>)[e] =
          (IF e = 2 THEN <<1, 0>> ELSE IF e = 6 THEN <<1, 0>> ELSE <<0, 0>>)
    BY TwoAt
  <2> HIDE DEF g
  <2>3. QED BY <1>1, <2>1, <2>2
<1>7. \A e \in 0 .. 8 : g[5][e] = (IF e = 2 THEN <<0, -1>> ELSE IF e = 6 THEN <<0, 1>> ELSE <<0, 0>>)
  <2>1. g[5] = Two(3, 2, <<0, -1>>, 6, <<0, 1>>)
    BY Generators3
  <2>2. \A e \in Entries(3) : Two(3, 2, <<0, -1>>, 6, <<0, 1>>)[e] =
          (IF e = 2 THEN <<0, -1>> ELSE IF e = 6 THEN <<0, 1>> ELSE <<0, 0>>)
    BY TwoAt
  <2> HIDE DEF g
  <2>3. QED BY <1>1, <2>1, <2>2
<1>8. \A e \in 0 .. 8 : g[6][e] = (IF e = 5 THEN <<1, 0>> ELSE IF e = 7 THEN <<1, 0>> ELSE <<0, 0>>)
  <2>1. g[6] = Two(3, 5, <<1, 0>>, 7, <<1, 0>>)
    BY Generators3
  <2>2. \A e \in Entries(3) : Two(3, 5, <<1, 0>>, 7, <<1, 0>>)[e] =
          (IF e = 5 THEN <<1, 0>> ELSE IF e = 7 THEN <<1, 0>> ELSE <<0, 0>>)
    BY TwoAt
  <2> HIDE DEF g
  <2>3. QED BY <1>1, <2>1, <2>2
<1>9. \A e \in 0 .. 8 : g[7][e] = (IF e = 5 THEN <<0, -1>> ELSE IF e = 7 THEN <<0, 1>> ELSE <<0, 0>>)
  <2>1. g[7] = Two(3, 5, <<0, -1>>, 7, <<0, 1>>)
    BY Generators3
  <2>2. \A e \in Entries(3) : Two(3, 5, <<0, -1>>, 7, <<0, 1>>)[e] =
          (IF e = 5 THEN <<0, -1>> ELSE IF e = 7 THEN <<0, 1>> ELSE <<0, 0>>)
    BY TwoAt
  <2> HIDE DEF g
  <2>3. QED BY <1>1, <2>1, <2>2
<1>10. \A e \in 0 .. 8 : g[8][e] = (IF e = 0 THEN <<1, 0>> ELSE IF e = 4 THEN <<1, 0>> ELSE IF e = 8 THEN <<-2, 0>> ELSE <<0, 0>>)
  <2>1. g[8] = Three(3, 0, <<1, 0>>, 4, <<1, 0>>, 8, <<-2, 0>>)
    BY Generators3
  <2>2. \A e \in Entries(3) : Three(3, 0, <<1, 0>>, 4, <<1, 0>>, 8, <<-2, 0>>)[e] =
          (IF e = 0 THEN <<1, 0>> ELSE IF e = 4 THEN <<1, 0>> ELSE IF e = 8 THEN <<-2, 0>> ELSE <<0, 0>>)
    BY ThreeAt
  <2> HIDE DEF g
  <2>3. QED BY <1>1, <2>1, <2>2
<1> HIDE DEF g
<1>11. QED BY <1>2, <1>3, <1>4, <1>5, <1>6, <1>7, <1>8, <1>9, <1>10, Zenon DEF g

(* pack_algebra_3 combines the Gell-Mann matrices.                         *)
LEMMA Basis3 ==
  ASSUME NEW h \in [1 .. 8 -> Int]
  PROVE  \A e \in 0 .. 8 : pack_algebra_3(h)[e] = CSumOf([a \in 1 .. 8 |-> cmul(<<0, h[a]>>, Generators(3)[a][e])])
<1> DEFINE g == Generators(3)
           p == pack_algebra_3(h)
           f(e) == [a \in 1 .. 8 |-> cmul(<<0, h[a]>>, g[a][e])]
<1>1. h[1] \in Int /\ h[2] \in Int /\ h[3] \in Int /\ h[4] \in Int /\ h[5] \in Int /\ h[6] \in Int /\ h[7] \in Int /\ h[8] \in Int
  OBVIOUS
<1>2. \A a \in 1 .. 8 : \A e \in 0 .. 8 : f(e)[a] = cmul(<<0, h[a]>>, g[a][e])
  OBVIOUS
<1>3. \A e \in 0 .. 8 : f(e)[1] = (IF e = 1 THEN <<0, h[1]>> ELSE IF e = 3 THEN <<0, h[1]>> ELSE <<0, 0>>)
  <2>1. \A e \in 0 .. 8 : g[1][e] = (IF e = 1 THEN <<1, 0>> ELSE IF e = 3 THEN <<1, 0>> ELSE <<0, 0>>)
    BY GeneratorsAt3
  <2> HIDE DEF g, f
  <2>2. h[1] \in Int
    BY <1>1
  <2> DEFINE u == h[1]
  <2>3. /\ cmul(<<0, u>>, <<0, 0>>) = <<0, 0>> /\ cmul(<<0, u>>, <<1, 0>>) = <<0, u>>
        /\ cmul(<<0, u>>, <<0, -1>>) = <<u, 0>> /\ cmul(<<0, u>>, <<0, 1>>) = <<-u, 0>>
        /\ cmul(<<0, u>>, <<-1, 0>>) = <<0, -u>> /\ cmul(<<0, u>>, <<-2, 0>>) = <<0, -2 * u>>
    BY <2>2, TimesUnit
  <2>4. \A e \in 0 .. 8 : f(e)[1] = cmul(<<0, u>>, g[1][e])
    BY <1>2
  <2>5. QED BY <2>1, <2>3, <2>4, Zenon
<1>4. \A e \in 0 .. 8 : f(e)[2] = (IF e = 1 THEN <<h[2], 0>> ELSE IF e = 3 THEN <<-h[2], 0>> ELSE <<0, 0>>)
  <2>1. \A e \in 0 .. 8 : g[2][e] = (IF e = 1 THEN <<0, -1>> ELSE IF e = 3 THEN <<0, 1>> ELSE <<0, 0>>)
    BY GeneratorsAt3
  <2> HIDE DEF g, f
  <2>2. h[2] \in Int
    BY <1>1
  <2> DEFINE u == h[2]
  <2>3. /\ cmul(<<0, u>>, <<0, 0>>) = <<0, 0>> /\ cmul(<<0, u>>, <<1, 0>>) = <<0, u>>
        /\ cmul(<<0, u>>, <<0, -1>>) = <<u, 0>> /\ cmul(<<0, u>>, <<0, 1>>) = <<-u, 0>>
        /\ cmul(<<0, u>>, <<-1, 0>>) = <<0, -u>> /\ cmul(<<0, u>>, <<-2, 0>>) = <<0, -2 * u>>
    BY <2>2, TimesUnit
  <2>4. \A e \in 0 .. 8 : f(e)[2] = cmul(<<0, u>>, g[2][e])
    BY <1>2
  <2>5. QED BY <2>1, <2>3, <2>4, Zenon
<1>5. \A e \in 0 .. 8 : f(e)[3] = (IF e = 0 THEN <<0, h[3]>> ELSE IF e = 4 THEN <<0, -h[3]>> ELSE <<0, 0>>)
  <2>1. \A e \in 0 .. 8 : g[3][e] = (IF e = 0 THEN <<1, 0>> ELSE IF e = 4 THEN <<-1, 0>> ELSE <<0, 0>>)
    BY GeneratorsAt3
  <2> HIDE DEF g, f
  <2>2. h[3] \in Int
    BY <1>1
  <2> DEFINE u == h[3]
  <2>3. /\ cmul(<<0, u>>, <<0, 0>>) = <<0, 0>> /\ cmul(<<0, u>>, <<1, 0>>) = <<0, u>>
        /\ cmul(<<0, u>>, <<0, -1>>) = <<u, 0>> /\ cmul(<<0, u>>, <<0, 1>>) = <<-u, 0>>
        /\ cmul(<<0, u>>, <<-1, 0>>) = <<0, -u>> /\ cmul(<<0, u>>, <<-2, 0>>) = <<0, -2 * u>>
    BY <2>2, TimesUnit
  <2>4. \A e \in 0 .. 8 : f(e)[3] = cmul(<<0, u>>, g[3][e])
    BY <1>2
  <2>5. QED BY <2>1, <2>3, <2>4, Zenon
<1>6. \A e \in 0 .. 8 : f(e)[4] = (IF e = 2 THEN <<0, h[4]>> ELSE IF e = 6 THEN <<0, h[4]>> ELSE <<0, 0>>)
  <2>1. \A e \in 0 .. 8 : g[4][e] = (IF e = 2 THEN <<1, 0>> ELSE IF e = 6 THEN <<1, 0>> ELSE <<0, 0>>)
    BY GeneratorsAt3
  <2> HIDE DEF g, f
  <2>2. h[4] \in Int
    BY <1>1
  <2> DEFINE u == h[4]
  <2>3. /\ cmul(<<0, u>>, <<0, 0>>) = <<0, 0>> /\ cmul(<<0, u>>, <<1, 0>>) = <<0, u>>
        /\ cmul(<<0, u>>, <<0, -1>>) = <<u, 0>> /\ cmul(<<0, u>>, <<0, 1>>) = <<-u, 0>>
        /\ cmul(<<0, u>>, <<-1, 0>>) = <<0, -u>> /\ cmul(<<0, u>>, <<-2, 0>>) = <<0, -2 * u>>
    BY <2>2, TimesUnit
  <2>4. \A e \in 0 .. 8 : f(e)[4] = cmul(<<0, u>>, g[4][e])
    BY <1>2
  <2>5. QED BY <2>1, <2>3, <2>4
<1>7. \A e \in 0 .. 8 : f(e)[5] = (IF e = 2 THEN <<h[5], 0>> ELSE IF e = 6 THEN <<-h[5], 0>> ELSE <<0, 0>>)
  <2>1. \A e \in 0 .. 8 : g[5][e] = (IF e = 2 THEN <<0, -1>> ELSE IF e = 6 THEN <<0, 1>> ELSE <<0, 0>>)
    BY GeneratorsAt3
  <2> HIDE DEF g, f
  <2>2. h[5] \in Int
    BY <1>1
  <2> DEFINE u == h[5]
  <2>3. /\ cmul(<<0, u>>, <<0, 0>>) = <<0, 0>> /\ cmul(<<0, u>>, <<1, 0>>) = <<0, u>>
        /\ cmul(<<0, u>>, <<0, -1>>) = <<u, 0>> /\ cmul(<<0, u>>, <<0, 1>>) = <<-u, 0>>
        /\ cmul(<<0, u>>, <<-1, 0>>) = <<0, -u>> /\ cmul(<<0, u>>, <<-2, 0>>) = <<0, -2 * u>>
    BY <2>2, TimesUnit
  <2>4. \A e \in 0 .. 8 : f(e)[5] = cmul(<<0, u>>, g[5][e])
    BY <1>2
  <2>5. QED BY <2>1, <2>3, <2>4
<1>8. \A e \in 0 .. 8 : f(e)[6] = (IF e = 5 THEN <<0, h[6]>> ELSE IF e = 7 THEN <<0, h[6]>> ELSE <<0, 0>>)
  <2>1. \A e \in 0 .. 8 : g[6][e] = (IF e = 5 THEN <<1, 0>> ELSE IF e = 7 THEN <<1, 0>> ELSE <<0, 0>>)
    BY GeneratorsAt3
  <2> HIDE DEF g, f
  <2>2. h[6] \in Int
    BY <1>1
  <2> DEFINE u == h[6]
  <2>3. /\ cmul(<<0, u>>, <<0, 0>>) = <<0, 0>> /\ cmul(<<0, u>>, <<1, 0>>) = <<0, u>>
        /\ cmul(<<0, u>>, <<0, -1>>) = <<u, 0>> /\ cmul(<<0, u>>, <<0, 1>>) = <<-u, 0>>
        /\ cmul(<<0, u>>, <<-1, 0>>) = <<0, -u>> /\ cmul(<<0, u>>, <<-2, 0>>) = <<0, -2 * u>>
    BY <2>2, TimesUnit
  <2>4. \A e \in 0 .. 8 : f(e)[6] = cmul(<<0, u>>, g[6][e])
    BY <1>2
  <2>5. QED BY <2>1, <2>3, <2>4
<1>9. \A e \in 0 .. 8 : f(e)[7] = (IF e = 5 THEN <<h[7], 0>> ELSE IF e = 7 THEN <<-h[7], 0>> ELSE <<0, 0>>)
  <2>1. \A e \in 0 .. 8 : g[7][e] = (IF e = 5 THEN <<0, -1>> ELSE IF e = 7 THEN <<0, 1>> ELSE <<0, 0>>)
    BY GeneratorsAt3
  <2> HIDE DEF g, f
  <2>2. h[7] \in Int
    BY <1>1
  <2> DEFINE u == h[7]
  <2>3. /\ cmul(<<0, u>>, <<0, 0>>) = <<0, 0>> /\ cmul(<<0, u>>, <<1, 0>>) = <<0, u>>
        /\ cmul(<<0, u>>, <<0, -1>>) = <<u, 0>> /\ cmul(<<0, u>>, <<0, 1>>) = <<-u, 0>>
        /\ cmul(<<0, u>>, <<-1, 0>>) = <<0, -u>> /\ cmul(<<0, u>>, <<-2, 0>>) = <<0, -2 * u>>
    BY <2>2, TimesUnit
  <2>4. \A e \in 0 .. 8 : f(e)[7] = cmul(<<0, u>>, g[7][e])
    BY <1>2
  <2>5. QED BY <2>1, <2>3, <2>4, Zenon
<1>10. \A e \in 0 .. 8 : f(e)[8] = (IF e = 0 THEN <<0, h[8]>> ELSE IF e = 4 THEN <<0, h[8]>> ELSE IF e = 8 THEN <<0,
         -2 * h[8]>> ELSE <<0, 0>>)
  <2>1. \A e \in 0 .. 8 : g[8][e] = (IF e = 0 THEN <<1, 0>> ELSE IF e = 4 THEN <<1, 0>> ELSE IF e = 8 THEN <<-2, 0>> ELSE <<0, 0>>)
    BY GeneratorsAt3
  <2> HIDE DEF g, f
  <2>2. h[8] \in Int
    BY <1>1
  <2> DEFINE u == h[8]
  <2>3. /\ cmul(<<0, u>>, <<0, 0>>) = <<0, 0>> /\ cmul(<<0, u>>, <<1, 0>>) = <<0, u>>
        /\ cmul(<<0, u>>, <<0, -1>>) = <<u, 0>> /\ cmul(<<0, u>>, <<0, 1>>) = <<-u, 0>>
        /\ cmul(<<0, u>>, <<-1, 0>>) = <<0, -u>> /\ cmul(<<0, u>>, <<-2, 0>>) = <<0, -2 * u>>
    BY <2>2, TimesUnit
  <2>4. \A e \in 0 .. 8 : f(e)[8] = cmul(<<0, u>>, g[8][e])
    BY <1>2
  <2>5. QED BY <2>1, <2>3, <2>4, Zenon
<1>11. \A e \in 0 .. 8 : f(e) = [a \in 1 .. 8 |-> f(e)[a]]
  OBVIOUS
<1> HIDE DEF f
<1>12. ASSUME NEW e \in 0 .. 8 PROVE f(e) \in Cplxs(1 .. 8)
  <2>1. f(e)[1] \in Cplx
    <3>1. <<0, 0>> \in Cplx /\ <<0, h[1]>> \in Cplx
      BY <1>1 DEF Cplx
    <3>2. QED BY <3>1, <1>3
  <2>2. f(e)[2] \in Cplx
    <3>1. <<0, 0>> \in Cplx /\ <<h[2], 0>> \in Cplx /\ <<-h[2], 0>> \in Cplx
      BY <1>1 DEF Cplx
    <3>2. QED BY <3>1, <1>4
  <2>3. f(e)[3] \in Cplx
    <3>1. <<0, 0>> \in Cplx /\ <<0, h[3]>> \in Cplx /\ <<0, -h[3]>> \in Cplx
      BY <1>1 DEF Cplx
    <3>2. QED BY <3>1, <1>5
  <2>4. f(e)[4] \in Cplx
    <3>1. <<0, 0>> \in Cplx /\ <<0, h[4]>> \in Cplx
      BY <1>1 DEF Cplx
    <3>2. QED BY <3>1, <1>6
  <2>5. f(e)[5] \in Cplx
    <3>1. <<0, 0>> \in Cplx /\ <<h[5], 0>> \in Cplx /\ <<-h[5], 0>> \in Cplx
      BY <1>1 DEF Cplx
    <3>2. QED BY <3>1, <1>7
  <2>6. f(e)[6] \in Cplx
    <3>1. <<0, 0>> \in Cplx /\ <<0, h[6]>> \in Cplx
      BY <1>1 DEF Cplx
    <3>2. QED BY <3>1, <1>8
  <2>7. f(e)[7] \in Cplx
    <3>1. <<0, 0>> \in Cplx /\ <<h[7], 0>> \in Cplx /\ <<-h[7], 0>> \in Cplx
      BY <1>1 DEF Cplx
    <3>2. QED BY <3>1, <1>9
  <2>8. f(e)[8] \in Cplx
    <3>1. <<0, 0>> \in Cplx /\ <<0, h[8]>> \in Cplx /\ <<0, -2 * h[8]>> \in Cplx
      BY <1>1 DEF Cplx
    <3>2. QED BY <3>1, <1>10
  <2>9. \A a \in 1 .. 8 : f(e)[a] \in Cplx
    BY <2>1, <2>2, <2>3, <2>4, <2>5, <2>6, <2>7, <2>8
  <2>10. QED BY <1>11, <2>9 DEF Cplxs
<1>13. p[0] = CSumOf(f(0))
  <2> DEFINE s == f(0)
  <2>1. s \in Cplxs(1 .. 8)
    BY <1>12
  <2>2. s[1] = <<0, 0>> /\ s[2] = <<0, 0>> /\ s[3] = <<0, h[3]>> /\ s[4] = <<0, 0>> /\ s[5] = <<0, 0>>
          /\ s[6] = <<0, 0>> /\ s[7] = <<0, 0>> /\ s[8] = <<0, h[8]>>
    BY <1>3, <1>4, <1>5, <1>6, <1>7, <1>8, <1>9, <1>10
  <2> HIDE DEF s
  <2>3. CSumOf(s) = <<s[1][1] + s[2][1] + s[3][1] + s[4][1] + s[5][1] + s[6][1] + s[7][1] + s[8][1],
          s[1][2] + s[2][2] + s[3][2] + s[4][2] + s[5][2] + s[6][2] + s[7][2] + s[8][2]>>
    BY <2>1, CSumFrom1To8
  <2>4. CSumOf(s) = <<0, h[3] + h[8]>>
    BY <1>1, <2>2, <2>3
  <2>5. p[0] = <<0, h[3] + h[8]>>
    BY Pack3
  <2>6. QED BY <2>4, <2>5 DEF s
<1>14. p[1] = CSumOf(f(1))
  <2> DEFINE s == f(1)
  <2>1. s \in Cplxs(1 .. 8)
    BY <1>12
  <2>2. s[1] = <<0, h[1]>> /\ s[2] = <<h[2], 0>> /\ s[3] = <<0, 0>> /\ s[4] = <<0, 0>> /\ s[5] = <<0, 0>>
          /\ s[6] = <<0, 0>> /\ s[7] = <<0, 0>> /\ s[8] = <<0, 0>>
    BY <1>3, <1>4, <1>5, <1>6, <1>7, <1>8, <1>9, <1>10
  <2> HIDE DEF s
  <2>3. CSumOf(s) = <<s[1][1] + s[2][1] + s[3][1] + s[4][1] + s[5][1] + s[6][1] + s[7][1] + s[8][1],
          s[1][2] + s[2][2] + s[3][2] + s[4][2] + s[5][2] + s[6][2] + s[7][2] + s[8][2]>>
    BY <2>1, CSumFrom1To8
  <2>4. CSumOf(s) = <<h[2], h[1]>>
    BY <1>1, <2>2, <2>3
  <2>5. p[1] = <<h[2], h[1]>>
    BY Pack3
  <2>6. QED BY <2>4, <2>5 DEF s
<1>15. p[2] = CSumOf(f(2))
  <2> DEFINE s == f(2)
  <2>1. s \in Cplxs(1 .. 8)
    BY <1>12
  <2>2. s[1] = <<0, 0>> /\ s[2] = <<0, 0>> /\ s[3] = <<0, 0>> /\ s[4] = <<0, h[4]>> /\ s[5] = <<h[5], 0>>
          /\ s[6] = <<0, 0>> /\ s[7] = <<0, 0>> /\ s[8] = <<0, 0>>
    BY <1>3, <1>4, <1>5, <1>6, <1>7, <1>8, <1>9, <1>10
  <2> HIDE DEF s
  <2>3. CSumOf(s) = <<s[1][1] + s[2][1] + s[3][1] + s[4][1] + s[5][1] + s[6][1] + s[7][1] + s[8][1],
          s[1][2] + s[2][2] + s[3][2] + s[4][2] + s[5][2] + s[6][2] + s[7][2] + s[8][2]>>
    BY <2>1, CSumFrom1To8
  <2>4. CSumOf(s) = <<h[5], h[4]>>
    BY <1>1, <2>2, <2>3
  <2>5. p[2] = <<h[5], h[4]>>
    BY Pack3
  <2>6. QED BY <2>4, <2>5 DEF s
<1>16. p[3] = CSumOf(f(3))
  <2> DEFINE s == f(3)
  <2>1. s \in Cplxs(1 .. 8)
    BY <1>12
  <2>2. s[1] = <<0, h[1]>> /\ s[2] = <<-h[2], 0>> /\ s[3] = <<0, 0>> /\ s[4] = <<0, 0>> /\ s[5] = <<0, 0>>
          /\ s[6] = <<0, 0>> /\ s[7] = <<0, 0>> /\ s[8] = <<0, 0>>
    BY <1>3, <1>4, <1>5, <1>6, <1>7, <1>8, <1>9, <1>10
  <2> HIDE DEF s
  <2>3. CSumOf(s) = <<s[1][1] + s[2][1] + s[3][1] + s[4][1] + s[5][1] + s[6][1] + s[7][1] + s[8][1],
          s[1][2] + s[2][2] + s[3][2] + s[4][2] + s[5][2] + s[6][2] + s[7][2] + s[8][2]>>
    BY <2>1, CSumFrom1To8
  <2>4. CSumOf(s) = <<-h[2], h[1]>>
    BY <1>1, <2>2, <2>3
  <2>5. p[3] = <<-h[2], h[1]>>
    BY Pack3
  <2>6. QED BY <2>4, <2>5 DEF s
<1>17. p[4] = CSumOf(f(4))
  <2> DEFINE s == f(4)
  <2>1. s \in Cplxs(1 .. 8)
    BY <1>12
  <2>2. s[1] = <<0, 0>> /\ s[2] = <<0, 0>> /\ s[3] = <<0, -h[3]>> /\ s[4] = <<0, 0>> /\ s[5] = <<0, 0>>
          /\ s[6] = <<0, 0>> /\ s[7] = <<0, 0>> /\ s[8] = <<0, h[8]>>
    BY <1>3, <1>4, <1>5, <1>6, <1>7, <1>8, <1>9, <1>10
  <2> HIDE DEF s
  <2>3. CSumOf(s) = <<s[1][1] + s[2][1] + s[3][1] + s[4][1] + s[5][1] + s[6][1] + s[7][1] + s[8][1],
          s[1][2] + s[2][2] + s[3][2] + s[4][2] + s[5][2] + s[6][2] + s[7][2] + s[8][2]>>
    BY <2>1, CSumFrom1To8
  <2>4. CSumOf(s) = <<0, -h[3] + h[8]>>
    BY <1>1, <2>2, <2>3
  <2>5. p[4] = <<0, -h[3] + h[8]>>
    BY Pack3
  <2>6. QED BY <2>4, <2>5 DEF s
<1>18. p[5] = CSumOf(f(5))
  <2> DEFINE s == f(5)
  <2>1. s \in Cplxs(1 .. 8)
    BY <1>12
  <2>2. s[1] = <<0, 0>> /\ s[2] = <<0, 0>> /\ s[3] = <<0, 0>> /\ s[4] = <<0, 0>> /\ s[5] = <<0, 0>>
          /\ s[6] = <<0, h[6]>> /\ s[7] = <<h[7], 0>> /\ s[8] = <<0, 0>>
    BY <1>3, <1>4, <1>5, <1>6, <1>7, <1>8, <1>9, <1>10
  <2> HIDE DEF s
  <2>3. CSumOf(s) = <<s[1][1] + s[2][1] + s[3][1] + s[4][1] + s[5][1] + s[6][1] + s[7][1] + s[8][1],
          s[1][2] + s[2][2] + s[3][2] + s[4][2] + s[5][2] + s[6][2] + s[7][2] + s[8][2]>>
    BY <2>1, CSumFrom1To8
  <2>4. CSumOf(s) = <<h[7], h[6]>>
    BY <1>1, <2>2, <2>3
  <2>5. p[5] = <<h[7], h[6]>>
    BY Pack3
  <2>6. QED BY <2>4, <2>5 DEF s
<1>19. p[6] = CSumOf(f(6))
  <2> DEFINE s == f(6)
  <2>1. s \in Cplxs(1 .. 8)
    BY <1>12
  <2>2. s[1] = <<0, 0>> /\ s[2] = <<0, 0>> /\ s[3] = <<0, 0>> /\ s[4] = <<0, h[4]>> /\ s[5] = <<-h[5], 0>>
          /\ s[6] = <<0, 0>> /\ s[7] = <<0, 0>> /\ s[8] = <<0, 0>>
    BY <1>3, <1>4, <1>5, <1>6, <1>7, <1>8, <1>9, <1>10
  <2> HIDE DEF s
  <2>3. CSumOf(s) = <<s[1][1] + s[2][1] + s[3][1] + s[4][1] + s[5][1] + s[6][1] + s[7][1] + s[8][1],
          s[1][2] + s[2][2] + s[3][2] + s[4][2] + s[5][2] + s[6][2] + s[7][2] + s[8][2]>>
    BY <2>1, CSumFrom1To8
  <2>4. CSumOf(s) = <<-h[5], h[4]>>
    BY <1>1, <2>2, <2>3
  <2>5. p[6] = <<-h[5], h[4]>>
    BY Pack3
  <2>6. QED BY <2>4, <2>5 DEF s
<1>20. p[7] = CSumOf(f(7))
  <2> DEFINE s == f(7)
  <2>1. s \in Cplxs(1 .. 8)
    BY <1>12
  <2>2. s[1] = <<0, 0>> /\ s[2] = <<0, 0>> /\ s[3] = <<0, 0>> /\ s[4] = <<0, 0>> /\ s[5] = <<0, 0>>
          /\ s[6] = <<0, h[6]>> /\ s[7] = <<-h[7], 0>> /\ s[8] = <<0, 0>>
    BY <1>3, <1>4, <1>5, <1>6, <1>7, <1>8, <1>9, <1>10
  <2> HIDE DEF s
  <2>3. CSumOf(s) = <<s[1][1] + s[2][1] + s[3][1] + s[4][1] + s[5][1] + s[6][1] + s[7][1] + s[8][1],
          s[1][2] + s[2][2] + s[3][2] + s[4][2] + s[5][2] + s[6][2] + s[7][2] + s[8][2]>>
    BY <2>1, CSumFrom1To8
  <2>4. CSumOf(s) = <<-h[7], h[6]>>
    BY <1>1, <2>2, <2>3
  <2>5. p[7] = <<-h[7], h[6]>>
    BY Pack3
  <2>6. QED BY <2>4, <2>5 DEF s
<1>21. p[8] = CSumOf(f(8))
  <2> DEFINE s == f(8)
  <2>1. s \in Cplxs(1 .. 8)
    BY <1>12
  <2>2. s[1] = <<0, 0>> /\ s[2] = <<0, 0>> /\ s[3] = <<0, 0>> /\ s[4] = <<0, 0>> /\ s[5] = <<0, 0>>
          /\ s[6] = <<0, 0>> /\ s[7] = <<0, 0>> /\ s[8] = <<0, -2 * h[8]>>
    BY <1>3, <1>4, <1>5, <1>6, <1>7, <1>8, <1>9, <1>10
  <2> HIDE DEF s
  <2>3. CSumOf(s) = <<s[1][1] + s[2][1] + s[3][1] + s[4][1] + s[5][1] + s[6][1] + s[7][1] + s[8][1],
          s[1][2] + s[2][2] + s[3][2] + s[4][2] + s[5][2] + s[6][2] + s[7][2] + s[8][2]>>
    BY <2>1, CSumFrom1To8
  <2>4. CSumOf(s) = <<0, -2 * h[8]>>
    BY <1>1, <2>2, <2>3
  <2>5. p[8] = <<0, -2 * h[8]>>
    BY Pack3
  <2>6. QED BY <2>4, <2>5 DEF s
<1> HIDE DEF p
<1>22. \A e \in 0 .. 8 : p[e] = CSumOf(f(e))
  BY <1>13, <1>14, <1>15, <1>16, <1>17, <1>18, <1>19, <1>20, <1>21
<1>23. QED BY <1>22 DEF p, f, g

(* The sum of the squares of the coordinates of SU(3), the last times      *)
(* three.                                                                  *)
LEMMA Norm3 ==
  ASSUME NEW h \in [1 .. 8 -> Int]
  PROVE  SumOver(DOMAIN Generators(3), LAMBDA a : (IF a = 8 THEN 3 ELSE 1) * h[a] * h[a])
           = h[1] * h[1] + h[2] * h[2] + h[3] * h[3] + h[4] * h[4] + h[5] * h[5] + h[6] * h[6] + h[7] * h[7] + 3 * h[8] * h[8]
<1> DEFINE f == [a \in 1 .. 8 |-> (IF a = 8 THEN 3 ELSE 1) * h[a] * h[a]]
<1>1. SumOver(DOMAIN Generators(3), LAMBDA a : (IF a = 8 THEN 3 ELSE 1) * h[a] * h[a]) = SumFunction(f)
  BY GeneratorsAt3 DEF SumOver
<1>2. f \in Ints(1 .. 8)
  BY DEF Ints
<1>3. h[1] \in Int /\ h[2] \in Int /\ h[3] \in Int /\ h[4] \in Int /\ h[5] \in Int /\ h[6] \in Int /\ h[7] \in Int /\ h[8] \in Int
  OBVIOUS
<1>4. f[1] = h[1] * h[1] /\ f[2] = h[2] * h[2] /\ f[3] = h[3] * h[3] /\ f[4] = h[4] * h[4] /\ f[5] = h[5] * h[5]
        /\ f[6] = h[6] * h[6] /\ f[7] = h[7] * h[7] /\ f[8] = 3 * h[8] * h[8]
  BY <1>3
<1> HIDE DEF f
<1>5. SumFunction(f) = f[1] + f[2] + f[3] + f[4] + f[5] + f[6] + f[7] + f[8]
  BY <1>2, SumFrom1To8
<1>6. QED BY <1>1, <1>4, <1>5, Zenon

(* kinetic_2, from three of the eight numbers stored.                      *)
LEMMA Kinetic2 ==
  ASSUME NEW h \in [1 .. 8 -> Int]
  PROVE  kinetic_2(pack_algebra_2(h)) = 2 * (h[1] * h[1] + h[2] * h[2] + h[3] * h[3])
<1> DEFINE p == pack_algebra_2(h)
<1>1. p[0] = <<0, h[3]>> /\ p[1] = <<h[2], h[1]>>
  BY Pack2
<1>2. h[1] \in Int /\ h[2] \in Int /\ h[3] \in Int
  OBVIOUS
<1> HIDE DEF p
<1>3. kinetic_2(p) = 2 * (h[1] * h[1] + h[2] * h[2] + h[3] * h[3])
  BY <1>1, <1>2 DEF kinetic_2
<1>4. QED BY <1>3 DEF p

(* kinetic_3, from all numbers stored.                                     *)
LEMMA Kinetic3 ==
  ASSUME NEW h \in [1 .. 8 -> Int]
  PROVE  kinetic_3(pack_algebra_3(h)) = 2 * (h[1] * h[1] + h[2] * h[2] + h[3] * h[3] + h[4] * h[4] + h[5] * h[5]
                                              + h[6] * h[6] + h[7] * h[7] + 3 * h[8] * h[8])
<1> DEFINE p == pack_algebra_3(h)
           f == [k \in 0 .. 8 |-> p[k][1] * p[k][1] + p[k][2] * p[k][2]]
<1>1. h[1] \in Int /\ h[2] \in Int /\ h[3] \in Int /\ h[4] \in Int /\ h[5] \in Int /\ h[6] \in Int /\ h[7] \in Int /\ h[8] \in Int
  OBVIOUS
<1>2. kinetic_3(p) = SumFunction(f)
  <2>1. Entries(3) = 0 .. 8
    BY DEF Entries
  <2>2. QED BY <2>1 DEF kinetic_3, SumOver
<1>3. /\ p[0] = <<0, h[3] + h[8]>>
      /\ p[1] = <<h[2], h[1]>>
      /\ p[2] = <<h[5], h[4]>>
      /\ p[3] = <<-h[2], h[1]>>
      /\ p[4] = <<0, -h[3] + h[8]>>
      /\ p[5] = <<h[7], h[6]>>
      /\ p[6] = <<-h[5], h[4]>>
      /\ p[7] = <<-h[7], h[6]>>
      /\ p[8] = <<0, -2 * h[8]>>
  BY Pack3
<1> HIDE DEF p
<1>4. f[0] = (h[3] + h[8]) * (h[3] + h[8])
  BY <1>1, <1>3
<1>5. f[1] = h[2] * h[2] + h[1] * h[1]
  BY <1>1, <1>3
<1>6. f[2] = h[5] * h[5] + h[4] * h[4]
  BY <1>1, <1>3
<1>7. f[3] = h[2] * h[2] + h[1] * h[1]
  BY <1>1, <1>3
<1>8. f[4] = (-h[3] + h[8]) * (-h[3] + h[8])
  BY <1>1, <1>3
<1>9. f[5] = h[7] * h[7] + h[6] * h[6]
  BY <1>1, <1>3
<1>10. f[6] = h[5] * h[5] + h[4] * h[4]
  BY <1>1, <1>3
<1>11. f[7] = h[7] * h[7] + h[6] * h[6]
  BY <1>1, <1>3
<1>12. f[8] = (-2 * h[8]) * (-2 * h[8])
  BY <1>1, <1>3
<1>13. f \in Ints(0 .. 8)
  <2>1. f[0] \in Int /\ f[1] \in Int /\ f[2] \in Int /\ f[3] \in Int /\ f[4] \in Int /\ f[5] \in Int
          /\ f[6] \in Int /\ f[7] \in Int /\ f[8] \in Int
    <3> HIDE DEF f
    <3> QED BY <1>1, <1>4, <1>5, <1>6, <1>7, <1>8, <1>9, <1>10, <1>11, <1>12
  <2>2. \A k \in 0 .. 8 : f[k] \in Int
    <3> HIDE DEF f
    <3> QED BY <2>1
  <2>3. QED BY <2>2 DEF Ints
<1> HIDE DEF f
<1>14. SumFunction(f) = f[0] + f[1] + f[2] + f[3] + f[4] + f[5] + f[6] + f[7] + f[8]
  BY <1>13, SumOf9
<1>15. kinetic_3(p) = 2 * (h[1] * h[1] + h[2] * h[2] + h[3] * h[3] + h[4] * h[4] + h[5] * h[5]
                            + h[6] * h[6] + h[7] * h[7] + 3 * h[8] * h[8])
  BY <1>1, <1>2, <1>4, <1>5, <1>6, <1>7, <1>8, <1>9, <1>10, <1>11, <1>12, <1>14
<1>16. QED BY <1>15 DEF p

-----------------------------------------------------------------------------
(* The maps to and from the algebra are exact.                             *)

(* For SU(2) the maps are exact.                                           *)
LEMMA Maps2 ==
  ASSUME NEW m \in Mat(2), NEW h \in [1 .. 8 -> Int]
  PROVE  AlgebraMapsExact(2, m, h)
<1> DEFINE anti == Plus(m, Scaled(-1, Dagger(2, m)))
           p == pack_algebra_2(h)
           norm == SumOver(DOMAIN Generators(2), LAMBDA a : (IF a = 8 THEN 3 ELSE 1) * h[a] * h[a])
           md == Dagger(2, m)
<1>1. Entries(2) = 0 .. 3 /\ md \in Mat(2)
  <2>1. 2 \in 1 .. 3
    OBVIOUS
  <2>2. QED BY <2>1, DaggerAt DEF Entries
<1>2. traceless_antiherm_2x2_batched(Lanes(m, md), {1, 2}) = Lanes(traceless_antiherm_2x2(m), traceless_antiherm_2x2(md))
  <2> HIDE DEF md
  <2> QED BY <1>1, Batched2Is
<1>3. Scaled(2, traceless_antiherm_2x2(m)) = Plus(Scaled(2, anti), TimesComplex(times(-1, Trace(2, anti)), Identity(2)))
  BY Part2 DEF Projected, Anti
<1>4. \A e \in Entries(2) : p[e] = CSum(DOMAIN Generators(2), LAMBDA a : cmul(<<0, h[a]>>, Generators(2)[a][e]))
  <2>1. \A e \in 0 .. 3 : p[e] = CSumOf([a \in 1 .. 3 |-> cmul(<<0, h[a]>>, Generators(2)[a][e])])
    BY Basis2
  <2>2. DOMAIN Generators(2) = 1 .. 3
    BY GeneratorsAt2
  <2>3. QED BY <1>1, <2>1, <2>2 DEF CSum
<1>5. kinetic_2(p) = 2 * norm
  BY Kinetic2, Norm2, Zenon
<1> HIDE DEF anti, p, norm, md
<1>6. QED BY <1>2, <1>3, <1>4, <1>5, Zenon DEF AlgebraMapsExact, anti, p, norm, md

(* For SU(3) the maps are exact.                                           *)
LEMMA Maps3 ==
  ASSUME NEW m \in Mat(3), NEW h \in [1 .. 8 -> Int]
  PROVE  AlgebraMapsExact(3, m, h)
<1> DEFINE anti == Plus(m, Scaled(-1, Dagger(3, m)))
           p == pack_algebra_3(h)
           norm == SumOver(DOMAIN Generators(3), LAMBDA a : (IF a = 8 THEN 3 ELSE 1) * h[a] * h[a])
           md == Dagger(3, m)
<1>1. Entries(3) = 0 .. 8 /\ md \in Mat(3)
  <2>1. 3 \in 1 .. 3
    OBVIOUS
  <2>2. QED BY <2>1, DaggerAt DEF Entries
<1>2. traceless_antiherm_3x3_batched(Lanes(m, md), {1, 2}) = Lanes(traceless_antiherm_3x3(m), traceless_antiherm_3x3(md))
  <2> HIDE DEF md
  <2> QED BY <1>1, Batched3Is
<1>3. traceless_antiherm_3x3(m) = Plus(Scaled(3, anti), TimesComplex(times(-1, Trace(3, anti)), Identity(3)))
  BY Part3 DEF Projected, Anti
<1>4. \A e \in Entries(3) : p[e] = CSum(DOMAIN Generators(3), LAMBDA a : cmul(<<0, h[a]>>, Generators(3)[a][e]))
  <2>1. \A e \in 0 .. 8 : p[e] = CSumOf([a \in 1 .. 8 |-> cmul(<<0, h[a]>>, Generators(3)[a][e])])
    BY Basis3
  <2>2. DOMAIN Generators(3) = 1 .. 8
    BY GeneratorsAt3
  <2>3. QED BY <1>1, <2>1, <2>2 DEF CSum
<1>5. kinetic_3(p) = 2 * norm
  BY Kinetic3, Norm3, Zenon
<1> HIDE DEF anti, p, norm, md
<1>6. 3 # 2
  OBVIOUS
<1>7. QED BY <1>2, <1>3, <1>4, <1>5, <1>6, Zenon DEF AlgebraMapsExact, anti, p, norm, md

(* Projection on the algebra, momentum and kinetic term are those of the   *)
(* textbook.                                                               *)
LEMMA MapsAreExact ==
  ASSUME NEW N \in 2 .. 3, NEW m \in Mat(N), NEW h \in [1 .. 8 -> Int]
  PROVE  AlgebraMapsExact(N, m, h)
<1>1. CASE N = 2
  BY <1>1, Maps2
<1>2. CASE N = 3
  BY <1>2, Maps3
<1>3. QED BY <1>1, <1>2

-----------------------------------------------------------------------------
(* The square and the cube of a traceless hermitian matrix, in its eight   *)
(* numbers.                                                                *)

(* q is the traceless hermitian matrix of the eight numbers.               *)
Herm(q, a, b, x1, y1, x2, y2, x5, y5) ==
  /\ q[0] = <<a, 0>>
  /\ q[1] = <<x1, -y1>>
  /\ q[2] = <<x2, -y2>>
  /\ q[3] = <<x1, y1>>
  /\ q[4] = <<b, 0>>
  /\ q[5] = <<x5, -y5>>
  /\ q[6] = <<x2, y2>>
  /\ q[7] = <<x5, y5>>
  /\ q[8] = <<-(a + b), 0>>

(* q is the square of that matrix.                                         *)
Squares(q, a, b, x1, y1, x2, y2, x5, y5) ==
  /\ q[0] = <<a * a + x1 * x1 + x2 * x2 + y1 * y1 + y2 * y2,
             0>>
  /\ q[1] = <<a * x1 + b * x1 + x2 * x5 + y2 * y5,
             0 - a * y1 - b * y1 + x2 * y5 - x5 * y2>>
  /\ q[2] = <<0 - b * x2 + x1 * x5 - y1 * y5,
             b * y2 - x1 * y5 - x5 * y1>>
  /\ q[3] = <<a * x1 + b * x1 + x2 * x5 + y2 * y5,
             a * y1 + b * y1 - x2 * y5 + x5 * y2>>
  /\ q[4] = <<b * b + x1 * x1 + x5 * x5 + y1 * y1 + y5 * y5,
             0>>
  /\ q[5] = <<0 - a * x5 + x1 * x2 + y1 * y2,
             a * y5 - x1 * y2 + x2 * y1>>
  /\ q[6] = <<0 - b * x2 + x1 * x5 - y1 * y5,
             0 - b * y2 + x1 * y5 + x5 * y1>>
  /\ q[7] = <<0 - a * x5 + x1 * x2 + y1 * y2,
             0 - a * y5 + x1 * y2 - x2 * y1>>
  /\ q[8] = <<a * a + 2 * a * b + b * b + x2 * x2 + x5 * x5 + y2 * y2 + y5 * y5,
             0>>

(* Half the trace of the square, and the determinant.                      *)
HalfTrace(a, b, x1, y1, x2, y2, x5, y5) ==
  a * a + a * b + b * b + x1 * x1 + y1 * y1 + x2 * x2 + y2 * y2 + x5 * x5 + y5 * y5

Determinant(a, b, x1, y1, x2, y2, x5, y5) ==
  0 - a * a * b - a * b * b + a * x1 * x1 - a * x5 * x5 + a * y1 * y1 - a * y5 * y5 + b * x1 * x1 - b * x2 * x2
    + b * y1 * y1 - b * y2 * y2 + 2 * x1 * x2 * x5 + 2 * x1 * y2 * y5 - 2 * x2 * y1 * y5 + 2 * x5 * y1 * y2

(* -i times a momentum of SU(3) is hermitian and traceless.                *)
LEMMA HermitianIs ==
  ASSUME NEW h \in [1 .. 8 -> Int]
  PROVE  /\ Hermitian(pack_algebra_3(h)) \in Mat(3)
         /\ \E a, b, x1, y1, x2, y2, x5, y5 \in Int : Herm(Hermitian(pack_algebra_3(h)), a, b, x1, y1, x2, y2, x5, y5)
<1> DEFINE p == pack_algebra_3(h)
           q == Hermitian(p)
<1>1. /\ p[0] = <<0, h[3] + h[8]>>
      /\ p[1] = <<h[2], h[1]>>
      /\ p[2] = <<h[5], h[4]>>
      /\ p[3] = <<-h[2], h[1]>>
      /\ p[4] = <<0, -h[3] + h[8]>>
      /\ p[5] = <<h[7], h[6]>>
      /\ p[6] = <<-h[5], h[4]>>
      /\ p[7] = <<-h[7], h[6]>>
      /\ p[8] = <<0, -2 * h[8]>>
  BY Pack3
<1>2. Entries(3) = 0 .. 8
  BY DEF Entries
<1> HIDE DEF p
<1>3. q = [k \in 0 .. 8 |-> <<p[k][2], -p[k][1]>>]
  BY <1>2 DEF Hermitian
<1> HIDE DEF q
<1>4. h[1] \in Int /\ h[2] \in Int /\ h[3] \in Int /\ h[4] \in Int /\ h[5] \in Int /\ h[6] \in Int /\ h[7] \in Int /\ h[8] \in Int
  OBVIOUS
<1>5. /\ q[0] = <<h[3] + h[8], 0>> /\ q[1] = <<h[1], -h[2]>> /\ q[2] = <<h[4], -h[5]>>
      /\ q[3] = <<h[1], h[2]>> /\ q[4] = <<-h[3] + h[8], 0>> /\ q[5] = <<h[6], -h[7]>>
      /\ q[6] = <<h[4], h[5]>> /\ q[7] = <<h[6], h[7]>> /\ q[8] = <<-2 * h[8], 0>>
  BY <1>1, <1>3, <1>4
<1>6. Herm(q, h[3] + h[8], -h[3] + h[8], h[1], h[2], h[4], h[5], h[6], h[7])
  <2>1. -((h[3] + h[8]) + (-h[3] + h[8])) = -2 * h[8]
    BY <1>4
  <2>2. QED BY <1>5, <2>1 DEF Herm
<1>7. q \in Mat(3)
  <2>1. \A k \in 0 .. 8 : q[k] \in Cplx
    <3>1. q[0] \in Cplx /\ q[4] \in Cplx /\ q[8] \in Cplx
      BY <1>4, <1>5 DEF Cplx
    <3>2. q[1] \in Cplx /\ q[2] \in Cplx /\ q[3] \in Cplx
      BY <1>4, <1>5 DEF Cplx
    <3>3. q[5] \in Cplx /\ q[6] \in Cplx /\ q[7] \in Cplx
      BY <1>4, <1>5 DEF Cplx
    <3>4. QED BY <3>1, <3>2, <3>3
  <2>2. q = [k \in 0 .. 8 |-> q[k]]
    BY <1>3
  <2>3. QED BY <1>2, <2>1, <2>2 DEF Mat, Cplxs
<1>8. \E a, b, x1, y1, x2, y2, x5, y5 \in Int : Herm(q, a, b, x1, y1, x2, y2, x5, y5)
  <2>1. h[3] + h[8] \in Int /\ -h[3] + h[8] \in Int
    BY <1>4
  <2>2. QED BY <1>4, <1>6, <2>1
<1>9. QED BY <1>7, <1>8 DEF p, q

(* The nine entries of a 3 x 3 product.                                    *)
LEMMA ProductEntries3 ==
  ASSUME NEW x \in Mat(3), NEW y \in Mat(3)
  PROVE  /\ Product(3, x, y) \in Mat(3)
         /\ Product(3, x, y)[0] = cadd(cadd(cmul(x[0], y[0]), cmul(x[1], y[3])), cmul(x[2], y[6]))
         /\ Product(3, x, y)[1] = cadd(cadd(cmul(x[0], y[1]), cmul(x[1], y[4])), cmul(x[2], y[7]))
         /\ Product(3, x, y)[2] = cadd(cadd(cmul(x[0], y[2]), cmul(x[1], y[5])), cmul(x[2], y[8]))
         /\ Product(3, x, y)[3] = cadd(cadd(cmul(x[3], y[0]), cmul(x[4], y[3])), cmul(x[5], y[6]))
         /\ Product(3, x, y)[4] = cadd(cadd(cmul(x[3], y[1]), cmul(x[4], y[4])), cmul(x[5], y[7]))
         /\ Product(3, x, y)[5] = cadd(cadd(cmul(x[3], y[2]), cmul(x[4], y[5])), cmul(x[5], y[8]))
         /\ Product(3, x, y)[6] = cadd(cadd(cmul(x[6], y[0]), cmul(x[7], y[3])), cmul(x[8], y[6]))
         /\ Product(3, x, y)[7] = cadd(cadd(cmul(x[6], y[1]), cmul(x[7], y[4])), cmul(x[8], y[7]))
         /\ Product(3, x, y)[8] = cadd(cadd(cmul(x[6], y[2]), cmul(x[7], y[5])), cmul(x[8], y[8]))
<1>1. Product(3, x, y) \in Mat(3)
  <2>1. 3 \in 1 .. 3
    OBVIOUS
  <2>2. QED BY <2>1, ProductAt
<1>2. \A i, j \in 0 .. 2 : Product(3, x, y)[3 * i + j] =
           cadd(cadd(cmul(x[3 * i], y[j]), cmul(x[3 * i + 1], y[3 + j])), cmul(x[3 * i + 2], y[6 + j]))
  BY Product3
<1>3. Product(3, x, y)[0] = cadd(cadd(cmul(x[0], y[0]), cmul(x[1], y[3])), cmul(x[2], y[6]))
  BY <1>2
<1>4. Product(3, x, y)[1] = cadd(cadd(cmul(x[0], y[1]), cmul(x[1], y[4])), cmul(x[2], y[7]))
  BY <1>2
<1>5. Product(3, x, y)[2] = cadd(cadd(cmul(x[0], y[2]), cmul(x[1], y[5])), cmul(x[2], y[8]))
  BY <1>2
<1>6. Product(3, x, y)[3] = cadd(cadd(cmul(x[3], y[0]), cmul(x[4], y[3])), cmul(x[5], y[6]))
  BY <1>2
<1>7. Product(3, x, y)[4] = cadd(cadd(cmul(x[3], y[1]), cmul(x[4], y[4])), cmul(x[5], y[7]))
  BY <1>2
<1>8. Product(3, x, y)[5] = cadd(cadd(cmul(x[3], y[2]), cmul(x[4], y[5])), cmul(x[5], y[8]))
  BY <1>2
<1>9. Product(3, x, y)[6] = cadd(cadd(cmul(x[6], y[0]), cmul(x[7], y[3])), cmul(x[8], y[6]))
  BY <1>2
<1>10. Product(3, x, y)[7] = cadd(cadd(cmul(x[6], y[1]), cmul(x[7], y[4])), cmul(x[8], y[7]))
  BY <1>2
<1>11. Product(3, x, y)[8] = cadd(cadd(cmul(x[6], y[2]), cmul(x[7], y[5])), cmul(x[8], y[8]))
  BY <1>2
<1>12. QED BY <1>1, <1>3, <1>4, <1>5, <1>6, <1>7, <1>8, <1>9, <1>10, <1>11

(* The square of a traceless hermitian matrix.                             *)
LEMMA SquareOf ==
  ASSUME NEW q, NEW a, NEW b, NEW x1, NEW y1, NEW x2, NEW y2, NEW x5, NEW y5,
         q \in Mat(3), a \in Int, b \in Int, x1 \in Int, y1 \in Int, x2 \in Int, y2 \in Int, x5 \in Int, y5 \in Int,
         Herm(q, a, b, x1, y1, x2, y2, x5, y5)
  PROVE  Squares(Product(3, q, q), a, b, x1, y1, x2, y2, x5, y5)
<1>1. Product(3, q, q)[0] = <<a * a + x1 * x1 + x2 * x2 + y1 * y1 + y2 * y2,
             0>>
  <2>1. Product(3, q, q)[0] = cadd(cadd(cmul(q[0], q[0]), cmul(q[1], q[3])), cmul(q[2], q[6]))
    BY ProductEntries3
  <2>2. QED BY <2>1, SMTT(30) DEF Herm, cadd, cmul
<1>2. Product(3, q, q)[1] = <<a * x1 + b * x1 + x2 * x5 + y2 * y5,
             0 - a * y1 - b * y1 + x2 * y5 - x5 * y2>>
  <2>1. Product(3, q, q)[1] = cadd(cadd(cmul(q[0], q[1]), cmul(q[1], q[4])), cmul(q[2], q[7]))
    BY ProductEntries3
  <2>2. QED BY <2>1, SMTT(30) DEF Herm, cadd, cmul
<1>3. Product(3, q, q)[2] = <<0 - b * x2 + x1 * x5 - y1 * y5,
             b * y2 - x1 * y5 - x5 * y1>>
  <2>1. Product(3, q, q)[2] = cadd(cadd(cmul(q[0], q[2]), cmul(q[1], q[5])), cmul(q[2], q[8]))
    BY ProductEntries3
  <2>2. QED BY <2>1, SMTT(30) DEF Herm, cadd, cmul
<1>4. Product(3, q, q)[3] = <<a * x1 + b * x1 + x2 * x5 + y2 * y5,
             a * y1 + b * y1 - x2 * y5 + x5 * y2>>
  <2>1. Product(3, q, q)[3] = cadd(cadd(cmul(q[3], q[0]), cmul(q[4], q[3])), cmul(q[5], q[6]))
    BY ProductEntries3
  <2>2. QED BY <2>1, SMTT(30) DEF Herm, cadd, cmul
<1>5. Product(3, q, q)[4] = <<b * b + x1 * x1 + x5 * x5 + y1 * y1 + y5 * y5,
             0>>
  <2>1. Product(3, q, q)[4] = cadd(cadd(cmul(q[3], q[1]), cmul(q[4], q[4])), cmul(q[5], q[7]))
    BY ProductEntries3
  <2>2. QED BY <2>1, SMTT(30) DEF Herm, cadd, cmul
<1>6. Product(3, q, q)[5] = <<0 - a * x5 + x1 * x2 + y1 * y2,
             a * y5 - x1 * y2 + x2 * y1>>
  <2>1. Product(3, q, q)[5] = cadd(cadd(cmul(q[3], q[2]), cmul(q[4], q[5])), cmul(q[5], q[8]))
    BY ProductEntries3
  <2>2. QED BY <2>1, SMTT(30) DEF Herm, cadd, cmul
<1>7. Product(3, q, q)[6] = <<0 - b * x2 + x1 * x5 - y1 * y5,
             0 - b * y2 + x1 * y5 + x5 * y1>>
  <2>1. Product(3, q, q)[6] = cadd(cadd(cmul(q[6], q[0]), cmul(q[7], q[3])), cmul(q[8], q[6]))
    BY ProductEntries3
  <2>2. QED BY <2>1, SMTT(30) DEF Herm, cadd, cmul
<1>8. Product(3, q, q)[7] = <<0 - a * x5 + x1 * x2 + y1 * y2,
             0 - a * y5 + x1 * y2 - x2 * y1>>
  <2>1. Product(3, q, q)[7] = cadd(cadd(cmul(q[6], q[1]), cmul(q[7], q[4])), cmul(q[8], q[7]))
    BY ProductEntries3
  <2>2. QED BY <2>1, SMTT(30) DEF Herm, cadd, cmul
<1>9. Product(3, q, q)[8] = <<a * a + 2 * a * b + b * b + x2 * x2 + x5 * x5 + y2 * y2 + y5 * y5,
             0>>
  <2>1. Product(3, q, q)[8] = cadd(cadd(cmul(q[6], q[2]), cmul(q[7], q[5])), cmul(q[8], q[8]))
    BY ProductEntries3
  <2>2. QED BY <2>1, SMTT(30) DEF Herm, cadd, cmul
<1>10. QED BY <1>1, <1>2, <1>3, <1>4, <1>5, <1>6, <1>7, <1>8, <1>9 DEF Squares

(* r is n times q plus d.                                                  *)
Cubes(r, q, n, d) ==
  /\ r[0] = cadd(times(n, q[0]), <<d, 0>>)
  /\ r[1] = cadd(times(n, q[1]), <<0, 0>>)
  /\ r[2] = cadd(times(n, q[2]), <<0, 0>>)
  /\ r[3] = cadd(times(n, q[3]), <<0, 0>>)
  /\ r[4] = cadd(times(n, q[4]), <<d, 0>>)
  /\ r[5] = cadd(times(n, q[5]), <<0, 0>>)
  /\ r[6] = cadd(times(n, q[6]), <<0, 0>>)
  /\ r[7] = cadd(times(n, q[7]), <<0, 0>>)
  /\ r[8] = cadd(times(n, q[8]), <<d, 0>>)

(* Its cube is a combination of it and of the identity.                    *)
LEMMA CubeOf ==
  ASSUME NEW q, NEW a, NEW b, NEW x1, NEW y1, NEW x2, NEW y2, NEW x5, NEW y5, NEW s,
         q \in Mat(3), a \in Int, b \in Int, x1 \in Int, y1 \in Int, x2 \in Int, y2 \in Int, x5 \in Int, y5 \in Int,
         Herm(q, a, b, x1, y1, x2, y2, x5, y5),
         s \in Mat(3), Squares(s, a, b, x1, y1, x2, y2, x5, y5)
  PROVE  Cubes(Product(3, q, s), q, HalfTrace(a, b, x1, y1, x2, y2, x5, y5), Determinant(a, b, x1, y1, x2, y2, x5, y5))
<1>1. Product(3, q, s)[0] = cadd(times(HalfTrace(a, b, x1, y1, x2, y2, x5, y5), q[0]),
        <<Determinant(a, b, x1, y1, x2, y2, x5, y5), 0>>)
  <2> DEFINE cube == a * a * a + 2 * a * x1 * x1 + a * x2 * x2 + 2 * a * y1 * y1 + a * y2 * y2 + b * x1 * x1
                     - b * x2 * x2 + b * y1 * y1 - b * y2 * y2 + 2 * x1 * x2 * x5 + 2 * x1 * y2 * y5
                     - 2 * x2 * y1 * y5 + 2 * x5 * y1 * y2
  <2>1. Product(3, q, s)[0] = cadd(cadd(cmul(q[0], s[0]), cmul(q[1], s[3])), cmul(q[2], s[6]))
    BY ProductEntries3
  <2>2. q[0] = <<a, 0>> /\ q[1] = <<x1, -y1>> /\ q[2] = <<x2, -y2>>
    BY DEF Herm
  <2>3. /\ s[0] = <<a * a + x1 * x1 + x2 * x2 + y1 * y1 + y2 * y2, 0>>
        /\ s[3] = <<a * x1 + b * x1 + x2 * x5 + y2 * y5, a * y1 + b * y1 - x2 * y5 + x5 * y2>>
        /\ s[6] = <<0 - b * x2 + x1 * x5 - y1 * y5, 0 - b * y2 + x1 * y5 + x5 * y1>>
    BY DEF Squares
  <2>4. Product(3, q, s)[0] = <<cube, 0>>
    BY <2>1, <2>2, <2>3, SMTT(60) DEF cadd, cmul
  <2>5. cube = HalfTrace(a, b, x1, y1, x2, y2, x5, y5) * a + Determinant(a, b, x1, y1, x2, y2, x5, y5)
    BY SMTT(60) DEF HalfTrace, Determinant
  <2>6. HalfTrace(a, b, x1, y1, x2, y2, x5, y5) \in Int /\ Determinant(a, b, x1, y1, x2, y2, x5, y5) \in Int
    BY DEF HalfTrace, Determinant
  <2> HIDE DEF cube
  <2>7. QED BY <2>2, <2>4, <2>5, <2>6 DEF cadd, times
<1>2. Product(3, q, s)[1] = cadd(times(HalfTrace(a, b, x1, y1, x2, y2, x5, y5), q[1]), <<0, 0>>)
  <2>1. Product(3, q, s)[1] = cadd(cadd(cmul(q[0], s[1]), cmul(q[1], s[4])), cmul(q[2], s[7]))
    BY ProductEntries3
  <2>2. QED BY <2>1, SMTT(120) DEF Herm, Squares, HalfTrace, Determinant, cadd, cmul, times
<1>3. Product(3, q, s)[2] = cadd(times(HalfTrace(a, b, x1, y1, x2, y2, x5, y5), q[2]), <<0, 0>>)
  <2>1. Product(3, q, s)[2] = cadd(cadd(cmul(q[0], s[2]), cmul(q[1], s[5])), cmul(q[2], s[8]))
    BY ProductEntries3
  <2>2. QED BY <2>1, SMTT(120) DEF Herm, Squares, HalfTrace, Determinant, cadd, cmul, times
<1>4. Product(3, q, s)[3] = cadd(times(HalfTrace(a, b, x1, y1, x2, y2, x5, y5), q[3]), <<0, 0>>)
  <2>1. Product(3, q, s)[3] = cadd(cadd(cmul(q[3], s[0]), cmul(q[4], s[3])), cmul(q[5], s[6]))
    BY ProductEntries3
  <2>2. QED BY <2>1, SMTT(120) DEF Herm, Squares, HalfTrace, Determinant, cadd, cmul, times
<1>5. Product(3, q, s)[4] = cadd(times(HalfTrace(a, b, x1, y1, x2, y2, x5, y5), q[4]),
        <<Determinant(a, b, x1, y1, x2, y2, x5, y5), 0>>)
  <2>1. Product(3, q, s)[4] = cadd(cadd(cmul(q[3], s[1]), cmul(q[4], s[4])), cmul(q[5], s[7]))
    BY ProductEntries3
  <2>2. QED BY <2>1, SMTT(120) DEF Herm, Squares, HalfTrace, Determinant, cadd, cmul, times
<1>6. Product(3, q, s)[5] = cadd(times(HalfTrace(a, b, x1, y1, x2, y2, x5, y5), q[5]), <<0, 0>>)
  <2>1. Product(3, q, s)[5] = cadd(cadd(cmul(q[3], s[2]), cmul(q[4], s[5])), cmul(q[5], s[8]))
    BY ProductEntries3
  <2>2. QED BY <2>1, SMTT(120) DEF Herm, Squares, HalfTrace, Determinant, cadd, cmul, times
<1>7. Product(3, q, s)[6] = cadd(times(HalfTrace(a, b, x1, y1, x2, y2, x5, y5), q[6]), <<0, 0>>)
  <2>1. Product(3, q, s)[6] = cadd(cadd(cmul(q[6], s[0]), cmul(q[7], s[3])), cmul(q[8], s[6]))
    BY ProductEntries3
  <2>2. QED BY <2>1, SMTT(120) DEF Herm, Squares, HalfTrace, Determinant, cadd, cmul, times
<1>8. Product(3, q, s)[7] = cadd(times(HalfTrace(a, b, x1, y1, x2, y2, x5, y5), q[7]), <<0, 0>>)
  <2>1. Product(3, q, s)[7] = cadd(cadd(cmul(q[6], s[1]), cmul(q[7], s[4])), cmul(q[8], s[7]))
    BY ProductEntries3
  <2>2. QED BY <2>1, SMTT(120) DEF Herm, Squares, HalfTrace, Determinant, cadd, cmul, times
<1>9. Product(3, q, s)[8] = cadd(times(HalfTrace(a, b, x1, y1, x2, y2, x5, y5), q[8]),
        <<Determinant(a, b, x1, y1, x2, y2, x5, y5), 0>>)
  <2>1. Product(3, q, s)[8] = cadd(cadd(cmul(q[6], s[2]), cmul(q[7], s[5])), cmul(q[8], s[8]))
    BY ProductEntries3
  <2>2. QED BY <2>1, SMTT(120) DEF Herm, Squares, HalfTrace, Determinant, cadd, cmul, times
<1>10. QED BY <1>1, <1>2, <1>3, <1>4, <1>5, <1>6, <1>7, <1>8, <1>9 DEF Cubes

-----------------------------------------------------------------------------
(* The invariants of the exponential are the coefficients of its           *)
(* characteristic polynomial.                                              *)

(* c1Of is half the trace of the square; the division by two leaves no     *)
(* rest.                                                                   *)
LEMMA HalfTraceIs ==
  ASSUME NEW q, NEW a, NEW b, NEW x1, NEW y1, NEW x2, NEW y2, NEW x5, NEW y5,
         q \in Mat(3), a \in Int, b \in Int, x1 \in Int, y1 \in Int, x2 \in Int, y2 \in Int, x5 \in Int, y5 \in Int,
         Herm(q, a, b, x1, y1, x2, y2, x5, y5)
  PROVE  c1Of(q) = HalfTrace(a, b, x1, y1, x2, y2, x5, y5) /\ HalfTrace(a, b, x1, y1, x2, y2, x5, y5) \in Int
<1> DEFINE f == [k \in 0 .. 8 |-> q[k][1] * q[k][1] + q[k][2] * q[k][2]]
<1>1. c1Of(q) = SumFunction(f) \div 2
  <2>1. Entries(3) = 0 .. 8
    BY DEF Entries
  <2>2. QED BY <2>1 DEF c1Of, SumOver
<1>2. f[0] = a * a
  BY DEF Herm
<1>3. f[1] = x1 * x1 + y1 * y1
  BY DEF Herm
<1>4. f[2] = x2 * x2 + y2 * y2
  BY DEF Herm
<1>5. f[3] = x1 * x1 + y1 * y1
  BY DEF Herm
<1>6. f[4] = b * b
  BY DEF Herm
<1>7. f[5] = x5 * x5 + y5 * y5
  BY DEF Herm
<1>8. f[6] = x2 * x2 + y2 * y2
  BY DEF Herm
<1>9. f[7] = x5 * x5 + y5 * y5
  BY DEF Herm
<1>10. f[8] = (a + b) * (a + b)
  BY DEF Herm
<1>11. f \in Ints(0 .. 8)
  <2>1. \A k \in 0 .. 8 : f[k] \in Int
    <3> HIDE DEF f
    <3> QED BY <1>2, <1>3, <1>4, <1>5, <1>6, <1>7, <1>8, <1>9, <1>10
  <2>2. QED BY <2>1 DEF Ints
<1> HIDE DEF f
<1>12. SumFunction(f) = f[0] + f[1] + f[2] + f[3] + f[4] + f[5] + f[6] + f[7] + f[8]
  BY <1>11, SumOf9
<1>13. HalfTrace(a, b, x1, y1, x2, y2, x5, y5) \in Int
  BY DEF HalfTrace
<1>14. SumFunction(f) = 2 * HalfTrace(a, b, x1, y1, x2, y2, x5, y5)
  BY <1>2, <1>3, <1>4, <1>5, <1>6, <1>7, <1>8, <1>9, <1>10, <1>12 DEF HalfTrace
<1>15. \A n \in Int : (2 * n) \div 2 = n
  OBVIOUS
<1>16. QED BY <1>1, <1>13, <1>14, <1>15

(* c0Of, by minors, is the determinant.                                    *)
LEMMA DeterminantIs ==
  ASSUME NEW q, NEW a, NEW b, NEW x1, NEW y1, NEW x2, NEW y2, NEW x5, NEW y5,
         q \in Mat(3), a \in Int, b \in Int, x1 \in Int, y1 \in Int, x2 \in Int, y2 \in Int, x5 \in Int, y5 \in Int,
         Herm(q, a, b, x1, y1, x2, y2, x5, y5)
  PROVE  c0Of(q) = Determinant(a, b, x1, y1, x2, y2, x5, y5) /\ Determinant(a, b, x1, y1, x2, y2, x5, y5) \in Int
<1>1. c0Of(q) = Determinant(a, b, x1, y1, x2, y2, x5, y5)
  BY SMTT(60) DEF Herm, c0Of, csub, cmul, Determinant
<1>2. Determinant(a, b, x1, y1, x2, y2, x5, y5) \in Int
  BY DEF Determinant
<1>3. QED BY <1>1, <1>2

-----------------------------------------------------------------------------
(* Cayley and Hamilton, and the interpolation of the exponential at the    *)
(* eigenvalues.                                                            *)

At(f, x) == cadd(f[1], cadd(times(x, f[2]), times(x * x, f[3])))

(* The coefficients interpolate the exponential at the three eigenvalues,  *)
(* with xi for the sine over the angle and the double angle from the single*)
(* one.                                                                    *)
LEMMA Coefficients ==
  ASSUME NEW t \in Factors, NEW w \in Int, t.w2 = w * w
  PROVE  LET f == ch_coeff_pass_(t)
             e2u == cmul(<<t.cu, t.su>>, <<t.cu, t.su>>)
             at(x) == cadd(f[1], cadd(times(x, f[2]), times(x * x, f[3])))
             other(k) == cmul(<<t.cu, -t.su>>, <<t.cw, k * w * t.xi>>)
             den == 9 * t.u * t.u - w * w
         IN  /\ at(2 * t.u) = times(den, e2u)
             /\ at(w - t.u) = times(den, other(1))
             /\ at(-w - t.u) = times(den, other(-1))
<1> DEFINE f == ch_coeff_pass_(t)
           u == t.u
           cu == t.cu
           su == t.su
           cw == t.cw
           xi == t.xi
<1>1. /\ u \in Int /\ cu \in Int /\ su \in Int /\ cw \in Int /\ xi \in Int
      /\ t = [u |-> u, w2 |-> w * w, cu |-> cu, su |-> su, cw |-> cw, xi |-> xi]
  BY DEF Factors
<1>2. f = ch_coeff_pass_(t)
  OBVIOUS
<1> HIDE DEF f, u, cu, su, cw, xi
<1>3. At(f, 2 * u) = times(9 * u * u - w * w, cmul(<<cu, su>>, <<cu, su>>))
  BY <1>1, <1>2, SMTT(60) DEF At, cadd, csub, times, cmul, ch_coeff, ch_coeff_pass_
<1>4. At(f, w - u) = times(9 * u * u - w * w, cmul(<<cu, -su>>, <<cw, 1 * w * xi>>))
  BY <1>1, <1>2, SMTT(60) DEF At, cadd, csub, times, cmul, ch_coeff, ch_coeff_pass_
<1>5. At(f, -w - u) = times(9 * u * u - w * w, cmul(<<cu, -su>>, <<cw, (-1) * w * xi>>))
  BY <1>1, <1>2, SMTT(60) DEF At, cadd, csub, times, cmul, ch_coeff, ch_coeff_pass_
<1>6. QED BY <1>3, <1>4, <1>5, Zenon DEF At, f, u, cu, su, cw, xi

(* The identity in the form the exponential uses.                          *)
LEMMA IdentityAt3 ==
  /\ Identity(3) \in Mat(3)
  /\ \A k \in 0 .. 8 : Identity(3)[k] = (IF k \in {0, 4, 8} THEN <<1, 0>> ELSE <<0, 0>>)
<1>1. Identity(3) \in Mat(3)
  BY DEF Identity, Mat, Cplxs, Cplx
<1>2. \A k \in 0 .. 8 : (k % (3 + 1) = 0) <=> k \in {0, 4, 8}
  OBVIOUS
<1>3. Entries(3) = 0 .. 8
  BY DEF Entries
<1>4. QED BY <1>1, <1>2, <1>3 DEF Identity

Cube(q) == Product(3, q, Product(3, q, q))

(* The cube, entry by entry, in the invariants the code takes.             *)
LEMMA CubeIs ==
  ASSUME NEW q, NEW a, NEW b, NEW x1, NEW y1, NEW x2, NEW y2, NEW x5, NEW y5,
         q \in Mat(3), a \in Int, b \in Int, x1 \in Int, y1 \in Int, x2 \in Int, y2 \in Int, x5 \in Int, y5 \in Int,
         Herm(q, a, b, x1, y1, x2, y2, x5, y5)
  PROVE  /\ Cube(q) \in Mat(3) /\ Product(3, q, q) \in Mat(3) /\ c0Of(q) \in Int /\ c1Of(q) \in Int
         /\ \A k \in 0 .. 8 : Cube(q)[k] = cadd(times(c1Of(q), q[k]), IF k \in {0, 4, 8} THEN <<c0Of(q), 0>> ELSE <<0, 0>>)
<1> DEFINE s == Product(3, q, q)
<1>1. Squares(s, a, b, x1, y1, x2, y2, x5, y5)
  BY SquareOf
<1>2. s \in Mat(3) /\ Product(3, q, s) \in Mat(3)
  BY ProductEntries3
<1> HIDE DEF s
<1>3. c1Of(q) = HalfTrace(a, b, x1, y1, x2, y2, x5, y5) /\ c1Of(q) \in Int
  BY HalfTraceIs
<1>4. c0Of(q) = Determinant(a, b, x1, y1, x2, y2, x5, y5) /\ c0Of(q) \in Int
  BY DeterminantIs
<1>5. Cubes(Product(3, q, s), q, HalfTrace(a, b, x1, y1, x2, y2, x5, y5), Determinant(a, b, x1, y1, x2, y2, x5, y5))
  BY <1>1, <1>2, CubeOf
<1>6. Cubes(Product(3, q, s), q, c1Of(q), c0Of(q))
  BY <1>3, <1>4, <1>5
<1>14. \A k \in 0 .. 8 : Product(3, q, s)[k] = cadd(times(c1Of(q), q[k]), IF k \in {0, 4, 8} THEN <<c0Of(q), 0>> ELSE <<0, 0>>)
  BY <1>6 DEF Cubes
<1>15. QED BY <1>2, <1>3, <1>4, <1>14 DEF Cube, s

(* The cube of Q is c1 Q + c0.                                             *)
LEMMA CayleyHamilton ==
  ASSUME NEW q, NEW a, NEW b, NEW x1, NEW y1, NEW x2, NEW y2, NEW x5, NEW y5,
         q \in Mat(3), a \in Int, b \in Int, x1 \in Int, y1 \in Int, x2 \in Int, y2 \in Int, x5 \in Int, y5 \in Int,
         Herm(q, a, b, x1, y1, x2, y2, x5, y5)
  PROVE  Cube(q) = Plus(Scaled(c1Of(q), q), Scaled(c0Of(q), Identity(3)))
<1> DEFINE x == Scaled(c1Of(q), q)
           y == Scaled(c0Of(q), Identity(3))
           z == Plus(x, y)
<1>1. 3 \in 1 .. 3 /\ Entries(3) = 0 .. 8
  BY DEF Entries
<1>2. Identity(3) \in Mat(3) /\ \A k \in 0 .. 8 : Identity(3)[k] = (IF k \in {0, 4, 8} THEN <<1, 0>> ELSE <<0, 0>>)
  BY IdentityAt3
<1>3. x \in Mat(3) /\ \A k \in Entries(3) : x[k] = times(c1Of(q), q[k])
  <2>1. c1Of(q) \in Int
    BY CubeIs
  <2>2. QED BY <1>1, <2>1, ScaledAt
<1>4. y \in Mat(3) /\ \A k \in Entries(3) : y[k] = times(c0Of(q), Identity(3)[k])
  <2>1. c0Of(q) \in Int
    BY CubeIs
  <2>2. QED BY <1>1, <1>2, <2>1, ScaledAt
<1> HIDE DEF x, y
<1>5. z \in Mat(3) /\ \A k \in Entries(3) : z[k] = cadd(x[k], y[k])
  BY <1>1, <1>3, <1>4, PlusAt
<1> HIDE DEF z
<1>6. \A c \in Int : times(c, <<1, 0>>) = <<c, 0>> /\ times(c, <<0, 0>>) = <<0, 0>>
  BY DEF times
<1>7. c0Of(q) \in Int
  BY CubeIs
<1>8. \A k \in 0 .. 8 : z[k] = cadd(times(c1Of(q), q[k]), IF k \in {0, 4, 8} THEN <<c0Of(q), 0>> ELSE <<0, 0>>)
  <2> SUFFICES ASSUME NEW k \in 0 .. 8
               PROVE  z[k] = cadd(times(c1Of(q), q[k]), IF k \in {0, 4, 8} THEN <<c0Of(q), 0>> ELSE <<0, 0>>)
    OBVIOUS
  <2>1. y[k] = IF k \in {0, 4, 8} THEN <<c0Of(q), 0>> ELSE <<0, 0>>
    <3>1. y[k] = times(c0Of(q), Identity(3)[k])
      BY <1>1, <1>4, Zenon
    <3>2. CASE k \in {0, 4, 8}
      <4>1. Identity(3)[k] = <<1, 0>>
        BY <1>2, <3>2, Zenon
      <4>2. times(c0Of(q), <<1, 0>>) = <<c0Of(q), 0>>
        BY <1>6, <1>7, Zenon
      <4>3. QED BY <3>1, <3>2, <4>1, <4>2, Zenon
    <3>3. CASE k \notin {0, 4, 8}
      <4>1. Identity(3)[k] = <<0, 0>>
        BY <1>2, <3>3, Zenon
      <4>2. times(c0Of(q), <<0, 0>>) = <<0, 0>>
        BY <1>6, <1>7, Zenon
      <4>3. QED BY <3>1, <3>3, <4>1, <4>2, Zenon
    <3>4. QED BY <3>2, <3>3, Zenon
  <2>2. QED BY <1>1, <1>3, <1>5, <2>1
<1>9. Cube(q) \in Mat(3) /\ \A k \in 0 .. 8 :
        Cube(q)[k] = cadd(times(c1Of(q), q[k]), IF k \in {0, 4, 8} THEN <<c0Of(q), 0>> ELSE <<0, 0>>)
  BY CubeIs
<1>10. Cube(q) = z
  BY <1>1, <1>5, <1>8, <1>9 DEF Mat, Cplxs
<1>11. QED BY <1>10 DEF x, y, z

(* tr_q3 is three times the determinant.                                   *)
LEMMA TraceOfCube ==
  ASSUME NEW q, NEW a, NEW b, NEW x1, NEW y1, NEW x2, NEW y2, NEW x5, NEW y5,
         q \in Mat(3), a \in Int, b \in Int, x1 \in Int, y1 \in Int, x2 \in Int, y2 \in Int, x5 \in Int, y5 \in Int,
         Herm(q, a, b, x1, y1, x2, y2, x5, y5)
  PROVE  tr_q3(q) = 3 * c0Of(q)
<1> DEFINE q2 == Product(3, q, q)
           f == [k \in 0 .. 8 |-> q2[k][1] * q[3 * (k % 3) + (k \div 3)][1] - q2[k][2] * q[3 * (k % 3) + (k \div 3)][2]]
<1>1. tr_q3(q) = SumFunction(f)
  <2>1. Entries(3) = 0 .. 8
    BY DEF Entries
  <2>2. mul_3x3(q, q) = q2
    BY Products3
  <2> HIDE DEF q2
  <2>3. QED BY <2>1, <2>2 DEF tr_q3, SumOver
<1>2. Squares(q2, a, b, x1, y1, x2, y2, x5, y5)
  BY SquareOf
<1> HIDE DEF q2
<1>3. f[0] = q2[0][1] * q[0][1] - q2[0][2] * q[0][2]
  OBVIOUS
<1>4. f[1] = q2[1][1] * q[3][1] - q2[1][2] * q[3][2]
  OBVIOUS
<1>5. f[2] = q2[2][1] * q[6][1] - q2[2][2] * q[6][2]
  OBVIOUS
<1>6. f[3] = q2[3][1] * q[1][1] - q2[3][2] * q[1][2]
  OBVIOUS
<1>7. f[4] = q2[4][1] * q[4][1] - q2[4][2] * q[4][2]
  OBVIOUS
<1>8. f[5] = q2[5][1] * q[7][1] - q2[5][2] * q[7][2]
  OBVIOUS
<1>9. f[6] = q2[6][1] * q[2][1] - q2[6][2] * q[2][2]
  OBVIOUS
<1>10. f[7] = q2[7][1] * q[5][1] - q2[7][2] * q[5][2]
  OBVIOUS
<1>11. f[8] = q2[8][1] * q[8][1] - q2[8][2] * q[8][2]
  OBVIOUS
<1>12. q2[0][1] \in Int /\ q2[0][2] \in Int /\ q[0][1] \in Int /\ q[0][2] \in Int
  BY <1>2 DEF Herm, Squares
<1>13. q2[1][1] \in Int /\ q2[1][2] \in Int /\ q[1][1] \in Int /\ q[1][2] \in Int
  BY <1>2 DEF Herm, Squares
<1>14. q2[2][1] \in Int /\ q2[2][2] \in Int /\ q[2][1] \in Int /\ q[2][2] \in Int
  BY <1>2 DEF Herm, Squares
<1>15. q2[3][1] \in Int /\ q2[3][2] \in Int /\ q[3][1] \in Int /\ q[3][2] \in Int
  BY <1>2 DEF Herm, Squares
<1>16. q2[4][1] \in Int /\ q2[4][2] \in Int /\ q[4][1] \in Int /\ q[4][2] \in Int
  BY <1>2 DEF Herm, Squares
<1>17. q2[5][1] \in Int /\ q2[5][2] \in Int /\ q[5][1] \in Int /\ q[5][2] \in Int
  BY <1>2 DEF Herm, Squares
<1>18. q2[6][1] \in Int /\ q2[6][2] \in Int /\ q[6][1] \in Int /\ q[6][2] \in Int
  BY <1>2 DEF Herm, Squares
<1>19. q2[7][1] \in Int /\ q2[7][2] \in Int /\ q[7][1] \in Int /\ q[7][2] \in Int
  BY <1>2 DEF Herm, Squares
<1>20. q2[8][1] \in Int /\ q2[8][2] \in Int /\ q[8][1] \in Int /\ q[8][2] \in Int
  BY <1>2 DEF Herm, Squares
<1>21. f \in Ints(0 .. 8)
  <2>1. \A k \in 0 .. 8 : f[k] \in Int
    <3> HIDE DEF f
    <3> QED BY <1>3, <1>4, <1>5, <1>6, <1>7, <1>8, <1>9, <1>10, <1>11, <1>12, <1>13, <1>14, <1>15, <1>16, <1>17, <1>18, <1>19, <1>20
  <2>2. QED BY <2>1 DEF Ints
<1> HIDE DEF f
<1>22. SumFunction(f) = f[0] + f[1] + f[2] + f[3] + f[4] + f[5] + f[6] + f[7] + f[8]
  BY <1>21, SumOf9
<1>23. c0Of(q) = Determinant(a, b, x1, y1, x2, y2, x5, y5)
  BY DeterminantIs
<1>24. f[0] + f[1] + f[2] + f[3] + f[4] + f[5] + f[6] + f[7] + f[8] = 3 * Determinant(a, b, x1, y1, x2, y2, x5, y5)
  BY <1>2, <1>3, <1>4, <1>5, <1>6, <1>7, <1>8, <1>9, <1>10, <1>11, SMTT(90) DEF Herm, Squares, Determinant
<1>25. QED BY <1>1, <1>22, <1>23, <1>24

-----------------------------------------------------------------------------
(* The series for small matrices; the exponential is exact.                *)

(* An entry on the diagonal: the series to third order is what the blended *)
(* coefficients give.                                                      *)
LEMMA SeriesEntry ==
  ASSUME NEW x, NEW y, NEW c, NEW d, x \in Cplx, y \in Cplx, c \in Int, d \in Int
  PROVE  LET cube == cadd(times(c, x), <<d, 0>>)
         IN  cadd(cadd(times(-3, y), <<6, 0>>), cadd(times(6, <<-x[2], x[1]>>), <<cube[2], -cube[1]>>))
               = cadd(cadd(cmul(<<0, 6 - c>>, x), cmul(<<-3, 0>>, y)), <<6, -d>>)
<1> DEFINE x1 == x[1]
           x2 == x[2]
           y1 == y[1]
           y2 == y[2]
<1>1. x = <<x1, x2>> /\ y = <<y1, y2>> /\ x1 \in Int /\ x2 \in Int /\ y1 \in Int /\ y2 \in Int
  BY DEF Cplx
<1> HIDE DEF x1, x2, y1, y2
<1>2. QED BY <1>1, SMTT(30) DEF cadd, times, cmul

(* An entry off the diagonal.                                              *)
LEMMA SeriesEntryOff ==
  ASSUME NEW x, NEW y, NEW c, x \in Cplx, y \in Cplx, c \in Int
  PROVE  LET cube == cadd(times(c, x), <<0, 0>>)
         IN  cadd(cadd(times(-3, y), <<0, 0>>), cadd(times(6, <<-x[2], x[1]>>), <<cube[2], -cube[1]>>))
               = cadd(cadd(cmul(<<0, 6 - c>>, x), cmul(<<-3, 0>>, y)), <<0, 0>>)
<1> DEFINE x1 == x[1]
           x2 == x[2]
           y1 == y[1]
           y2 == y[2]
<1>1. x = <<x1, x2>> /\ y = <<y1, y2>> /\ x1 \in Int /\ x2 \in Int /\ y1 \in Int /\ y2 \in Int
  BY DEF Cplx
<1> HIDE DEF x1, x2, y1, y2
<1>2. QED BY <1>1, SMTT(30) DEF cadd, times, cmul

(* The series of a single link is the matrix of the coefficients the slabs *)
(* blend in.                                                               *)
LEMMA TaylorIs ==
  ASSUME NEW q, NEW a, NEW b, NEW x1, NEW y1, NEW x2, NEW y2, NEW x5, NEW y5,
         q \in Mat(3), a \in Int, b \in Int, x1 \in Int, y1 \in Int, x2 \in Int, y2 \in Int, x5 \in Int, y5 \in Int,
         Herm(q, a, b, x1, y1, x2, y2, x5, y5)
  PROVE  Taylor(q) = FromCoefficients(SmallCoefficients(q), q)
<1> DEFINE q2 == Product(3, q, q)
           q3 == Cube(q)
           c == c1Of(q)
           d == c0Of(q)
           diag(k) == k \in {0, 4, 8}
           series(k) == cadd(cadd(times(-3, q2[k]), IF diag(k) THEN <<6, 0>> ELSE <<0, 0>>),
                         cadd(times(6, <<-q[k][2], q[k][1]>>), <<q3[k][2], -q3[k][1]>>))
           blended(k) == cadd(cadd(cmul(<<0, 6 - c>>, q[k]), cmul(<<-3, 0>>, q2[k])), IF diag(k) THEN <<6, -d>> ELSE <<0, 0>>)
<1>1. 3 \in 1 .. 3 /\ Entries(3) = 0 .. 8
  BY DEF Entries
<1>2. q3 \in Mat(3) /\ q2 \in Mat(3) /\ c \in Int /\ d \in Int
  BY CubeIs
<1>3. \A k \in 0 .. 8 : q3[k] = cadd(times(c, q[k]), IF diag(k) THEN <<d, 0>> ELSE <<0, 0>>)
  BY CubeIs
<1>4. mul_3x3(q, q) = q2 /\ mul_3x3(q2, q) = q3
  <2>1. mul_3x3(q, q) = q2
    BY Products3
  <2>2. mul_3x3(q2, q) = Product(3, q2, q)
    BY <1>2, Products3
  <2>3. Product(3, q2, q) = q3
    BY <1>1, Associative DEF Cube
  <2>4. QED BY <2>1, <2>2, <2>3
<1>5. SmallCoefficients(q)[1] = <<6, -d>> /\ SmallCoefficients(q)[2] = <<0, 6 - c>> /\ SmallCoefficients(q)[3] = <<-3, 0>>
  BY DEF SmallCoefficients
<1>6. \A k \in 0 .. 8 : q[k] \in Cplx /\ q2[k] \in Cplx
  BY <1>1, <1>2 DEF Mat, Cplxs
<1> HIDE DEF q2, q3, c, d
<1>7. Taylor(q) = [k \in 0 .. 8 |-> series(k)]
  BY <1>1, <1>4, Zenon DEF Taylor
<1>8. FromCoefficients(SmallCoefficients(q), q) = [k \in 0 .. 8 |-> blended(k)]
  BY <1>1, <1>4, <1>5, Zenon DEF FromCoefficients
<1>9. \A k \in 0 .. 8 : series(k) = blended(k)
  <2> TAKE k \in 0 .. 8
  <2>1. CASE diag(k)
    <3>1. q3[k] = cadd(times(c, q[k]), <<d, 0>>)
      BY <1>3, <2>1
    <3>2. cadd(cadd(times(-3, q2[k]), <<6, 0>>), cadd(times(6, <<-q[k][2], q[k][1]>>), <<q3[k][2], -q3[k][1]>>))
            = cadd(cadd(cmul(<<0, 6 - c>>, q[k]), cmul(<<-3, 0>>, q2[k])), <<6, -d>>)
      BY <1>2, <1>6, <3>1, SeriesEntry
    <3>3. QED BY <2>1, <3>2
  <2>2. CASE ~diag(k)
    <3>1. q3[k] = cadd(times(c, q[k]), <<0, 0>>)
      BY <1>3, <2>2
    <3>2. cadd(cadd(times(-3, q2[k]), <<0, 0>>), cadd(times(6, <<-q[k][2], q[k][1]>>), <<q3[k][2], -q3[k][1]>>))
            = cadd(cadd(cmul(<<0, 6 - c>>, q[k]), cmul(<<-3, 0>>, q2[k])), <<0, 0>>)
      BY <1>2, <1>6, <3>1, SeriesEntryOff
    <3>3. QED BY <2>2, <3>2
  <2>3. QED BY <2>1, <2>2
<1> HIDE DEF series, blended
<1>10. QED BY <1>7, <1>8, <1>9

(* expi_su2 is c + gamma P.                                                *)
LEMMA Exponential2 ==
  ASSUME NEW h \in [1 .. 8 -> Int], NEW c \in Int, NEW s \in Int
  PROVE  expi_su2(pack_algebra_2(h), c, s) = Plus(Scaled(c, Identity(2)), Scaled(s, pack_algebra_2(h)))
<1> DEFINE p == pack_algebra_2(h)
           id == Identity(2)
           x == Scaled(c, id)
           y == Scaled(s, p)
           z == Plus(x, y)
           v == expi_su2(p, c, s)
<1>1. 2 \in 1 .. 3 /\ Entries(2) = 0 .. 3
  BY DEF Entries
<1>2. h[1] \in Int /\ h[2] \in Int /\ h[3] \in Int
  OBVIOUS
<1>3. p[0] = <<0, h[3]>> /\ p[1] = <<h[2], h[1]>> /\ p[2] = <<-h[2], h[1]>> /\ p[3] = <<0, -h[3]>>
  BY Pack2
<1>4. p \in Mat(2)
  <2>1. p = [e \in 0 .. 3 |-> p[e]]
    BY Pack2
  <2> HIDE DEF p
  <2>2. p[0] \in Cplx /\ p[1] \in Cplx /\ p[2] \in Cplx /\ p[3] \in Cplx
    BY <1>2, <1>3 DEF Cplx
  <2>3. \A k \in 0 .. 3 : p[k] \in Cplx
    BY <2>2
  <2>4. QED BY <1>1, <2>1, <2>3 DEF Mat, Cplxs
<1>5. id[0] = <<1, 0>> /\ id[1] = <<0, 0>> /\ id[2] = <<0, 0>> /\ id[3] = <<1, 0>>
  BY Identity2
<1>6. id \in Mat(2)
  BY DEF Identity, Mat, Cplxs, Cplx
<1> HIDE DEF p, id
<1>7. x \in Mat(2) /\ \A k \in Entries(2) : x[k] = times(c, id[k])
  BY <1>1, <1>6, ScaledAt
<1>8. y \in Mat(2) /\ \A k \in Entries(2) : y[k] = times(s, p[k])
  BY <1>1, <1>4, ScaledAt
<1> HIDE DEF x, y
<1>9. z \in Mat(2) /\ \A k \in Entries(2) : z[k] = cadd(x[k], y[k])
  BY <1>1, <1>7, <1>8, PlusAt
<1> HIDE DEF z
<1>10. /\ v = [k \in 0 .. 3 |-> v[k]]
       /\ v[0] = <<c, s * h[3]>> /\ v[1] = <<s * h[2], s * h[1]>>
       /\ v[2] = <<-s * h[2], s * h[1]>> /\ v[3] = <<c, -s * h[3]>>
  BY <1>1, <1>3 DEF expi_su2
<1> HIDE DEF v
<1>11. z[0] = cadd(times(c, id[0]), times(s, p[0])) /\ z[1] = cadd(times(c, id[1]), times(s, p[1]))
       /\ z[2] = cadd(times(c, id[2]), times(s, p[2])) /\ z[3] = cadd(times(c, id[3]), times(s, p[3]))
  BY <1>1, <1>7, <1>8, <1>9
<1>12. v[0] = z[0] /\ v[1] = z[1] /\ v[2] = z[2] /\ v[3] = z[3]
  BY <1>2, <1>3, <1>5, <1>10, <1>11 DEF cadd, times
<1>13. \A k \in 0 .. 3 : v[k] = z[k]
  BY <1>12
<1>14. v = z
  BY <1>1, <1>9, <1>10, <1>13 DEF Mat, Cplxs
<1>15. QED BY <1>14 DEF v, z, x, y, p, id

(* The exponentials of both groups are exact: for any momentum and any     *)
(* angle.                                                                  *)
LEMMA ExponentialIsExact ==
  ASSUME NEW N \in 2 .. 3, NEW h \in [1 .. 8 -> Int], NEW t \in Factors, NEW w \in Int, t.w2 = w * w
  PROVE  ExponentialExact(N, h, t, w)
<1> DEFINE q == Hermitian(pack_algebra_3(h))
           f == ch_coeff_pass_(t)
           e2u == cmul(<<t.cu, t.su>>, <<t.cu, t.su>>)
           at(x) == cadd(f[1], cadd(times(x, f[2]), times(x * x, f[3])))
           other(k) == cmul(<<t.cu, -t.su>>, <<t.cw, k * w * t.xi>>)
           den == 9 * t.u * t.u - w * w
<1>1. expi_su2(pack_algebra_2(h), t.cu, t.su) = Plus(Scaled(t.cu, Identity(2)), Scaled(t.su, pack_algebra_2(h)))
  <2>1. t.cu \in Int /\ t.su \in Int
    BY DEF Factors
  <2>2. QED BY <2>1, Exponential2
<1>2. q \in Mat(3)
  BY HermitianIs
<1>3. PICK a, b, x1, y1, x2, y2, x5, y5 \in Int : Herm(q, a, b, x1, y1, x2, y2, x5, y5)
  BY HermitianIs
<1> HIDE DEF q
<1>4. Product(3, q, Product(3, q, q)) = Plus(Scaled(c1Of(q), q), Scaled(c0Of(q), Identity(3)))
  BY <1>2, <1>3, CayleyHamilton DEF Cube
<1>5. tr_q3(q) = 3 * c0Of(q)
  BY <1>2, <1>3, TraceOfCube
<1>6. Taylor(q) = FromCoefficients(SmallCoefficients(q), q)
  BY <1>2, <1>3, TaylorIs
<1>7. /\ at(2 * t.u) = times(den, e2u)
      /\ at(w - t.u) = times(den, other(1))
      /\ at(-w - t.u) = times(den, other(-1))
  BY Coefficients
<1>8. QED BY <1>1, <1>4, <1>5, <1>6, <1>7, Zenon DEF ExponentialExact, q

-----------------------------------------------------------------------------
(* Vectors of three: products, cross product, orthogonalisation.           *)

Vec3 == [1 .. 3 -> Cplx]
(* The product of two vectors, conjugate in the first.                     *)
HDot(x, y) == cadd(cadd(cmul_a_conj(x[1], y[1]), cmul_a_conj(x[2], y[2])), cmul_a_conj(x[3], y[3]))
Sq(x) == HDot(x, x)[1]
CrossAt(x, y, i, j) == conj(csub(cmul(x[i], y[j]), cmul(x[j], y[i])))
CrossOf(x, y) == <<CrossAt(x, y, 2, 3), CrossAt(x, y, 3, 1), CrossAt(x, y, 1, 2)>>
Minor(y, z, i, j) == csub(cmul(y[i], z[j]), cmul(y[j], z[i]))
Det3(x, y, z) == cadd(cadd(cmul(x[1], Minor(y, z, 2, 3)), cmul(x[2], Minor(y, z, 3, 1))), cmul(x[3], Minor(y, z, 1, 2)))
(* y without its part along x, times the square of x.                      *)
MadeOrthogonal(x, y) == [j \in 1 .. 3 |-> csub(times(Sq(x), y[j]), cmul(HDot(x, y), x[j]))]

(* The six numbers of a vector.                                            *)
LEMMA Parts ==
  ASSUME NEW x \in Vec3
  PROVE  \E a, b, c, d, e, f \in Int : x[1] = <<a, b>> /\ x[2] = <<c, d>> /\ x[3] = <<e, f>>
<1>1. x[1] \in Cplx /\ x[2] \in Cplx /\ x[3] \in Cplx
  BY DEF Vec3
<1>2. PICK a \in Int, b \in Int : x[1] = <<a, b>>
  BY <1>1 DEF Cplx
<1>3. PICK c \in Int, d \in Int : x[2] = <<c, d>>
  BY <1>1 DEF Cplx
<1>4. PICK e \in Int, f \in Int : x[3] = <<e, f>>
  BY <1>1 DEF Cplx
<1>5. QED BY <1>2, <1>3, <1>4

(* A square is not negative.                                               *)
LEMMA SquareNonneg ==
  ASSUME NEW a \in Int
  PROVE  a * a >= 0 /\ (a # 0 => a * a > 0)
  BY SMTT(30)

(* The hermitian product: conjugate when swapped, real with itself.        *)
LEMMA DotFacts ==
  ASSUME NEW x \in Vec3, NEW y \in Vec3
  PROVE  /\ HDot(x, y) \in Cplx /\ HDot(y, x) = conj(HDot(x, y))
         /\ HDot(x, x) = <<Sq(x), 0>> /\ Sq(x) \in Int
<1>1. PICK a, b, c, d, e, f \in Int : x[1] = <<a, b>> /\ x[2] = <<c, d>> /\ x[3] = <<e, f>>
  BY Parts
<1>2. PICK p, q, r, s, t, u \in Int : y[1] = <<p, q>> /\ y[2] = <<r, s>> /\ y[3] = <<t, u>>
  BY Parts
<1>3. HDot(x, y) = <<(a * p + b * q) + (c * r + d * s) + (e * t + f * u), (a * q - b * p) + (c * s - d * r) + (e * u - f * t)>>
  BY <1>1, <1>2 DEF HDot, cadd, cmul_a_conj
<1>4. HDot(y, x) = <<(a * p + b * q) + (c * r + d * s) + (e * t + f * u), -((a * q - b * p) + (c * s - d * r) + (e * u - f * t))>>
  BY <1>1, <1>2 DEF HDot, cadd, cmul_a_conj
<1>5. HDot(x, x) = <<(a * a + b * b) + (c * c + d * d) + (e * e + f * f), 0>>
  BY <1>1 DEF HDot, cadd, cmul_a_conj
<1>6. HDot(x, y) \in Cplx
  BY <1>3 DEF Cplx
<1>7. HDot(y, x) = conj(HDot(x, y))
  BY <1>3, <1>4 DEF conj
<1>8. HDot(x, x) = <<Sq(x), 0>> /\ Sq(x) \in Int
  BY <1>5 DEF Sq
<1>9. QED BY <1>6, <1>7, <1>8

(* The conjugate cross product is orthogonal to both, its determinant with *)
(* them is its square, and that is the product of theirs if they are       *)
(* orthogonal.                                                             *)
LEMMA CrossFacts ==
  ASSUME NEW x \in Vec3, NEW y \in Vec3
  PROVE  /\ HDot(x, CrossOf(x, y)) = <<0, 0>>
         /\ HDot(y, CrossOf(x, y)) = <<0, 0>>
         /\ CrossOf(x, y) \in Vec3
         /\ Det3(x, y, CrossOf(x, y)) = <<Sq(CrossOf(x, y)), 0>>
         /\ HDot(x, y) = <<0, 0>> => Sq(CrossOf(x, y)) = Sq(x) * Sq(y)
<1>1. PICK a, b, c, d, e, f \in Int : x[1] = <<a, b>> /\ x[2] = <<c, d>> /\ x[3] = <<e, f>>
  BY Parts
<1>2. PICK p, q, r, s, t, u \in Int : y[1] = <<p, q>> /\ y[2] = <<r, s>> /\ y[3] = <<t, u>>
  BY Parts
<1> DEFINE z == CrossOf(x, y)
           z1 == (c * t - d * u) - (e * r - f * s)
           w1 == -((c * u + d * t) - (e * s + f * r))
           z2 == (e * p - f * q) - (a * t - b * u)
           w2 == -((e * q + f * p) - (a * u + b * t))
           z3 == (a * r - b * s) - (c * p - d * q)
           w3 == -((a * s + b * r) - (c * q + d * p))
<1>3. z[1] = <<z1, w1>> /\ z[2] = <<z2, w2>> /\ z[3] = <<z3, w3>> /\ z = [k \in 1 .. 3 |-> z[k]]
  <2>1. z = <<CrossAt(x, y, 2, 3), CrossAt(x, y, 3, 1), CrossAt(x, y, 1, 2)>>
    BY DEF CrossOf
  <2>2. CrossAt(x, y, 2, 3) = <<z1, w1>>
    BY <1>1, <1>2 DEF CrossAt, conj, csub, cmul
  <2>3. CrossAt(x, y, 3, 1) = <<z2, w2>>
    BY <1>1, <1>2 DEF CrossAt, conj, csub, cmul
  <2>4. CrossAt(x, y, 1, 2) = <<z3, w3>>
    BY <1>1, <1>2 DEF CrossAt, conj, csub, cmul
  <2> HIDE DEF z, z1, z2, z3, w1, w2, w3
  <2>5. QED BY <2>1, <2>2, <2>3, <2>4
<1>4. z1 \in Int /\ z2 \in Int /\ z3 \in Int /\ w1 \in Int /\ w2 \in Int /\ w3 \in Int
  OBVIOUS
<1> HIDE DEF z
<1>5. z \in Vec3
  <2> HIDE DEF z1, z2, z3, w1, w2, w3
  <2>1. z[1] \in Cplx /\ z[2] \in Cplx /\ z[3] \in Cplx
    BY <1>3, <1>4 DEF Cplx
  <2>2. QED BY <1>3, <2>1 DEF Vec3
<1>6. HDot(x, z) = <<0, 0>>
  BY <1>1, <1>3, SMTT(60) DEF HDot, cadd, cmul_a_conj
<1>7. HDot(y, z) = <<0, 0>>
  BY <1>2, <1>3, SMTT(60) DEF HDot, cadd, cmul_a_conj
<1>8. HDot(z, z) = <<z1 * z1 + w1 * w1 + z2 * z2 + w2 * w2 + z3 * z3 + w3 * w3, 0>>
  <2> HIDE DEF z1, z2, z3, w1, w2, w3
  <2>1. QED BY <1>3, <1>4 DEF HDot, cadd, cmul_a_conj
<1>9. Det3(x, y, z) = <<z1 * z1 + w1 * w1 + z2 * z2 + w2 * w2 + z3 * z3 + w3 * w3, 0>>
  <2> DEFINE re1 == (r * z3 - s * w3) - (t * z2 - u * w2)
             im1 == (r * w3 + s * z3) - (t * w2 + u * z2)
             re2 == (t * z1 - u * w1) - (p * z3 - q * w3)
             im2 == (t * w1 + u * z1) - (p * w3 + q * z3)
             re3 == (p * z2 - q * w2) - (r * z1 - s * w1)
             im3 == (p * w2 + q * z2) - (r * w1 + s * z1)
             re == (a * re1 - b * im1) + (c * re2 - d * im2) + (e * re3 - f * im3)
             im == (a * im1 + b * re1) + (c * im2 + d * re2) + (e * im3 + f * re3)
  <2>1. Minor(y, z, 2, 3) = <<re1, im1>> /\ Minor(y, z, 3, 1) = <<re2, im2>> /\ Minor(y, z, 1, 2) = <<re3, im3>>
    <3> HIDE DEF z1, z2, z3, w1, w2, w3
    <3>1. QED BY <1>2, <1>3, <1>4 DEF Minor, csub, cmul
  <2>2. Det3(x, y, z) = <<re, im>>
    <3>1. re1 \in Int /\ re2 \in Int /\ re3 \in Int /\ im1 \in Int /\ im2 \in Int /\ im3 \in Int
      <4> HIDE DEF z1, z2, z3, w1, w2, w3
      <4>1. QED BY <1>4
    <3> HIDE DEF re1, re2, re3, im1, im2, im3
    <3>2. QED BY <1>1, <2>1, <3>1 DEF Det3, cadd, cmul
  <2>3. re = z1 * z1 + w1 * w1 + z2 * z2 + w2 * w2 + z3 * z3 + w3 * w3
    BY SMTT(60)
  <2>4. im = 0
    BY SMTT(60)
  <2> HIDE DEF re, im
  <2>5. QED BY <2>2, <2>3, <2>4
<1>10. ASSUME HDot(x, y) = <<0, 0>>
       PROVE  Sq(z) = Sq(x) * Sq(y)
  <2> DEFINE dr == (a * p + b * q) + (c * r + d * s) + (e * t + f * u)
             di == (a * q - b * p) + (c * s - d * r) + (e * u - f * t)
  <2>1. dr = 0 /\ di = 0
    <3>1. HDot(x, y) = <<dr, di>>
      BY <1>1, <1>2 DEF HDot, cadd, cmul_a_conj
    <3> HIDE DEF dr, di
    <3>2. QED BY <1>10, <3>1
  <2>2. Sq(x) = a * a + b * b + c * c + d * d + e * e + f * f
    BY <1>1 DEF Sq, HDot, cadd, cmul_a_conj
  <2>3. Sq(y) = p * p + q * q + r * r + s * s + t * t + u * u
    BY <1>2 DEF Sq, HDot, cadd, cmul_a_conj
  <2>4. Sq(z) = z1 * z1 + w1 * w1 + z2 * z2 + w2 * w2 + z3 * z3 + w3 * w3
    BY <1>8 DEF Sq
  <2>5. z1 * z1 + w1 * w1 + z2 * z2 + w2 * w2 + z3 * z3 + w3 * w3 + dr * dr + di * di
          = (a * a + b * b + c * c + d * d + e * e + f * f) * (p * p + q * q + r * r + s * s + t * t + u * u)
    BY SMTT(60)
  <2>6. dr * dr = 0 /\ di * di = 0
    <3> HIDE DEF dr, di
    <3>1. QED BY <2>1
  <2> HIDE DEF dr, di, z1, z2, z3, w1, w2, w3
  <2>7. QED BY <1>4, <2>2, <2>3, <2>4, <2>5, <2>6
<1>11. Sq(z) = z1 * z1 + w1 * w1 + z2 * z2 + w2 * w2 + z3 * z3 + w3 * w3
  BY <1>8 DEF Sq
<1> HIDE DEF z1, z2, z3, w1, w2, w3
<1>12. Det3(x, y, z) = <<Sq(z), 0>>
  BY <1>9, <1>11
<1>13. QED BY <1>5, <1>6, <1>7, <1>10, <1>12 DEF z

(* Gram and Schmidt: what is left of the second row is orthogonal to the   *)
(* first.                                                                  *)
LEMMA OrthogonalFacts ==
  ASSUME NEW x \in Vec3, NEW y \in Vec3
  PROVE  MadeOrthogonal(x, y) \in Vec3 /\ HDot(x, MadeOrthogonal(x, y)) = <<0, 0>>
<1>1. PICK a, b, c, d, e, f \in Int : x[1] = <<a, b>> /\ x[2] = <<c, d>> /\ x[3] = <<e, f>>
  BY Parts
<1>2. PICK p, q, r, s, t, u \in Int : y[1] = <<p, q>> /\ y[2] = <<r, s>> /\ y[3] = <<t, u>>
  BY Parts
<1> DEFINE z == MadeOrthogonal(x, y)
           dr == (a * p + b * q) + (c * r + d * s) + (e * t + f * u)
           di == (a * q - b * p) + (c * s - d * r) + (e * u - f * t)
           n == (a * a + b * b) + (c * c + d * d) + (e * e + f * f)
<1>3. HDot(x, y) = <<dr, di>> /\ dr \in Int /\ di \in Int
  BY <1>1, <1>2 DEF HDot, cadd, cmul_a_conj
<1>4. Sq(x) = n /\ n \in Int
  BY <1>1 DEF Sq, HDot, cadd, cmul_a_conj
<1>5. z = [j \in 1 .. 3 |-> csub(times(Sq(x), y[j]), cmul(HDot(x, y), x[j]))]
  BY DEF MadeOrthogonal
<1> HIDE DEF z, dr, di, n
<1>6. z[1] = <<n * p - (dr * a - di * b), n * q - (dr * b + di * a)>>
  BY <1>1, <1>2, <1>3, <1>4, <1>5 DEF csub, times, cmul
<1>7. z[2] = <<n * r - (dr * c - di * d), n * s - (dr * d + di * c)>>
  BY <1>1, <1>2, <1>3, <1>4, <1>5 DEF csub, times, cmul
<1>8. z[3] = <<n * t - (dr * e - di * f), n * u - (dr * f + di * e)>>
  BY <1>1, <1>2, <1>3, <1>4, <1>5 DEF csub, times, cmul
<1>9. z \in Vec3
  <2>1. z[1] \in Cplx
    BY <1>3, <1>4, <1>6 DEF Cplx
  <2>2. z[2] \in Cplx
    BY <1>3, <1>4, <1>7 DEF Cplx
  <2>3. z[3] \in Cplx
    BY <1>3, <1>4, <1>8 DEF Cplx
  <2>4. \A k \in 1 .. 3 : z[k] \in Cplx
    BY <2>1, <2>2, <2>3
  <2>5. z = [k \in 1 .. 3 |-> z[k]]
    BY <1>5
  <2>6. QED BY <2>4, <2>5 DEF Vec3
<1>10. HDot(x, z) = <<(a * p + b * q + c * r + d * s + e * t + f * u) * n - dr * n,
                      ((a * q - b * p) + (c * s - d * r) + (e * u - f * t)) * n - di * n>>
  <2>1. HDot(x, z) = <<a * (n * p - (dr * a - di * b)) + b * (n * q - (dr * b + di * a))
                        + c * (n * r - (dr * c - di * d)) + d * (n * s - (dr * d + di * c))
                        + e * (n * t - (dr * e - di * f)) + f * (n * u - (dr * f + di * e)),
                       a * (n * q - (dr * b + di * a)) - b * (n * p - (dr * a - di * b))
                        + c * (n * s - (dr * d + di * c)) - d * (n * r - (dr * c - di * d))
                        + e * (n * u - (dr * f + di * e)) - f * (n * t - (dr * e - di * f))>>
    BY <1>1, <1>3, <1>4, <1>6, <1>7, <1>8 DEF HDot, cadd, cmul_a_conj
  <2>2. a * (n * p - (dr * a - di * b)) + b * (n * q - (dr * b + di * a))
         + c * (n * r - (dr * c - di * d)) + d * (n * s - (dr * d + di * c))
         + e * (n * t - (dr * e - di * f)) + f * (n * u - (dr * f + di * e))
        = (a * p + b * q + c * r + d * s + e * t + f * u) * n - dr * (a * a + b * b + c * c + d * d + e * e + f * f)
    BY <1>3, <1>4, SMTT(60)
  <2>3. a * (n * q - (dr * b + di * a)) - b * (n * p - (dr * a - di * b))
         + c * (n * s - (dr * d + di * c)) - d * (n * r - (dr * c - di * d))
         + e * (n * u - (dr * f + di * e)) - f * (n * t - (dr * e - di * f))
        = ((a * q - b * p) + (c * s - d * r) + (e * u - f * t)) * n - di * (a * a + b * b + c * c + d * d + e * e + f * f)
    BY <1>3, <1>4, SMTT(60)
  <2>4. a * a + b * b + c * c + d * d + e * e + f * f = n
    BY DEF n
  <2>5. QED BY <2>1, <2>2, <2>3, <2>4
<1>11. /\ a * p + b * q + c * r + d * s + e * t + f * u = dr
       /\ (a * q - b * p) + (c * s - d * r) + (e * u - f * t) = di
  BY DEF dr, di
<1>12. HDot(x, z) = <<dr * n - dr * n, di * n - di * n>>
  BY <1>10, <1>11
<1>13. HDot(x, z) = <<0, 0>>
  BY <1>3, <1>4, <1>12
<1>14. QED BY <1>9, <1>13 DEF z

-----------------------------------------------------------------------------
(* project_su3 in terms of these.                                          *)

(* What project_su3 adds up.                                               *)
RowSquares(x) == [j \in 1 .. 3 |-> cmul_a_conj(x[j], x[j])[1]]
Dotted(x, y) == [j \in 1 .. 3 |-> cmul_a_conj(x[j], y[j])]
FirstRow(m) == [j \in 1 .. 3 |-> m[j - 1]]
SecondRow(m) == [j \in 1 .. 3 |-> m[2 + j]]

(* A product with a conjugate is a Gaussian integer.                       *)
LEMMA DotType ==
  ASSUME NEW u, NEW v, u \in Cplx, v \in Cplx
  PROVE  cmul_a_conj(u, v) \in Cplx
BY DEF Cplx, cmul_a_conj

(* The sum over the components is the hermitian product.                   *)
LEMMA DottedIs ==
  ASSUME NEW x \in Vec3, NEW y \in Vec3
  PROVE  CSumOf(Dotted(x, y)) = HDot(x, y)
<1> DEFINE f == Dotted(x, y)
<1>1. x[1] \in Cplx /\ x[2] \in Cplx /\ x[3] \in Cplx /\ y[1] \in Cplx /\ y[2] \in Cplx /\ y[3] \in Cplx
  BY DEF Vec3
<1>2. f[1] = cmul_a_conj(x[1], y[1]) /\ f[2] = cmul_a_conj(x[2], y[2]) /\ f[3] = cmul_a_conj(x[3], y[3])
  BY DEF Dotted
<1>3. f \in Cplxs(1 .. 3)
  <2>1. \A j \in 1 .. 3 : x[j] \in Cplx /\ y[j] \in Cplx
    BY DEF Vec3
  <2>2. \A j \in 1 .. 3 : cmul_a_conj(x[j], y[j]) \in Cplx
    BY <2>1, DotType
  <2>3. QED BY <2>2 DEF Dotted, Cplxs
<1> HIDE DEF f
<1>4. CSumOf(f) = <<f[1][1] + f[2][1] + f[3][1], f[1][2] + f[2][2] + f[3][2]>>
  BY <1>3, CSumFrom1To3
<1>5. CSumOf(f) = cadd(cadd(f[1], f[2]), f[3])
  BY <1>4 DEF cadd
<1>6. QED BY <1>2, <1>5 DEF f, HDot

(* The sum of the squares is the square.                                   *)
LEMMA SquaredIs ==
  ASSUME NEW x \in Vec3
  PROVE  SumFunction(RowSquares(x)) = Sq(x)
<1> DEFINE f == RowSquares(x)
<1>1. x[1] \in Cplx /\ x[2] \in Cplx /\ x[3] \in Cplx
  BY DEF Vec3
<1>2. f[1] = cmul_a_conj(x[1], x[1])[1] /\ f[2] = cmul_a_conj(x[2], x[2])[1] /\ f[3] = cmul_a_conj(x[3], x[3])[1]
  BY DEF RowSquares
<1>3. f \in Ints(1 .. 3)
  <2>1. \A j \in 1 .. 3 : cmul_a_conj(x[j], x[j]) \in Cplx
    BY DotType DEF Vec3
  <2>2. \A j \in 1 .. 3 : cmul_a_conj(x[j], x[j])[1] \in Int
    BY <2>1 DEF Cplx
  <2>3. QED BY <2>2 DEF RowSquares, Ints
<1> HIDE DEF f
<1>4. SumFunction(f) = f[1] + f[2] + f[3]
  BY <1>3, SumFrom1To3
<1>5. QED BY <1>2, <1>4 DEF f, HDot, Sq, cadd

(* The rows of a matrix are vectors.                                       *)
LEMMA RowsOf ==
  ASSUME NEW m \in Mat(3)
  PROVE  FirstRow(m) \in Vec3 /\ SecondRow(m) \in Vec3
<1>1. \A j \in 1 .. 3 : j - 1 \in Entries(3) /\ 2 + j \in Entries(3)
  BY DEF Entries
<1>2. \A e \in Entries(3) : m[e] \in Cplx
  BY DEF Mat, Cplxs
<1>3. QED BY <1>1, <1>2 DEF FirstRow, SecondRow, Vec3

(* project_su3 is the first row, the second made orthogonal to it, their   *)
(* conjugate cross product, and the three squares.                         *)
LEMMA ProjectIs ==
  ASSUME NEW m \in Mat(3), NEW x, NEW y, x = FirstRow(m), y = MadeOrthogonal(x, SecondRow(m))
  PROVE  project_su3(m) = [rows |-> <<x, y, CrossOf(x, y)>>, squares |-> <<Sq(x), Sq(y), Sq(x) * Sq(y)>>]
<1> DEFINE raw == SecondRow(m)
           o == [j \in 1 .. 3 |-> csub(times(SumFunction(RowSquares(x)), raw[j]), cmul(CSumOf(Dotted(x, raw)), x[j]))]
<1>1. x \in Vec3 /\ raw \in Vec3
  BY RowsOf
<1>2. y \in Vec3
  BY <1>1, OrthogonalFacts
<1>3. o = y
  <2>1. SumFunction(RowSquares(x)) = Sq(x) /\ CSumOf(Dotted(x, raw)) = HDot(x, raw)
    BY <1>1, SquaredIs, DottedIs
  <2>2. QED BY <2>1 DEF MadeOrthogonal
<1>4. project_su3(m) = [rows |-> <<x, o, CrossOf(x, o)>>,
                        squares |-> <<SumFunction(RowSquares(x)), SumFunction(RowSquares(o)),
                                    SumFunction(RowSquares(x)) * SumFunction(RowSquares(o))>>]
  BY ZenonT(40) DEF project_su3, SumOver, CSum, RowSquares, Dotted, FirstRow, SecondRow, CrossOf, CrossAt
<1>5. SumFunction(RowSquares(x)) = Sq(x) /\ SumFunction(RowSquares(y)) = Sq(y)
  BY <1>1, <1>2, SquaredIs
<1>6. QED BY <1>3, <1>4, <1>5

-----------------------------------------------------------------------------
(* Orthogonal rows and their cross product are a matrix of the group, up to*)
(* the stated squares.                                                     *)

Triple(S, u, v, w) == S = {u, v, w} /\ u # v /\ u # w /\ v # w

(* A sum over three elements.                                              *)
LEMMA SumOfTriple ==
  ASSUME NEW S, NEW u, NEW v, NEW w, NEW f, Triple(S, u, v, w), f \in Ints(S)
  PROVE  SumFunction(f) = f[u] + f[v] + f[w]
<1> DEFINE g == [k \in S \ {u} |-> f[k]]
           h == [k \in (S \ {u}) \ {v} |-> g[k]]
           e == [k \in ((S \ {u}) \ {v}) \ {w} |-> h[k]]
<1>1. DOMAIN f = S /\ \A k \in S : f[k] \in Int
  BY DEF Ints
<1>2. IsFiniteSet(S) /\ IsFiniteSet(S \ {u}) /\ IsFiniteSet((S \ {u}) \ {v})
  <2>1. IsFiniteSet(S)
    <3>1. IsFiniteSet({} \cup {u})
      BY FS_EmptySet, FS_AddElement
    <3>2. IsFiniteSet(({} \cup {u}) \cup {v})
      BY <3>1, FS_AddElement
    <3>3. IsFiniteSet((({} \cup {u}) \cup {v}) \cup {w})
      BY <3>2, FS_AddElement
    <3>4. S = (({} \cup {u}) \cup {v}) \cup {w}
      BY DEF Triple
    <3>5. QED BY <3>3, <3>4
  <2>2. QED BY <2>1, FS_RemoveElement
<1>3. SumFunction(f) = f[u] + SumFunction(g)
  <2>1. u \in DOMAIN f /\ g = [k \in DOMAIN f \ {u} |-> f[k]] /\ IsFiniteSet(DOMAIN f) /\ \A k \in DOMAIN f : f[k] \in Int
    BY <1>1, <1>2 DEF Triple
  <2> HIDE DEF g
  <2>2. QED BY <2>1, SumAdds
<1>4. SumFunction(g) = g[v] + SumFunction(h)
  <2>1. v \in DOMAIN g /\ h = [k \in DOMAIN g \ {v} |-> g[k]] /\ IsFiniteSet(DOMAIN g) /\ \A k \in DOMAIN g : g[k] \in Int
    BY <1>1, <1>2 DEF Triple
  <2> HIDE DEF g, h
  <2>2. QED BY <2>1, SumAdds
<1>5. SumFunction(h) = h[w] + SumFunction(e)
  <2>1. w \in DOMAIN h /\ e = [k \in DOMAIN h \ {w} |-> h[k]] /\ IsFiniteSet(DOMAIN h) /\ \A k \in DOMAIN h : h[k] \in Int
    BY <1>1, <1>2 DEF Triple
  <2> HIDE DEF g, h, e
  <2>2. QED BY <2>1, SumAdds
<1>6. SumFunction(e) = 0
  <2>1. DOMAIN e = {}
    BY DEF Triple
  <2> HIDE DEF e
  <2>2. QED BY <2>1, SumEmpty
<1>7. g[v] = f[v] /\ h[w] = f[w] /\ f[u] \in Int /\ f[v] \in Int /\ f[w] \in Int
  BY <1>1 DEF Triple
<1> HIDE DEF g, h, e
<1>8. QED BY <1>3, <1>4, <1>5, <1>6, <1>7

(* A complex sum over three elements.                                      *)
LEMMA CSumOfTriple ==
  ASSUME NEW S, NEW u, NEW v, NEW w, NEW f, Triple(S, u, v, w), f \in Cplxs(S)
  PROVE  CSumOf(f) = cadd(cadd(f[u], f[v]), f[w])
<1>1. Re(f) \in Ints(S) /\ Im(f) \in Ints(S)
  BY PartsTypes
<1>2. SumFunction(Re(f)) = Re(f)[u] + Re(f)[v] + Re(f)[w] /\ SumFunction(Im(f)) = Im(f)[u] + Im(f)[v] + Im(f)[w]
  <2>1. SumFunction(Re(f)) = Re(f)[u] + Re(f)[v] + Re(f)[w]
    BY <1>1, SumOfTriple
  <2>2. SumFunction(Im(f)) = Im(f)[u] + Im(f)[v] + Im(f)[w]
    BY <1>1, SumOfTriple
  <2>3. QED BY <2>1, <2>2
<1>3. /\ Re(f)[u] = f[u][1] /\ Re(f)[v] = f[v][1] /\ Re(f)[w] = f[w][1]
      /\ Im(f)[u] = f[u][2] /\ Im(f)[v] = f[v][2] /\ Im(f)[w] = f[w][2]
  BY DEF Re, Im, Cplxs, Triple
<1>4. QED BY <1>2, <1>3, CSumParts DEF cadd

(* The even permutations, of which the determinant is made.                *)
Triples == {<<1, 2, 3>>, <<2, 3, 1>>, <<3, 1, 2>>}

(* The determinant by the three even permutations of the first row.        *)
LEMMA DeterminantOf ==
  ASSUME NEW x \in Vec3, NEW y \in Vec3, NEW z \in Vec3
  PROVE  CSumOf([c \in Triples |-> cmul(x[c[1]], csub(cmul(y[c[2]], z[c[3]]), cmul(y[c[3]], z[c[2]])))]) = Det3(x, y, z)
<1> DEFINE f == [c \in Triples |-> cmul(x[c[1]], csub(cmul(y[c[2]], z[c[3]]), cmul(y[c[3]], z[c[2]])))]
           u == <<1, 2, 3>>
           v == <<2, 3, 1>>
           w == <<3, 1, 2>>
<1>1. Triple(Triples, u, v, w)
  BY DEF Triples, Triple
<1>2. /\ f[u] = cmul(x[1], Minor(y, z, 2, 3)) /\ f[v] = cmul(x[2], Minor(y, z, 3, 1))
      /\ f[w] = cmul(x[3], Minor(y, z, 1, 2))
  BY DEF Triples, Minor
<1>3. f \in Cplxs(Triples)
  <2>1. \A k \in 1 .. 3 : x[k] \in Cplx /\ y[k] \in Cplx /\ z[k] \in Cplx
    BY DEF Vec3
  <2>2. \A c \in Triples : c[1] \in 1 .. 3 /\ c[2] \in 1 .. 3 /\ c[3] \in 1 .. 3
    BY DEF Triples
  <2>3. \A c \in Triples : csub(cmul(y[c[2]], z[c[3]]), cmul(y[c[3]], z[c[2]])) \in Cplx
    BY <2>1, <2>2, CplxTypes
  <2>4. \A c \in Triples : cmul(x[c[1]], csub(cmul(y[c[2]], z[c[3]]), cmul(y[c[3]], z[c[2]]))) \in Cplx
    BY <2>1, <2>2, <2>3, CplxTypes
  <2>5. QED BY <2>4 DEF Cplxs
<1> HIDE DEF f, u, v, w
<1>4. CSumOf(f) = cadd(cadd(f[u], f[v]), f[w])
  BY <1>1, <1>3, CSumOfTriple
<1>5. QED BY <1>2, <1>4 DEF f, Det3

(* Zero is its conjugate.                                                  *)
LEMMA ConjZero ==
  conj(<<0, 0>>) = <<0, 0>>
<1>1. \A a, b \in Int : conj(<<a, b>>) = <<a, -b>>
  BY Zenon DEF conj
<1>2. -0 = 0
  <2>1. \A r \in Int : -r = 0 - r
    OBVIOUS
  <2>2. 0 \in Int /\ 0 - 0 = 0
    OBVIOUS
  <2>3. QED BY <2>1, <2>2, Zenon
<1>3. conj(<<0, 0>>) = <<0, -0>>
  <2>1. 0 \in Int
    OBVIOUS
  <2>2. QED BY <1>1, <2>1, Zenon
<1>4. QED BY <1>2, <1>3, Zenon

(* Orthogonal rows and their conjugate cross product are in the group.     *)
LEMMA InGroup3 ==
  ASSUME NEW x \in Vec3, NEW y \in Vec3, HDot(x, y) = <<0, 0>>
  PROVE  InGroup(3, [rows |-> <<x, y, CrossOf(x, y)>>, squares |-> <<Sq(x), Sq(y), Sq(x) * Sq(y)>>])
<1> DEFINE z == CrossOf(x, y)
           p == [rows |-> <<x, y, z>>, squares |-> <<Sq(x), Sq(y), Sq(x) * Sq(y)>>]
           det == CSumOf([c \in Triples |-> cmul(p.rows[1][c[1]], csub(cmul(p.rows[2][c[2]], p.rows[3][c[3]]),
                  cmul(p.rows[2][c[3]], p.rows[3][c[2]])))])
           dot(i, j) == CSumOf(Dotted(p.rows[i], p.rows[j]))
<1>1. /\ HDot(x, z) = <<0, 0>> /\ HDot(y, z) = <<0, 0>> /\ z \in Vec3
      /\ Det3(x, y, z) = <<Sq(z), 0>> /\ Sq(z) = Sq(x) * Sq(y)
  BY CrossFacts
<1> HIDE DEF z
<1>2. p.rows[1] = x /\ p.rows[2] = y /\ p.rows[3] = z /\ p.squares[1] = Sq(x) /\ p.squares[2] = Sq(y) /\ p.squares[3] = Sq(z)
  BY <1>1
<1> HIDE DEF p
<1>3. \A i \in 1 .. 3 : p.rows[i] \in Vec3
  BY <1>1, <1>2
<1>4. \A i, j \in 1 .. 3 : dot(i, j) = HDot(p.rows[i], p.rows[j])
  BY <1>3, DottedIs
<1> HIDE DEF dot
<1>5. /\ HDot(x, x) = <<Sq(x), 0>> /\ HDot(y, y) = <<Sq(y), 0>> /\ HDot(z, z) = <<Sq(z), 0>>
      /\ HDot(y, x) = <<0, 0>> /\ HDot(z, x) = <<0, 0>> /\ HDot(z, y) = <<0, 0>>
      /\ Sq(x) \in Int /\ Sq(y) \in Int
  <2>1. conj(<<0, 0>>) = <<0, 0>>
    BY ConjZero
  <2>2. QED BY <1>1, <2>1, DotFacts
<1>6. \A i, j \in 1 .. 3 : dot(i, j) = (IF i = j THEN <<p.squares[i], 0>> ELSE <<0, 0>>)
  <2>1. \A i, j \in 1 .. 3 : HDot(p.rows[i], p.rows[j]) = (IF i = j THEN <<p.squares[i], 0>> ELSE <<0, 0>>)
    BY <1>1, <1>2, <1>5
  <2>2. QED BY <1>4, <2>1
<1>7. det = <<Sq(z), 0>>
  <2>1. det = Det3(x, y, z)
    BY <1>1, <1>2, DeterminantOf
  <2> HIDE DEF det
  <2>2. QED BY <1>1, <2>1
<1>8. (\A i \in 1 .. 3 : p.squares[i] > 0) => det[1] > 0 /\ det[2] = 0
  <2> HIDE DEF det
  <2>1. QED BY <1>1, <1>2, <1>7
<1>9. InGroup(3, p)
  <2>1. 3 # 2
    OBVIOUS
  <2>2. QED BY <1>6, <1>8, <2>1, Zenon DEF InGroup, det, dot, CSum, Triples, Dotted
<1>10. QED BY <1>9 DEF p, z

-----------------------------------------------------------------------------
(* The quaternion average of SU(2); the projection is exact.               *)

Vec2 == [1 .. 2 -> Cplx]
Dotted2(x, y) == [j \in 1 .. 2 |-> cmul_a_conj(x[j], y[j])]

(* A sum of two terms counted from 1.                                      *)
LEMMA SumFrom1To2 ==
  ASSUME NEW f \in Ints(1 .. 2)
  PROVE  SumFunction(f) = f[1] + f[2]
<1> DEFINE hi == 2
<1>1. hi \in 1 .. 8 /\ hi = 2 /\ f \in Ints(1 .. hi)
  OBVIOUS
<1> HIDE DEF hi
<1>2. QED BY <1>1, SumUpFrom1

(* The hermitian product of vectors of two.                                *)
LEMMA Dotted2Is ==
  ASSUME NEW x \in Vec2, NEW y \in Vec2
  PROVE  CSumOf(Dotted2(x, y)) = cadd(cmul_a_conj(x[1], y[1]), cmul_a_conj(x[2], y[2]))
<1> DEFINE f == Dotted2(x, y)
<1>1. f[1] = cmul_a_conj(x[1], y[1]) /\ f[2] = cmul_a_conj(x[2], y[2])
  BY DEF Dotted2
<1>2. f \in Cplxs(1 .. 2)
  <2>1. \A j \in 1 .. 2 : x[j] \in Cplx /\ y[j] \in Cplx
    BY DEF Vec2
  <2>2. \A j \in 1 .. 2 : cmul_a_conj(x[j], y[j]) \in Cplx
    BY <2>1, DotType
  <2>3. QED BY <2>2 DEF Dotted2, Cplxs
<1> HIDE DEF f
<1>3. Re(f) \in Ints(1 .. 2) /\ Im(f) \in Ints(1 .. 2)
  BY <1>2, PartsTypes
<1>4. SumFunction(Re(f)) = Re(f)[1] + Re(f)[2] /\ SumFunction(Im(f)) = Im(f)[1] + Im(f)[2]
  <2>1. SumFunction(Re(f)) = Re(f)[1] + Re(f)[2]
    BY <1>3, SumFrom1To2
  <2>2. SumFunction(Im(f)) = Im(f)[1] + Im(f)[2]
    BY <1>3, SumFrom1To2
  <2>3. QED BY <2>1, <2>2
<1>5. Re(f)[1] = f[1][1] /\ Re(f)[2] = f[2][1] /\ Im(f)[1] = f[1][2] /\ Im(f)[2] = f[2][2]
  BY <1>2 DEF Re, Im, Cplxs
<1>6. CSumOf(f) = cadd(f[1], f[2])
  BY <1>4, <1>5, CSumParts DEF cadd
<1>7. QED BY <1>1, <1>6 DEF f

(* A quaternion that is not zero is in the group, up to its norm.          *)
LEMMA InGroup2 ==
  ASSUME NEW P, NEW x, NEW y, NEW n, NEW a, NEW b, NEW c, NEW d,
         x \in Vec2, y \in Vec2, a \in Int, b \in Int, c \in Int, d \in Int,
         P.rows[1] = x, P.rows[2] = y, P.squares[1] = n, P.squares[2] = n, n > 0,
         n = a * a + b * b + c * c + d * d,
         x[1] = <<a, b>>, x[2] = <<c, d>>, y[1] = <<0 - c, d>>, y[2] = <<a, 0 - b>>
  PROVE  InGroup(2, P)
<1> DEFINE det == csub(cmul(P.rows[1][1], P.rows[2][2]), cmul(P.rows[1][2], P.rows[2][1]))
           dot(i, j) == CSumOf(Dotted2(P.rows[i], P.rows[j]))
<1>1. dot(1, 1) = <<n, 0>>
  <2>1. dot(1, 1) = cadd(cmul_a_conj(x[1], x[1]), cmul_a_conj(x[2], x[2]))
    BY Dotted2Is
  <2>2. QED BY <2>1, SMTT(30) DEF cadd, cmul_a_conj
<1>2. dot(2, 2) = <<n, 0>>
  <2>1. dot(2, 2) = cadd(cmul_a_conj(y[1], y[1]), cmul_a_conj(y[2], y[2]))
    BY Dotted2Is
  <2>2. QED BY <2>1, SMTT(30) DEF cadd, cmul_a_conj
<1>3. dot(1, 2) = <<0, 0>>
  <2>1. dot(1, 2) = cadd(cmul_a_conj(x[1], y[1]), cmul_a_conj(x[2], y[2]))
    BY Dotted2Is
  <2>2. QED BY <2>1, SMTT(30) DEF cadd, cmul_a_conj
<1>4. dot(2, 1) = <<0, 0>>
  <2>1. dot(2, 1) = cadd(cmul_a_conj(y[1], x[1]), cmul_a_conj(y[2], x[2]))
    BY Dotted2Is
  <2>2. QED BY <2>1, SMTT(30) DEF cadd, cmul_a_conj
<1>5. det = <<n, 0>>
  BY SMTT(30) DEF csub, cmul
<1> HIDE DEF dot
<1>6. \A i, j \in 1 .. 2 : dot(i, j) = (IF i = j THEN <<P.squares[i], 0>> ELSE <<0, 0>>)
  BY <1>1, <1>2, <1>3, <1>4
<1>7. det[1] > 0 /\ det[2] = 0
  <2> HIDE DEF det
  <2>1. QED BY <1>5
<1>8. \A i \in 1 .. 2 : P.squares[i] > 0
  OBVIOUS
<1>9. QED BY <1>6, <1>7, <1>8, Zenon DEF InGroup, det, dot, CSum, Dotted2

(* A sum of squares that is not zero is positive.                          *)
LEMMA SumOfSquares ==
  ASSUME NEW a \in Int, NEW b \in Int, NEW c \in Int, NEW d \in Int, a * a + b * b + c * c + d * d # 0
  PROVE  a * a + b * b + c * c + d * d > 0
<1>1. a * a >= 0 /\ b * b >= 0 /\ c * c >= 0 /\ d * d >= 0
  BY SquareNonneg
<1>2. a * a \in Int /\ b * b \in Int /\ c * c \in Int /\ d * d \in Int
  OBVIOUS
<1>3. QED BY <1>1, <1>2

(* project_su2 projects on the group, a matrix without quaternion part on  *)
(* the identity.                                                           *)
LEMMA Projection2 ==
  ASSUME NEW m \in Mat(2)
  PROVE  InGroup(2, project_su2(m))
<1>1. m[0] \in Cplx /\ m[1] \in Cplx /\ m[2] \in Cplx /\ m[3] \in Cplx
  BY DEF Mat, Cplxs, Entries
<1> DEFINE u == cadd(m[0], conj(m[3]))
           v == csub(m[1], conj(m[2]))
           a == u[1]
           b == u[2]
           c == v[1]
           d == v[2]
           n == a * a + b * b + c * c + d * d
<1>2. u \in Cplx /\ v \in Cplx
  BY <1>1, CplxTypes, ConjType
<1> HIDE DEF u, v
<1>3. u = <<a, b>> /\ v = <<c, d>> /\ a \in Int /\ b \in Int /\ c \in Int /\ d \in Int
  BY <1>2 DEF Cplx
<1> HIDE DEF a, b, c, d
<1>4. cmul_b_conj(u, u)[1] + cmul_b_conj(v, v)[1] = n
  BY <1>3 DEF cmul_b_conj
<1> HIDE DEF n
<1>5. project_su2(m) = IF n = 0 THEN [rows |-> <<<<<<1, 0>>, <<0, 0>>>>, <<<<0, 0>>, <<1, 0>>>>>>, squares |-> <<1, 1>>]
                       ELSE [rows |-> <<<<u, v>>, <<times(-1, conj(v)), conj(u)>>>>, squares |-> <<n, n>>]
  BY <1>4, Zenon DEF project_su2, u, v
<1>6. CASE n = 0
  <2> DEFINE P == [rows |-> <<<<<<1, 0>>, <<0, 0>>>>, <<<<0, 0>>, <<1, 0>>>>>>, squares |-> <<1, 1>>]
             x == <<<<1, 0>>, <<0, 0>>>>
             y == <<<<0, 0>>, <<1, 0>>>>
  <2>1. P.rows[1] = x /\ P.rows[2] = y /\ P.squares[1] = 1 /\ P.squares[2] = 1
    OBVIOUS
  <2>2. x \in Vec2 /\ y \in Vec2
    BY DEF Vec2, Cplx
  <2>3. 1 = 1 * 1 + 0 * 0 + 0 * 0 + 0 * 0 /\ 1 > 0 /\ 0 \in Int /\ 1 \in Int
    OBVIOUS
  <2>4. 0 - 0 = 0
    OBVIOUS
  <2>5. x[1] = <<1, 0>> /\ x[2] = <<0, 0>> /\ y[1] = <<0 - 0, 0>> /\ y[2] = <<1, 0 - 0>>
    BY <2>4, Zenon
  <2> HIDE DEF P, x, y
  <2>6. InGroup(2, P)
    BY <2>1, <2>2, <2>3, <2>5, InGroup2
  <2>7. QED BY <1>5, <1>6, <2>6 DEF P
<1>7. CASE n # 0
  <2> DEFINE P == [rows |-> <<<<u, v>>, <<times(-1, conj(v)), conj(u)>>>>, squares |-> <<n, n>>]
             x == <<u, v>>
             y == <<times(-1, conj(v)), conj(u)>>
  <2>1. P.rows[1] = x /\ P.rows[2] = y /\ P.squares[1] = n /\ P.squares[2] = n
    OBVIOUS
  <2>2. times(-1, conj(v)) = <<0 - c, d>> /\ conj(u) = <<a, 0 - b>>
    BY <1>3 DEF times, conj
  <2>3. x[1] = <<a, b>> /\ x[2] = <<c, d>> /\ y[1] = <<0 - c, d>> /\ y[2] = <<a, 0 - b>>
    BY <1>3, <2>2
  <2>4. x \in Vec2 /\ y \in Vec2
    <3>1. times(-1, conj(v)) \in Cplx /\ conj(u) \in Cplx
      BY <1>2, ConjType, TimesType
    <3>2. QED BY <1>2, <3>1 DEF Vec2
  <2>5. n = a * a + b * b + c * c + d * d /\ n > 0
    BY <1>3, <1>7, SumOfSquares DEF n
  <2> HIDE DEF P, x, y
  <2>6. InGroup(2, P)
    BY <1>3, <2>1, <2>3, <2>4, <2>5, InGroup2
  <2>7. QED BY <1>5, <1>7, <2>6 DEF P
<1>8. QED BY <1>6, <1>7

(* Both projections land in the group.                                     *)
LEMMA ProjectionIsExact ==
  ASSUME NEW N \in 2 .. 3, NEW m \in Mat(N)
  PROVE  ProjectionExact(N, m)
<1>1. CASE N = 2
  BY <1>1, Projection2 DEF ProjectionExact
<1>2. CASE N = 3
  <2> DEFINE x == FirstRow(m)
             y == MadeOrthogonal(x, SecondRow(m))
  <2>1. x \in Vec3 /\ SecondRow(m) \in Vec3
    BY <1>2, RowsOf
  <2>2. y \in Vec3 /\ HDot(x, y) = <<0, 0>>
    BY <2>1, OrthogonalFacts
  <2>3. project_su3(m) = [rows |-> <<x, y, CrossOf(x, y)>>, squares |-> <<Sq(x), Sq(y), Sq(x) * Sq(y)>>]
    BY <1>2, ProjectIs
  <2> HIDE DEF x, y
  <2>4. InGroup(3, project_su3(m))
    BY <2>1, <2>2, <2>3, InGroup3
  <2>5. 3 # 2
    OBVIOUS
  <2>6. QED BY <1>2, <2>4, <2>5 DEF ProjectionExact
<1>3. QED BY <1>1, <1>2

-----------------------------------------------------------------------------
(* The matrices of the links, of a device or of a slab (su2_formula.hpp,   *)
(* su3_formula.hpp, su2_ops.hpp, su3_ops.hpp, wilson_local.hpp): whatever  *)
(* the entries and the angles, products, local change of the action,       *)
(* momenta, exponentials and projections are the ones of the textbook.     *)
THEOREM AlgebraIsTextbook == Spec => []AlgebraExact
<1>1. Init => job \in Jobs
  BY DEF Init
<1>2. job \in Jobs /\ [Next]_vars => (job \in Jobs)'
  BY DEF Next, Load, Store, Barrier, vars
<1>3. job \in Jobs => AlgebraExact
  <2> SUFFICES ASSUME job \in Jobs, job.kernel = "algebra"
               PROVE  /\ LocalExact(job.N, job.a, job.b)
                      /\ job.N > 1 =>
                           /\ ProductsExact(job.N, job.a, job.b)
                           /\ AlgebraMapsExact(job.N, job.a, job.h)
                           /\ ExponentialExact(job.N, job.h, job.t, job.w)
                           /\ ProjectionExact(job.N, job.a)
    BY DEF AlgebraExact
  <2>1. job.N \in 1 .. 3 /\ job.a \in Mat(job.N) /\ job.b \in Mat(job.N)
    BY JobAssumption DEF Mat, Cplxs, Cplx
  <2>2. job.h \in [1 .. 8 -> Int] /\ job.t \in Factors /\ job.w \in Int /\ job.t.w2 = job.w * job.w
    BY JobAssumption
  <2>3. LocalExact(job.N, job.a, job.b)
    BY <2>1, LocalIsExact
  <2>4. ASSUME job.N > 1
        PROVE  job.N \in 2 .. 3
    BY <2>1, <2>4
  <2>5. job.N > 1 => ProductsExact(job.N, job.a, job.b)
    BY <2>1, <2>4, ProductsAreExact
  <2>6. job.N > 1 => AlgebraMapsExact(job.N, job.a, job.h)
    BY <2>1, <2>2, <2>4, MapsAreExact
  <2>7. job.N > 1 => ExponentialExact(job.N, job.h, job.t, job.w)
    BY <2>2, <2>4, ExponentialIsExact
  <2>8. job.N > 1 => ProjectionExact(job.N, job.a)
    BY <2>1, <2>4, ProjectionIsExact
  <2>9. QED BY <2>3, <2>5, <2>6, <2>7, <2>8
<1>4. QED BY <1>1, <1>2, <1>3, PTL DEF Spec
=============================================================================
