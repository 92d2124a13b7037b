----------------------------- MODULE Generators -----------------------------
(***************************************************************************)
(* The random number generators (core/rng) and the set of streams drawn    *)
(* from by slab.  A draw returns [g, out], the generator after it and what *)
(* it gave, by the native words it used.  A 64-bit word is the set of its  *)
(* bits, a 48-bit one the pair of its halves, a counter's words have w     *)
(* bits, w at most 15, and the constants their low w bits.                 *)
(***************************************************************************)
EXTENDS Integers, Sequences, SequencesExt, FiniteSetsExt

(* The sequence s, each element evaluated once.                            *)
Whole(s) == s \o <<>>

(* Op of x, once x has been evaluated.                                     *)
Of(Op(_), x) == CHOOSE y \in {Op(z) : z \in {x}} : TRUE

(* Op for k from 0 to n - 1, in blocks of twenty that are each done before *)
(* the next.                                                               *)
Steps20(Op(_, _), base, first, n) ==
  LET iter[k \in 0 .. n] == IF k = 0 THEN base ELSE Of(LAMBDA acc : Op(acc, first + k - 1), iter[k - 1])
  IN  iter[n]

Iterated(Op(_, _), base, n) ==
  LET size(j) == IF 20 * j <= n THEN 20 ELSE n % 20
      blocks[j \in 0 .. (n + 19) \div 20] ==
        IF j = 0 THEN base ELSE Of(LAMBDA acc : Steps20(Op, acc, 20 * (j - 1), size(j)), blocks[j - 1])
  IN  blocks[(n + 19) \div 20]
-----------------------------------------------------------------------------
(* xoshiro256++.  A word is a function of the state's first and last.      *)
Stepped256(s) ==
  LET s2 == SymDiff(s[3], s[1])
      s3 == SymDiff(s[4], s[2])
  IN  <<SymDiff(s[1], s3), SymDiff(s[2], s2),
        SymDiff(s2, {i + 17 : i \in s[2]} \cap (0 .. 63)), {(i + 45) % 64 : i \in s3}>>

(* k_jump, the most significant digit of its last word first.              *)
k_jump ==
  LET hex == <<3,9,10,11,13,12,4,5,2,9,11,1,6,6,1,12,  10,9,5,8,2,6,1,8,14,0,3,15,12,9,10,10,
               13,5,10,6,1,2,6,6,15,0,12,9,3,9,2,12,  1,8,0,14,12,6,13,3,3,12,15,13,0,10,11,10>>
  IN  {b \in 0 .. 255 : (hex[64 - (b \div 4)] \div 2 ^ (b % 4)) % 2 = 1}

jump(s) ==
  Iterated(LAMBDA acc, b : [t |-> IF b \in k_jump THEN [i \in 1 .. 4 |-> SymDiff(acc.t[i], acc.s[i])] ELSE acc.t,
                            s |-> Stepped256(acc.s)],
           [t |-> <<{}, {}, {}, {}>>, s |-> s], 256).t
-----------------------------------------------------------------------------
(* Exclusive or, of words of at most 15 bits.                              *)
Xor(x, y) ==
  LET bit(b) == 2 ^ b * ((x \div 2 ^ b + y \div 2 ^ b) % 2)
      five(b) == bit(b) + bit(b + 1) + bit(b + 2) + bit(b + 3) + bit(b + 4)
  IN  five(0) + five(5) + five(10)

(* Philox 4x32-10 with words of w bits.                                    *)
Lo(w, x) == x % 2 ^ w
Hi(w, x) == x \div 2 ^ w

Mul0 == 8019      \* 0xD2511F53
Mul1 == 3415      \* 0xCD9E8D57
Weyl0 == 31161    \* 0x9E3779B9
Weyl1 == 11909    \* 0xBB67AE85

single_round(w, ctr, key) ==
  LET p0 == Lo(w, Mul0) * ctr[1]
      p1 == Lo(w, Mul1) * ctr[3]
  IN  <<Xor(Xor(Hi(w, p1), ctr[2]), key[1]), Lo(w, p1), Xor(Xor(Hi(w, p0), ctr[4]), key[2]), Lo(w, p0)>>

bijection(w, ctr, key) ==
  Iterated(LAMBDA c, r : single_round(w, c, <<Lo(w, key[1] + r * Lo(w, Weyl0)), Lo(w, key[2] + r * Lo(w, Weyl1))>>),
           ctr, 10)

Halves(w, x) == <<Lo(w, x), Lo(w, Hi(w, x))>>

Words64(o) == <<<<o[2], o[1]>>, <<o[4], o[3]>>>>

philox_uniform2(w, seed, traj, index) ==
  Words64(bijection(w, Halves(w, traj) \o Halves(w, index), Halves(w, seed)))

(* Lane by lane, as many as fill batches of W, then the tail.              *)
philox_uniform2_batch(w, W, seed, traj, base, cnt) ==
  LET vectors == cnt \div W
      round(x, r) ==
        LET p0 == [l \in 1 .. W |-> Lo(w, Mul0) * x[1][l]]
            p1 == [l \in 1 .. W |-> Lo(w, Mul1) * x[3][l]]
            rk0 == Lo(w, Halves(w, seed)[1] + r * Lo(w, Weyl0))
            rk1 == Lo(w, Halves(w, seed)[2] + r * Lo(w, Weyl1))
        IN  <<[l \in 1 .. W |-> Xor(Xor(Hi(w, p1[l]), x[2][l]), rk0)], [l \in 1 .. W |-> Lo(w, p1[l])],
              [l \in 1 .. W |-> Xor(Xor(Hi(w, p0[l]), x[4][l]), rk1)], [l \in 1 .. W |-> Lo(w, p0[l])]>>
      lanes(v) ==
        LET idx == [l \in 1 .. W |-> base + v * W + (l - 1)]
            x == Iterated(round, <<[l \in 1 .. W |-> Halves(w, traj)[1]], [l \in 1 .. W |-> Halves(w, traj)[2]],
                                   [l \in 1 .. W |-> Halves(w, idx[l])[1]], [l \in 1 .. W |-> Halves(w, idx[l])[2]]>>,
                          10)
        IN  [l \in 1 .. W |-> <<<<x[2][l], x[1][l]>>, <<x[4][l], x[3][l]>>>>]
  IN  FlattenSeq([v \in 1 .. vectors |-> lanes(v - 1)])
        \o [k \in 1 .. cnt % W |-> philox_uniform2(w, seed, traj, base + vectors * W + k - 1)]

refill_(g) ==
  [g EXCEPT !.buf = philox_uniform2(g.w, g.seed, g.counter, g.stream), !.idx = 0, !.counter = @ + 1]
-----------------------------------------------------------------------------
(* ranlxd: copies of a ring of 48-bit words, subtracted with carry.        *)
k_copies == 4
k_ring == 12
k_short_lag == 5
k_batch == k_copies * k_ring
k_lfsr_period == 2147483647
k_half == 16777216    \* 2^24

to_seed31_(seed) == ((seed - 1) % k_lfsr_period) + 1

LevelSteps(level) == IF level = 1 THEN 202 ELSE 397

(* The ring from the bits of a shift register, in words of 24.             *)
SeedRing(s31) ==
  LET shifted(acc, p) ==
        [reg |-> [acc.reg EXCEPT ![(p % 31) + 1] = (@ + acc.reg[((p + 18) % 31) + 1]) % 2],
         word |-> 2 * acc.word + acc.reg[(p % 31) + 1]]
      read(acc, n) ==
        LET r == Iterated(LAMBDA x, bit : shifted(x, n * 24 + bit), [reg |-> acc.reg, word |-> 0], 24)
            complement == (n % 24) % 4 # n \div 24
        IN  [reg |-> r.reg, words |-> Append(acc.words, IF complement THEN k_half - 1 - r.word ELSE r.word)]
      words == Iterated(read, [reg |-> Whole([n \in 1 .. 31 |-> (s31 \div 2 ^ (n - 1)) % 2]), words |-> <<>>], k_copies * 24).words
      word(i, k) == words[i * 24 + k + 1]
      ring(i) == Whole([slot \in 1 .. k_ring |-> <<word(i, 2 * slot - 1), word(i, 2 * slot - 2)>>])
  IN  <<ring(0), ring(1), ring(2), ring(3)>>

seed_ranlxd_(s31, level) ==
  [family |-> "RanlxdRng", ring |-> SeedRing(s31), carry |-> <<0, 0, 0, 0>>, cursor |-> 0,
   buf |-> [i \in 1 .. k_batch |-> <<0, 0>>], buf_pos |-> k_batch, level |-> level, cached |-> <<>>, has |-> FALSE]

(* s - l - carry, below zero with a borrow: [d, carry].                    *)
Subtracted(s, l, carry) ==
  LET lo == s[2] - l[2] - carry
      hi == s[1] - l[1] - (IF lo < 0 THEN 1 ELSE 0)
  IN  [d |-> <<hi % k_half, lo % k_half>>, carry |-> IF hi < 0 THEN 1 ELSE 0]

Recurred(g, step) ==
  LET short_slot == (g.cursor + (k_ring - k_short_lag)) % k_ring
      copies == 1 .. k_copies
      taken(d) == [g EXCEPT !.ring = Whole([c \in copies |-> [g.ring[c] EXCEPT ![g.cursor + 1] = d[c].d]]),
                            !.carry = Whole([c \in copies |-> d[c].carry]),
                            !.cursor = (@ + 1) % k_ring]
  IN  taken(Whole([c \in copies |-> Subtracted(g.ring[c][short_slot + 1], g.ring[c][g.cursor + 1], g.carry[c])]))

Buffered(g) ==
  [g EXCEPT !.buf_pos = 0,
     !.buf = Whole([i \in 1 .. k_batch |->
                g.ring[1 + ((i - 1) % k_copies)][1 + ((g.cursor + ((i - 1) \div k_copies)) % k_ring)]])]

generate_(g) == Buffered(Iterated(Recurred, g, LevelSteps(g.level)))
-----------------------------------------------------------------------------
(* One native word.                                                        *)
Gave(g, out) == [g |-> g, out |-> out]

next_raw_(g) ==
  LET philox(r) == Gave([r EXCEPT !.idx = @ + 1], r.buf[r.idx + 1])
      ranlxd(r) == Gave([r EXCEPT !.buf_pos = @ + 1], r.buf[r.buf_pos + 1])
  IN  CASE g.family = "FastRng" -> Gave([g EXCEPT !.s = Stepped256(@)], <<g.s[1], g.s[4]>>)
        [] g.family = "PhiloxRng" -> philox(IF g.idx >= 2 THEN refill_(g) ELSE g)
        [] g.family = "RanlxdRng" -> ranlxd(IF g.buf_pos >= k_batch THEN generate_(g) ELSE g)
        [] OTHER -> Gave([g EXCEPT !.position = @ + 1], <<g.seed, g.position>>)

(* n draws in order, after those already given.                            *)
Given(acc, d) == Gave(d.g, Append(acc.out, d.out))

Repeated(Draw(_), acc, n) == Iterated(LAMBDA a, i : Given(a, Draw(a.g)), acc, n)

Tagged(kind, d) == Gave(d.g, <<kind, d.out>>)

uniform(g) == Tagged("uniform", next_raw_(g))

(* Two words of 48 bits for one of 64.                                     *)
uniform_u64(g) ==
  Tagged("u64", Repeated(next_raw_, Gave(g, <<>>), IF g.family = "RanlxdRng" THEN 2 ELSE 1))

uniform_fill(g, n) == Repeated(uniform, Gave(g, <<>>), n)

(* Lemire's method on words below R: the product and, if its low word is   *)
(* too low, another word.                                                  *)
Lemire(R, n, x) ==
  LET l == (x * n) % R
  IN  [accepted |-> l >= n \/ l >= (R - n) % n, value |-> (x * n) \div R]

(* Polar pairs are drawn until one is in the disc, by its leading bits.    *)
Leading(g, u) == IF g.family = "RanlxdRng" THEN u[1] \div 4096 ELSE (1237 * u[2] + 311) % 4096

InDisc(x, y) ==
  LET a == 2 * x + 1 - 4096
      b == 2 * y + 1 - 4096
  IN  a * a + b * b < 4096 * 4096

MaxPairs == 6    \* drawn for one normal; the code has no bound, and TLC stops if this one is not enough

Pair(g) ==
  LET two(h) == Repeated(next_raw_, Gave(h, <<>>), 2)
      accepted(p) == \/ g.family \in {"FastRng", "PhiloxRng"}
                     \/ InDisc(Leading(g, p.out[1]), Leading(g, p.out[2]))
      drawn == Steps20(LAMBDA p, k : IF accepted(p) THEN p ELSE two(p.g), two(g), 0, MaxPairs - 1)
  IN  CHOOSE p \in {drawn} : accepted(p)

(* The second of a pair is kept for the next call.                         *)
normal(g) ==
  LET kept(p) == Gave([p.g EXCEPT !.cached = <<"second", p.out>>, !.has = TRUE], <<"first", p.out>>)
  IN  IF g.has THEN Gave([g EXCEPT !.has = FALSE], g.cached) ELSE kept(Pair(g))

(* Both of n pairs.                                                        *)
Pairs(acc, n) ==
  LET both(a, p) == Gave(p.g, a.out \o <<<<"first", p.out>>, <<"second", p.out>>>>)
  IN  Iterated(LAMBDA a, i : both(a, Pair(a.g)), acc, n)

Wrongnormal_fill(g, n) == Repeated(normal, Pairs(Gave(g, <<>>), n \div 2), n % 2)

(* The one kept, pairs, and the first of one more if n is not reached.     *)
normal_fill(g, n) ==
  LET kept == IF g.has /\ n > 0 THEN 1 ELSE 0
      left == n - kept
  IN  Repeated(normal, Pairs(Repeated(normal, Gave(g, <<>>), kept), left \div 2), left % 2)
-----------------------------------------------------------------------------
(* The state as flat words and back.  mt19937_64 is the library's: its     *)
(* text has a number of tokens.                                            *)
k_engine_token_cap == 314
EngineTokens == 313

EngineText(seed, position) == [i \in 1 .. EngineTokens |-> <<seed, position, i>>]

state_words(g) ==
  LET tail == <<g.cached, g.has>>
      tokens == EngineText(g.seed, g.position)
  IN  CASE g.family = "FastRng" -> g.s \o tail
        [] g.family = "PhiloxRng" ->
             <<g.seed, g.stream, g.counter, g.idx, g.buf[1], g.buf[2]>> \o tail
        [] g.family = "RanlxdRng" ->
             FlattenSeq(g.ring) \o g.carry \o <<g.cursor>> \o g.buf \o <<g.buf_pos, g.level>> \o tail
        [] OTHER -> <<Len(tokens)>> \o tokens \o [i \in 1 .. k_engine_token_cap - Len(tokens) |-> 0] \o tail

n_state_words(family) ==
  CASE family = "FastRng" -> 6 [] family = "PhiloxRng" -> 8
    [] family = "RanlxdRng" -> 2 * k_batch + k_copies + 5 [] OTHER -> k_engine_token_cap + 3

from_words(family, w, a) ==
  LET n == Len(a)
  IN  CASE family = "FastRng" -> [family |-> family, s |-> SubSeq(a, 1, 4), cached |-> a[5], has |-> a[6]]
        [] family = "PhiloxRng" ->
             [family |-> family, w |-> w, seed |-> a[1], stream |-> a[2], counter |-> a[3], idx |-> a[4],
              buf |-> SubSeq(a, 5, 6), cached |-> a[7], has |-> a[8]]
        [] family = "RanlxdRng" ->
             [family |-> family, ring |-> [c \in 1 .. k_copies |-> SubSeq(a, (c - 1) * k_ring + 1, c * k_ring)],
              carry |-> SubSeq(a, k_batch + 1, k_batch + k_copies), cursor |-> a[k_batch + k_copies + 1],
              buf |-> SubSeq(a, k_batch + k_copies + 2, 2 * k_batch + k_copies + 1), buf_pos |-> a[n - 3],
              level |-> a[n - 2], cached |-> a[n - 1], has |-> a[n]]
        [] OTHER -> [family |-> family, seed |-> a[2][1], position |-> a[2][2], cached |-> a[n - 1], has |-> a[n]]
-----------------------------------------------------------------------------
(* Stream k of a seed.  SplitMix64, that expands a seed to a state, is     *)
(* some other map; of mt19937 a seed is the element it is of its sequence. *)
Expanded(seed) == Whole([i \in 1 .. 4 |-> {b \in 0 .. 63 : (seed + b * b + 7 * i * b) % 11 < 4}])

Streamed(family, w, seed, k) ==
  CASE family = "FastRng" ->
         [family |-> family, s |-> Iterated(LAMBDA s, i : jump(s), Expanded(seed), k), cached |-> <<>>, has |-> FALSE]
    [] family = "PhiloxRng" ->
         [family |-> family, w |-> w, seed |-> seed, stream |-> k, counter |-> 0, idx |-> 2, buf |-> <<0, 0>>,
          cached |-> <<>>, has |-> FALSE]
    [] family = "RanlxdRng" ->
         seed_ranlxd_(to_seed31_(((to_seed31_(seed) - 1 + (k % k_lfsr_period)) % k_lfsr_period) + 1), 2)
    [] OTHER -> [family |-> family, seed |-> <<seed, k>>, position |-> 0, cached |-> <<>>, has |-> FALSE]

(* The driver's, 0, and one for each slab.                                 *)
StreamSet(family, w, seed, n_site_streams) ==
  LET ns == IF n_site_streams < 1 THEN 1 ELSE n_site_streams
  IN  [k \in 0 .. ns |-> Streamed(family, w, seed, k)]

StreamSetWords(streams) == FlattenSeq([k \in 1 .. Cardinality(DOMAIN streams) |-> state_words(streams[k - 1])])

(* Refused unless the words are those of as many streams.                  *)
restore_state_words(streams, w, words) ==
  LET family == streams[0].family
      size == n_state_words(family)
  IN  IF Len(words) # Cardinality(DOMAIN streams) * size THEN streams
      ELSE [k \in DOMAIN streams |-> from_words(family, w, SubSeq(words, k * size + 1, (k + 1) * size))]
-----------------------------------------------------------------------------
(* What a stream is, by definition: one sequence of native words, read     *)
(* from its start by uniform and normal draws one at a time.               *)

(* Polynomials over two elements as sets of exponents.  That of a step of  *)
(* xoshiro256 on all its states.                                           *)
Characteristic ==
  {0, 12, 13, 14, 15, 20, 21, 22, 23, 28, 29, 31, 32, 33, 35, 37, 40, 41, 42, 43, 45, 46, 48, 52, 56, 58, 59, 60,
   63, 65, 66, 67, 68, 70, 73, 75, 76, 80, 82, 83, 84, 85, 86, 87, 89, 90, 91, 94, 95, 96, 97, 99, 101, 119, 121,
   128, 130, 135, 136, 137, 138, 139, 140, 143, 144, 146, 149, 153, 154, 157, 160, 161, 162, 163, 166, 167, 168,
   170, 171, 173, 174, 175, 178, 180, 181, 183, 186, 192, 195, 196, 200, 201, 203, 206, 207, 209, 210, 211, 212,
   213, 216, 217, 218, 219, 220, 221, 226, 227, 228, 229, 238, 239, 240, 241, 256}

PlusAll(polys) == {e \in UNION Range(polys) : Cardinality({k \in DOMAIN polys : e \in polys[k]}) % 2 = 1}

(* x^256, x^257, ... reduced.                                              *)
Reductions ==
  Iterated(LAMBDA acc, k :
             LET moved == {e + 1 : e \in Last(acc)}
             IN  Append(acc, IF 256 \in moved THEN SymDiff(moved, Characteristic) ELSE moved),
           <<Characteristic \ {256}>>, 255)

(* x to the 2^n.                                                           *)
Squared(n) ==
  Of(LAMBDA table :
       Iterated(LAMBDA f, k :
                  PlusAll([e \in f |-> IF e < 128 THEN {2 * e} ELSE table[2 * e - 255]]),
                {1}, n),
     Reductions)

(* The polynomial of the step, taken of a state.                           *)
Applied(f, s) ==
  Iterated(LAMBDA acc, e :
             [sum |-> IF e \in f THEN [i \in 1 .. 4 |-> SymDiff(acc.sum[i], acc.s[i])] \o <<>> ELSE acc.sum,
              s |-> Stepped256(acc.s)],
           [sum |-> <<{}, {}, {}, {}>>, s |-> s], 257).sum

(* A jump is 2^128 steps.                                                  *)
JumpExact(s) ==
  /\ Applied(Characteristic, s) = <<{}, {}, {}, {}>>
  /\ k_jump = Squared(128)
  /\ jump(s) = Applied(k_jump, s)

(* x_n = x_(n-5) - x_(n-12) - c, base 2^48: its last twelve after every    *)
(* round of steps.                                                         *)
Rounds(window, steps, rounds) ==
  LET taken(acc, r) == [x |-> Append(Tail(acc.x), r.d), carry |-> r.carry]
      step(acc, n) == taken(acc, Subtracted(acc.x[8], acc.x[1], acc.carry))
      noted(acc, after) == [x |-> after.x, carry |-> after.carry, out |-> Append(acc.out, after.x)]
      round(acc, k) == noted(acc, Iterated(step, [x |-> acc.x, carry |-> acc.carry], steps))
  IN  Iterated(round, [x |-> window, carry |-> 0, out |-> <<>>], rounds).out

NativeWords(family, w, seed, k, n) ==
  CASE family = "FastRng" ->
         Iterated(LAMBDA acc, i : [s |-> Stepped256(acc.s), out |-> Append(acc.out, <<acc.s[1], acc.s[4]>>)],
                  [s |-> Of(LAMBDA f : Iterated(LAMBDA s, i : Applied(f, s), Expanded(seed), k), Squared(128)), out |-> <<>>], n).out
    [] family = "PhiloxRng" -> [i \in 1 .. n |-> philox_uniform2(w, seed, (i - 1) \div 2, k)[1 + ((i - 1) % 2)]]
    [] family = "RanlxdRng" ->
         LET rings == SeedRing(((seed - 1 + k) % k_lfsr_period) + 1)
             copy(c) == Rounds(rings[c], 397, (n \div 48) + 1)
         IN  Of(LAMBDA x : Whole([i \in 1 .. n |->
                   x[1 + ((i - 1) % 4)][((i - 1) \div 48) + 1][((i - 1) % 48) \div 4 + 1]]),
                Whole([c \in 1 .. 4 |-> copy(c)]))
    [] OTHER -> [i \in 1 .. n |-> <<<<seed, k>>, i - 1>>]

(* Of the draws "uniform", "u64" and "normal" in turn, what each gives,    *)
(* reading the words from the first on.                                    *)
Drawn(family, words, draws) ==
  LET polar == family \in {"RanlxdRng", "Mt19937Rng"}
      inside(i) == ~ polar \/ InDisc(Leading([family |-> family], words[i]), Leading([family |-> family], words[i + 1]))
      draw(acc, n) ==
        LET first == CHOOSE i \in acc.i .. Len(words) : /\ (i - acc.i) % 2 = 0 /\ inside(i)
                                                        /\ \A j \in acc.i .. i - 1 : (j - acc.i) % 2 = 0 => ~ inside(j)
            paired(i) == [i |-> i + 2, spare |-> <<words[i], words[i + 1]>>,
                          out |-> Append(acc.out, <<"first", <<words[i], words[i + 1]>>>>)]
            whole == IF family = "RanlxdRng" THEN 2 ELSE 1
        IN  CASE draws[n + 1] = "uniform" -> [acc EXCEPT !.i = @ + 1, !.out = Append(@, <<"uniform", words[acc.i]>>)]
              [] draws[n + 1] = "u64" ->
                   [acc EXCEPT !.i = @ + whole, !.out = Append(@, <<"u64", SubSeq(words, acc.i, acc.i + whole - 1)>>)]
              [] acc.spare # <<>> -> [acc EXCEPT !.spare = <<>>, !.out = Append(@, <<"second", acc.spare>>)]
              [] OTHER -> paired(first)
  IN  Iterated(draw, [i |-> 1, spare |-> <<>>, out |-> <<>>], Len(draws)).out

(* Philox: no two counters give the same words, and a batch gives what its *)
(* counters give one by one.  Lemire: each value is as likely.             *)
CountersExact(w, seed, traj) ==
  /\ Cardinality({bijection(2, ctr, Halves(2, seed)) : ctr \in [1 .. 4 -> 0 .. 3]}) = 256
  /\ \A W \in 2 .. 4 : \A cnt \in 0 .. 2 * W + 1 :
       philox_uniform2_batch(w, W, seed, traj, 2 ^ w - 3, cnt)
         = [k \in 1 .. cnt |-> philox_uniform2(w, seed, traj, 2 ^ w - 4 + k)]
  /\ \A n \in 2 .. 12 :
       LET hits(v) == Cardinality({x \in 0 .. 31 : Lemire(32, n, x).accepted /\ Lemire(32, n, x).value = v})
       IN  \A v \in 0 .. n - 1 : hits(v) = 32 \div n
=============================================================================
