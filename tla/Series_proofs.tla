--------------------------- MODULE Series_proofs ----------------------------
(***************************************************************************)
(* Whatever fails and is tried again, a Series keeps its rows in order.    *)
(***************************************************************************)
EXTENDS Series, SequenceTheorems, TLAPS

Published ==
  /\ state = "closed" => disk = image
  /\ state \in {"shut", "closed"} /\ ~torn => buffer = <<>>

Inv == TypeOK /\ RowsKept /\ OnlyTornIsAhead /\ Published

LEMMA ArraySeq ==
  ASSUME NEW n \in Nat, NEW S, NEW f \in [1 .. n -> S]
  PROVE  f \in Seq(S) /\ Len(f) = n
OBVIOUS

LEMMA Widened ==
  ASSUME NEW m \in Nat, NEW n \in Nat, m <= n, NEW s \in Seq(0 .. m)
  PROVE  s \in Seq(0 .. n)
<1>1. s \in [1 .. Len(s) -> 0 .. n] /\ Len(s) \in Nat
  BY LenProperties
<1>2. QED BY <1>1, ArraySeq

(* What the two outcomes of flush_locked do to the dataset.                *)
LEMMA ExtendedRows ==
  ASSUME NEW r \in Nat, NEW n \in 0 .. r, image \in Seq(0 .. r)
  PROVE  /\ Extended(n) \in Seq(0 .. r) /\ Len(Extended(n)) = n
         /\ \A k \in 1 .. n : k <= Len(image) => Extended(n)[k] = image[k]
<1>1. \A k \in 1 .. Len(image) : image[k] \in 0 .. r
  BY ElementOfSeq
<1>2. Extended(n) \in [1 .. n -> 0 .. r]
  BY <1>1, LenProperties DEF Extended
<1>3. \A k \in 1 .. n : k <= Len(image) => Extended(n)[k] = image[k]
  BY DEF Extended
<1>4. QED BY <1>2, <1>3, ArraySeq

LEMMA RewrittenRows ==
  ASSUME NEW r \in Nat, image \in Seq(0 .. r), total \in Nat, total <= Len(image),
         NEW b \in Seq(1 .. r), r = total + Len(b),
         \A k \in 1 .. total : image[k] = k,
         \A k \in 1 .. Len(b) : b[k] = total + k
  PROVE  /\ Rewritten(b, r) \in Seq(0 .. r) /\ Len(Rewritten(b, r)) = r
         /\ \A k \in 1 .. r : Rewritten(b, r)[k] = k
<1>1. Len(b) \in Nat /\ Len(image) \in Nat
  BY LenProperties
<1>2. \A k \in 1 .. r : Rewritten(b, r)[k] = k
  <2> SUFFICES ASSUME NEW k \in 1 .. r PROVE Rewritten(b, r)[k] = k
    OBVIOUS
  <2>1. CASE k <= total
    <3>1. Extended(r)[k] = image[k] /\ image[k] = k
      BY <1>1, <2>1, ExtendedRows
    <3>2. QED BY <2>1, <3>1 DEF Rewritten, Offset
  <2>2. CASE total < k
    <3>1. k - total \in 1 .. Len(b)
      BY <1>1, <2>2
    <3>2. b[k - total] = total + (k - total)
      BY <3>1
    <3>3. QED BY <1>1, <2>2, <3>1, <3>2 DEF Rewritten, Offset
  <2>3. QED BY <2>1, <2>2
<1>3. Rewritten(b, r) = [k \in 1 .. r |-> Rewritten(b, r)[k]]
  BY DEF Rewritten
<1>4. Rewritten(b, r) \in [1 .. r -> 0 .. r]
  BY <1>2, <1>3
<1>5. QED BY <1>2, <1>4, ArraySeq

(* flush_locked with a buffer that continues the dataset.                  *)
LEMMA FlushKeeps ==
  ASSUME TypeOK, NEW r \in Nat, r <= MaxRows, rows <= r,
         NEW b \in Seq(1 .. r),
         r = total + Len(b), total <= Len(image),
         \A k \in 1 .. total : image[k] = k,
         \A k \in 1 .. Len(b) : b[k] = total + k,
         b = <<>> => OnlyTornIsAhead /\ rows = r,
         Flushes(b), rows' = r, state' \in {"open", "shut"}, disk' = disk
  PROVE  TypeOK' /\ RowsKept' /\ OnlyTornIsAhead'
<1>1. /\ rows \in Nat /\ total \in Nat /\ Len(image) \in Nat /\ Len(b) \in Nat
      /\ image \in Seq(0 .. r) /\ disk' \in Seq(0 .. r)
  <2>1. rows \in Nat /\ image \in Seq(0 .. rows) /\ disk \in Seq(0 .. rows) /\ total \in Nat
    BY DEF TypeOK
  <2>2. QED BY <2>1, Widened, LenProperties
<1>2. CASE b = <<>>
  <2>1. rows = r /\ OnlyTornIsAhead /\ UNCHANGED <<total, image, torn, faults>> /\ buffer' = b
    BY <1>2 DEF Flushes
  <2>2. Len(b) = 0 /\ r = total
    BY <1>1, <1>2, EmptySeq
  <2>3. TypeOK'
    BY <1>1, <2>1, <2>2 DEF TypeOK
  <2>4. RowsKept'
    BY <1>1, <2>1, <2>2 DEF RowsKept
  <2>5. OnlyTornIsAhead'
    BY <1>1, <2>1, <2>2, SeriesAssumption DEF OnlyTornIsAhead
  <2>6. QED BY <2>3, <2>4, <2>5
<1>3. ASSUME b # <<>>, image' = Rewritten(b, r), total' = r, buffer' = Left(b),
             torn' = FALSE, UNCHANGED faults
      PROVE  TypeOK' /\ RowsKept' /\ OnlyTornIsAhead'
  <2>1. image' \in Seq(0 .. r) /\ Len(image') = r /\ \A k \in 1 .. r : image'[k] = k
    BY <1>1, <1>3, RewrittenRows
  <2>2. Len(buffer') = 0 /\ buffer' \in Seq(1 .. r)
    BY <1>3, EmptySeq DEF Left
  <2>3. TypeOK'
    <3>1. rows' \in Nat /\ rows' <= MaxRows /\ total' \in 0 .. rows'
      BY <1>3
    <3>2. torn' \in BOOLEAN /\ faults' \in 0 .. MaxFaults
      BY <1>3 DEF TypeOK
    <3>3. QED BY <1>1, <2>1, <2>2, <3>1, <3>2 DEF TypeOK
  <2>4. RowsKept'
    BY <1>3, <2>1, <2>2 DEF RowsKept
  <2>5. OnlyTornIsAhead'
    BY <1>3, <2>1, <2>2, SeriesAssumption DEF OnlyTornIsAhead
  <2>6. QED BY <2>3, <2>4, <2>5
<1>4. ASSUME b # <<>>, faults < MaxFaults, faults' = faults + 1,
             image' \in {image, Extended(r)}, torn' = TRUE, buffer' = b, UNCHANGED total
      PROVE  TypeOK' /\ RowsKept' /\ OnlyTornIsAhead'
  <2>1. image' \in Seq(0 .. r) /\ total <= Len(image') /\ \A k \in 1 .. total : image'[k] = k
    <3>1. /\ Extended(r) \in Seq(0 .. r) /\ Len(Extended(r)) = r
          /\ \A k \in 1 .. r : k <= Len(image) => Extended(r)[k] = image[k]
      BY <1>1, ExtendedRows
    <3>2. CASE image' = image
      BY <1>1, <3>2
    <3>3. CASE image' = Extended(r)
      <4>1. total <= r /\ \A k \in 1 .. total : k \in 1 .. r /\ k <= Len(image)
        BY <1>1, SMTT(60)
      <4>2. \A k \in 1 .. total : Extended(r)[k] = k
        BY <3>1, <4>1
      <4>3. QED BY <3>1, <3>3, <4>1, <4>2
    <3>4. QED BY <1>4, <3>2, <3>3
  <2>2. TypeOK'
    BY <1>1, <1>4, <2>1, SeriesAssumption DEF TypeOK
  <2>3. RowsKept'
    BY <1>4, <2>1 DEF RowsKept
  <2>4. OnlyTornIsAhead'
    BY <1>4 DEF OnlyTornIsAhead
  <2>5. QED BY <2>2, <2>3, <2>4
<1>5. QED BY <1>2, <1>3, <1>4 DEF Flushes

LEMMA InitInv == Init => Inv
<1> SUFFICES ASSUME Init PROVE Inv
  OBVIOUS
<1>1. TypeOK
  <2>1. buffer \in Seq(1 .. rows) /\ image \in Seq(0 .. rows) /\ disk \in Seq(0 .. rows)
    BY EmptySeq DEF Init
  <2>2. rows \in Nat /\ rows <= MaxRows /\ total \in 0 .. rows
    BY SeriesAssumption DEF Init
  <2>3. state \in {"open", "shut", "closed", "killed"} /\ torn \in BOOLEAN
    BY DEF Init
  <2>4. faults \in 0 .. MaxFaults
    <3>1. faults = 0 /\ MaxFaults \in Nat
      BY SeriesAssumption DEF Init
    <3>2. QED BY <3>1
  <2>5. QED BY <2>1, <2>2, <2>3, <2>4 DEF TypeOK
<1>2. RowsKept /\ OnlyTornIsAhead /\ Published
  BY SeriesAssumption, EmptySeq DEF Init, RowsKept, OnlyTornIsAhead, Published
<1>3. QED BY <1>1, <1>2 DEF Inv

LEMMA AppendInv == Inv /\ AppendRow => Inv'
<1> SUFFICES ASSUME Inv, AppendRow PROVE Inv'
  OBVIOUS
<1> DEFINE b == Append(buffer, rows + 1)
<1>1. /\ b \in Seq(1 .. rows + 1) /\ Len(b) = Len(buffer) + 1 /\ b # <<>>
      /\ \A k \in 1 .. Len(b) : b[k] = total + k
  <2>1. /\ rows \in Nat /\ buffer \in Seq(1 .. rows) /\ Len(buffer) \in Nat /\ total \in Nat
        /\ rows = total + Len(buffer) /\ \A k \in 1 .. Len(buffer) : buffer[k] = total + k
    BY LenProperties DEF Inv, TypeOK, RowsKept
  <2>2. buffer \in Seq(1 .. rows + 1)
    <3>1. buffer \in [1 .. Len(buffer) -> 1 .. rows + 1]
      BY <2>1, LenProperties
    <3>2. QED BY <2>1, <3>1, ArraySeq
  <2>3. b \in Seq(1 .. rows + 1) /\ Len(b) = Len(buffer) + 1
    BY <2>1, <2>2
  <2>4. \A k \in 1 .. Len(b) : b[k] = IF k <= Len(buffer) THEN buffer[k] ELSE rows + 1
    BY <2>1, <2>2
  <2>5. \A k \in 1 .. Len(b) : b[k] = total + k
    BY <2>1, <2>3, <2>4
  <2>6. b # <<>>
    <3>1. Len(b) # 0
      BY <2>1, <2>3
    <3>2. QED BY <3>1, EmptySeq
  <2>7. QED BY <2>3, <2>5, <2>6
<1>2. CASE Full(b)
  <2>1. TypeOK' /\ RowsKept' /\ OnlyTornIsAhead'
    <3>1. Flushes(b)
      BY <1>2 DEF AppendRow
    <3>2. /\ rows + 1 = total + Len(b) /\ rows + 1 <= MaxRows /\ rows + 1 \in Nat
          /\ rows <= rows + 1
      BY <1>1, SeriesAssumption DEF AppendRow, Inv, TypeOK, RowsKept
    <3>3. state' \in {"open", "shut"} /\ disk' = disk /\ rows' = rows + 1
      BY DEF AppendRow
    <3>4. QED BY <1>1, <3>1, <3>2, <3>3, FlushKeeps DEF Inv, RowsKept
  <2>2. Published'
    BY DEF AppendRow, Published
  <2>3. QED BY <2>1, <2>2 DEF Inv
<1>3. CASE ~Full(b)
  <2>1. buffer' = b /\ rows' = rows + 1 /\ UNCHANGED <<total, image, torn, faults, disk, state>>
    BY <1>3 DEF AppendRow
  <2>2. TypeOK'
    BY <1>1, <2>1, SeriesAssumption DEF Inv, TypeOK, AppendRow
  <2>3. RowsKept'
    <3>1. rows' = total' + Len(buffer') /\ total' <= Len(image')
      BY <1>1, <2>1 DEF Inv, TypeOK, RowsKept
    <3>2. \A k \in 1 .. total' : image'[k] = k
      BY <2>1 DEF Inv, RowsKept
    <3>3. \A k \in 1 .. Len(buffer') : buffer'[k] = total' + k
      BY <1>1, <2>1
    <3>4. QED BY <3>1, <3>2, <3>3 DEF RowsKept
  <2>4. OnlyTornIsAhead'
    BY <1>1, <1>3, <2>1, SeriesAssumption DEF Inv, OnlyTornIsAhead, Full
  <2>5. Published'
    BY <2>1 DEF AppendRow, Published
  <2>6. QED BY <2>2, <2>3, <2>4, <2>5 DEF Inv
<1>4. QED BY <1>2, <1>3

LEMMA FlushInv == Inv /\ (Flush \/ Destroy) => Inv'
<1> SUFFICES ASSUME Inv, Flush \/ Destroy PROVE Inv'
  OBVIOUS
<1>1. Flushes(buffer) /\ rows' = rows /\ state' \in {"open", "shut"} /\ disk' = disk
  BY DEF Flush, Destroy, Destroyed
<1>2. TypeOK' /\ RowsKept' /\ OnlyTornIsAhead'
  <2>1. TypeOK /\ OnlyTornIsAhead
    BY DEF Inv
  <2>2. rows \in Nat /\ rows <= MaxRows /\ buffer \in Seq(1 .. rows)
    BY <2>1 DEF TypeOK
  <2>3. /\ rows = total + Len(buffer) /\ total <= Len(image)
        /\ \A k \in 1 .. total : image[k] = k
        /\ \A k \in 1 .. Len(buffer) : buffer[k] = total + k
    BY DEF Inv, RowsKept
  <2>4. rows <= rows
    BY <2>2
  <2>5. QED BY <1>1, <2>1, <2>2, <2>3, <2>4, FlushKeeps
<1>3. Published'
  <2>1. state' # "closed"
    BY <1>1
  <2>2. ASSUME state' = "shut", ~torn' PROVE buffer' = <<>>
    <3>1. CASE buffer = <<>>
      BY <1>1, <3>1 DEF Flushes
    <3>2. CASE buffer # <<>>
      BY <1>1, <2>2, <3>2 DEF Flushes, Left
    <3>3. QED BY <3>1, <3>2
  <2>3. QED BY <2>1, <2>2 DEF Published
<1>4. QED BY <1>2, <1>3 DEF Inv

LEMMA RestInv == Inv /\ (Evict \/ CloseWriter \/ Kill \/ UNCHANGED vars) => Inv'
<1> SUFFICES ASSUME Inv, Evict \/ CloseWriter \/ Kill \/ UNCHANGED vars PROVE Inv'
  OBVIOUS
<1>1. UNCHANGED <<rows, buffer, total, image, torn, faults>>
  BY DEF Evict, CloseWriter, Kill, vars
<1>2. disk' \in Seq(0 .. rows) /\ state' \in {"open", "shut", "closed", "killed"} /\ Published'
  <2>1. CASE Evict
    <3>1. PICK n \in Len(disk) .. Len(image) : disk' = SubSeq(image, 1, n)
      BY <2>1 DEF Evict
    <3>2. SubSeq(image, 1, n) \in Seq(0 .. rows)
      <4>1. image \in Seq(0 .. rows) /\ n \in Int /\ \A k \in 1 .. n : image[k] \in 0 .. rows
        BY <3>1, ElementOfSeq, LenProperties DEF Inv, TypeOK
      <4>2. QED BY <4>1, SubSeqProperties
    <3>3. QED BY <2>1, <3>1, <3>2 DEF Evict, Inv, TypeOK, Published
  <2>2. CASE CloseWriter
    BY <2>2 DEF CloseWriter, Inv, TypeOK, Published
  <2>3. CASE Kill
    BY <2>3 DEF Kill, Inv, TypeOK, Published
  <2>4. CASE UNCHANGED vars
    BY <2>4 DEF vars, Inv, TypeOK, Published
  <2>5. QED BY <2>1, <2>2, <2>3, <2>4
<1>3. QED BY <1>1, <1>2 DEF Inv, TypeOK, RowsKept, OnlyTornIsAhead

LEMMA InvHolds == Spec => []Inv
<1>1. Inv /\ [Next]_vars => Inv'
  BY AppendInv, FlushInv, RestInv DEF Next
<1>2. QED BY InitInv, <1>1, PTL DEF Spec

(* Dataset and buffer are the rows appended, in order, after any failures  *)
(* and retries, for every chunk size (flush_locked).                       *)
THEOREM SeriesKeepsRows == Spec => []RowsKept
<1>1. Inv => RowsKept
  BY DEF Inv
<1>2. QED BY InvHolds, <1>1, PTL

(* Fill values stand in the dataset only until a failed flush is repaired. *)
THEOREM SeriesRepairs == Spec => []OnlyTornIsAhead
<1>1. Inv => OnlyTornIsAhead
  BY DEF Inv
<1>2. QED BY InvHolds, <1>1, PTL

(* A file closed after an undisturbed last flush holds exactly the rows.   *)
THEOREM SeriesCloseComplete == Spec => []ClosedIsComplete
<1>1. Inv => ClosedIsComplete
  <2> SUFFICES ASSUME Inv, state = "closed", ~torn PROVE disk = [k \in 1 .. rows |-> k]
    BY DEF ClosedIsComplete
  <2>1. disk = image
    BY DEF Inv, Published
  <2>2. /\ image \in Seq(0 .. rows) /\ Len(image) = total /\ Len(buffer) = 0 /\ rows = total
        /\ \A k \in 1 .. total : image[k] = k
    <3>1. image \in Seq(0 .. rows) /\ total \in Nat
      BY DEF Inv, TypeOK
    <3>2. buffer = <<>> /\ Len(buffer) = 0
      BY EmptySeq DEF Inv, Published
    <3>3. QED BY <3>1, <3>2 DEF Inv, RowsKept, OnlyTornIsAhead
  <2>3. image = [k \in 1 .. Len(image) |-> image[k]]
    BY <2>2, LenProperties
  <2>4. QED BY <2>1, <2>2, <2>3
<1>2. QED BY InvHolds, <1>1, PTL
=============================================================================
