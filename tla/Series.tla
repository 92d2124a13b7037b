------------------------------- MODULE Series -------------------------------
(***************************************************************************)
(* io::Series: rows are appended to a buffer, written to a growing HDF5    *)
(* dataset a chunk at a time, and flushed when the object dies.  A row is  *)
(* its number, so the k-th row appended is k; 0 is HDF5's fill value.      *)
(***************************************************************************)
EXTENDS Integers, Sequences

CONSTANTS
  Chunk,     \* chunk_rows
  MaxRows,   \* bound: calls of append in one behaviour
  MaxFaults  \* bound: HDF5 calls that fail in one behaviour

ASSUME SeriesAssumption ==
  Chunk \in Nat \ {0} /\ MaxRows \in Nat /\ MaxFaults \in Nat

VARIABLES
  rows,    \* calls of append so far
  buffer,  \* Impl::buffer
  total,   \* Impl::total_written
  image,   \* the dataset as the HDF5 library has it
  disk,    \* the dataset as the file system has it
  state,   \* "open"; "shut": Series destroyed; "closed": Writer too; "killed"
  torn,    \* the last flush threw
  faults

vars == <<rows, buffer, total, image, disk, state, torn, faults>>

Init ==
  /\ rows = 0 /\ buffer = <<>> /\ total = 0
  /\ image = <<>> /\ disk = <<>>
  /\ state = "open" /\ torn = FALSE /\ faults = 0

(* H5Dset_extent: a longer dataset, fill values at the end.                *)
Extended(n) == [k \in 1 .. n |-> IF k <= Len(image) THEN image[k] ELSE 0]

WrongOffset == Len(image)

(* The hyperslab starts where the last successful write ended, which after *)
(* a failed one is not the end of the dataset.                             *)
Offset == total

(* H5Dwrite of the buffer b.                                               *)
Rewritten(b, n) ==
  [k \in 1 .. n |-> IF Offset < k /\ k <= Offset + Len(b) THEN b[k - Offset] ELSE Extended(n)[k]]

(* buffer.clear(), once the write has succeeded.                           *)
Left(b) == <<>>

(* flush_locked with the buffer b: it succeeds, or H5Dset_extent fails, or *)
(* a later call does.  Only success empties the buffer.                    *)
Flushes(b) ==
  IF b = <<>> THEN UNCHANGED <<total, image, torn, faults>> /\ buffer' = b
  ELSE LET n == total + Len(b) IN
    \/ /\ image' = Rewritten(b, n)
       /\ total' = n /\ buffer' = Left(b) /\ torn' = FALSE
       /\ UNCHANGED faults
    \/ /\ faults < MaxFaults /\ faults' = faults + 1
       /\ image' \in {image, Extended(n)}
       /\ torn' = TRUE /\ buffer' = b
       /\ UNCHANGED total

(* append flushes as soon as the buffer holds a chunk.                     *)
Full(b) == Len(b) >= Chunk

AppendRow ==
  /\ state = "open" /\ rows < MaxRows
  /\ rows' = rows + 1
  /\ LET b == Append(buffer, rows + 1)
     IN  IF Full(b) THEN Flushes(b)
         ELSE buffer' = b /\ UNCHANGED <<total, image, torn, faults>>
  /\ UNCHANGED <<disk, state>>

Flush ==
  /\ state = "open"
  /\ Flushes(buffer)
  /\ UNCHANGED <<rows, disk, state>>

WrongDestroyed == UNCHANGED <<buffer, total, image, torn, faults>>

(* ~Impl flushes; what it throws is swallowed.                             *)
Destroyed == Flushes(buffer)

Destroy ==
  /\ state = "open"
  /\ state' = "shut"
  /\ Destroyed
  /\ UNCHANGED <<rows, disk>>

(* HDF5 writes cached chunks out when it likes, in the file's own order.   *)
Evict ==
  /\ state \in {"open", "shut"}
  /\ \E n \in Len(disk) .. Len(image) : disk' = SubSeq(image, 1, n)
  /\ UNCHANGED <<rows, buffer, total, image, state, torn, faults>>

(* ~Writer: H5Fflush and H5Fclose, whose failure LlrDiskFull covers.       *)
CloseWriter ==
  /\ state = "shut"
  /\ state' = "closed" /\ disk' = image
  /\ UNCHANGED <<rows, buffer, total, image, torn, faults>>

(* SIGKILL, or an exception nobody catches.                                *)
Kill ==
  /\ state \in {"open", "shut"}
  /\ state' = "killed"
  /\ UNCHANGED <<rows, buffer, total, image, disk, torn, faults>>

Next == AppendRow \/ Flush \/ Destroy \/ Evict \/ CloseWriter \/ Kill

Spec == Init /\ [][Next]_vars
-----------------------------------------------------------------------------
TypeOK ==
  /\ rows \in Nat /\ rows <= MaxRows /\ total \in 0 .. rows
  /\ buffer \in Seq(1 .. rows) /\ image \in Seq(0 .. rows) /\ disk \in Seq(0 .. rows)
  /\ state \in {"open", "shut", "closed", "killed"}
  /\ torn \in BOOLEAN /\ faults \in 0 .. MaxFaults

(* Dataset and buffer together are the rows appended, in order, whatever   *)
(* failed and was tried again; size() is exact.                            *)
RowsKept ==
  /\ rows = total + Len(buffer) /\ total <= Len(image)
  /\ \A k \in 1 .. total : image[k] = k
  /\ \A k \in 1 .. Len(buffer) : buffer[k] = total + k

(* Fill values stand where rows belong only while a failed flush waits to  *)
(* be repaired by the next one, and less than a chunk is waiting otherwise.*)
OnlyTornIsAhead == ~torn => Len(image) = total /\ Len(buffer) < Chunk

(* A file whose Series and Writer were destroyed in order has every row,   *)
(* unless the flush in the destructor failed: nothing else reports it.     *)
ClosedIsComplete == state = "closed" /\ ~torn => disk = [k \in 1 .. rows |-> k]
=============================================================================
