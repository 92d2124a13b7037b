---------------------------- MODULE LlrDiskFull -----------------------------
(***************************************************************************)
(* LlrRun on a file system that may fill up while save_ensemble closes     *)
(* <path>.tmp.  Writer's destructor flushes and closes the file and drops  *)
(* both return codes, so save_ensemble renames whatever reached the disk.  *)
(***************************************************************************)
EXTENDS LlrRun

(* Writer::Impl::~Impl with H5Fflush or H5Fclose failing, then the rename: *)
(* only the first k members reached the file.                              *)
CloseLosesTail ==
  /\ pc = "write"
  /\ nrm' = nrm
  /\ AllWritten
  /\ \E k \in 0 .. N - 1 :
        live' = [tmp EXCEPT !.saved = [n \in 0 .. k - 1 |-> tmp.saved[n]]]
  /\ tmp' = NoFile
  /\ AfterSave
  /\ UNCHANGED <<reps, energy, lane, deBuf, aBuf, exch, xi, wn, launches>>

FullNext == Next \/ CloseLosesTail
FullSpec == Init /\ [][FullNext]_vars

(* save_ensemble's comment: "Atomic overwrite: write to `path`.tmp then    *)
(* rename over `path`, so a crash mid-write never truncates the live       *)
(* checkpoint."  Once a complete checkpoint is there, a complete one       *)
(* stays.                                                                  *)
AtomicOverwrite ==
  [][live # NoFile /\ Complete(live) => live' # NoFile /\ Complete(live')]_live
=============================================================================
