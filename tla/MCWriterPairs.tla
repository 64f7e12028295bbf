--------------------------- MODULE MCWriterPairs ---------------------------
(* The writers two by two: transfers of a shift beside the duty button, or  *)
(* beside the nightly synchronisation.  The button and the synchronisation  *)
(* together lose an executor (MCAssignmentWriters).                         *)
EXTENDS MCAssignmentWriters

VARIABLE beside     \* which writer runs beside the transfers

PairsInit == WInit /\ beside \in {"duty", "sync"}

PairsNext ==
    /\ \/ KernelStep \/ TransferStep
       \/ beside = "duty" /\ DutyStep
       \/ beside = "sync" /\ SyncCancel
    /\ UNCHANGED beside

PairsSpec == PairsInit /\ [][PairsNext]_<<writerVars, beside>>
=============================================================================
