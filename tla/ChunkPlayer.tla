----------------------------- MODULE ChunkPlayer ------------------------------
(***************************************************************************)
(* What the ring buffer of src/psxproject/stream.c promises: chunks are    *)
(* heard in the order they were fed, none is skipped, none is lost before  *)
(* it has been heard, and the SPU memory holds at most NumChunks of them.  *)
(* A stream that is stopped resumes with the chunk it was playing or the   *)
(* one after; a chunk that has no successor yet is repeated (a stutter).   *)
(***************************************************************************)
EXTENDS Integers

CONSTANT NumChunks

VARIABLES on, fed, cur

Init == on = FALSE /\ fed = 0 /\ cur = 0

Held == fed - cur + (IF on THEN 1 ELSE 0)

Feed    == Held < NumChunks /\ fed' = fed + 1 /\ UNCHANGED <<on, cur>>
Advance == on /\ cur < fed /\ cur' = cur + 1 /\ UNCHANGED <<on, fed>>
Start   == ~on /\ on' = TRUE /\ cur < fed /\ cur' = cur + 1 /\ UNCHANGED fed
Stop    == on /\ on' = FALSE /\ cur' \in {cur, cur - 1} /\ UNCHANGED fed
Reset   == ~on /\ fed' = 0 /\ cur' = 0 /\ UNCHANGED on

Next == Feed \/ Advance \/ Start \/ Stop \/ Reset

Spec == Init /\ [][Next]_<<on, fed, cur>>
===============================================================================
