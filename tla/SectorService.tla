----------------------------- MODULE SectorService -----------------------------
(***************************************************************************)
(* What startCDROMRead promises its caller (src/psxproject/cdrom.c:136-142 *)
(* and the Data Ready comment of stream.c:309-311): the sectors lba,       *)
(* lba + 1, ... arrive in the caller's buffer, in order, while the read is *)
(* outstanding and never after, and the read ends with all of them there.  *)
(***************************************************************************)
EXTENDS Naturals, Sequences

CONSTANTS LBAs, MaxSectors,
          None,    \* no read is outstanding
          Lost     \* the buffer after an error

VARIABLES request, data

Requests == [lba : LBAs, want : 1..MaxSectors]

Init == request = None /\ data = << >>

Request(r) == request = None /\ data # Lost /\ request' = r /\ data' = << >>

Deliver == /\ request # None /\ Len(data) < request.want
           /\ data' = Append(data, request.lba + Len(data))
           /\ UNCHANGED request

Finish == /\ request # None /\ Len(data) = request.want
          /\ request' = None /\ UNCHANGED data

\* An error of the drive ends the promise for good.
Fail == request' = None /\ data' = Lost

Next == (\E r \in Requests : Request(r)) \/ Deliver \/ Finish \/ Fail

Spec == Init /\ [][Next]_<<request, data>>
===============================================================================
