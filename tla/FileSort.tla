-------------------------------- MODULE FileSort -------------------------------
(***************************************************************************)
(* file_manager_sort and file_manager_clean_list (src/file_manager.c),     *)
(* access by access: the quicksort works in place on fileIndexBuffer with  *)
(* 16-bit bounds and has no test of its own that keeps it in the buffer.   *)
(***************************************************************************)
EXTENDS FileOrder

CONSTANTS Counts,        \* the numbers of entries to sort
          BufferSize,    \* MAX_FILE_ITEMS, 4096
          IndexModulus   \* uint16_t wraps at this value (2^16)

ASSUME SortAssumption ==
    /\ BufferSize \in Nat /\ Counts \subseteq 0..BufferSize
    /\ IndexModulus \in Nat /\ IndexModulus > BufferSize

VARIABLES pc,
          data, total,             \* fileDataBuffer, the entries loaded
          fileIndexBuffer, count,  \* the list and its length
          stack, left, right,      \* calls of quicksort to come; the current one
          pivotIndex, i, j

args == <<left, right, pivotIndex>>
list == <<data, total, count>>
vars == <<pc, list, fileIndexBuffer, stack, args, i, j>>

Buffer == 0..BufferSize - 1

\* The index of the last entry, on a uint16_t.
LastIndex == (count - 1) % IndexModulus

Init == /\ pc = "call" /\ total \in Counts /\ count = total
        /\ data \in [0..total - 1 -> Entries]
        /\ fileIndexBuffer = [k \in Buffer |-> k]
        /\ stack = << <<0, LastIndex>> >>
        /\ left = 0 /\ right = 0 /\ pivotIndex = 0 /\ i = 0 /\ j = 0

\* fileIndexBuffer[k] and the file data it names exist; anything else is an
\* access outside the two buffers.
Valid(k) == k \in Buffer /\ fileIndexBuffer[k] < total

Compare(k) == compare(data[fileIndexBuffer[k]], data[pivotIndex])

-------------------------------------------------------------------------------
(* file_manager_quicksort *)

\* The early return, ...
Return == /\ pc = "call" /\ stack # << >>
          /\ Head(stack)[1] >= Head(stack)[2]
          /\ stack' = Tail(stack)
          /\ UNCHANGED <<pc, list, fileIndexBuffer, args, i, j>>

Middle(l, r) == (l + r) \div 2

\* ... and the choice of the pivot.
Partition(l, r) ==
    /\ pc = "call" /\ stack # << >> /\ Head(stack) = <<l, r>> /\ l < r
    /\ IF Valid(Middle(l, r))
       THEN pc' = "up" /\ pivotIndex' = fileIndexBuffer[Middle(l, r)]
       ELSE pc' = "outside" /\ UNCHANGED pivotIndex
    /\ stack' = Tail(stack) /\ left' = l /\ right' = r /\ i' = l /\ j' = r
    /\ UNCHANGED <<list, fileIndexBuffer>>

\* A bug: a scan that passes entries equal to the pivot.
NotAfterPivot(k) == Compare(k) <= 0
BeforePivot(k) == Compare(k) < 0

ScanUp == /\ pc = "up"
          /\ CASE ~Valid(i) -> pc' = "outside" /\ UNCHANGED i
               [] Valid(i) /\ BeforePivot(i) -> i' = i + 1 /\ UNCHANGED pc
               [] OTHER -> pc' = "down" /\ UNCHANGED i
          /\ UNCHANGED <<list, fileIndexBuffer, stack, args, j>>

ScanDown == /\ pc = "down"
            /\ CASE ~Valid(j) -> pc' = "outside" /\ UNCHANGED j
                 [] Valid(j) /\ Compare(j) > 0 -> j' = j - 1 /\ UNCHANGED pc
                 [] OTHER -> pc' = "swap" /\ UNCHANGED j
            /\ UNCHANGED <<list, fileIndexBuffer, stack, args, i>>

\* A bug: the two indexes left where they are.
StayOnSwap == UNCHANGED <<i, j>>
StepInward == i' = i + 1 /\ j' = j - 1

\* A bug that overwrites one of the two entries.
CopyDown == [fileIndexBuffer EXCEPT ![i] = fileIndexBuffer[j]]
Swapped == [fileIndexBuffer EXCEPT ![i] = fileIndexBuffer[j],
                                   ![j] = fileIndexBuffer[i]]

Swap == /\ pc = "swap" /\ i <= j /\ fileIndexBuffer' = Swapped /\ StepInward
        /\ pc' = IF i' <= j' THEN "up" ELSE "recurse"
        /\ UNCHANGED <<list, stack, args>>

Crossed == /\ pc = "swap" /\ i > j /\ pc' = "recurse"
           /\ UNCHANGED <<list, fileIndexBuffer, stack, args, i, j>>

Call(l, r) == IF l < r THEN << <<l, r>> >> ELSE << >>

\* A bug: the tests before the two calls dropped.
Unguarded == << <<left, j>>, <<i, right>> >>
Halves == Call(left, j) \o Call(i, right)

Recurse == /\ pc = "recurse" /\ stack' = Halves \o stack /\ pc' = "call"
           /\ UNCHANGED <<list, fileIndexBuffer, args, i, j>>

-------------------------------------------------------------------------------
(* file_manager_clean_list *)

BeginClean == /\ pc = "call" /\ stack = << >> /\ pc' = "clean" /\ i' = 0
              /\ UNCHANGED <<list, fileIndexBuffer, stack, args, j>>

Hidden(k) ==
    HiddenBy(data[fileIndexBuffer[k]], data[fileIndexBuffer[k + 1]])

DropBin ==
    /\ pc = "clean" /\ i < count - 1 /\ Hidden(i) /\ count' = count - 1
    /\ fileIndexBuffer' = [k \in Buffer |-> IF k \in i..count - 2
                                            THEN fileIndexBuffer[k + 1]
                                            ELSE fileIndexBuffer[k]]
    /\ UNCHANGED <<pc, data, total, stack, args, i, j>>

Keep == /\ pc = "clean" /\ i < count - 1 /\ ~Hidden(i) /\ i' = i + 1
        /\ UNCHANGED <<pc, list, fileIndexBuffer, stack, args, j>>

Finish == /\ pc = "clean" /\ i >= count - 1 /\ pc' = "done"
          /\ UNCHANGED <<list, fileIndexBuffer, stack, args, i, j>>

quicksort == \/ Return \/ ScanUp \/ ScanDown \/ Swap \/ Crossed \/ Recurse
             \/ \E r \in 1..IndexModulus - 1 : \E l \in 0..r - 1 : Partition(l, r)

clean_list == BeginClean \/ DropBin \/ Keep \/ Finish

Next == quicksort \/ clean_list

Spec == Init /\ [][Next]_vars

FairSpec == Spec /\ WF_vars(Next)

-------------------------------------------------------------------------------
(* Properties *)

\* No access outside fileIndexBuffer and the loaded file data: the pivot and
\* the entries already swapped stop both scans (file_manager.c:34-35).
InsideBuffer == pc # "outside"

\* Every variable keeps its type; the calls' bounds are 16-bit numbers, so
\* that j = -1 never becomes an argument (file_manager.c:45).
TypeOK ==
    /\ pc \in {"call", "up", "down", "swap", "recurse", "clean", "done",
               "outside"}
    /\ total \in Counts /\ count \in 0..total
    /\ data \in [0..total - 1 -> Entries]
    /\ fileIndexBuffer \in [Buffer -> Buffer]
    /\ stack \in Seq((0..IndexModulus - 1) \X (0..IndexModulus - 1))
    /\ i \in 0..BufferSize /\ j \in -1..IndexModulus - 1

\* The scans stay in the part being partitioned, although neither tests for it.
ScansStayInside ==
    /\ pc = "up" => i \in left..right
    /\ pc = "down" => j \in left..right

\* Sorting loses and duplicates no entry.
Permutation ==
    pc \notin {"clean", "done"} =>
        \A e \in 0..total - 1 : \E k \in 0..total - 1 : fileIndexBuffer[k] = e

\* The result is the reference listing: sorted with directories first, and
\* without the .bin files directly followed by their .cue.
MatchesReference ==
    pc = "done" =>
        [k \in 1..count |-> data[fileIndexBuffer[k - 1]]] =
            Cleaned(Sorted([k \in 1..total |-> data[k - 1]]))

\* Sorting and cleaning end.
Terminates == <>(pc \in {"done", "outside"})
===============================================================================
