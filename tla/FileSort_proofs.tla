----------------------------- MODULE FileSort_proofs -----------------------------
(***************************************************************************)
(* For every listing that is not empty, whatever its names: quicksort      *)
(* never leaves the buffers, loses no entry and leaves the list in order;  *)
(* with file_manager_clean_list it makes the listing FileOrder defines.    *)
(***************************************************************************)
EXTENDS FileSort, FiniteSetTheorems, SequenceTheorems, TLAPS

Loaded  == 0..total - 1
Calls   == Seq(Loaded \X Loaded)
Working == {"up", "down", "swap", "recurse"}
Steps   == Working \cup {"call", "clean", "done"}

Types ==
    /\ pc \in Steps
    /\ total \in 1..BufferSize /\ total \in Counts /\ count \in 1..total
    /\ data \in [Loaded -> Entries]
    /\ fileIndexBuffer \in [Buffer -> Buffer]
    /\ \A k \in Loaded : fileIndexBuffer[k] \in Loaded
    /\ stack \in Calls
    /\ left \in Loaded /\ right \in Loaded /\ pivotIndex \in Loaded
    /\ i \in 0..BufferSize /\ j \in -1..BufferSize - 1

(* Until the cleaning, the list has all entries. *)
Complete ==
    pc \notin {"clean", "done"} =>
        /\ count = total
        /\ \A e \in Loaded : \E k \in Loaded : fileIndexBuffer[k] = e

(* The loop of quicksort: what was passed is on its side of the pivot, and   *)
(* an entry ahead stops each scan.                                           *)
Loop ==
    pc \in Working =>
        /\ left < right /\ i \in left..right + 1 /\ j \in left - 1..right
        /\ \A k \in left..i - 1 : Compare(k) <= 0
        /\ \A k \in j + 1..right : Compare(k) >= 0
Stops ==
    /\ pc = "up" => \E k \in i..right : Compare(k) >= 0
    /\ pc \in {"up", "down"} => \E k \in left..j : Compare(k) <= 0
    /\ pc \in {"down", "swap"} => i \in left..right /\ Compare(i) >= 0
    /\ pc = "swap" => j \in left..right /\ Compare(j) <= 0
    /\ pc = "recurse" => j < i

(* The calls to come are of parts from left to right, after the current one. *)
Apart(s) ==
    /\ \A a \in DOMAIN s : s[a][1] <= s[a][2]
    /\ \A a, b \in DOMAIN s : a < b => s[a][2] < s[b][1]
Above(x, s) == \A a \in DOMAIN s : x < s[a][1]
Parts == Apart(stack) /\ (pc \in Working => Above(right, stack))

(* Two entries are in order unless a call to come will put them so. *)
InOrder(k, l) == compare(data[fileIndexBuffer[k]], data[fileIndexBuffer[l]]) <= 0
Within(k, l, x, y) == x <= k /\ k <= y /\ x <= l /\ l <= y
Covered(k, l, s) == \E a \in DOMAIN s : Within(k, l, s[a][1], s[a][2])
Pending(k, l) ==
    \/ Covered(k, l, stack)
    \/ pc \in Working /\ Within(k, l, left, right)
Order ==
    /\ pc \notin {"clean", "done"} =>
          \A k, l \in Loaded : k < l => InOrder(k, l) \/ Pending(k, l)
    /\ pc \in {"clean", "done"} =>
          /\ stack = << >>
          /\ \A k, l \in 0..count - 1 : k < l => InOrder(k, l)

IInv == Types /\ Complete /\ Loop /\ Stops /\ Parts /\ Order

-------------------------------------------------------------------------------
(* The order of the entries.                                                *)

LEMMA CompareType ==
  ASSUME NEW a \in Entries, NEW b \in Entries PROVE compare(a, b) \in Int
<1>1. a.name \in Nat /\ b.name \in Nat BY NamesAssumption DEF Entries
<1> QED BY <1>1 DEF compare

LEMMA CompareTransitive ==
  ASSUME NEW a \in Entries, NEW b \in Entries, NEW c \in Entries,
         compare(a, b) <= 0, compare(c, b) >= 0
  PROVE  compare(a, c) <= 0
<1>1. a.name \in Nat /\ b.name \in Nat /\ c.name \in Nat
      BY NamesAssumption DEF Entries
<1>2. a.flag \in {0, 1} /\ b.flag \in {0, 1} /\ c.flag \in {0, 1} BY DEF Entries
<1> QED BY <1>1, <1>2 DEF compare

LEMMA CompareIsInt == ASSUME Types, NEW k \in Loaded PROVE Compare(k) \in Int
<1>1. data[fileIndexBuffer[k]] \in Entries /\ data[pivotIndex] \in Entries BY DEF Types
<1> QED BY <1>1, CompareType DEF Compare

(* What is not after the pivot comes before what is not before it. *)
LEMMA AcrossPivot ==
  ASSUME Types, NEW k \in Loaded, NEW l \in Loaded, Compare(k) <= 0, Compare(l) >= 0
  PROVE  InOrder(k, l)
<1>1. /\ data[fileIndexBuffer[k]] \in Entries /\ data[fileIndexBuffer[l]] \in Entries
      /\ data[pivotIndex] \in Entries
      BY DEF Types
<1> QED BY <1>1, CompareTransitive DEF Compare, InOrder

LEMMA ValidLoaded == ASSUME Types, NEW k \in Loaded PROVE Valid(k)
<1>1. total \in Nat /\ BufferSize \in Nat /\ total <= BufferSize
      BY SortAssumption DEF Types
<1>2. fileIndexBuffer[k] \in Loaded BY DEF Types
<1> QED BY <1>1, <1>2 DEF Valid, Buffer, Loaded

LEMMA SameEntries ==
  ASSUME UNCHANGED <<data, fileIndexBuffer, pivotIndex>>
  PROVE  \A k : (Compare(k))' = Compare(k)
BY DEF Compare

-------------------------------------------------------------------------------
(* The calls to come.                                                       *)

LEMMA TailOf ==
  ASSUME NEW D, D \subseteq Int, NEW s \in Seq(D \X D), s # << >>
  PROVE  /\ Tail(s) \in Seq(D \X D)
         /\ Head(s)[1] \in D /\ Head(s)[2] \in D
         /\ Apart(s) => Apart(Tail(s)) /\ Above(Head(s)[2], Tail(s))
                        /\ Head(s)[1] <= Head(s)[2]
         /\ \A x \in Int : Above(x, s) => Above(x, Tail(s)) /\ x < Head(s)[1]
         /\ \A k, m \in Int : Covered(k, m, s) =>
               Covered(k, m, Tail(s)) \/ Within(k, m, Head(s)[1], Head(s)[2])
<1> DEFINE t == Tail(s)
<1>1. /\ Len(s) \in Nat /\ Len(s) > 0 /\ t \in Seq(D \X D)
      /\ Len(t) = Len(s) - 1 /\ \A a \in 1..Len(t) : t[a] = s[a + 1]
      /\ Head(s) = s[1]
      BY EmptySeq, LenProperties, HeadTailProperties
<1>2. DOMAIN s = 1..Len(s) /\ DOMAIN t = 1..Len(t) BY <1>1, LenProperties
<1>3. \A a \in 1..Len(s) : s[a] \in D \X D BY ElementOfSeq
<1>4. Head(s)[1] \in D /\ Head(s)[2] \in D BY <1>1, <1>3
<1> HIDE DEF t
<1>5. ASSUME Apart(s)
      PROVE  Apart(t) /\ Above(Head(s)[2], t) /\ Head(s)[1] <= Head(s)[2]
  <2>1. \A a \in 1..Len(t) : t[a][1] <= t[a][2]
    <3> SUFFICES ASSUME NEW a \in 1..Len(t) PROVE t[a][1] <= t[a][2] OBVIOUS
    <3>1. a + 1 \in DOMAIN s BY <1>1, <1>2
    <3>2. s[a + 1][1] <= s[a + 1][2] BY <1>5, <3>1 DEF Apart
    <3> QED BY <1>1, <3>2
  <2>2. \A a, b \in 1..Len(t) : a < b => t[a][2] < t[b][1]
    <3> SUFFICES ASSUME NEW a \in 1..Len(t), NEW b \in 1..Len(t), a < b
                 PROVE  t[a][2] < t[b][1]
        OBVIOUS
    <3>1. a + 1 \in 1..Len(s) /\ b + 1 \in 1..Len(s) /\ a + 1 < b + 1 BY <1>1
    <3>2. s[a + 1][2] < s[b + 1][1] BY <1>2, <1>5, <3>1 DEF Apart
    <3> QED BY <1>1, <3>2
  <2>3. \A a \in 1..Len(t) : Head(s)[2] < t[a][1]
    <3> SUFFICES ASSUME NEW a \in 1..Len(t) PROVE Head(s)[2] < t[a][1] OBVIOUS
    <3>1. 1 \in 1..Len(s) /\ a + 1 \in 1..Len(s) /\ 1 < a + 1 BY <1>1
    <3>2. s[1][2] < s[a + 1][1] BY <1>2, <1>5, <3>1 DEF Apart
    <3> QED BY <1>1, <3>2
  <2>4. Head(s)[1] <= Head(s)[2]
    <3>1. 1 \in DOMAIN s BY <1>1, <1>2
    <3> QED BY <1>1, <1>5, <3>1 DEF Apart
  <2> QED BY <1>2, <2>1, <2>2, <2>3, <2>4 DEF Apart, Above
<1>6. ASSUME NEW x \in Int, Above(x, s) PROVE Above(x, t) /\ x < Head(s)[1]
  <2>1. \A a \in 1..Len(s) : x < s[a][1] BY <1>2, <1>6 DEF Above
  <2>2. 1 \in 1..Len(s) /\ \A a \in 1..Len(t) : a + 1 \in 1..Len(s) BY <1>1
  <2>3. \A a \in 1..Len(t) : x < t[a][1] BY <1>1, <2>1, <2>2
  <2> QED BY <1>1, <1>2, <2>1, <2>2, <2>3 DEF Above
<1>7. ASSUME NEW k \in Int, NEW m \in Int, Covered(k, m, s)
      PROVE  Covered(k, m, t) \/ Within(k, m, Head(s)[1], Head(s)[2])
  <2>1. PICK a \in 1..Len(s) : Within(k, m, s[a][1], s[a][2])
        BY <1>2, <1>7 DEF Covered
  <2>2. CASE a = 1 BY <1>1, <2>1, <2>2
  <2>3. CASE a # 1
    <3>1. a - 1 \in 1..Len(t) /\ (a - 1) + 1 = a BY <1>1, <2>3
    <3>2. t[a - 1] = s[a] BY <1>1, <3>1
    <3> QED BY <1>2, <2>1, <3>1, <3>2 DEF Covered
  <2> QED BY <2>2, <2>3
<1> QED BY <1>1, <1>4, <1>5, <1>6, <1>7 DEF t

LEMMA CallOnto ==
  ASSUME NEW D, D \subseteq Int, NEW s \in Seq(D \X D),
         NEW l \in Int, NEW r \in Int, l < r => l \in D /\ r \in D
  PROVE  LET t == Call(l, r) \o s
         IN  /\ t \in Seq(D \X D)
             /\ Apart(s) /\ Above(r, s) => Apart(t)
             /\ \A x \in Int : x < l /\ Above(x, s) => Above(x, t)
             /\ \A k, m \in Int : Covered(k, m, s) => Covered(k, m, t)
             /\ \A k, m \in Int : k < m /\ Within(k, m, l, r) => Covered(k, m, t)
<1> DEFINE t == Call(l, r) \o s
<1>1. CASE ~(l < r)
  <2>1. t = s
    <3>1. Call(l, r) = << >> BY <1>1 DEF Call
    <3> QED BY <3>1
  <2>2. \A k, m \in Int : ~(k < m /\ Within(k, m, l, r))
        BY <1>1 DEF Within
  <2> HIDE DEF t
  <2>3. /\ t \in Seq(D \X D)
        /\ Apart(s) /\ Above(r, s) => Apart(t)
        /\ \A x \in Int : x < l /\ Above(x, s) => Above(x, t)
        /\ \A k, m \in Int : Covered(k, m, s) => Covered(k, m, t)
        /\ \A k, m \in Int : k < m /\ Within(k, m, l, r) => Covered(k, m, t)
        BY <2>1, <2>2
  <2> QED BY <2>3 DEF t
<1>2. CASE l < r
  <2>1. t = << <<l, r>> >> \o s BY <1>2 DEF Call
  <2>2. << <<l, r>> >> \in Seq(D \X D) /\ Len(<< <<l, r>> >>) = 1
        /\ << <<l, r>> >>[1] = <<l, r>>
        BY <1>2
  <2>3. Len(s) \in Nat /\ DOMAIN s = 1..Len(s) BY LenProperties
  <2>4. t \in Seq(D \X D) /\ Len(t) = Len(s) + 1 /\ t[1] = <<l, r>>
        /\ \A a \in 1..Len(s) : t[a + 1] = s[a]
    <3>1. t \in Seq(D \X D) /\ Len(t) = 1 + Len(s) BY <2>1, <2>2, ConcatProperties
    <3>2. t[1] = <<l, r>> BY <2>1, <2>2, <2>3, <3>1, ConcatProperties
    <3>3. ASSUME NEW a \in 1..Len(s) PROVE t[a + 1] = s[a]
      <4>1. a + 1 \in 1..1 + Len(s) /\ ~(a + 1 <= 1) /\ (a + 1) - 1 = a BY <2>3
      <4> QED BY <2>1, <2>2, <4>1, ConcatProperties
    <3> QED BY <2>3, <3>1, <3>2, <3>3
  <2>5. DOMAIN t = 1..Len(t) BY <2>4, LenProperties
  <2> HIDE DEF t
  <2>6. \A b \in 1..Len(t) : b = 1 \/ (b - 1 \in 1..Len(s) /\ t[b] = s[b - 1])
    <3> SUFFICES ASSUME NEW b \in 1..Len(t), b # 1
                 PROVE  b - 1 \in 1..Len(s) /\ t[b] = s[b - 1]
        OBVIOUS
    <3>1. b - 1 \in 1..Len(s) /\ (b - 1) + 1 = b BY <2>3, <2>4
    <3> QED BY <2>4, <3>1
  <2>7. ASSUME Apart(s), Above(r, s) PROVE Apart(t)
    <3>1. \A a \in 1..Len(t) : t[a][1] <= t[a][2]
      <4> SUFFICES ASSUME NEW a \in 1..Len(t) PROVE t[a][1] <= t[a][2] OBVIOUS
      <4>1. CASE a = 1 BY <1>2, <2>4, <4>1
      <4>2. CASE a # 1
        <5>1. a - 1 \in 1..Len(s) /\ t[a] = s[a - 1] BY <2>6, <4>2
        <5>2. s[a - 1][1] <= s[a - 1][2] BY <2>3, <2>7, <5>1 DEF Apart
        <5> QED BY <5>1, <5>2
      <4> QED BY <4>1, <4>2
    <3>2. ASSUME NEW a \in 1..Len(t), NEW b \in 1..Len(t), a < b
          PROVE  t[a][2] < t[b][1]
      <4>1. b # 1 BY <3>2
      <4>2. b - 1 \in 1..Len(s) /\ t[b] = s[b - 1] BY <2>6, <4>1
      <4>3. CASE a = 1
        <5>1. r < s[b - 1][1] BY <2>3, <2>7, <4>2 DEF Above
        <5> QED BY <2>4, <4>2, <4>3, <5>1
      <4>4. CASE a # 1
        <5>1. a - 1 \in 1..Len(s) /\ t[a] = s[a - 1] BY <2>6, <4>4
        <5>2. a - 1 < b - 1 BY <3>2
        <5>3. s[a - 1][2] < s[b - 1][1] BY <2>3, <2>7, <4>2, <5>1, <5>2 DEF Apart
        <5> QED BY <4>2, <5>1, <5>3
      <4> QED BY <4>3, <4>4
    <3> QED BY <2>5, <3>1, <3>2 DEF Apart
  <2>8. ASSUME NEW x \in Int, x < l, Above(x, s) PROVE Above(x, t)
    <3> SUFFICES ASSUME NEW a \in 1..Len(t) PROVE x < t[a][1]
        BY <2>5 DEF Above
    <3>1. CASE a = 1 BY <2>4, <2>8, <3>1
    <3>2. CASE a # 1
      <4>1. a - 1 \in 1..Len(s) /\ t[a] = s[a - 1] BY <2>6, <3>2
      <4>2. x < s[a - 1][1] BY <2>3, <2>8, <4>1 DEF Above
      <4> QED BY <4>1, <4>2
    <3> QED BY <3>1, <3>2
  <2>9. ASSUME NEW k \in Int, NEW m \in Int, Covered(k, m, s) PROVE Covered(k, m, t)
    <3>1. PICK a \in 1..Len(s) : Within(k, m, s[a][1], s[a][2])
          BY <2>3, <2>9 DEF Covered
    <3>2. a + 1 \in 1..Len(t) BY <2>3, <2>4
    <3> QED BY <2>4, <2>5, <3>1, <3>2 DEF Covered
  <2>10. ASSUME NEW k \in Int, NEW m \in Int, Within(k, m, l, r) PROVE Covered(k, m, t)
    <3>1. 1 \in 1..Len(t) /\ t[1][1] = l /\ t[1][2] = r BY <2>3, <2>4
    <3> QED BY <2>5, <2>10, <3>1 DEF Covered
  <2> QED BY <2>4, <2>7, <2>8, <2>9, <2>10 DEF t
<1> QED BY <1>1, <1>2

-------------------------------------------------------------------------------
(* One lemma for each step of quicksort's loop.                             *)

LEMMA LoadedInts == ASSUME Types PROVE Loaded \subseteq Int /\ total \in Nat
BY DEF Types, Loaded

(* The scans move one index each and leave list and calls alone. *)
LEMMA ScanFrame ==
  ASSUME IInv, UNCHANGED <<list, fileIndexBuffer, stack, args>>,
         pc \in Working, pc' \in Working
  PROVE  (Complete /\ Parts /\ Order)'
<1>1. pc \notin {"clean", "done"} /\ pc' \notin {"clean", "done"} BY DEF Working
<1>2. UNCHANGED <<data, total, count, left, right, pivotIndex, fileIndexBuffer, stack>>
      BY DEF list, args
<1>3. Complete' BY <1>1, <1>2 DEF IInv, Complete, Loaded
<1>4. Parts' BY <1>2 DEF IInv, Parts, Apart, Above
<1>5. Order'
  <2>1. ASSUME NEW k \in Loaded, NEW l \in Loaded, k < l
        PROVE  (InOrder(k, l) \/ Pending(k, l))'
    <3>1. InOrder(k, l) \/ Pending(k, l) BY <1>1, <2>1 DEF IInv, Order
    <3> QED BY <1>2, <3>1 DEF InOrder, Pending, Covered, Within
  <2>2. Loaded' = Loaded BY <1>2 DEF Loaded
  <2> QED BY <1>1, <2>1, <2>2 DEF Order
<1> QED BY <1>3, <1>4, <1>5

LEMMA ScanUpKeeps == ASSUME IInv, ScanUp PROVE IInv'
<1>1. Types /\ Loop /\ Stops BY DEF IInv
<1>2. pc = "up" BY DEF ScanUp
<1>3. PICK w \in i..right : Compare(w) >= 0 BY <1>1, <1>2 DEF Stops
<1>4. /\ left < right /\ i \in left..right + 1 /\ j \in left - 1..right
      /\ \A k \in left..i - 1 : Compare(k) <= 0
      /\ \A k \in j + 1..right : Compare(k) >= 0
      BY <1>1, <1>2 DEF Loop, Working
<1>5. left \in Nat /\ right \in Nat /\ right < total /\ total \in Nat
      /\ total <= BufferSize /\ BufferSize \in Nat /\ i \in Nat /\ j \in Int
      BY <1>1, SortAssumption DEF Types, Loaded
<1>6. i \in left..right /\ i \in Loaded BY <1>3, <1>4, <1>5 DEF Loaded
<1>7. Valid(i) BY <1>1, <1>6, ValidLoaded
<1>8. Compare(i) \in Int BY <1>1, <1>6, CompareIsInt
<1>9. UNCHANGED <<list, fileIndexBuffer, stack, args, j>> BY DEF ScanUp
<1>10. \/ Compare(i) < 0 /\ i' = i + 1 /\ pc' = "up"
       \/ ~(Compare(i) < 0) /\ i' = i /\ pc' = "down"
       BY <1>2, <1>7 DEF ScanUp, BeforePivot
<1>11. pc' \in {"up", "down"} BY <1>10
<1>12. (Complete /\ Parts /\ Order)'
       BY <1>2, <1>9, <1>11, ScanFrame DEF Working
<1>13. UNCHANGED <<data, total, count, left, right, pivotIndex, fileIndexBuffer, stack, j>>
       BY <1>9 DEF list, args
<1>14. i' \in 0..BufferSize /\ i' \in left..right + 1
       BY <1>4, <1>5, <1>6, <1>10
<1>15. Types' BY <1>1, <1>11, <1>13, <1>14 DEF Types, Loaded, Steps, Working, Calls
<1>16. \A k : (Compare(k))' = Compare(k) BY <1>13, SameEntries
<1>17. \A k \in left..i' - 1 : Compare(k) <= 0
  <2>1. CASE Compare(i) < 0 /\ i' = i + 1
    <3> SUFFICES ASSUME NEW k \in left..i' - 1 PROVE Compare(k) <= 0 OBVIOUS
    <3>1. k = i \/ k \in left..i - 1 BY <1>5, <1>14, <2>1
    <3> QED BY <1>4, <1>8, <2>1, <3>1
  <2>2. CASE i' = i BY <1>4, <2>2
  <2> QED BY <1>10, <2>1, <2>2
<1>18. Loop' BY <1>4, <1>13, <1>14, <1>16, <1>17 DEF Loop
<1>19. PICK v \in left..j : Compare(v) <= 0 BY <1>1, <1>2 DEF Stops
<1>20. ASSUME pc' = "up" PROVE w \in i'..right
  <2>1. Compare(i) < 0 /\ i' = i + 1 BY <1>10, <1>20
  <2>2. w # i BY <1>3, <1>8, <2>1
  <2> QED BY <1>3, <1>5, <2>1, <2>2
<1>21. pc' = "down" => i' = i /\ Compare(i) >= 0
       BY <1>8, <1>10
<1>22. Stops'
  <2>1. (pc = "up" => \E k \in i..right : Compare(k) >= 0)'
        BY <1>3, <1>13, <1>16, <1>20
  <2>2. (pc \in {"up", "down"} => \E k \in left..j : Compare(k) <= 0)'
        BY <1>13, <1>16, <1>19
  <2>3. (pc \in {"down", "swap"} => i \in left..right /\ Compare(i) >= 0)'
    <3> SUFFICES ASSUME pc' = "down" PROVE i' \in left'..right' /\ Compare(i)' >= 0
        BY <1>11
    <3>1. i' = i /\ Compare(i) >= 0 BY <1>21
    <3>2. Compare(i)' = Compare(i) BY <1>13, <3>1 DEF Compare
    <3> QED BY <1>6, <1>13, <3>1, <3>2
  <2>4. pc' # "swap" /\ pc' # "recurse" BY <1>11
  <2> QED BY <2>1, <2>2, <2>3, <2>4 DEF Stops
<1> QED BY <1>12, <1>15, <1>18, <1>22 DEF IInv

LEMMA ScanDownKeeps == ASSUME IInv, ScanDown PROVE IInv'
<1>1. Types /\ Loop /\ Stops BY DEF IInv
<1>2. pc = "down" BY DEF ScanDown
<1>3. PICK w \in left..j : Compare(w) <= 0 BY <1>1, <1>2 DEF Stops
<1>4. /\ left < right /\ i \in left..right + 1 /\ j \in left - 1..right
      /\ \A k \in left..i - 1 : Compare(k) <= 0
      /\ \A k \in j + 1..right : Compare(k) >= 0
      /\ i \in left..right /\ Compare(i) >= 0
      BY <1>1, <1>2 DEF Loop, Stops, Working
<1>5. left \in Nat /\ right \in Nat /\ right < total /\ total \in Nat
      /\ total <= BufferSize /\ BufferSize \in Nat /\ i \in Nat /\ j \in Int
      BY <1>1, SortAssumption DEF Types, Loaded
<1>6. j \in left..right /\ j \in Loaded BY <1>3, <1>4, <1>5 DEF Loaded
<1>7. Valid(j) BY <1>1, <1>6, ValidLoaded
<1>8. Compare(j) \in Int BY <1>1, <1>6, CompareIsInt
<1>9. UNCHANGED <<list, fileIndexBuffer, stack, args, i>> BY DEF ScanDown
<1>10. \/ Compare(j) > 0 /\ j' = j - 1 /\ pc' = "down"
       \/ ~(Compare(j) > 0) /\ j' = j /\ pc' = "swap"
       BY <1>2, <1>7 DEF ScanDown
<1>11. pc' \in {"down", "swap"} BY <1>10
<1>12. (Complete /\ Parts /\ Order)'
       BY <1>2, <1>9, <1>11, ScanFrame DEF Working
<1>13. UNCHANGED <<data, total, count, left, right, pivotIndex, fileIndexBuffer, stack, i>>
       BY <1>9 DEF list, args
<1>14. j' \in -1..BufferSize - 1 /\ j' \in left - 1..right
       BY <1>4, <1>5, <1>6, <1>10
<1>15. Types' BY <1>1, <1>11, <1>13, <1>14 DEF Types, Loaded, Steps, Working, Calls
<1>16. \A k : (Compare(k))' = Compare(k) BY <1>13, SameEntries
<1>17. \A k \in j' + 1..right : Compare(k) >= 0
  <2>1. CASE Compare(j) > 0 /\ j' = j - 1
    <3> SUFFICES ASSUME NEW k \in j' + 1..right PROVE Compare(k) >= 0 OBVIOUS
    <3>1. k = j \/ k \in j + 1..right BY <1>5, <1>14, <2>1
    <3> QED BY <1>4, <1>8, <2>1, <3>1
  <2>2. CASE j' = j BY <1>4, <2>2
  <2> QED BY <1>10, <2>1, <2>2
<1>18. Loop' BY <1>4, <1>13, <1>14, <1>16, <1>17 DEF Loop
<1>19. ASSUME pc' = "down" PROVE w \in left..j'
  <2>1. Compare(j) > 0 /\ j' = j - 1 BY <1>10, <1>19
  <2>2. w # j BY <1>3, <1>8, <2>1
  <2> QED BY <1>3, <1>5, <2>1, <2>2
<1>20. pc' = "swap" => j' = j /\ Compare(j) <= 0
       BY <1>8, <1>10
<1>21. Stops'
  <2>1. pc' # "up" /\ pc' # "recurse" BY <1>11
  <2>2. (pc \in {"up", "down"} => \E k \in left..j : Compare(k) <= 0)'
        BY <1>3, <1>13, <1>16, <1>19, <2>1
  <2>3. (pc \in {"down", "swap"} => i \in left..right /\ Compare(i) >= 0)'
    <3>1. Compare(i)' = Compare(i) BY <1>13 DEF Compare
    <3> QED BY <1>4, <1>13, <3>1
  <2>4. (pc = "swap" => j \in left..right /\ Compare(j) <= 0)'
    <3> SUFFICES ASSUME pc' = "swap" PROVE j' \in left'..right' /\ Compare(j)' <= 0
        OBVIOUS
    <3>1. j' = j /\ Compare(j) <= 0 BY <1>20
    <3>2. Compare(j)' = Compare(j) BY <1>13, <3>1 DEF Compare
    <3> QED BY <1>6, <1>13, <3>1, <3>2
  <2> QED BY <2>1, <2>2, <2>3, <2>4 DEF Stops
<1> QED BY <1>12, <1>15, <1>18, <1>21 DEF IInv

(* A swap within the current part puts nothing out of order that was in     *)
(* order for good.                                                          *)
LEMMA SwapKeeps == ASSUME IInv, Swap PROVE IInv'
<1>1. Types /\ Loop /\ Stops /\ Parts /\ Complete BY DEF IInv
<1>2. pc = "swap" /\ i <= j /\ i' = i + 1 /\ j' = j - 1 BY DEF Swap, StepInward
<1>3. /\ left < right /\ i \in left..right /\ j \in left..right
      /\ Compare(i) >= 0 /\ Compare(j) <= 0
      /\ \A k \in left..i - 1 : Compare(k) <= 0
      /\ \A k \in j + 1..right : Compare(k) >= 0
      BY <1>1, <1>2 DEF Loop, Stops, Working
<1>4. left \in Nat /\ right \in Nat /\ right < total /\ total \in Nat
      /\ total <= BufferSize /\ BufferSize \in Nat /\ i \in Nat /\ j \in Nat
      BY <1>1, <1>3, SortAssumption DEF Types, Loaded
<1>5. UNCHANGED <<data, total, count, left, right, pivotIndex, stack>>
      BY DEF Swap, list, args
<1>6. /\ pc' = IF i' <= j' THEN "up" ELSE "recurse"
      /\ pc' \in {"up", "recurse"}
      BY DEF Swap
<1>7. i \in Loaded /\ j \in Loaded /\ left..right \subseteq Loaded BY <1>3, <1>4 DEF Loaded
<1>8. Loaded \subseteq Buffer BY <1>4 DEF Loaded, Buffer
<1> DEFINE sw(k) == IF k = i THEN j ELSE IF k = j THEN i ELSE k
<1>9. ASSUME NEW k \in Buffer PROVE fileIndexBuffer'[k] = fileIndexBuffer[sw(k)]
  <2>1. fileIndexBuffer' = [fileIndexBuffer EXCEPT ![i] = fileIndexBuffer[j],
                                                   ![j] = fileIndexBuffer[i]]
        BY DEF Swap, Swapped
  <2>2. i \in Buffer /\ j \in Buffer /\ fileIndexBuffer \in [Buffer -> Buffer]
        BY <1>1, <1>7, <1>8 DEF Types
  <2> QED BY <2>1, <2>2
<1>10. \A k \in Loaded : sw(k) \in Loaded /\ sw(sw(k)) = k BY <1>7
<1>11. \A k \in Loaded : fileIndexBuffer'[k] = fileIndexBuffer[sw(k)]
       BY <1>8, <1>9
<1>12. Types'
  <2>1. fileIndexBuffer' \in [Buffer -> Buffer]
        BY <1>1, <1>7, <1>8 DEF Types, Swap, Swapped
  <2>2. \A k \in Loaded : fileIndexBuffer'[k] \in Loaded
        BY <1>1, <1>10, <1>11 DEF Types
  <2>3. i' \in 0..BufferSize /\ j' \in -1..BufferSize - 1 BY <1>2, <1>3, <1>4
  <2> QED BY <1>1, <1>5, <1>6, <2>1, <2>2, <2>3 DEF Types, Loaded, Steps, Working, Calls
<1>13. Complete'
  <2>1. ASSUME NEW e \in Loaded PROVE \E k \in Loaded : fileIndexBuffer'[k] = e
    <3>1. PICK k \in Loaded : fileIndexBuffer[k] = e
          BY <1>1, <1>2 DEF Complete
    <3>2. sw(k) \in Loaded /\ sw(sw(k)) = k BY <1>10
    <3>3. fileIndexBuffer'[sw(k)] = fileIndexBuffer[sw(sw(k))] BY <1>11, <3>2
    <3> QED BY <3>1, <3>2, <3>3
  <2>2. count' = total' BY <1>1, <1>2, <1>5 DEF Complete
  <2>3. Loaded' = Loaded BY <1>5 DEF Loaded
  <2> QED BY <2>1, <2>2, <2>3 DEF Complete
<1>14. ASSUME NEW k \in Loaded PROVE Compare(k)' = Compare(sw(k))
  <2>1. fileIndexBuffer'[k] = fileIndexBuffer[sw(k)] BY <1>11
  <2> HIDE DEF sw
  <2> QED BY <1>5, <2>1 DEF Compare
<1>15. \A k \in left..i' - 1 : Compare(k)' <= 0
  <2> SUFFICES ASSUME NEW k \in left..i' - 1 PROVE Compare(k)' <= 0 OBVIOUS
  <2>1. k \in Loaded /\ (k = i \/ k \in left..i - 1) /\ k <= i
        BY <1>2, <1>3, <1>4, <1>7
  <2>2. Compare(k)' = Compare(sw(k)) BY <1>14, <2>1
  <2>3. CASE k = i BY <1>3, <2>2, <2>3
  <2>4. CASE k \in left..i - 1
    <3>1. sw(k) = k BY <1>2, <1>3, <1>4, <2>4
    <3> QED BY <1>3, <2>2, <2>4, <3>1
  <2> QED BY <2>1, <2>3, <2>4
<1>16. \A k \in j' + 1..right : Compare(k)' >= 0
  <2> SUFFICES ASSUME NEW k \in j' + 1..right PROVE Compare(k)' >= 0 OBVIOUS
  <2>1. k \in Loaded /\ (k = j \/ k \in j + 1..right)
        BY <1>2, <1>3, <1>4, <1>7
  <2>2. Compare(k)' = Compare(sw(k)) BY <1>14, <2>1
  <2>3. CASE k = j
    <3>1. sw(k) = i BY <2>3
    <3> QED BY <1>3, <2>2, <3>1
  <2>4. CASE k \in j + 1..right
    <3>1. sw(k) = k BY <1>2, <1>3, <1>4, <2>4
    <3> QED BY <1>3, <2>2, <2>4, <3>1
  <2> QED BY <2>1, <2>3, <2>4
<1>17. Loop'
  <2>1. i' \in left..right + 1 /\ j' \in left - 1..right BY <1>2, <1>3, <1>4
  <2> QED BY <1>3, <1>5, <1>15, <1>16, <2>1 DEF Loop
<1>18. Stops'
  <2>1. ASSUME pc' = "up"
        PROVE  /\ \E k \in i'..right : Compare(k)' >= 0
               /\ \E k \in left..j' : Compare(k)' <= 0
    <3>1. i + 1 <= j - 1 BY <1>2, <1>6, <2>1
    <3>2. j \in i'..right /\ i \in left..j' BY <1>2, <1>3, <1>4, <3>1
    <3>3. PICK a \in Loaded : a = i BY <1>7
    <3>4. PICK b \in Loaded : b = j BY <1>7
    <3>5. sw(a) = j /\ sw(b) = i BY <3>3, <3>4
    <3>6. Compare(a)' = Compare(sw(a)) /\ Compare(b)' = Compare(sw(b)) BY <1>14
    <3>7. Compare(a)' <= 0 /\ Compare(b)' >= 0 BY <1>3, <3>5, <3>6
    <3>8. a \in left..j' /\ b \in i'..right BY <3>2, <3>3, <3>4
    <3> QED BY <3>7, <3>8
  <2>2. pc' = "recurse" => j' < i' BY <1>2, <1>4, <1>6
  <2> QED BY <1>5, <1>6, <2>1, <2>2 DEF Stops
<1>19. Parts' BY <1>1, <1>2, <1>5, <1>6 DEF Parts, Apart, Above, Working
<1>20. Order'
  <2>1. ASSUME NEW k \in Loaded, NEW l \in Loaded, k < l
        PROVE  (InOrder(k, l) \/ Pending(k, l))'
    <3>1. CASE Covered(k, l, stack) BY <1>5, <3>1 DEF Pending, Covered, Within
    <3>2. CASE Within(k, l, left, right)
          BY <1>5, <1>6, <3>2 DEF Pending, Working, Within
    <3>3. CASE ~Covered(k, l, stack) /\ ~Within(k, l, left, right)
      <4>1. Above(right, stack) /\ DOMAIN stack = 1..Len(stack)
            /\ \A a \in DOMAIN stack : stack[a][1] \in Int
        <5>1. DOMAIN stack = 1..Len(stack) BY <1>1, LenProperties DEF Types, Calls
        <5>2. \A a \in 1..Len(stack) : stack[a] \in Loaded \X Loaded
              BY <1>1, ElementOfSeq DEF Types, Calls
        <5>3. Loaded \subseteq Int BY <1>1, LoadedInts
        <5> QED BY <1>1, <1>2, <5>1, <5>2, <5>3 DEF Parts, Working
      <4>2. PICK m : m = sw(k) OBVIOUS
      <4>3. PICK n : n = sw(l) OBVIOUS
      <4>4. m \in Loaded /\ n \in Loaded BY <1>10, <4>2, <4>3
      <4>5. k \in Int /\ l \in Int BY <1>4 DEF Loaded
      <4>6. /\ k \in left..right => m \in left..right
            /\ k \notin left..right => m = k
            /\ l \in left..right => n \in left..right
            /\ l \notin left..right => n = l
            BY <1>3, <4>2, <4>3
      <4>7. ~(k \in left..right /\ l \in left..right)
            BY <1>4, <3>3, <4>5 DEF Within
      <4> HIDE DEF sw
      <4>8. m < n
        <5>1. m \in Int /\ n \in Int BY <1>4, <4>4 DEF Loaded
        <5> QED BY <1>4, <2>1, <4>5, <4>6, <4>7, <5>1
      <4>9. ~Within(m, n, left, right)
        <5>1. m \notin left..right \/ n \notin left..right BY <4>6, <4>7
        <5>2. m \in Int /\ n \in Int BY <1>4, <4>4 DEF Loaded
        <5> QED BY <1>4, <5>1, <5>2 DEF Within
      <4>10. ~Covered(m, n, stack)
        <5>1. CASE k \in left..right \/ l \in left..right
          <6>1. m \in left..right \/ n \in left..right BY <4>6, <5>1
          <6>2. SUFFICES ASSUME NEW a \in DOMAIN stack,
                                Within(m, n, stack[a][1], stack[a][2])
                         PROVE  FALSE
                BY DEF Covered
          <6>3. right < stack[a][1] /\ stack[a][1] \in Int BY <4>1 DEF Above
          <6>4. stack[a][1] <= m /\ stack[a][1] <= n BY <6>2 DEF Within
          <6>5. m \in Int /\ n \in Int BY <1>4, <4>4 DEF Loaded
          <6> QED BY <1>4, <6>1, <6>3, <6>4, <6>5
        <5>2. CASE k \notin left..right /\ l \notin left..right
          <6>1. m = k /\ n = l BY <4>6, <5>2
          <6> QED BY <3>3, <6>1
        <5> QED BY <5>1, <5>2
      <4>11. InOrder(m, n) \/ Pending(m, n)
             BY <1>2, <4>4, <4>8 DEF IInv, Order
      <4>12. InOrder(m, n) BY <4>9, <4>10, <4>11 DEF Pending
      <4>13. fileIndexBuffer'[k] = fileIndexBuffer[m]
             /\ fileIndexBuffer'[l] = fileIndexBuffer[n]
             BY <1>11, <4>2, <4>3
      <4>14. InOrder(k, l)' BY <1>5, <4>12, <4>13 DEF InOrder
      <4> QED BY <4>14
    <3> QED BY <3>1, <3>2, <3>3
  <2>2. Loaded' = Loaded BY <1>5 DEF Loaded
  <2> QED BY <1>6, <2>1, <2>2 DEF Order
<1> QED BY <1>12, <1>13, <1>17, <1>18, <1>19, <1>20 DEF IInv

LEMMA CrossedKeeps == ASSUME IInv, Crossed PROVE IInv'
<1>1. Types /\ Loop /\ Stops BY DEF IInv
<1>2. /\ pc = "swap" /\ i > j /\ pc' = "recurse"
      /\ UNCHANGED <<list, fileIndexBuffer, stack, args, i, j>>
      BY DEF Crossed
<1>3. (Complete /\ Parts /\ Order)' BY <1>2, ScanFrame DEF Working
<1>4. UNCHANGED <<data, total, count, left, right, pivotIndex, fileIndexBuffer, stack>>
      BY <1>2 DEF list, args
<1>5. Types' BY <1>1, <1>2, <1>4 DEF Types, Loaded, Steps, Working, Calls
<1>6. \A k : (Compare(k))' = Compare(k) BY <1>4, SameEntries
<1>7. Loop' BY <1>1, <1>2, <1>4, <1>6 DEF Loop, Working
<1>8. Stops'
  <2>1. i \in Int /\ j \in Int BY <1>1, SortAssumption DEF Types
  <2> QED BY <1>2, <2>1 DEF Stops
<1> QED BY <1>3, <1>5, <1>7, <1>8 DEF IInv

(* Both parts are to be sorted, and whatever is not in the same part is in  *)
(* order across the pivot.                                                  *)
LEMMA RecurseKeeps == ASSUME IInv, Recurse PROVE IInv'
<1>1. Types /\ Loop /\ Stops /\ Parts /\ Complete BY DEF IInv
<1>2. /\ pc = "recurse" /\ pc' = "call"
      /\ UNCHANGED <<data, total, count, fileIndexBuffer, left, right, pivotIndex, i, j>>
      /\ stack' = (Call(left, j) \o Call(i, right)) \o stack
      BY DEF Recurse, Halves, list, args
<1>3. /\ left < right /\ i \in left..right + 1 /\ j \in left - 1..right /\ j < i
      /\ \A k \in left..i - 1 : Compare(k) <= 0
      /\ \A k \in j + 1..right : Compare(k) >= 0
      BY <1>1, <1>2 DEF Loop, Stops, Working
<1>4. left \in Nat /\ right \in Nat /\ right < total /\ total \in Nat
      /\ i \in Nat /\ j \in Int /\ left \in Loaded /\ right \in Loaded
      BY <1>1, <1>3 DEF Types, Loaded
<1>5. Loaded \subseteq Int BY <1>4 DEF Loaded
<1>6. stack \in Seq(Loaded \X Loaded) BY <1>1 DEF Types, Calls
<1>7. Apart(stack) /\ Above(right, stack) BY <1>1, <1>2 DEF Parts, Working
<1>8. i < right => i \in Loaded BY <1>4 DEF Loaded
<1>9. left < j => j \in Loaded BY <1>3, <1>4 DEF Loaded
<1>10. PICK t : t = Call(i, right) \o stack OBVIOUS
<1>11. /\ t \in Seq(Loaded \X Loaded) /\ Apart(t)
       /\ Above(j, stack) => Above(j, t)
       /\ \A k, m \in Int : Covered(k, m, stack) => Covered(k, m, t)
       /\ \A k, m \in Int : k < m /\ Within(k, m, i, right) => Covered(k, m, t)
  <2>1. /\ t \in Seq(Loaded \X Loaded)
        /\ Apart(stack) /\ Above(right, stack) => Apart(t)
        /\ \A x \in Int : x < i /\ Above(x, stack) => Above(x, t)
        /\ \A k, m \in Int : Covered(k, m, stack) => Covered(k, m, t)
        /\ \A k, m \in Int : k < m /\ Within(k, m, i, right) => Covered(k, m, t)
    <3>1. i \in Int /\ right \in Int /\ (i < right => i \in Loaded /\ right \in Loaded)
          BY <1>4, <1>8
    <3> QED BY <1>5, <1>6, <1>10, <3>1, CallOnto
  <2> QED BY <1>3, <1>4, <1>7, <2>1
<1>12. Above(j, stack)
  <2> SUFFICES ASSUME NEW a \in DOMAIN stack PROVE j < stack[a][1]
      BY DEF Above
  <2>1. right < stack[a][1] BY <1>7 DEF Above
  <2>2. stack[a][1] \in Int
    <3>1. DOMAIN stack = 1..Len(stack) BY <1>6, LenProperties
    <3>2. stack[a] \in Loaded \X Loaded BY <1>6, <3>1, ElementOfSeq
    <3> QED BY <1>5, <3>2
  <2> QED BY <1>3, <1>4, <2>1, <2>2
<1>13. PICK u : u = Call(left, j) \o t OBVIOUS
<1>14. /\ u \in Seq(Loaded \X Loaded) /\ Apart(u)
       /\ \A k, m \in Int : Covered(k, m, t) => Covered(k, m, u)
       /\ \A k, m \in Int : k < m /\ Within(k, m, left, j) => Covered(k, m, u)
  <2>1. /\ u \in Seq(Loaded \X Loaded)
        /\ Apart(t) /\ Above(j, t) => Apart(u)
        /\ \A k, m \in Int : Covered(k, m, t) => Covered(k, m, u)
        /\ \A k, m \in Int : k < m /\ Within(k, m, left, j) => Covered(k, m, u)
    <3>1. left \in Int /\ j \in Int /\ (left < j => left \in Loaded /\ j \in Loaded)
          BY <1>4, <1>9
    <3>2. t \in Seq(Loaded \X Loaded) BY <1>11
    <3> QED BY <1>5, <1>13, <3>1, <3>2, CallOnto
  <2> QED BY <1>11, <1>12, <2>1
<1>15. stack' = u
  <2>1. Call(left, j) \in Seq(Int \X Int) /\ Call(i, right) \in Seq(Int \X Int)
        BY <1>4 DEF Call
  <2>2. stack \in Seq(Int \X Int)
    <3>1. Loaded \X Loaded \subseteq Int \X Int BY <1>5
    <3> QED BY <1>6, <3>1
  <2>3. PICK a : a = Call(left, j) OBVIOUS
  <2>4. PICK b : b = Call(i, right) OBVIOUS
  <2>5. a \in Seq(Int \X Int) /\ b \in Seq(Int \X Int) BY <2>1, <2>3, <2>4
  <2>6. PICK S : S = Int \X Int OBVIOUS
  <2>7. a \in Seq(S) /\ b \in Seq(S) /\ stack \in Seq(S) BY <2>2, <2>5, <2>6
  <2>8. (a \o b) \o stack = a \o (b \o stack) BY <2>7, ConcatAssociative
  <2> QED BY <1>2, <1>10, <1>13, <2>3, <2>4, <2>8
<1>16. Types' BY <1>1, <1>2, <1>14, <1>15 DEF Types, Loaded, Steps, Calls
<1>17. Complete' BY <1>1, <1>2 DEF Complete, Loaded
<1>18. Loop' /\ Stops' BY <1>2 DEF Loop, Stops, Working
<1>19. Parts' BY <1>2, <1>14, <1>15 DEF Parts, Apart, Working
<1>20. Order'
  <2>1. ASSUME NEW k \in Loaded, NEW l \in Loaded, k < l
        PROVE  (InOrder(k, l) \/ Pending(k, l))'
    <3>1. k \in Int /\ l \in Int /\ k >= 0 BY <1>4 DEF Loaded
    <3>2. InOrder(k, l) \/ Covered(k, l, stack) \/ Within(k, l, left, right)
          BY <1>2, <2>1 DEF IInv, Order, Pending
    <3>3. ASSUME Covered(k, l, u) PROVE (InOrder(k, l) \/ Pending(k, l))'
          BY <1>15, <3>3 DEF Pending, Covered, Within
    <3>4. ASSUME InOrder(k, l) PROVE (InOrder(k, l) \/ Pending(k, l))'
          BY <1>2, <3>4 DEF InOrder
    <3>5. CASE Covered(k, l, stack)
      <4>1. Covered(k, l, t) BY <1>11, <3>1, <3>5
      <4>2. Covered(k, l, u) BY <1>14, <3>1, <4>1
      <4> QED BY <3>3, <4>2
    <3>6. CASE Within(k, l, left, right)
      <4>1. CASE l <= j
        <5>1. Within(k, l, left, j) BY <1>4, <2>1, <3>1, <3>6, <4>1 DEF Within
        <5>2. Covered(k, l, u) BY <1>14, <2>1, <3>1, <5>1
        <5> QED BY <3>3, <5>2
      <4>2. CASE k >= i
        <5>1. Within(k, l, i, right) BY <1>4, <2>1, <3>1, <3>6, <4>2 DEF Within
        <5>2. Covered(k, l, t) BY <1>11, <2>1, <3>1, <5>1
        <5>3. Covered(k, l, u) BY <1>14, <3>1, <5>2
        <5> QED BY <3>3, <5>3
      <4>3. CASE l > j /\ k < i
        <5>1. k \in left..i - 1 /\ l \in j + 1..right
              BY <1>4, <3>1, <3>6, <4>3 DEF Within
        <5>2. Compare(k) <= 0 /\ Compare(l) >= 0 BY <1>3, <5>1
        <5>3. InOrder(k, l) BY <1>1, <5>2, AcrossPivot
        <5> QED BY <3>4, <5>3
      <4> QED BY <1>4, <3>1, <4>1, <4>2, <4>3
    <3> QED BY <3>2, <3>4, <3>5, <3>6
  <2>2. Loaded' = Loaded BY <1>2 DEF Loaded
  <2> QED BY <1>2, <2>1, <2>2 DEF Order
<1> QED BY <1>16, <1>17, <1>18, <1>19, <1>20 DEF IInv

LEMMA ReturnKeeps == ASSUME IInv, Return PROVE IInv'
<1>1. Types /\ Parts /\ Complete BY DEF IInv
<1>2. /\ pc = "call" /\ pc' = "call" /\ stack # << >> /\ stack' = Tail(stack)
      /\ Head(stack)[1] >= Head(stack)[2]
      /\ UNCHANGED <<data, total, count, fileIndexBuffer, left, right, pivotIndex, i, j>>
      BY DEF Return, list, args
<1>3. Loaded \subseteq Int /\ total \in Nat BY <1>1, LoadedInts
<1>4. stack \in Seq(Loaded \X Loaded) BY <1>1 DEF Types, Calls
<1>5. PICK t : t = Tail(stack) OBVIOUS
<1>6. PICK h : h = Head(stack) OBVIOUS
<1>7. /\ t \in Seq(Loaded \X Loaded) /\ h[1] \in Loaded /\ h[2] \in Loaded
      /\ Apart(stack) => Apart(t)
      /\ \A k, m \in Int : Covered(k, m, stack) =>
            Covered(k, m, t) \/ Within(k, m, h[1], h[2])
      BY <1>2, <1>3, <1>4, <1>5, <1>6, TailOf
<1>8. Types' BY <1>1, <1>2, <1>5, <1>7 DEF Types, Loaded, Steps, Calls
<1>9. Complete' BY <1>1, <1>2 DEF Complete, Loaded
<1>10. Loop' /\ Stops' BY <1>2 DEF Loop, Stops, Working
<1>11. Parts' BY <1>1, <1>2, <1>5, <1>7 DEF Parts, Apart, Working
<1>12. Order'
  <2>1. ASSUME NEW k \in Loaded, NEW l \in Loaded, k < l
        PROVE  (InOrder(k, l) \/ Pending(k, l))'
    <3>1. k \in Int /\ l \in Int BY <1>3
    <3>2. InOrder(k, l) \/ Covered(k, l, stack)
          BY <1>2, <2>1 DEF IInv, Order, Pending, Working
    <3>3. ~Within(k, l, h[1], h[2])
      <4>1. h[1] \in Int /\ h[2] \in Int /\ h[1] >= h[2] BY <1>2, <1>3, <1>6, <1>7
      <4> QED BY <2>1, <3>1, <4>1 DEF Within
    <3>4. InOrder(k, l) \/ Covered(k, l, t) BY <1>7, <3>1, <3>2, <3>3
    <3> QED BY <1>2, <1>5, <3>4 DEF InOrder, Pending, Covered, Within
  <2>2. Loaded' = Loaded BY <1>2 DEF Loaded
  <2> QED BY <1>2, <2>1, <2>2 DEF Order
<1> QED BY <1>8, <1>9, <1>10, <1>11, <1>12 DEF IInv

(* The pivot is in the part, and stops both scans. *)
LEMMA PartitionKeeps ==
  ASSUME IInv, NEW l \in Int, NEW r \in Int, Partition(l, r) PROVE IInv'
<1>1. Types /\ Parts /\ Complete BY DEF IInv
<1>2. /\ pc = "call" /\ stack # << >> /\ stack' = Tail(stack)
      /\ Head(stack) = <<l, r>> /\ l < r
      /\ UNCHANGED <<data, total, count, fileIndexBuffer>>
      /\ left' = l /\ right' = r /\ i' = l /\ j' = r
      BY DEF Partition, list
<1>3. Loaded \subseteq Int /\ total \in Nat /\ total <= BufferSize /\ BufferSize \in Nat
      BY <1>1, LoadedInts, SortAssumption DEF Types
<1>4. stack \in Seq(Loaded \X Loaded) BY <1>1 DEF Types, Calls
<1>5. PICK t : t = Tail(stack) OBVIOUS
<1>6. /\ t \in Seq(Loaded \X Loaded) /\ l \in Loaded /\ r \in Loaded
      /\ Apart(stack) => Apart(t) /\ Above(r, t)
      /\ \A k, m \in Int : Covered(k, m, stack) =>
            Covered(k, m, t) \/ Within(k, m, l, r)
  <2>1. PICK h : h = Head(stack) OBVIOUS
  <2>2. /\ t \in Seq(Loaded \X Loaded) /\ h[1] \in Loaded /\ h[2] \in Loaded
        /\ Apart(stack) => Apart(t) /\ Above(h[2], t)
        /\ \A k, m \in Int : Covered(k, m, stack) =>
              Covered(k, m, t) \/ Within(k, m, h[1], h[2])
        BY <1>2, <1>3, <1>4, <1>5, <2>1, TailOf
  <2>3. h[1] = l /\ h[2] = r BY <1>2, <2>1
  <2> QED BY <2>2, <2>3
<1>7. PICK p : p = Middle(l, r) OBVIOUS
<1>8. p \in l..r /\ p \in Loaded
  <2>1. l \in Nat /\ r \in Nat /\ r < total BY <1>3, <1>6 DEF Loaded
  <2>2. (l + r) \div 2 \in l..r BY <1>2, <2>1
  <2> QED BY <1>3, <1>7, <2>1, <2>2 DEF Middle, Loaded
<1>9. pc' = "up" /\ pivotIndex' = fileIndexBuffer[p]
  <2>1. Valid(Middle(l, r)) BY <1>1, <1>7, <1>8, ValidLoaded
  <2> QED BY <1>7, <2>1 DEF Partition
<1>10. fileIndexBuffer[p] \in Loaded BY <1>1, <1>8 DEF Types
<1>11. Types'
  <2>1. i' \in 0..BufferSize /\ j' \in -1..BufferSize - 1
        BY <1>2, <1>3, <1>6 DEF Loaded
  <2> QED BY <1>1, <1>2, <1>5, <1>6, <1>9, <1>10, <2>1
          DEF Types, Loaded, Steps, Working, Calls
<1>12. Complete' BY <1>1, <1>2, <1>9 DEF Complete, Loaded
<1>13. Compare(p)' = 0
  <2>1. data[fileIndexBuffer[p]] \in Entries BY <1>1, <1>10 DEF Types
  <2>2. data[fileIndexBuffer[p]].name \in Nat
        BY <2>1, NamesAssumption DEF Entries
  <2>3. compare(data[fileIndexBuffer[p]], data[fileIndexBuffer[p]]) = 0
        BY <2>2 DEF compare
  <2> QED BY <1>2, <1>9, <2>3 DEF Compare
<1>14. Loop' BY <1>2, <1>3, <1>9 DEF Loop
<1>15. Stops' BY <1>2, <1>8, <1>9, <1>13 DEF Stops
<1>16. Parts' BY <1>1, <1>2, <1>5, <1>6 DEF Parts, Apart, Above
<1>17. Order'
  <2>1. ASSUME NEW k \in Loaded, NEW m \in Loaded, k < m
        PROVE  (InOrder(k, m) \/ Pending(k, m))'
    <3>1. k \in Int /\ m \in Int BY <1>3
    <3>2. InOrder(k, m) \/ Covered(k, m, stack)
          BY <1>2, <2>1 DEF IInv, Order, Pending, Working
    <3>3. InOrder(k, m) \/ Covered(k, m, t) \/ Within(k, m, l, r)
          BY <1>6, <3>1, <3>2
    <3> QED BY <1>2, <1>5, <1>9, <3>3 DEF InOrder, Pending, Covered, Within, Working
  <2>2. Loaded' = Loaded BY <1>2 DEF Loaded
  <2> QED BY <1>9, <2>1, <2>2 DEF Order
<1> QED BY <1>11, <1>12, <1>14, <1>15, <1>16, <1>17 DEF IInv

-------------------------------------------------------------------------------
(* The cleaning.                                                            *)

LEMMA BeginCleanKeeps == ASSUME IInv, BeginClean PROVE IInv'
<1>1. Types /\ Parts /\ Complete BY DEF IInv
<1>2. /\ pc = "call" /\ pc' = "clean" /\ stack = << >> /\ i' = 0
      /\ UNCHANGED <<data, total, count, fileIndexBuffer, stack, left, right,
                     pivotIndex, j>>
      BY DEF BeginClean, list, args
<1>3. Types'
  <2>1. i' \in 0..BufferSize BY <1>2, SortAssumption
  <2> QED BY <1>1, <1>2, <2>1 DEF Types, Loaded, Steps, Calls
<1>4. Complete' /\ Loop' /\ Stops' BY <1>2 DEF Complete, Loop, Stops, Working
<1>5. Parts' BY <1>1, <1>2 DEF Parts, Apart, Working
<1>6. Order'
  <2>1. count = total BY <1>1, <1>2 DEF Complete
  <2>2. ASSUME NEW k \in Loaded, NEW l \in Loaded, k < l PROVE InOrder(k, l)'
    <3>1. InOrder(k, l) \/ Covered(k, l, stack)
          BY <1>2, <2>2 DEF IInv, Order, Pending, Working
    <3>2. ~Covered(k, l, stack)
      <4>1. DOMAIN stack = {} BY <1>2
      <4> QED BY <4>1 DEF Covered
    <3> QED BY <1>2, <3>1, <3>2 DEF InOrder
  <2>3. count' = count BY <1>2
  <2> QED BY <1>2, <2>1, <2>2, <2>3 DEF Order, Loaded
<1> QED BY <1>3, <1>4, <1>5, <1>6 DEF IInv

LEMMA DropBinKeeps == ASSUME IInv, DropBin PROVE IInv'
<1>1. Types /\ Parts /\ Order BY DEF IInv
<1>2. /\ pc = "clean" /\ pc' = "clean" /\ i < count - 1 /\ count' = count - 1
      /\ UNCHANGED <<data, total, stack, left, right, pivotIndex, i, j>>
      BY DEF DropBin, args
<1>3. total \in Nat /\ total <= BufferSize /\ BufferSize \in Nat /\ count \in 1..total
      /\ i \in Nat
      BY <1>1, SortAssumption DEF Types
<1>4. fileIndexBuffer' = [k \in Buffer |-> IF k \in i..count - 2
                                           THEN fileIndexBuffer[k + 1]
                                           ELSE fileIndexBuffer[k]]
      BY DEF DropBin
<1>5. ASSUME NEW k \in Loaded
      PROVE  /\ k \in i..count - 2 => k + 1 \in Loaded
             /\ fileIndexBuffer'[k] = IF k \in i..count - 2 THEN fileIndexBuffer[k + 1]
                                      ELSE fileIndexBuffer[k]
  <2>1. k \in Buffer BY <1>3 DEF Loaded, Buffer
  <2> QED BY <1>3, <1>4, <2>1 DEF Loaded
<1>6. Types'
  <2>1. fileIndexBuffer' \in [Buffer -> Buffer]
    <3>1. \A k \in Buffer : k \in i..count - 2 => k + 1 \in Buffer BY <1>3 DEF Buffer
    <3>2. fileIndexBuffer \in [Buffer -> Buffer] BY <1>1 DEF Types
    <3> QED BY <1>4, <3>1, <3>2
  <2>2. \A k \in Loaded : fileIndexBuffer'[k] \in Loaded
        BY <1>1, <1>5 DEF Types
  <2>3. count' \in 1..total BY <1>2, <1>3
  <2> QED BY <1>1, <1>2, <2>1, <2>2, <2>3 DEF Types, Loaded, Steps, Calls
<1>7. Complete' /\ Loop' /\ Stops' BY <1>2 DEF Complete, Loop, Stops, Working
<1>8. Parts' BY <1>1, <1>2 DEF Parts, Apart, Working
<1>9. Order'
  <2>1. stack' = << >> BY <1>1, <1>2 DEF Order
  <2>2. ASSUME NEW k \in 0..count' - 1, NEW l \in 0..count' - 1, k < l
        PROVE  InOrder(k, l)'
    <3>1. k \in Loaded /\ l \in Loaded BY <1>2, <1>3 DEF Loaded
    <3>2. PICK m : m = IF k \in i..count - 2 THEN k + 1 ELSE k OBVIOUS
    <3>3. PICK n : n = IF l \in i..count - 2 THEN l + 1 ELSE l OBVIOUS
    <3>4. m \in 0..count - 1 /\ n \in 0..count - 1 /\ m < n
          BY <1>2, <1>3, <2>2, <3>2, <3>3
    <3>5. InOrder(m, n) BY <1>1, <1>2, <3>4 DEF Order
    <3>6. fileIndexBuffer'[k] = fileIndexBuffer[m]
          /\ fileIndexBuffer'[l] = fileIndexBuffer[n]
          BY <1>5, <3>1, <3>2, <3>3
    <3> QED BY <1>2, <3>5, <3>6 DEF InOrder
  <2> QED BY <1>2, <2>1, <2>2 DEF Order
<1> QED BY <1>6, <1>7, <1>8, <1>9 DEF IInv

LEMMA KeepFinishKeep == ASSUME IInv, Keep \/ Finish PROVE IInv'
<1>1. Types /\ Parts /\ Order BY DEF IInv
<1>2. /\ pc = "clean" /\ pc' \in {"clean", "done"}
      /\ UNCHANGED <<data, total, count, fileIndexBuffer, stack, left, right,
                     pivotIndex, j>>
      BY DEF Keep, Finish, list, args
<1>3. i' = i \/ (i < count - 1 /\ i' = i + 1) BY DEF Keep, Finish
<1>4. Types'
  <2>1. count \in Nat /\ count <= BufferSize /\ i \in 0..BufferSize /\ BufferSize \in Nat
        BY <1>1, SortAssumption DEF Types
  <2>2. i' \in 0..BufferSize BY <1>3, <2>1
  <2> QED BY <1>1, <1>2, <2>2 DEF Types, Loaded, Steps, Calls
<1>5. Complete' /\ Loop' /\ Stops' BY <1>2 DEF Complete, Loop, Stops, Working
<1>6. Parts' BY <1>1, <1>2 DEF Parts, Apart, Working
<1>7. Order' BY <1>1, <1>2 DEF Order, InOrder
<1> QED BY <1>4, <1>5, <1>6, <1>7 DEF IInv

LEMMA StutterKeeps == ASSUME IInv, UNCHANGED vars PROVE IInv'
<1>1. UNCHANGED <<pc, data, total, count, fileIndexBuffer, stack, left, right,
                  pivotIndex, i, j>>
      BY DEF vars, list, args
<1>2. Types' BY <1>1 DEF IInv, Types, Loaded, Calls
<1>3. Complete' BY <1>1 DEF IInv, Complete, Loaded
<1>4. Loop' BY <1>1 DEF IInv, Loop, Compare
<1>5. Stops' BY <1>1 DEF IInv, Stops, Compare
<1>6. Parts' BY <1>1 DEF IInv, Parts, Apart, Above
<1>7. Order' BY <1>1 DEF IInv, Order, InOrder, Pending, Covered, Within, Loaded
<1> QED BY <1>2, <1>3, <1>4, <1>5, <1>6, <1>7 DEF IInv

-------------------------------------------------------------------------------
(* Theorems, for listings of at least one entry: of an empty one, LastIndex  *)
(* is the greatest uint16_t.                                                 *)

LEMMA Starts == ASSUME 0 \notin Counts, Init PROVE IInv
<1>1. /\ pc = "call" /\ total \in Counts /\ count = total
      /\ data \in [Loaded -> Entries]
      /\ fileIndexBuffer = [k \in Buffer |-> k]
      /\ stack = << <<0, LastIndex>> >>
      /\ left = 0 /\ right = 0 /\ pivotIndex = 0 /\ i = 0 /\ j = 0
      BY DEF Init, Loaded
<1>2. BufferSize \in Nat /\ IndexModulus \in Nat /\ BufferSize < IndexModulus
      /\ total \in 1..BufferSize
      BY <1>1, SortAssumption
<1>3. LastIndex = total - 1
  <2>1. \A a, m \in Nat : a < m => a % m = a OBVIOUS
  <2>2. total - 1 \in Nat /\ total - 1 < IndexModulus BY <1>2
  <2>3. (total - 1) % IndexModulus = total - 1 BY <1>2, <2>1, <2>2, Zenon
  <2> QED BY <1>1, <2>3 DEF LastIndex
<1>4. 0 \in Loaded /\ total - 1 \in Loaded /\ Loaded \subseteq Buffer
      BY <1>2 DEF Loaded, Buffer
<1>5. /\ stack \in Calls /\ DOMAIN stack = {1}
      /\ stack[1][1] = 0 /\ stack[1][2] = total - 1
      BY <1>1, <1>3, <1>4 DEF Calls
<1>6. fileIndexBuffer \in [Buffer -> Buffer] /\ \A k \in Loaded : fileIndexBuffer[k] = k
      BY <1>1, <1>4
<1>7. Types
  <2>1. i \in 0..BufferSize /\ j \in -1..BufferSize - 1 /\ count \in 1..total
        BY <1>1, <1>2
  <2> QED BY <1>1, <1>2, <1>4, <1>5, <1>6, <2>1 DEF Types, Steps
<1>8. Complete BY <1>1, <1>6 DEF Complete
<1>9. Loop /\ Stops BY <1>1 DEF Loop, Stops, Working
<1>10. Parts BY <1>1, <1>2, <1>5 DEF Parts, Apart, Working
<1>11. Order
  <2>1. ASSUME NEW k \in Loaded, NEW l \in Loaded PROVE Covered(k, l, stack)
    <3>1. Within(k, l, stack[1][1], stack[1][2])
          BY <1>2, <1>5 DEF Within, Loaded
    <3> QED BY <1>5, <3>1 DEF Covered
  <2> QED BY <1>1, <2>1 DEF Order, Pending
<1> QED BY <1>7, <1>8, <1>9, <1>10, <1>11 DEF IInv

LEMMA Inductive == ASSUME 0 \notin Counts PROVE Spec => []IInv
<1>1. Init => IInv BY Starts
<1>2. IInv /\ [Next]_vars => IInv'
  <2> SUFFICES ASSUME IInv, [Next]_vars PROVE IInv' OBVIOUS
  <2>1. ASSUME quicksort PROVE IInv'
    <3>1. ASSUME NEW r \in 1..IndexModulus - 1, NEW l \in 0..r - 1, Partition(l, r)
          PROVE  IInv'
      <4>1. IndexModulus \in Nat BY SortAssumption
      <4>2. l \in Int /\ r \in Int BY <4>1
      <4> QED BY <3>1, <4>2, PartitionKeeps
    <3> QED BY <2>1, <3>1, ReturnKeeps, ScanUpKeeps, ScanDownKeeps, SwapKeeps,
               CrossedKeeps, RecurseKeeps
            DEF quicksort
  <2>2. ASSUME clean_list PROVE IInv'
        BY <2>2, BeginCleanKeeps, DropBinKeeps, KeepFinishKeep DEF clean_list
  <2> QED BY <2>1, <2>2, StutterKeeps DEF Next
<1> QED BY <1>1, <1>2, PTL DEF Spec

(* Every index, bound and count keeps its type, on 16 bits where the code    *)
(* uses a uint16_t.                                                          *)
THEOREM TypeCorrect == ASSUME 0 \notin Counts PROVE Spec => []TypeOK
<1>1. IInv => TypeOK
  <2> SUFFICES ASSUME IInv PROVE TypeOK OBVIOUS
  <2>1. Types BY DEF IInv
  <2>2. total \in 1..BufferSize /\ count \in 1..total /\ BufferSize \in Nat
        /\ IndexModulus \in Nat /\ BufferSize < IndexModulus
        BY <2>1, SortAssumption DEF Types
  <2>3. Loaded \subseteq 0..IndexModulus - 1 BY <2>2 DEF Loaded
  <2>4. stack \in Seq((0..IndexModulus - 1) \X (0..IndexModulus - 1))
    <3>1. Loaded \X Loaded \subseteq (0..IndexModulus - 1) \X (0..IndexModulus - 1)
          BY <2>3
    <3>2. stack \in Seq(Loaded \X Loaded) BY <2>1 DEF Types, Calls
    <3> QED BY <3>1, <3>2
  <2>5. count \in 0..total /\ j \in -1..IndexModulus - 1 /\ i \in 0..BufferSize
        BY <2>1, <2>2 DEF Types
  <2> QED BY <2>1, <2>4, <2>5 DEF TypeOK, Types, Steps, Working, Loaded
<1> QED BY <1>1, Inductive, PTL

(* Neither the scans nor the choice of the pivot read outside               *)
(* fileIndexBuffer or the loaded file data.                                  *)
THEOREM StaysInside == ASSUME 0 \notin Counts PROVE Spec => []InsideBuffer
<1>1. IInv => InsideBuffer BY DEF IInv, Types, Steps, Working, InsideBuffer
<1> QED BY <1>1, Inductive, PTL

(* They do not even leave the part that is being partitioned: the pivot, and *)
(* later what was swapped, stops them.                                       *)
THEOREM ScansStop == ASSUME 0 \notin Counts PROVE Spec => []ScansStayInside
<1>1. IInv => ScansStayInside
  <2> SUFFICES ASSUME IInv PROVE ScansStayInside OBVIOUS
  <2>1. Types /\ Loop /\ Stops BY DEF IInv
  <2>2. left \in Int /\ right \in Int /\ i \in Int /\ j \in Int
        BY <2>1, LoadedInts, SortAssumption DEF Types
  <2>3. ASSUME pc = "up" PROVE i \in left..right
    <3>1. PICK k \in i..right : TRUE BY <2>1, <2>3 DEF Stops
    <3>2. i \in left..right + 1 BY <2>1, <2>3 DEF Loop, Working
    <3> QED BY <2>2, <3>1, <3>2
  <2>4. ASSUME pc = "down" PROVE j \in left..right
    <3>1. PICK k \in left..j : TRUE BY <2>1, <2>4 DEF Stops
    <3>2. j \in left - 1..right BY <2>1, <2>4 DEF Loop, Working
    <3> QED BY <2>2, <3>1, <3>2
  <2> QED BY <2>3, <2>4 DEF ScansStayInside
<1> QED BY <1>1, Inductive, PTL

(* The swaps lose no entry. *)
THEOREM NothingIsLost == ASSUME 0 \notin Counts PROVE Spec => []Permutation
<1>1. IInv => Permutation BY DEF IInv, Complete, Permutation, Loaded
<1> QED BY <1>1, Inductive, PTL

\* What quicksort leaves behind is in order, and cleaning keeps it so: every
\* entry comes before those after it, or is equal.
ListOrdered ==
    pc \in {"clean", "done"} =>
        \A k, l \in 0..count - 1 :
           k < l => compare(data[fileIndexBuffer[k]], data[fileIndexBuffer[l]]) <= 0

(* Quicksort sorts, and dropping entries leaves the rest in order.           *)
THEOREM ListIsOrdered == ASSUME 0 \notin Counts PROVE Spec => []ListOrdered
<1>1. IInv => ListOrdered BY DEF IInv, Order, InOrder, ListOrdered
<1> QED BY <1>1, Inductive, PTL

-------------------------------------------------------------------------------
(* The order of a listing.                                                  *)

(* R orders S: of any two elements one comes before the other. *)
Orders(R, S) ==
    /\ \A x \in S : <<x, x>> \notin R
    /\ \A x, y \in S : x # y => <<x, y>> \in R \/ <<y, x>> \in R
    /\ \A x, y, z \in S : <<x, y>> \in R /\ <<y, z>> \in R => <<x, z>> \in R

(* Every element of a finite set has its own place in the line. *)
LEMMA LineUpIsWhole ==
  ASSUME NEW S, IsFiniteSet(S), NEW R, Orders(R, S)
  PROVE  /\ Cardinality(S) \in Nat
         /\ LineUp(S, R) \in [1..Cardinality(S) -> S]
         /\ \A k, l \in 1..Cardinality(S) :
               k < l => <<LineUp(S, R)[k], LineUp(S, R)[l]>> \in R
         /\ \A x \in S : \E k \in 1..Cardinality(S) : LineUp(S, R)[k] = x
<1> DEFINE n == Cardinality(S)
           Below(x) == {y \in S : <<y, x>> \in R}
           rank == [x \in S |-> Cardinality(Below(x))]
<1>1. n \in Nat BY FS_CardinalityType
<1>2. ASSUME NEW x \in S
      PROVE  IsFiniteSet(Below(x)) /\ rank[x] = Cardinality(Below(x))
             /\ rank[x] \in 0..n - 1
  <2>1. Below(x) \in SUBSET S /\ x \notin Below(x) BY DEF Orders
  <2>2. IsFiniteSet(Below(x)) /\ Cardinality(Below(x)) <= n
        /\ (n = Cardinality(Below(x)) => S = Below(x))
        BY <2>1, FS_Subset
  <2>3. Cardinality(Below(x)) \in Nat BY <2>2, FS_CardinalityType
  <2>4. Cardinality(Below(x)) # n BY <2>1, <2>2
  <2> QED BY <1>1, <2>2, <2>3, <2>4
<1>3. ASSUME NEW x \in S, NEW y \in S, <<x, y>> \in R PROVE rank[x] < rank[y]
  <2>1. Below(x) \in SUBSET Below(y) /\ x \in Below(y) /\ x \notin Below(x)
        BY <1>3 DEF Orders
  <2>2. Cardinality(Below(x)) <= Cardinality(Below(y))
        /\ (Cardinality(Below(x)) = Cardinality(Below(y)) => Below(x) = Below(y))
        BY <1>2, <2>1, FS_Subset
  <2> HIDE DEF Below, rank
  <2>3. Below(x) # Below(y) BY <2>1
  <2>4. rank[x] \in Int /\ rank[y] \in Int BY <1>1, <1>2
  <2> QED BY <1>2, <2>2, <2>3, <2>4
<1>4. rank \in [S -> 0..n - 1] BY <1>2
<1>5. rank \in Injection(S, 0..n - 1)
  <2>1. ASSUME NEW x \in S, NEW y \in S, rank[x] = rank[y] PROVE x = y
    <3> HIDE DEF rank
    <3>1. rank[x] \in Int BY <1>1, <1>4
    <3>2. ~(rank[x] < rank[y]) /\ ~(rank[y] < rank[x]) BY <2>1, <3>1
    <3>3. <<x, y>> \notin R /\ <<y, x>> \notin R BY <1>3, <3>2
    <3> QED BY <3>3 DEF Orders
  <2> HIDE DEF rank
  <2> QED BY <1>4, <2>1 DEF Injection, IsInjective
<1>6. IsFiniteSet(0..n - 1) /\ Cardinality(0..n - 1) = n
  <2>1. 0 \in Int /\ n - 1 \in Int BY <1>1
  <2>2. IsFiniteSet(0..n - 1)
        /\ Cardinality(0..n - 1) = IF 0 > n - 1 THEN 0 ELSE n - 1 - 0 + 1
        BY <2>1, FS_Interval
  <2> HIDE DEF n
  <2> QED BY <1>1, <2>2
<1>7. rank \in Surjection(S, 0..n - 1)
  <2> HIDE DEF rank
  <2> QED BY <1>5, <1>6, FS_Injection
<1>8. ASSUME NEW k \in 1..n
      PROVE  LineUp(S, R)[k] \in S /\ rank[LineUp(S, R)[k]] = k - 1
  <2>1. k - 1 \in 0..n - 1 BY <1>1
  <2>2. PICK x \in S : rank[x] = k - 1
    <3> HIDE DEF rank
    <3> QED BY <1>7, <2>1 DEF Surjection
  <2>3. Cardinality({y \in S : <<y, x>> \in R}) = k - 1 BY <2>2
  <2>4. PICK w : w = CHOOSE z \in S : Cardinality({y \in S : <<y, z>> \in R}) = k - 1
        OBVIOUS
  <2>5. w \in S /\ Cardinality({y \in S : <<y, w>> \in R}) = k - 1 BY <2>3, <2>4
  <2>6. LineUp(S, R)[k] = w BY <2>4 DEF LineUp
  <2>7. rank[w] = k - 1 BY <2>5
  <2> QED BY <2>5, <2>6, <2>7
<1> DEFINE L == LineUp(S, R)
<1>9. L \in [1..n -> S]
  <2>1. L = [k \in 1..Cardinality(S) |->
               CHOOSE x \in S : Cardinality({y \in S : <<y, x>> \in R}) = k - 1]
        BY DEF LineUp
  <2>2. DOMAIN L = 1..n /\ L = [k \in 1..n |-> L[k]] BY <2>1
  <2> HIDE DEF L, n
  <2> QED BY <1>8, <2>2 DEF L
<1> HIDE DEF L, rank, Below
<1>10. ASSUME NEW k \in 1..n, NEW l \in 1..n, k < l PROVE <<L[k], L[l]>> \in R
  <2>1. L[k] \in S /\ L[l] \in S /\ rank[L[k]] = k - 1 /\ rank[L[l]] = l - 1
        BY <1>8 DEF L
  <2>2. rank[L[k]] < rank[L[l]] BY <1>1, <1>10, <2>1
  <2>3. rank[L[k]] \in Int /\ rank[L[l]] \in Int BY <1>1, <1>10, <2>1
  <2>4. L[k] # L[l] /\ <<L[l], L[k]>> \notin R BY <1>3, <2>1, <2>2, <2>3
  <2> QED BY <2>1, <2>4 DEF Orders
<1>11. ASSUME NEW x \in S PROVE \E k \in 1..n : L[k] = x
  <2>1. rank[x] \in 0..n - 1 BY <1>2
  <2>2. PICK k \in 1..n : k - 1 = rank[x]
    <3>1. rank[x] + 1 \in 1..n /\ (rank[x] + 1) - 1 = rank[x] BY <1>1, <2>1
    <3> QED BY <3>1
  <2>3. L[k] \in S /\ rank[L[k]] = rank[x] BY <1>8, <2>2 DEF L
  <2>4. L[k] = x BY <1>5, <2>3 DEF Injection, IsInjective
  <2> QED BY <2>4
<1> QED BY <1>1, <1>9, <1>10, <1>11 DEF L

(* p lists every index of s once, in the order of the entries. *)
Sorts(p, s) ==
    /\ p \in [1..Len(s) -> 1..Len(s)]
    /\ \A k, l \in 1..Len(s) : p[k] = p[l] => k = l
    /\ \A n \in 1..Len(s) : \E k \in 1..Len(s) : p[k] = n
    /\ \A k, l \in 1..Len(s) : k < l => compare(s[p[k]], s[p[l]]) <= 0

LEMMA ComparesAsPrecedes ==
  ASSUME NEW a \in Entries, NEW b \in Entries
  PROVE  /\ Precedes(a, b) <=> compare(a, b) < 0
         /\ compare(a, b) <= 0 <=> ~(compare(b, a) < 0)
         /\ compare(a, b) = 0 => a = b
<1>1. /\ a.name \in Nat /\ b.name \in Nat /\ a.flag \in {0, 1} /\ b.flag \in {0, 1}
      /\ a = [flag |-> a.flag, name |-> a.name]
      /\ b = [flag |-> b.flag, name |-> b.name]
      BY NamesAssumption DEF Entries
<1> QED BY <1>1 DEF compare, Precedes

LEMMA SortedIs ==
  ASSUME NEW s \in Seq(Entries)
  PROVE  \E q : Sorts(q, s) /\ Sorted(s) = [k \in 1..Len(s) |-> s[q[k]]]
<1> DEFINE D == 1..Len(s)
           order == LineUp(D, Ordered(s))
<1>1. Len(s) \in Nat /\ DOMAIN s = D BY LenProperties
<1>2. IsFiniteSet(D) /\ Cardinality(D) = Len(s)
  <2>1. IsFiniteSet(D) /\ Cardinality(D) = IF 1 > Len(s) THEN 0 ELSE (Len(s) - 1) + 1
        BY <1>1, FS_Interval
  <2> QED BY <1>1, <2>1
<1>3. ASSUME NEW x \in D PROVE s[x] \in Entries /\ x \in Nat
  <2>1. s[x] \in Entries BY ElementOfSeq
  <2> QED BY <1>1, <2>1
<1>4. \A x, y \in D : <<x, y>> \in Ordered(s) <=>
         \/ Precedes(s[x], s[y])
         \/ ~Precedes(s[y], s[x]) /\ x < y
      BY <1>1 DEF Ordered
<1>5. \A x, y \in D : <<x, y>> \in Ordered(s) => compare(s[x], s[y]) <= 0
  <2> SUFFICES ASSUME NEW x \in D, NEW y \in D, <<x, y>> \in Ordered(s)
               PROVE  compare(s[x], s[y]) <= 0
      OBVIOUS
  <2>1. s[x] \in Entries /\ s[y] \in Entries BY <1>3
  <2>2. compare(s[x], s[y]) \in Int BY <2>1, CompareType
  <2>3. Precedes(s[x], s[y]) \/ ~Precedes(s[y], s[x]) BY <1>4
  <2> QED BY <2>1, <2>2, <2>3, ComparesAsPrecedes
<1>6. Orders(Ordered(s), D)
  <2> HIDE DEF D
  <2>1. \A x \in D : s[x].flag \in {0, 1} /\ s[x].name \in Nat /\ x \in Nat
        BY <1>3, NamesAssumption DEF Entries
  <2>2. \A x \in D : <<x, x>> \notin Ordered(s) BY <1>4, <2>1 DEF Precedes
  <2>3. \A x, y \in D : x # y =>
           <<x, y>> \in Ordered(s) \/ <<y, x>> \in Ordered(s)
        BY <1>4, <2>1 DEF Precedes
  <2>4. ASSUME NEW x \in D, NEW y \in D, NEW z \in D,
               <<x, y>> \in Ordered(s), <<y, z>> \in Ordered(s)
        PROVE  <<x, z>> \in Ordered(s)
    <3>1. \/ Precedes(s[x], s[y])
          \/ ~Precedes(s[y], s[x]) /\ x < y
          BY <1>4, <2>4
    <3>2. \/ Precedes(s[y], s[z])
          \/ ~Precedes(s[z], s[y]) /\ y < z
          BY <1>4, <2>4
    <3>3. \/ Precedes(s[x], s[z])
          \/ ~Precedes(s[z], s[x]) /\ x < z
      <4>1. PICK f, g, h, k, l, m : /\ f = s[x].flag /\ k = s[x].name
                                    /\ g = s[y].flag /\ l = s[y].name
                                    /\ h = s[z].flag /\ m = s[z].name
            OBVIOUS
      <4>2. /\ f \in {0, 1} /\ g \in {0, 1} /\ h \in {0, 1}
            /\ k \in Nat /\ l \in Nat /\ m \in Nat
            /\ x \in Nat /\ y \in Nat /\ z \in Nat
            BY <2>1, <4>1
      <4>3. /\ Precedes(s[x], s[y]) <=> f > g \/ (f = g /\ k < l)
            /\ Precedes(s[y], s[x]) <=> g > f \/ (g = f /\ l < k)
            /\ Precedes(s[y], s[z]) <=> g > h \/ (g = h /\ l < m)
            /\ Precedes(s[z], s[y]) <=> h > g \/ (h = g /\ m < l)
            /\ Precedes(s[x], s[z]) <=> f > h \/ (f = h /\ k < m)
            /\ Precedes(s[z], s[x]) <=> h > f \/ (h = f /\ m < k)
            BY <4>1 DEF Precedes
      <4>4. \/ f > g \/ (f = g /\ k < l)
            \/ ~(g > f \/ (g = f /\ l < k)) /\ x < y
            BY Zenon, <3>1, <4>3
      <4>5. \/ g > h \/ (g = h /\ l < m)
            \/ ~(h > g \/ (h = g /\ m < l)) /\ y < z
            BY Zenon, <3>2, <4>3
      <4>6. \/ f > h \/ (f = h /\ k < m)
            \/ ~(h > f \/ (h = f /\ m < k)) /\ x < z
            BY <4>2, <4>4, <4>5
      <4> QED BY Zenon, <4>3, <4>6
    <3> QED BY <1>4, <3>3
  <2> QED BY <2>2, <2>3, <2>4 DEF Orders
<1>7. /\ order \in [D -> D]
      /\ \A k, l \in D : k < l => <<order[k], order[l]>> \in Ordered(s)
      /\ \A x \in D : \E k \in D : order[k] = x
      BY <1>2, <1>6, LineUpIsWhole
<1>8. Sorted(s) = [k \in D |-> s[order[k]]]
  <2>1. Sorted(s) = [k \in DOMAIN order |-> s[order[k]]] BY <1>1 DEF Sorted
  <2> HIDE DEF order
  <2> QED BY <1>7, <2>1
<1> HIDE DEF order
<1>9. \A k, l \in D : order[k] = order[l] => k = l
  <2> SUFFICES ASSUME NEW k \in D, NEW l \in D, order[k] = order[l] PROVE k = l
      OBVIOUS
  <2>1. k \in Int /\ l \in Int BY <1>3
  <2>2. ~(k < l) /\ ~(l < k) BY <1>6, <1>7 DEF Orders
  <2> QED BY <2>1, <2>2
<1>10. \A k, l \in D : k < l => compare(s[order[k]], s[order[l]]) <= 0
       BY <1>5, <1>7
<1> QED BY <1>7, <1>8, <1>9, <1>10 DEF Sorts

(* Of two ways to sort a listing, neither has a smaller entry anywhere: its *)
(* k-th entry is not before the k-th of the other one, by counting.         *)
LEMMA NotBefore ==
  ASSUME NEW s \in Seq(Entries), NEW p, Sorts(p, s), NEW q, Sorts(q, s),
         NEW k \in 1..Len(s)
  PROVE  ~(compare(s[p[k]], s[q[k]]) < 0)
<1> SUFFICES ASSUME compare(s[p[k]], s[q[k]]) < 0 PROVE FALSE OBVIOUS
<1> DEFINE N == 1..Len(s)
           f == [l \in 1..k |-> CHOOSE m \in N : q[m] = p[l]]
<1>1. Len(s) \in Nat BY LenProperties
<1>2. \A l \in N : p[l] \in N /\ q[l] \in N /\ s[p[l]] \in Entries /\ s[q[l]] \in Entries
  <2>1. \A l \in N : p[l] \in N /\ q[l] \in N BY DEF Sorts
  <2> QED BY <2>1, ElementOfSeq
<1>3. ASSUME NEW l \in 1..k
      PROVE  l \in N /\ f[l] \in N /\ q[f[l]] = p[l] /\ f[l] \in 1..k - 1
  <2>1. l \in N /\ l <= k BY <1>1
  <2>2. \E m \in N : q[m] = p[l] BY <1>2, <2>1 DEF Sorts
  <2>3. f[l] \in N /\ q[f[l]] = p[l] BY <2>2
  <2> HIDE DEF f
  <2>4. ASSUME ~(f[l] < k) PROVE FALSE
    <3>1. f[l] = k \/ k < f[l] BY <1>1, <2>3, <2>4
    <3>2. p[k] \in N /\ p[l] \in N /\ q[k] \in N /\ (l = k \/ l < k)
          BY <1>2, <2>1
    <3>3. s[p[k]] \in Entries /\ s[p[l]] \in Entries /\ s[q[k]] \in Entries
          BY <1>2, <2>1
    <3>4. \A e \in Entries : compare(e, e) <= 0
      <4>1. \A e \in Entries : e.name \in Nat BY NamesAssumption DEF Entries
      <4> QED BY <4>1 DEF compare
    <3>5. compare(s[q[k]], s[p[l]]) <= 0
      <4>1. CASE f[l] = k BY <2>3, <3>3, <3>4, <4>1
      <4>2. CASE k < f[l]
        <5>1. compare(s[q[k]], s[q[f[l]]]) <= 0 BY <2>3, <4>2 DEF Sorts
        <5> QED BY <2>3, <5>1
      <4> QED BY <3>1, <4>1, <4>2
    <3>6. compare(s[p[l]], s[p[k]]) <= 0
      <4>1. CASE l = k BY <3>3, <3>4, <4>1
      <4>2. CASE l < k BY <2>1, <4>2 DEF Sorts
      <4> QED BY <2>1, <4>1, <4>2
    <3>7. compare(s[p[k]], s[p[l]]) >= 0
      <4>1. compare(s[p[k]], s[p[l]]) \in Int BY <3>3, CompareType
      <4>2. ~(compare(s[p[k]], s[p[l]]) < 0) BY <3>3, <3>6, ComparesAsPrecedes
      <4> QED BY <4>1, <4>2
    <3>8. compare(s[q[k]], s[p[k]]) <= 0
          BY <3>3, <3>5, <3>7, CompareTransitive
    <3> QED BY <3>3, <3>8, ComparesAsPrecedes
  <2> QED BY <1>1, <2>1, <2>3, <2>4
<1> HIDE DEF f
<1>4. f \in [1..k -> 1..k - 1]
  <2>1. f = [l \in 1..k |-> f[l]] BY DEF f
  <2> QED BY <1>3, <2>1
<1>5. /\ IsFiniteSet(1..k) /\ IsFiniteSet(1..k - 1)
      /\ Cardinality(1..k - 1) < Cardinality(1..k)
  <2>1. k \in Nat /\ k >= 1 /\ k - 1 \in Nat /\ 1 \in Int BY <1>1
  <2>2. IsFiniteSet(1..k) /\ Cardinality(1..k) = IF 1 > k THEN 0 ELSE (k - 1) + 1
        BY <2>1, FS_Interval
  <2>3. PICK m \in Int : m = k - 1 BY <2>1
  <2>4. IsFiniteSet(1..m) /\ Cardinality(1..m) = IF 1 > m THEN 0 ELSE (m - 1) + 1
        BY <2>1, FS_Interval
  <2>5. Cardinality(1..m) < Cardinality(1..k) BY <2>1, <2>2, <2>3, <2>4
  <2> QED BY <2>2, <2>3, <2>4, <2>5
<1>6. PICK x \in 1..k, y \in 1..k : x # y /\ f[x] = f[y] BY <1>4, <1>5, FS_PigeonHole
<1>7. p[x] = p[y] BY <1>3, <1>6
<1> QED BY <1>3, <1>6, <1>7 DEF Sorts

(* So the entries come out the same. *)
LEMMA SortedIsUnique ==
  ASSUME NEW s \in Seq(Entries), NEW p, Sorts(p, s), NEW k \in 1..Len(s)
  PROVE  Sorted(s)[k] = s[p[k]]
<1>1. PICK q : Sorts(q, s) /\ Sorted(s) = [n \in 1..Len(s) |-> s[q[n]]]
      BY SortedIs
<1>2. s[p[k]] \in Entries /\ s[q[k]] \in Entries
  <2>1. p[k] \in 1..Len(s) /\ q[k] \in 1..Len(s) BY <1>1 DEF Sorts
  <2> QED BY <2>1, ElementOfSeq
<1>3. ~(compare(s[p[k]], s[q[k]]) < 0) /\ ~(compare(s[q[k]], s[p[k]]) < 0)
      BY <1>1, NotBefore
<1>4. compare(s[p[k]], s[q[k]]) \in Int /\ compare(s[p[k]], s[q[k]]) <= 0
      BY <1>2, <1>3, CompareType, ComparesAsPrecedes
<1>5. s[p[k]] = s[q[k]] BY <1>2, <1>3, <1>4, ComparesAsPrecedes
<1> QED BY <1>1, <1>5

(* What cleaning keeps of s, in the order of s. *)
Line(s) == LineUp(Kept(s), {p \in Kept(s) \X Kept(s) : p[1] < p[2]})
Keeps(f, c, s) ==
    /\ c \in Nat /\ f \in [1..c -> 1..Len(s)]
    /\ \A k, l \in 1..c : k < l => f[k] < f[l]
    /\ \A n \in 1..Len(s) :
          (\E k \in 1..c : f[k] = n) <=> n = Len(s) \/ ~HiddenBy(s[n], s[n + 1])

LEMMA CleanedIs ==
  ASSUME NEW E, NEW s \in Seq(E)
  PROVE  \E f, c : /\ f = Line(s) /\ Keeps(f, c, s)
                   /\ Cleaned(s) = [k \in 1..c |-> s[f[k]]]
<1> DEFINE K == Kept(s)
           Earlier == {p \in K \X K : p[1] < p[2]}
           n == Cardinality(K)
<1>1. Len(s) \in Nat /\ DOMAIN s = 1..Len(s) BY LenProperties
<1>2. K \in SUBSET (1..Len(s)) BY <1>1 DEF Kept
<1>3. IsFiniteSet(K)
  <2>1. IsFiniteSet(1..Len(s)) BY <1>1, FS_Interval
  <2> QED BY <1>2, <2>1, FS_Subset
<1>4. \A x, y \in K : <<x, y>> \in Earlier <=> x < y OBVIOUS
<1>5. Orders(Earlier, K)
  <2>1. \A x \in K : x \in Int BY <1>1, <1>2
  <2> HIDE DEF K, Earlier
  <2> QED BY <1>4, <2>1 DEF Orders
<1>6. PICK f : f = Line(s) OBVIOUS
<1>7. f = LineUp(K, Earlier) BY <1>6 DEF Line
<1>8. /\ n \in Nat /\ f \in [1..n -> K]
      /\ \A k, l \in 1..n : k < l => <<f[k], f[l]>> \in Earlier
      /\ \A x \in K : \E k \in 1..n : f[k] = x
  <2> HIDE DEF K, Earlier
  <2> QED BY <1>3, <1>5, <1>7, LineUpIsWhole
<1>9. Cleaned(s) = [k \in 1..n |-> s[f[k]]]
  <2>1. Cleaned(s) = [k \in DOMAIN f |-> s[f[k]]] BY <1>7 DEF Cleaned
  <2> QED BY <1>8, <2>1
<1>10. Keeps(f, n, s)
  <2>1. \A x \in 1..Len(s) : x \in K <=> x = Len(s) \/ ~HiddenBy(s[x], s[x + 1])
        BY <1>1 DEF Kept
  <2> HIDE DEF K, Earlier, n
  <2>2. f \in [1..n -> 1..Len(s)] BY <1>2, <1>8
  <2>3. \A k, l \in 1..n : k < l => f[k] < f[l] BY <1>4, <1>8
  <2>4. \A x \in 1..Len(s) : (\E k \in 1..n : f[k] = x) <=> x \in K BY <1>8
  <2> QED BY <1>8, <2>1, <2>2, <2>3, <2>4 DEF Keeps
<1> QED BY <1>6, <1>9, <1>10

-------------------------------------------------------------------------------
(* The cleaning, entry by entry, against the reference S, of which f keeps  *)
(* the entries: those before i are kept ones, and those from i on are still *)
(* what S has at its end.                                                    *)

Raw == [k \in 1..total |-> data[k - 1]]

Cleaning(S, f) ==
    /\ i \in 0..count - 1
    /\ \A k \in i..count - 1 :
          data[fileIndexBuffer[k]] = S[(k + (total - count)) + 1]
    /\ \A k \in 0..i - 1 : data[fileIndexBuffer[k]] = S[f[k + 1]]
    /\ \A m \in DOMAIN f : (m <= i) <=> (f[m] <= i + (total - count))
Matching ==
    /\ pc = "clean" => \E S \in {Sorted(Raw)} : \E f \in {Line(S)} : Cleaning(S, f)
    /\ MatchesReference

LEMMA RawIs ==
  ASSUME Types
  PROVE  /\ Raw \in Seq(Entries) /\ Len(Raw) = total /\ total \in Nat
         /\ \A e \in Loaded : Raw[e + 1] = data[e]
<1>1. total \in Nat /\ data \in [Loaded -> Entries] BY DEF Types
<1>2. \A k \in 1..total : k - 1 \in Loaded /\ data[k - 1] \in Entries
      BY <1>1 DEF Loaded
<1>3. Raw = [k \in 1..total |-> data[k - 1]] BY DEF Raw
<1>4. Raw \in Seq(Entries) /\ Len(Raw) = total BY <1>1, <1>2, <1>3
<1>5. ASSUME NEW e \in Loaded PROVE Raw[e + 1] = data[e]
  <2>1. PICK k : k = e + 1 OBVIOUS
  <2>2. k \in 1..total /\ k - 1 = e BY <1>1, <2>1 DEF Loaded
  <2>3. Raw[k] = data[k - 1] BY <1>3, <2>2
  <2> QED BY <2>1, <2>2, <2>3
<1> QED BY <1>1, <1>4, <1>5

(* Quicksort leaves the one way to sort the entries. *)
LEMMA SortedAsReference ==
  ASSUME IInv, pc = "call", stack = << >>, NEW e \in Loaded
  PROVE  data[fileIndexBuffer[e]] = Sorted(Raw)[e + 1]
<1>1. Types /\ Complete BY DEF IInv
<1>2. PICK s \in Seq(Entries) : s = Raw BY <1>1, RawIs
<1>3. Len(s) = total /\ total \in Nat /\ \A x \in Loaded : s[x + 1] = data[x]
      BY <1>1, <1>2, RawIs
<1> DEFINE p == [k \in 1..total |-> fileIndexBuffer[k - 1] + 1]
<1>4. ASSUME NEW k \in 1..total
      PROVE  /\ k - 1 \in Loaded /\ p[k] \in 1..total
             /\ p[k] = fileIndexBuffer[k - 1] + 1
             /\ s[p[k]] = data[fileIndexBuffer[k - 1]]
  <2>1. k - 1 \in Loaded BY <1>3 DEF Loaded
  <2>2. PICK x \in Loaded : x = fileIndexBuffer[k - 1] BY <1>1, <2>1 DEF Types
  <2>3. p[k] = x + 1 BY <2>2
  <2>4. x + 1 \in 1..total BY <1>3 DEF Loaded
  <2>5. s[x + 1] = data[x] BY <1>3
  <2> QED BY <2>1, <2>2, <2>3, <2>4, <2>5
<1>5. p \in [1..total -> 1..total] BY <1>4
<1> HIDE DEF p
<1>6. \A n \in 1..total : \E k \in 1..total : p[k] = n
  <2> SUFFICES ASSUME NEW n \in 1..total PROVE \E k \in 1..total : p[k] = n
      OBVIOUS
  <2>1. PICK x \in Loaded : x = n - 1 BY <1>3 DEF Loaded
  <2>2. PICK y \in Loaded : fileIndexBuffer[y] = x BY <1>1 DEF Complete
  <2>3. PICK k \in 1..total : k - 1 = y
    <3>1. y + 1 \in 1..total /\ (y + 1) - 1 = y BY <1>3 DEF Loaded
    <3> QED BY <3>1
  <2>4. p[k] = x + 1 BY <1>4, <2>2, <2>3
  <2> QED BY <1>3, <2>1, <2>4
<1>7. \A k, l \in 1..total : p[k] = p[l] => k = l
  <2>1. IsFiniteSet(1..total) BY <1>3, FS_Interval
  <2>2. p \in Surjection(1..total, 1..total) BY <1>5, <1>6 DEF Surjection
  <2>3. p \in Injection(1..total, 1..total)
        BY <2>1, <2>2, FS_SurjSameCardinalityImpliesInj
  <2> QED BY <2>3 DEF Injection, IsInjective
<1>8. ASSUME NEW k \in 1..total, NEW l \in 1..total, k < l
      PROVE  compare(s[p[k]], s[p[l]]) <= 0
  <2>1. PICK x \in Loaded, y \in Loaded : x = k - 1 /\ y = l - 1 BY <1>4
  <2>2. x < y BY <1>3, <1>8, <2>1
  <2>3. InOrder(x, y) \/ Pending(x, y) BY <1>1, <2>2 DEF IInv, Order
  <2>4. ~Pending(x, y)
    <3>1. DOMAIN stack = {} OBVIOUS
    <3> QED BY <3>1 DEF Pending, Covered, Working
  <2> QED BY <1>4, <2>1, <2>3, <2>4 DEF InOrder
<1>9. Sorts(p, s) BY <1>3, <1>5, <1>6, <1>7, <1>8 DEF Sorts
<1>10. PICK k \in 1..total : k - 1 = e /\ k = e + 1
  <2>1. e + 1 \in 1..total /\ (e + 1) - 1 = e BY <1>3 DEF Loaded
  <2> QED BY <2>1
<1>11. Sorted(s)[k] = s[p[k]] BY <1>3, <1>9, SortedIsUnique
<1> QED BY <1>2, <1>4, <1>10, <1>11

LEMMA BeginMatches == ASSUME IInv, BeginClean PROVE Matching'
<1>1. Types /\ Complete BY DEF IInv
<1>2. /\ pc = "call" /\ pc' = "clean" /\ stack = << >> /\ i' = 0
      /\ UNCHANGED <<data, total, count, fileIndexBuffer>>
      BY DEF BeginClean, list, args
<1>3. PICK s \in Seq(Entries) : s = Raw BY <1>1, RawIs
<1>4. Raw' = s BY <1>2, <1>3 DEF Raw
<1>5. PICK S : S = Sorted(s) OBVIOUS
<1>6. PICK f : f = Line(S) OBVIOUS
<1>7. count = total /\ total \in Nat /\ total > 0 BY <1>1, <1>2, SortAssumption DEF Types, Complete
<1>8. S \in Seq(Entries)
  <2>1. PICK q : Sorts(q, s) /\ S = [k \in 1..Len(s) |-> s[q[k]]] BY <1>5, SortedIs
  <2>2. Len(s) \in Nat /\ \A k \in 1..Len(s) : s[q[k]] \in Entries
    <3>1. \A k \in 1..Len(s) : q[k] \in 1..Len(s) BY <2>1 DEF Sorts
    <3> QED BY <3>1, ElementOfSeq, LenProperties
  <2> QED BY <2>1, <2>2
<1>9. PICK c : Keeps(f, c, S) BY <1>6, <1>8, CleanedIs
<1>10. Cleaning(S, f)'
  <2>1. i' \in 0..count' - 1 BY <1>2, <1>7
  <2>2. ASSUME NEW k \in i'..count' - 1
        PROVE  data'[fileIndexBuffer'[k]] = S[(k + (total' - count')) + 1]
    <3>1. k \in Loaded /\ (k + (total' - count')) + 1 = k + 1
          BY <1>2, <1>7, <2>2 DEF Loaded
    <3>2. data[fileIndexBuffer[k]] = S[k + 1]
          BY <1>2, <1>3, <1>5, <3>1, SortedAsReference
    <3> QED BY <1>2, <3>1, <3>2
  <2>3. 0..i' - 1 = {} BY <1>2
  <2>4. ASSUME NEW m \in DOMAIN f
        PROVE  (m <= i') <=> (f[m] <= i' + (total' - count'))
    <3>1. m \in 1..c /\ c \in Nat /\ f[m] \in 1..Len(S) /\ Len(S) \in Nat
          BY <1>8, <1>9, LenProperties DEF Keeps
    <3> QED BY <1>2, <1>7, <3>1
  <2> QED BY <2>1, <2>2, <2>3, <2>4 DEF Cleaning
<1> QED BY <1>2, <1>4, <1>5, <1>6, <1>10 DEF Matching, MatchesReference

(* In the middle of the cleaning; x is the place in S of the entry at i. *)
Midway(S, f, c, x) ==
    /\ S \in Seq(Entries) /\ Len(S) = total /\ S = Sorted(Raw) /\ f = Line(S)
    /\ Keeps(f, c, S) /\ Cleaned(S) = [k \in 1..c |-> S[f[k]]]
    /\ Cleaning(S, f) /\ x = (i + (total - count)) + 1

LEMMA IsMidway ==
  ASSUME IInv, Matching, pc = "clean" PROVE \E S, f, c, x : Midway(S, f, c, x)
<1>1. Types BY DEF IInv
<1>2. PICK s \in Seq(Entries) : s = Raw /\ Len(s) = total BY <1>1, RawIs
<1>3. PICK S : S = Sorted(s) OBVIOUS
<1>4. PICK f : f = Line(S) OBVIOUS
<1>5. S \in Seq(Entries) /\ Len(S) = total
  <2>1. PICK q : Sorts(q, s) /\ S = [k \in 1..Len(s) |-> s[q[k]]] BY <1>3, SortedIs
  <2>2. Len(s) \in Nat /\ \A k \in 1..Len(s) : s[q[k]] \in Entries
    <3>1. \A k \in 1..Len(s) : q[k] \in 1..Len(s) BY <2>1 DEF Sorts
    <3> QED BY <3>1, ElementOfSeq, LenProperties
  <2> QED BY <1>2, <2>1, <2>2
<1>6. PICK c : Keeps(f, c, S) /\ Cleaned(S) = [k \in 1..c |-> S[f[k]]]
      BY <1>4, <1>5, CleanedIs
<1>7. Cleaning(S, f) BY <1>2, <1>3, <1>4 DEF Matching
<1> QED BY <1>2, <1>3, <1>4, <1>5, <1>6, <1>7 DEF Midway

LEMMA MidwayFacts ==
  ASSUME IInv, pc = "clean", NEW S, NEW f, NEW c, NEW x, Midway(S, f, c, x)
  PROVE  /\ total \in Nat /\ count \in 1..total /\ i \in 0..count - 1
         /\ x \in 1..total /\ x = (i + (total - count)) + 1
         /\ c \in Nat /\ DOMAIN f = 1..c /\ \A m \in 1..c : f[m] \in 1..total
         /\ data[fileIndexBuffer[i]] = S[x]
         /\ i < count - 1 =>
               /\ x < total /\ data[fileIndexBuffer[i + 1]] = S[x + 1]
               /\ Hidden(i) <=> ~(\E m \in 1..c : f[m] = x)
         /\ i >= count - 1 => x = total
<1>1. Types BY DEF IInv
<1>2. total \in Nat /\ count \in 1..total /\ i \in 0..count - 1
      /\ x = (i + (total - count)) + 1
      BY <1>1, SortAssumption DEF Types, Midway, Cleaning
<1>3. x \in 1..total /\ (i >= count - 1 => x = total) BY <1>2
<1>4. c \in Nat /\ DOMAIN f = 1..c /\ \A m \in 1..c : f[m] \in 1..total
      BY DEF Midway, Keeps
<1>5. data[fileIndexBuffer[i]] = S[x]
  <2>1. i \in i..count - 1 BY <1>2
  <2> QED BY <1>2, <2>1 DEF Midway, Cleaning
<1>6. ASSUME i < count - 1
      PROVE  /\ x < total /\ data[fileIndexBuffer[i + 1]] = S[x + 1]
             /\ Hidden(i) <=> ~(\E m \in 1..c : f[m] = x)
  <2>1. /\ x < total /\ i + 1 \in i..count - 1
        /\ ((i + 1) + (total - count)) + 1 = x + 1
        BY <1>2, <1>6
  <2>2. data[fileIndexBuffer[i + 1]] = S[x + 1] BY <2>1 DEF Midway, Cleaning
  <2>3. Hidden(i) <=> HiddenBy(S[x], S[x + 1]) BY <1>5, <2>2 DEF Hidden
  <2>4. (\E m \in 1..c : f[m] = x) <=> x = Len(S) \/ ~HiddenBy(S[x], S[x + 1])
        BY <1>3 DEF Midway, Keeps
  <2>5. x # Len(S) BY <1>2, <2>1 DEF Midway
  <2> QED BY <2>1, <2>2, <2>3, <2>4, <2>5, Zenon
<1> QED BY <1>2, <1>3, <1>4, <1>5, <1>6

(* A dropped entry is one that the reference does not keep. *)
LEMMA DropMatches == ASSUME IInv, Matching, DropBin PROVE Matching'
<1>1. /\ pc = "clean" /\ pc' = "clean" /\ i < count - 1 /\ Hidden(i)
      /\ count' = count - 1
      /\ UNCHANGED <<data, total, i>>
      BY DEF DropBin
<1>2. fileIndexBuffer' = [k \in Buffer |-> IF k \in i..count - 2
                                           THEN fileIndexBuffer[k + 1]
                                           ELSE fileIndexBuffer[k]]
      BY DEF DropBin
<1>3. PICK S, f, c, x : Midway(S, f, c, x) BY <1>1, IsMidway
<1>4. /\ total \in Nat /\ count \in 1..total /\ i \in 0..count - 1
      /\ x = (i + (total - count)) + 1 /\ x \in 1..total
      /\ c \in Nat /\ DOMAIN f = 1..c /\ \A m \in 1..c : f[m] \in 1..total
      /\ ~(\E m \in 1..c : f[m] = x)
      BY <1>1, <1>3, MidwayFacts
<1>5. Cleaning(S, f) BY <1>3 DEF Midway
<1>6. total <= BufferSize /\ BufferSize \in Nat
      BY SortAssumption DEF IInv, Types
<1>7. Cleaning(S, f)'
  <2>1. i' \in 0..count' - 1 BY <1>1, <1>4
  <2>2. ASSUME NEW k \in i'..count' - 1
        PROVE  data'[fileIndexBuffer'[k]] = S[(k + (total' - count')) + 1]
    <3>1. /\ k \in Buffer /\ k \in i..count - 2 /\ k + 1 \in i..count - 1
          /\ (k + (total' - count')) + 1 = ((k + 1) + (total - count)) + 1
          BY <1>1, <1>4, <1>6, <2>2 DEF Buffer
    <3>2. fileIndexBuffer'[k] = fileIndexBuffer[k + 1] BY <1>2, <3>1
    <3>3. data[fileIndexBuffer[k + 1]] = S[((k + 1) + (total - count)) + 1]
          BY <1>5, <3>1 DEF Cleaning
    <3> QED BY <1>1, <3>1, <3>2, <3>3
  <2>3. ASSUME NEW k \in 0..i' - 1
        PROVE  data'[fileIndexBuffer'[k]] = S[f[k + 1]]
    <3>1. k \in Buffer /\ ~(k \in i..count - 2) /\ k \in 0..i - 1
          BY <1>1, <1>4, <1>6, <2>3 DEF Buffer
    <3>2. fileIndexBuffer'[k] = fileIndexBuffer[k] BY <1>2, <3>1
    <3> QED BY <1>1, <1>5, <3>1, <3>2 DEF Cleaning
  <2>4. ASSUME NEW m \in DOMAIN f
        PROVE  (m <= i') <=> (f[m] <= i' + (total' - count'))
    <3>1. (m <= i) <=> (f[m] <= i + (total - count)) BY <1>5 DEF Cleaning
    <3>2. f[m] # x /\ f[m] \in Nat BY <1>4
    <3>3. i' + (total' - count') = x /\ i + (total - count) = x - 1 /\ i' = i
          BY <1>1, <1>4
    <3>4. PICK y : y = f[m] OBVIOUS
    <3>5. (y <= x - 1) <=> (y <= x) BY <1>4, <3>2, <3>4
    <3>6. (m <= i) <=> (y <= x - 1) BY <3>1, <3>3, <3>4
    <3>7. (m <= i') <=> (y <= i' + (total' - count')) BY <3>3, <3>5, <3>6
    <3> QED BY <3>4, <3>7
  <2> QED BY <2>1, <2>2, <2>3, <2>4 DEF Cleaning
<1>8. Raw' = Raw BY <1>1 DEF Raw
<1>9. S = Sorted(Raw) /\ f = Line(S) BY <1>3 DEF Midway
<1> QED BY <1>1, <1>7, <1>8, <1>9 DEF Matching, MatchesReference

(* One that is passed is the next of those it keeps. *)
LEMMA NextKept ==
  ASSUME IInv, pc = "clean", NEW S, NEW f, NEW c, NEW x, Midway(S, f, c, x),
         NEW m \in 1..c, f[m] = x
  PROVE  m = i + 1
<1>1. /\ total \in Nat /\ count \in 1..total /\ i \in 0..count - 1
      /\ x = (i + (total - count)) + 1 /\ c \in Nat /\ DOMAIN f = 1..c
      /\ \A k \in 1..c : f[k] \in 1..total
      BY MidwayFacts
<1>2. \A k \in 1..c : (k <= i) <=> (f[k] <= i + (total - count))
      BY <1>1 DEF Midway, Cleaning
<1>3. m > i BY <1>1, <1>2
<1>4. ASSUME m > i + 1 PROVE FALSE
  <2>1. i + 1 \in 1..c /\ i + 1 < m /\ ~(i + 1 <= i) BY <1>1, <1>4
  <2>2. PICK k \in 1..c : k = i + 1 BY <2>1
  <2>3. f[k] < f[m] BY <2>1, <2>2 DEF Midway, Keeps
  <2>4. ~(f[k] <= i + (total - count)) BY <1>2, <2>1, <2>2
  <2>5. f[k] \in Int BY <1>1
  <2> QED BY <1>1, <2>3, <2>4, <2>5
<1> QED BY <1>1, <1>3, <1>4

LEMMA KeepMatches == ASSUME IInv, Matching, Keep PROVE Matching'
<1>1. /\ pc = "clean" /\ pc' = "clean" /\ i < count - 1 /\ ~Hidden(i) /\ i' = i + 1
      /\ UNCHANGED <<data, total, count, fileIndexBuffer>>
      BY DEF Keep, list
<1>2. PICK S, f, c, x : Midway(S, f, c, x) BY <1>1, IsMidway
<1>3. /\ total \in Nat /\ count \in 1..total /\ i \in 0..count - 1
      /\ x = (i + (total - count)) + 1 /\ x \in 1..total
      /\ c \in Nat /\ DOMAIN f = 1..c /\ \A m \in 1..c : f[m] \in 1..total
      /\ data[fileIndexBuffer[i]] = S[x]
      /\ \E m \in 1..c : f[m] = x
      BY <1>1, <1>2, MidwayFacts
<1>4. PICK m \in 1..c : f[m] = x BY <1>3
<1>5. m = i + 1 BY <1>1, <1>2, <1>4, NextKept
<1>6. Cleaning(S, f) BY <1>2 DEF Midway
<1>7. Cleaning(S, f)'
  <2>1. i' \in 0..count' - 1 BY <1>1, <1>3
  <2>2. ASSUME NEW k \in i'..count' - 1
        PROVE  data'[fileIndexBuffer'[k]] = S[(k + (total' - count')) + 1]
    <3>1. k \in i..count - 1 BY <1>1, <1>3, <2>2
    <3> QED BY <1>1, <1>6, <3>1 DEF Cleaning
  <2>3. ASSUME NEW k \in 0..i' - 1
        PROVE  data'[fileIndexBuffer'[k]] = S[f[k + 1]]
    <3>1. CASE k = i BY <1>1, <1>3, <1>4, <1>5, <3>1
    <3>2. CASE k # i
      <4>1. k \in 0..i - 1 BY <1>1, <1>3, <2>3, <3>2
      <4> QED BY <1>1, <1>6, <4>1 DEF Cleaning
    <3> QED BY <3>1, <3>2
  <2>4. ASSUME NEW n \in DOMAIN f
        PROVE  (n <= i') <=> (f[n] <= i' + (total' - count'))
    <3>1. n \in Nat /\ f[n] \in Nat /\ n \in 1..c BY <1>3
    <3>2. i' + (total' - count') = x /\ i' = m BY <1>1, <1>3, <1>5
    <3>3. /\ n < m => f[n] < f[m]
          /\ m < n => f[m] < f[n]
          BY <1>2, <3>1 DEF Midway, Keeps
    <3>4. (n <= m) <=> (f[n] <= f[m])
      <4>1. PICK y, z : y = f[n] /\ z = f[m] OBVIOUS
      <4>2. z \in Nat
        <5>1. f[m] \in 1..total BY <1>3
        <5> QED BY <1>3, <4>1, <5>1
      <4>3. n < m => y < z BY <3>3, <4>1, Zenon
      <4>4. m < n => z < y BY <3>3, <4>1, Zenon
      <4>5. n = m => y = z BY <4>1
      <4>6. m \in Nat /\ y \in Nat BY <1>3, <1>4, <3>1, <4>1
      <4>7. (n <= m) <=> (y <= z) BY <3>1, <4>2, <4>3, <4>4, <4>5, <4>6
      <4> QED BY <4>1, <4>7
    <3> QED BY <1>4, <3>2, <3>4, Zenon
  <2> QED BY <2>1, <2>2, <2>3, <2>4 DEF Cleaning
<1>8. Raw' = Raw BY <1>1 DEF Raw
<1>9. S = Sorted(Raw) /\ f = Line(S) BY <1>2 DEF Midway
<1> QED BY <1>1, <1>7, <1>8, <1>9 DEF Matching, MatchesReference

(* The last entry is always kept, and then the list is the reference.       *)
LEMMA FinishMatches == ASSUME IInv, Matching, Finish PROVE Matching'
<1>1. /\ pc = "clean" /\ pc' = "done" /\ i >= count - 1
      /\ UNCHANGED <<data, total, count, fileIndexBuffer>>
      BY DEF Finish, list
<1>2. PICK S, f, c, x : Midway(S, f, c, x) BY <1>1, IsMidway
<1>3. /\ total \in Nat /\ count \in 1..total /\ i \in 0..count - 1 /\ x = total
      /\ c \in Nat /\ DOMAIN f = 1..c /\ \A m \in 1..c : f[m] \in 1..total
      /\ data[fileIndexBuffer[i]] = S[x]
      BY <1>1, <1>2, MidwayFacts
<1>4. PICK m \in 1..c : f[m] = x
  <2>1. x \in 1..Len(S) /\ x = Len(S) BY <1>2, <1>3 DEF Midway
  <2> QED BY <1>2, <2>1 DEF Midway, Keeps
<1>5. m = i + 1 BY <1>1, <1>2, <1>4, NextKept
<1>6. c = count
  <2>1. m = count /\ m <= c BY <1>1, <1>3, <1>5
  <2>2. ASSUME m < c PROVE FALSE
    <3>1. f[m] < f[c] /\ f[c] \in 1..total
          BY <1>2, <1>3, <2>2 DEF Midway, Keeps
    <3> QED BY <1>3, <1>4, <3>1
  <2> QED BY <1>3, <2>1, <2>2
<1>7. ASSUME NEW k \in 1..count PROVE data[fileIndexBuffer[k - 1]] = S[f[k]]
  <2>1. CASE k = m BY <1>3, <1>4, <1>5, <2>1
  <2>2. CASE k # m
    <3>1. k - 1 \in 0..i - 1 /\ (k - 1) + 1 = k BY <1>1, <1>3, <1>5, <2>2
    <3>2. PICK e \in 0..i - 1 : e = k - 1 BY <3>1
    <3>3. data[fileIndexBuffer[e]] = S[f[e + 1]] BY <1>2 DEF Midway, Cleaning
    <3> QED BY <3>1, <3>2, <3>3
  <2> QED BY <2>1, <2>2
<1>8. [k \in 1..count |-> data[fileIndexBuffer[k - 1]]] = Cleaned(S)
      BY <1>2, <1>6, <1>7 DEF Midway
<1>9. Cleaned(S) = Cleaned(Sorted([k \in 1..total |-> data[k - 1]]))
      BY <1>2 DEF Midway, Raw
<1> QED BY <1>1, <1>8, <1>9 DEF Matching, MatchesReference

LEMMA MatchingInductive == ASSUME 0 \notin Counts PROVE Spec => []Matching
<1>1. Init => Matching BY DEF Init, Matching, MatchesReference
<1>2. IInv /\ Matching /\ [Next]_vars => Matching'
  <2> SUFFICES ASSUME IInv, Matching, [Next]_vars PROVE Matching' OBVIOUS
  <2>1. ASSUME quicksort PROVE Matching'
    <3>1. pc' \notin {"clean", "done"}
          BY <2>1 DEF quicksort, Return, ScanUp, ScanDown, Swap, Crossed, Recurse,
                      Partition
    <3> QED BY <3>1 DEF Matching, MatchesReference
  <2>2. ASSUME UNCHANGED vars PROVE Matching'
    <3>1. UNCHANGED <<pc, data, total, count, fileIndexBuffer, i>>
          BY <2>2 DEF vars, list
    <3> QED BY <3>1 DEF Matching, MatchesReference, Raw, Cleaning
  <2> QED BY <2>1, <2>2, BeginMatches, DropMatches, KeepMatches, FinishMatches
          DEF Next, clean_list
<1> QED BY <1>1, <1>2, Inductive, PTL DEF Spec

(* The list that the menu gets is the listing of the folder, sorted, with   *)
(* the directories first, and without the .bin files that a .cue follows.    *)
THEOREM ListIsReference == ASSUME 0 \notin Counts PROVE Spec => []MatchesReference
<1>1. Matching => MatchesReference BY DEF Matching
<1> QED BY <1>1, MatchingInductive, PTL
===============================================================================
