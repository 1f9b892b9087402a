----------------------------- MODULE Browser_proofs -----------------------------
(***************************************************************************)
(* For every card, whatever is pressed and however reads fail: the         *)
(* selection is a listed entry and visible; while nothing has failed, the  *)
(* list is the whole folder and a command acts on what is selected.        *)
(***************************************************************************)
EXTENDS Browser, FiniteSetTheorems, SequenceTheorems, TLAPS

Items == [flag : {0, 1}, name : Names, index : 0..MaxFiles - 1]
Lists == {s \in Seq(Items) : Len(s) <= MaxFiles}
Pieces == {s \in Sectors : Len(s.entries) <= PerSector}
Loads == {"GOTO_ROOT", "GOTO_PARENT", "GOTO_DIRECTORY"}

Types ==
    /\ pc \in {"frame", "load", "mount", "booted", "outside"}
    /\ files \in Lists /\ loading \in Lists
    /\ sectorBuffer \in Pieces /\ picoSector \in Pieces
    /\ request \in [command : Requests \cup {"NONE"},
                    argument : 0..IndexModulus - 1]
    /\ selectedindex \in 0..IndexModulus - 1
    /\ creditsmenu \in BOOLEAN /\ previousButtons \in ButtonSets
    /\ hold \in 0..HoldMax /\ picoDir \in Dirs /\ failures \in 0..MaxFailures

(* What is asked of the Picostation while the menu waits for it. *)
Phases ==
    /\ currentCommand \in Commands
    /\ pc = "frame" =>
          request = NoRequest /\ currentCommand \in {"NONE", "GOTO_ROOT"}
    /\ pc = "load" => /\ currentCommand \in Loads
                      /\ request.command \in Loads \cup {"GET_NEXT_CONTENTS"}

(* No button moves the selection before the root directory is listed, nor   *)
(* off a list that is not empty.                                             *)
Selection ==
    /\ files # << >> => selectedindex < Len(files)
    /\ currentCommand = "GOTO_ROOT" => selectedindex = 0
    /\ currentCommand = "GOTO_ROOT" /\ pc = "frame" => hold = 0

(* A listing in progress has the first entries of the folder and asks for   *)
(* the one after them; a finished one has them all.                          *)
Listing ==
    failures = 0 =>
        /\ pc = "load" /\ request.command = "GET_NEXT_CONTENTS" =>
              /\ Len(loading) <= Len(Contents[picoDir])
              /\ loading = Listed(FirstOf(Contents[picoDir], Len(loading)), 0)
              /\ request.argument = Len(loading)
        /\ pc = "load" /\ request.command # "GET_NEXT_CONTENTS" => loading = << >>
        /\ files # << >> /\ request.command # "GET_NEXT_CONTENTS" =>
              files = Reference[picoDir]

Inv == Types /\ Phases
IInv == Inv /\ Listing

-------------------------------------------------------------------------------
(* The order of the entries.                                                *)

(* R orders S: of any two elements one comes before the other. *)
Orders(R, S) ==
    /\ \A x \in S : <<x, x>> \notin R
    /\ \A x, y \in S : x # y => <<x, y>> \in R \/ <<y, x>> \in R
    /\ \A x, y, z \in S : <<x, y>> \in R /\ <<y, z>> \in R => <<x, z>> \in R

(* Every element of a finite set has its own place in the line. *)
LEMMA LineUpIsWhole ==
  ASSUME NEW S, IsFiniteSet(S), NEW R, Orders(R, S)
  PROVE  /\ Cardinality(S) \in Nat
         /\ LineUp(S, R) \in [1..Cardinality(S) -> S]
<1> DEFINE n == Cardinality(S)
           Below(x) == {y \in S : <<y, x>> \in R}
           rank == [x \in S |-> Cardinality(Below(x))]
<1>1. n \in Nat BY FS_CardinalityType
<1>2. ASSUME NEW x \in S
      PROVE  IsFiniteSet(Below(x)) /\ rank[x] = Cardinality(Below(x))
             /\ rank[x] \in 0..n - 1
  <2>1. Below(x) \in SUBSET S /\ x \notin Below(x) BY DEF Orders
  <2>2. IsFiniteSet(Below(x)) /\ Cardinality(Below(x)) <= n
        /\ (n = Cardinality(Below(x)) => S = Below(x))
        BY <2>1, FS_Subset
  <2>3. Cardinality(Below(x)) \in Nat BY <2>2, FS_CardinalityType
  <2>4. Cardinality(Below(x)) # n BY <2>1, <2>2
  <2> QED BY <1>1, <2>2, <2>3, <2>4
<1>3. ASSUME NEW x \in S, NEW y \in S, <<x, y>> \in R PROVE rank[x] < rank[y]
  <2>1. Below(x) \in SUBSET Below(y) /\ x \in Below(y) /\ x \notin Below(x)
        BY <1>3 DEF Orders
  <2>2. Cardinality(Below(x)) <= Cardinality(Below(y))
        /\ (Cardinality(Below(x)) = Cardinality(Below(y)) => Below(x) = Below(y))
        BY <1>2, <2>1, FS_Subset
  <2> HIDE DEF Below, rank
  <2>3. Below(x) # Below(y) BY <2>1
  <2>4. rank[x] \in Int /\ rank[y] \in Int BY <1>1, <1>2
  <2> QED BY <1>2, <2>2, <2>3, <2>4
<1>4. rank \in [S -> 0..n - 1] BY <1>2
<1>5. rank \in Injection(S, 0..n - 1)
  <2>1. ASSUME NEW x \in S, NEW y \in S, rank[x] = rank[y] PROVE x = y
    <3> HIDE DEF rank
    <3>1. rank[x] \in Int BY <1>1, <1>4
    <3>2. ~(rank[x] < rank[y]) /\ ~(rank[y] < rank[x]) BY <2>1, <3>1
    <3>3. <<x, y>> \notin R /\ <<y, x>> \notin R BY <1>3, <3>2
    <3> QED BY <3>3 DEF Orders
  <2> HIDE DEF rank
  <2> QED BY <1>4, <2>1 DEF Injection, IsInjective
<1>6. IsFiniteSet(0..n - 1) /\ Cardinality(0..n - 1) = n
  <2>1. 0 \in Int /\ n - 1 \in Int BY <1>1
  <2>2. IsFiniteSet(0..n - 1)
        /\ Cardinality(0..n - 1) = IF 0 > n - 1 THEN 0 ELSE n - 1 - 0 + 1
        BY <2>1, FS_Interval
  <2> HIDE DEF n
  <2> QED BY <1>1, <2>2
<1>7. rank \in Surjection(S, 0..n - 1)
  <2> HIDE DEF rank
  <2> QED BY <1>5, <1>6, FS_Injection
<1>8. ASSUME NEW k \in 1..n
      PROVE  (CHOOSE x \in S : Cardinality({y \in S : <<y, x>> \in R}) = k - 1) \in S
  <2>1. k - 1 \in 0..n - 1 BY <1>1
  <2>2. PICK x \in S : rank[x] = k - 1
    <3> HIDE DEF rank
    <3> QED BY <1>7, <2>1 DEF Surjection
  <2>3. Cardinality({y \in S : <<y, x>> \in R}) = k - 1 BY <2>2
  <2> QED BY <2>3
<1> QED BY <1>1, <1>8 DEF LineUp

(* Sorting a listing moves its entries, cleaning it drops some. *)
LEMMA SortedIsListing ==
  ASSUME NEW E, \A e \in E : e.flag \in {0, 1} /\ e.name \in Nat, NEW s \in Seq(E)
  PROVE  /\ Sorted(s) \in Seq(E) /\ Len(Sorted(s)) = Len(s)
         /\ \A k \in 1..Len(s) : \E n \in 1..Len(s) : Sorted(s)[k] = s[n]
<1> DEFINE D == 1..Len(s)
           order == LineUp(D, Ordered(s))
<1>1. Len(s) \in Nat /\ DOMAIN s = D BY LenProperties
<1>2. IsFiniteSet(D) /\ Cardinality(D) = Len(s)
  <2>1. IsFiniteSet(D) /\ Cardinality(D) = IF 1 > Len(s) THEN 0 ELSE (Len(s) - 1) + 1
        BY <1>1, FS_Interval
  <2> QED BY <1>1, <2>1
<1>3. ASSUME NEW x \in D
      PROVE  s[x].flag \in {0, 1} /\ s[x].name \in Nat /\ x \in Nat
  <2>1. s[x] \in E BY ElementOfSeq
  <2> QED BY <1>1, <2>1
<1>4. \A x, y \in D : <<x, y>> \in Ordered(s) <=>
         \/ Precedes(s[x], s[y])
         \/ ~Precedes(s[y], s[x]) /\ x < y
      BY <1>1 DEF Ordered
<1>5. Orders(Ordered(s), D)
  <2> HIDE DEF D
  <2>1. \A x \in D : <<x, x>> \notin Ordered(s) BY <1>3, <1>4 DEF Precedes
  <2>2. \A x, y \in D : x # y =>
           <<x, y>> \in Ordered(s) \/ <<y, x>> \in Ordered(s)
        BY <1>3, <1>4 DEF Precedes
  <2>3. ASSUME NEW x \in D, NEW y \in D, NEW z \in D,
               <<x, y>> \in Ordered(s), <<y, z>> \in Ordered(s)
        PROVE  <<x, z>> \in Ordered(s)
    <3>1. \/ Precedes(s[x], s[y])
          \/ ~Precedes(s[y], s[x]) /\ x < y
          BY <1>4, <2>3
    <3>2. \/ Precedes(s[y], s[z])
          \/ ~Precedes(s[z], s[y]) /\ y < z
          BY <1>4, <2>3
    <3>3. \/ Precedes(s[x], s[z])
          \/ ~Precedes(s[z], s[x]) /\ x < z
          BY <1>3, <3>1, <3>2 DEF Precedes
    <3> QED BY <1>4, <3>3
  <2> QED BY <2>1, <2>2, <2>3 DEF Orders
<1>6. order \in [D -> D] BY <1>2, <1>5, LineUpIsWhole
<1>7. Sorted(s) = [k \in D |-> s[order[k]]]
  <2>1. Sorted(s) = [k \in DOMAIN order |-> s[order[k]]] BY <1>1 DEF Sorted
  <2> HIDE DEF order
  <2> QED BY <1>6, <2>1
<1> HIDE DEF order
<1>8. \A k \in D : s[order[k]] \in E BY <1>6, ElementOfSeq
<1>9. Sorted(s) \in Seq(E) /\ Len(Sorted(s)) = Len(s) BY <1>1, <1>7, <1>8
<1> QED BY <1>6, <1>7, <1>9

LEMMA CleanedIsListing ==
  ASSUME NEW E, NEW s \in Seq(E)
  PROVE  /\ Cleaned(s) \in Seq(E) /\ Len(Cleaned(s)) <= Len(s)
         /\ \A k \in 1..Len(Cleaned(s)) : \E n \in 1..Len(s) : Cleaned(s)[k] = s[n]
<1> DEFINE K == Kept(s)
           Earlier == {p \in K \X K : p[1] < p[2]}
           kept == LineUp(K, Earlier)
           n == Cardinality(K)
<1>1. Len(s) \in Nat /\ DOMAIN s = 1..Len(s) BY LenProperties
<1>2. K \in SUBSET (1..Len(s)) BY <1>1 DEF Kept
<1>3. IsFiniteSet(K) /\ n <= Len(s)
  <2>1. IsFiniteSet(1..Len(s))
        /\ Cardinality(1..Len(s)) = IF 1 > Len(s) THEN 0 ELSE (Len(s) - 1) + 1
        BY <1>1, FS_Interval
  <2>2. Cardinality(1..Len(s)) = Len(s) BY <1>1, <2>1
  <2> QED BY <1>2, <2>1, <2>2, FS_Subset
<1>4. Orders(Earlier, K)
  <2>1. \A x \in K : x \in Int BY <1>1, <1>2
  <2>2. \A x, y \in K : <<x, y>> \in Earlier <=> x < y OBVIOUS
  <2> HIDE DEF K, Earlier
  <2> QED BY <2>1, <2>2 DEF Orders
<1>5. n \in Nat /\ kept \in [1..n -> K]
  <2> HIDE DEF K, Earlier
  <2> QED BY <1>3, <1>4, LineUpIsWhole
<1>6. Cleaned(s) = [k \in 1..n |-> s[kept[k]]]
  <2>1. Cleaned(s) = [k \in DOMAIN kept |-> s[kept[k]]] BY DEF Cleaned
  <2> HIDE DEF kept, n
  <2> QED BY <1>5, <2>1
<1> HIDE DEF kept, n
<1>7. \A k \in 1..n : kept[k] \in 1..Len(s) /\ s[kept[k]] \in E
      BY <1>2, <1>5, ElementOfSeq
<1>8. Cleaned(s) \in Seq(E) /\ Len(Cleaned(s)) = n BY <1>5, <1>6, <1>7
<1> QED BY <1>3, <1>6, <1>7, <1>8

-------------------------------------------------------------------------------
(* The parts of a listing.                                                  *)

LEMMA MinMax ==
  ASSUME NEW a \in Int, NEW b \in Int
  PROVE  /\ Min({a, b}) = IF a <= b THEN a ELSE b
         /\ Max({a, b}) = IF a >= b THEN a ELSE b
BY DEF Min, Max

LEMMA FirstOfIs ==
  ASSUME NEW E, NEW s \in Seq(E), NEW n \in Nat
  PROVE  /\ FirstOf(s, n) \in Seq(E)
         /\ Len(FirstOf(s, n)) = IF n <= Len(s) THEN n ELSE Len(s)
         /\ \A k \in 1..Len(FirstOf(s, n)) : FirstOf(s, n)[k] = s[k]
<1> DEFINE m == IF n <= Len(s) THEN n ELSE Len(s)
<1>1. Len(s) \in Nat /\ m \in Nat /\ m <= Len(s) BY LenProperties
<1>2. FirstOf(s, n) = SubSeq(s, 1, m) BY <1>1, MinMax DEF FirstOf
<1> HIDE DEF m
<1>3. \A k \in 1..m : s[k] \in E BY <1>1, ElementOfSeq
<1>4. /\ SubSeq(s, 1, m) \in Seq(E)
      /\ Len(SubSeq(s, 1, m)) = IF 1 <= m THEN (m - 1) + 1 ELSE 0
      /\ \A k \in 1..(m - 1) + 1 : SubSeq(s, 1, m)[k] = s[(1 + k) - 1]
      BY <1>1, <1>3, SubSeqProperties
<1>5. Len(SubSeq(s, 1, m)) = m /\ \A k \in 1..m : SubSeq(s, 1, m)[k] = s[k]
      BY <1>1, <1>4
<1> QED BY <1>2, <1>4, <1>5 DEF m

LEMMA ListedIs ==
  ASSUME NEW s \in Seq(Entries), NEW n \in Nat, n + Len(s) <= MaxFiles
  PROVE  /\ Listed(s, n) \in Seq(Items) /\ Len(Listed(s, n)) = Len(s)
         /\ \A k \in 1..Len(s) :
               Listed(s, n)[k] = [flag |-> s[k].flag, name |-> s[k].name,
                                  index |-> (n + k) - 1]
<1>1. Len(s) \in Nat /\ MaxFiles \in Nat BY LenProperties, BrowserAssumption
<1>2. ASSUME NEW k \in 1..Len(s)
      PROVE  [flag |-> s[k].flag, name |-> s[k].name, index |-> (n + k) - 1] \in Items
  <2>1. s[k] \in Entries BY ElementOfSeq
  <2>2. (n + k) - 1 \in 0..MaxFiles - 1 BY <1>1
  <2> QED BY <2>1, <2>2 DEF Items, Entries
<1>3. Listed(s, n) = [k \in 1..Len(s) |-> [flag |-> s[k].flag, name |-> s[k].name,
                                           index |-> (n + k) - 1]]
  <2>1. \A k \in 1..Len(s) : n + k - 1 = (n + k) - 1 BY <1>1
  <2> QED BY <2>1 DEF Listed
<1> QED BY <1>1, <1>2, <1>3

LEMMA SectorAtIs ==
  ASSUME NEW d \in Dirs, NEW n \in Nat
  PROVE  /\ Contents[d] \in Seq(Entries) /\ Len(Contents[d]) \in Nat
         /\ SectorAt(d, n) \in Pieces
         /\ SectorAt(d, n).hasNext <=> n + PerSector < Len(Contents[d])
         /\ n <= Len(Contents[d]) =>
               Len(SectorAt(d, n).entries)
                  = IF n + PerSector <= Len(Contents[d]) THEN PerSector
                    ELSE Len(Contents[d]) - n
         /\ \A k \in 1..Len(SectorAt(d, n).entries) :
               SectorAt(d, n).entries[k] = Contents[d][n + k]
<1> DEFINE C == Contents[d]
           m == IF n + PerSector <= Len(C) THEN n + PerSector ELSE Len(C)
           s == SubSeq(C, n + 1, m)
<1>1. C \in Seq(Entries) /\ PerSector \in Nat /\ PerSector > 0 BY BrowserAssumption
<1>2. Len(C) \in Nat BY <1>1, LenProperties
<1>3. SectorAt(d, n) = [entries |-> s, hasNext |-> n + PerSector < Len(C)]
  <2>1. Min({n + PerSector, Len(C)}) = m BY <1>1, <1>2, MinMax
  <2> QED BY <2>1 DEF SectorAt
<1> HIDE DEF C
<1>4. m \in Nat /\ m <= Len(C) /\ m <= n + PerSector BY <1>1, <1>2
<1> HIDE DEF m
<1>5. \A k \in n + 1..m : C[k] \in Entries
  <2>1. \A k \in n + 1..m : k \in 1..Len(C) BY <1>2, <1>4
  <2> QED BY <1>1, <2>1, ElementOfSeq
<1>6. /\ s \in Seq(Entries)
      /\ Len(s) = IF n + 1 <= m THEN (m - (n + 1)) + 1 ELSE 0
      /\ \A k \in 1..(m - (n + 1)) + 1 : s[k] = C[((n + 1) + k) - 1]
      BY <1>4, <1>5, SubSeqProperties
<1>7. /\ Len(s) = IF n <= m THEN m - n ELSE 0
      /\ \A k \in 1..m - n : s[k] = C[n + k]
      BY <1>4, <1>6
<1>8. /\ Len(s) <= PerSector /\ \A k \in 1..Len(s) : s[k] = C[n + k]
      /\ n <= Len(C) =>
            Len(s) = IF n + PerSector <= Len(C) THEN PerSector ELSE Len(C) - n
      BY <1>1, <1>2, <1>4, <1>7 DEF m
<1> HIDE DEF s
<1>9. SectorAt(d, n) \in Pieces
  <2>1. (n + PerSector < Len(C)) \in BOOLEAN OBVIOUS
  <2> QED BY <1>3, <1>6, <1>8, <2>1 DEF Pieces, Sectors
<1>10. /\ SectorAt(d, n).entries = s
       /\ SectorAt(d, n).hasNext <=> n + PerSector < Len(C)
  <2>1. SectorAt(d, n).entries = s BY <1>3
  <2>2. SectorAt(d, n).hasNext = (n + PerSector < Len(C)) BY <1>3
  <2> QED BY <2>1, <2>2, Zenon
<1>11. \A k \in 1..Len(SectorAt(d, n).entries) : SectorAt(d, n).entries[k] = C[n + k]
       BY <1>8, <1>10, Zenon
<1>12. n <= Len(C) =>
          Len(SectorAt(d, n).entries)
             = IF n + PerSector <= Len(C) THEN PerSector ELSE Len(C) - n
       BY <1>8, <1>10, Zenon
<1> QED BY <1>1, <1>2, <1>9, <1>10, <1>11, <1>12, Zenon DEF C

(* doLookup appends what fits the table; it numbers the entries on from the *)
(* first one. *)
LEMMA LookupIs ==
  ASSUME NEW list \in Lists, NEW p \in Pieces
  PROVE  /\ Lookup(list, p) \in Lists
         /\ \E m \in Nat :
               /\ m = (IF Len(list) + Len(p.entries) <= MaxFiles
                      THEN Len(p.entries) ELSE MaxFiles - Len(list))
               /\ Len(Lookup(list, p)) = Len(list) + m
               /\ \A k \in 1..Len(list) : Lookup(list, p)[k] = list[k]
               /\ \A k \in 1..m : Lookup(list, p)[Len(list) + k]
                     = [flag |-> p.entries[k].flag, name |-> p.entries[k].name,
                        index |-> (Len(list) + k) - 1]
<1> DEFINE n == Len(list)
           first == FirstOf(p.entries, MaxFiles - n)
           more == Listed(first, n)
<1>1. /\ list \in Seq(Items) /\ n \in Nat /\ n <= MaxFiles /\ MaxFiles \in Nat
      /\ p.entries \in Seq(Entries) /\ Len(p.entries) \in Nat
      BY BrowserAssumption, LenProperties DEF Lists, Pieces, Sectors
<1>2. /\ MaxFiles - n \in Nat
      /\ first \in Seq(Entries)
      /\ Len(first) = IF MaxFiles - n <= Len(p.entries) THEN MaxFiles - n
                      ELSE Len(p.entries)
      /\ \A k \in 1..Len(first) : first[k] = p.entries[k]
  <2>1. MaxFiles - n \in Nat BY <1>1
  <2> QED BY <1>1, <2>1, FirstOfIs
<1> DEFINE m == Len(first)
<1> HIDE DEF first
<1>3. m \in Nat /\ n + m <= MaxFiles BY <1>1, <1>2
<1>4. /\ more \in Seq(Items) /\ Len(more) = m
      /\ \A k \in 1..m : more[k] = [flag |-> first[k].flag, name |-> first[k].name,
                                    index |-> (n + k) - 1]
      BY <1>1, <1>2, <1>3, ListedIs
<1> HIDE DEF more
<1>5. Lookup(list, p) = list \o more BY DEF Lookup, more, first
<1>6. /\ list \o more \in Seq(Items) /\ Len(list \o more) = n + m
      /\ \A k \in 1..n + m : (list \o more)[k] = IF k <= n THEN list[k] ELSE more[k - n]
  <2>1. /\ list \o more \in Seq(Items) /\ Len(list \o more) = Len(list) + Len(more)
        /\ \A k \in 1..Len(list) + Len(more) :
              (list \o more)[k] = IF k <= Len(list) THEN list[k] ELSE more[k - Len(list)]
    <3>1. list \in Seq(Items) /\ more \in Seq(Items) BY <1>1, <1>4
    <3> QED BY <3>1, ConcatProperties
  <2> QED BY <1>4, <2>1
<1>7. \A k \in 1..n : (list \o more)[k] = list[k] BY <1>1, <1>3, <1>6
<1>8. \A k \in 1..m : (list \o more)[n + k] = more[k]
  <2>1. \A k \in 1..m : n + k \in 1..n + m /\ ~(n + k <= n) /\ (n + k) - n = k
        BY <1>1, <1>3
  <2> QED BY <1>6, <2>1
<1>9. \A k \in 1..m : more[k] = [flag |-> p.entries[k].flag,
                                 name |-> p.entries[k].name, index |-> (n + k) - 1]
      BY <1>2, <1>4
<1>10. m = IF n + Len(p.entries) <= MaxFiles THEN Len(p.entries) ELSE MaxFiles - n
       BY <1>1, <1>2
<1>11. Lookup(list, p) \in Lists BY <1>3, <1>5, <1>6 DEF Lists
<1>12. \A k \in 1..m : (list \o more)[n + k] = [flag |-> p.entries[k].flag,
                                 name |-> p.entries[k].name, index |-> (n + k) - 1]
       BY <1>8, <1>9
<1> HIDE DEF m
<1>13. Len(Lookup(list, p)) = n + m BY <1>5, <1>6
<1>14. \A k \in 1..n : Lookup(list, p)[k] = list[k] BY <1>5, <1>7, Zenon
<1>15. \A k \in 1..m : Lookup(list, p)[n + k] = [flag |-> p.entries[k].flag,
                                 name |-> p.entries[k].name, index |-> (n + k) - 1]
       BY <1>5, <1>12, Zenon
<1> QED BY <1>3, <1>10, <1>11, <1>13, <1>14, <1>15, Zenon

-------------------------------------------------------------------------------
(* The steps of the menu.                                                   *)

LEMMA Constants ==
  /\ MaxFiles \in Nat /\ MaxFiles > 0 /\ IndexModulus \in Nat
  /\ MaxFiles < IndexModulus /\ PageSize \in Nat /\ PageSize > 0
  /\ HoldMax \in Nat /\ HoldMax > 0 /\ HoldBack \in 0..HoldMax
  /\ PerSector \in Nat /\ PerSector > 0 /\ MaxFailures \in Nat
  /\ Root \in Dirs
BY BrowserAssumption

LEMMA Wrapped ==
  ASSUME NEW n \in Int
  PROVE  /\ Wrap(n) \in 0..IndexModulus - 1
         /\ n \in 0..IndexModulus - 1 => Wrap(n) = n
<1>1. IndexModulus \in Nat /\ IndexModulus > 0 BY Constants
<1>2. \A a \in Int : \A b \in Nat : b > 0 => a % b \in 0..b - 1 OBVIOUS
<1>3. \A a \in Int : \A b \in Nat : b > 0 /\ a \in 0..b - 1 => a % b = a OBVIOUS
<1> QED BY <1>1, <1>2, <1>3, Zenon DEF Wrap

(* Wherever the buttons move the selection, it stays in the list. *)
LEMMA MovesInside ==
  ASSUME NEW l \in Nat, l <= MaxFiles, l = fileEntryCount,
         NEW s \in 0..IndexModulus - 1, NEW b
  PROVE  /\ ByPage(b, ByRow(b, s)) \in 0..IndexModulus - 1
         /\ l > 0 /\ s < l => ByPage(b, ByRow(b, s)) < l
<1> DEFINE Good(t) == t \in 0..IndexModulus - 1 /\ (l > 0 /\ s < l => t < l)
<1>1. Wrap(l - 1) \in 0..IndexModulus - 1 /\ (l > 0 => Wrap(l - 1) = l - 1)
  <2>1. l - 1 \in Int /\ (l > 0 => l - 1 \in 0..IndexModulus - 1) BY Constants
  <2> QED BY <2>1, Wrapped
<1>2. ASSUME NEW t, Good(t)
      PROVE  Good(Up(t)) /\ Good(Down(t)) /\ Good(PageUp(t)) /\ Good(PageDown(t))
  <2>1. t \in Nat /\ t < IndexModulus /\ IndexModulus \in Nat /\ l < IndexModulus
        BY <1>2, Constants
  <2>2. Good(Up(t))
    <3>1. t > 0 => t - 1 \in Nat /\ t - 1 < IndexModulus BY <2>1
    <3> QED BY <1>1, <1>2, <2>1, <3>1 DEF Up
  <2>3. Good(Down(t)) BY <1>2, <2>1 DEF Down
  <2>4. Good(PageUp(t)) BY <1>2, <2>1, Constants DEF PageUp
  <2>5. Good(PageDown(t)) BY <1>1, <1>2, <2>1, Constants DEF PageDown
  <2> QED BY <2>2, <2>3, <2>4, <2>5
<1>3. Good(s) OBVIOUS
<1> HIDE DEF Good
<1>4. \A t : Good(t) => Good(ByRow(b, t)) /\ Good(ByPage(b, t))
      BY <1>2, Zenon DEF ByRow, ByPage
<1>5. Good(ByPage(b, ByRow(b, s))) BY <1>3, <1>4, Zenon
<1> QED BY <1>5 DEF Good

(* The command a frame gives. *)
Given(c, flag) ==
    \/ c \in {"NONE", "BOOTLOADER", "GOTO_PARENT"}
    \/ c = "GOTO_ROOT" /\ currentCommand = "GOTO_ROOT"
    \/ c \in {"MOUNT_FILE_FAST", "MOUNT_FILE_SLOW"} /\ flag = 0
    \/ c = "GOTO_DIRECTORY" /\ flag # 0

LEMMA ChosenIs ==
  ASSUME currentCommand \in {"NONE", "GOTO_ROOT"}, NEW b, NEW flag
  PROVE  Given(currentCommand, flag) /\ Given(Chosen(b, flag), flag)
<1>1. Given(currentCommand, flag) BY DEF Given
<1>2. Given(Chosen(b, flag), flag) BY <1>1, Zenon DEF Chosen, Given
<1> QED BY <1>1, <1>2

(* The entry a request names when there is one at place s. *)
Picks(r, s) ==
    r.command \in {"GOTO_DIRECTORY", "MOUNT_FILE"} /\ s < Len(files) =>
       /\ r.argument = files[s + 1].index
       /\ files[s + 1].flag = IF r.command = "GOTO_DIRECTORY" THEN 1 ELSE 0

LEMMA FrameIs ==
  ASSUME Inv, NEW b \in ButtonSets, Frame(b)
  PROVE  /\ pc' \in {"frame", "load", "mount"}
         /\ request' \in [command : Requests \cup {"NONE"},
                          argument : 0..IndexModulus - 1]
         /\ selectedindex' \in 0..IndexModulus - 1
         /\ Phases'
         /\ request'.command # "GET_NEXT_CONTENTS"
         /\ currentCommand' = "GOTO_ROOT" => currentCommand = "GOTO_ROOT"
         /\ \E s : s = selectedindex' /\ Picks(request', s)
         /\ pc' = "frame" => currentCommand' # "GOTO_ROOT"
<1> DEFINE R == [command : Requests \cup {"NONE"}, argument : 0..IndexModulus - 1]
<1>1. PICK s : s = selectedindex' OBVIOUS
<1>2. PICK flag, c :
         /\ flag \in FlagsAt(s)
         /\ c = IF creditsmenu' THEN currentCommand ELSE Chosen(Pressed(b), flag)
         /\ Dispatch(c)
         /\ currentCommand' = IF c = "BOOTLOADER" THEN "NONE" ELSE c
  <2>1. PICK flag \in FlagsAt(selectedindex') :
           LET c == IF creditsmenu' THEN currentCommand
                                    ELSE Chosen(Pressed(b), flag)
           IN  /\ Dispatch(c)
               /\ currentCommand' = IF c = "BOOTLOADER" THEN "NONE" ELSE c
        BY DEF Frame
  <2> QED BY <1>1, <2>1
<1>3. pc = "frame" /\ request = NoRequest /\ currentCommand \in {"NONE", "GOTO_ROOT"}
      BY DEF Frame, Inv, Phases
<1>4. Given(c, flag) BY <1>2, <1>3, ChosenIs, Zenon
<1>5. s \in 0..IndexModulus - 1
  <2>1. PICK l : l = fileEntryCount OBVIOUS
  <2>2. l \in Nat /\ l <= MaxFiles
        BY <2>1, LenProperties DEF fileEntryCount, Inv, Types, Lists
  <2>3. selectedindex \in 0..IndexModulus - 1 BY DEF Inv, Types
  <2>4. ByPage(Pressed(b), ByRow(Pressed(b), selectedindex)) \in 0..IndexModulus - 1
        BY <2>1, <2>2, <2>3, MovesInside
  <2>5. selectedindex' = selectedindex
        \/ selectedindex' = ByPage(Pressed(b), ByRow(Pressed(b), selectedindex))
        BY DEF Frame
  <2> QED BY <1>1, <2>3, <2>4, <2>5
<1>6. /\ files \in Seq(Items) /\ Len(files) \in Nat /\ Len(files) <= MaxFiles
      BY LenProperties DEF Inv, Types, Lists
<1>7. ASSUME NEW n \in IndexesAt(s)
      PROVE  /\ n \in 0..IndexModulus - 1
             /\ s < Len(files) => n = files[s + 1].index
  <2>1. CASE s < Len(files)
    <3>1. s + 1 \in 1..Len(files) BY <1>5, <1>6, <2>1, Constants
    <3>2. files[s + 1] \in Items BY <1>6, <3>1, ElementOfSeq
    <3>3. files[s + 1].index \in 0..MaxFiles - 1 BY <3>2 DEF Items
    <3>4. n = files[s + 1].index BY <1>7, <2>1 DEF IndexesAt, fileEntryCount
    <3>5. 0..MaxFiles - 1 \subseteq 0..IndexModulus - 1 BY Constants
    <3> QED BY <3>3, <3>4, <3>5
  <2>2. CASE ~(s < Len(files)) BY <1>7, <2>2 DEF IndexesAt, fileEntryCount
  <2> QED BY <2>1, <2>2
<1>8. s < Len(files) => flag = files[s + 1].flag /\ flag \in {0, 1}
  <2> SUFFICES ASSUME s < Len(files) PROVE flag = files[s + 1].flag /\ flag \in {0, 1}
      OBVIOUS
  <2>1. s + 1 \in 1..Len(files) BY <1>5, <1>6, Constants
  <2>2. files[s + 1] \in Items BY <1>6, <2>1, ElementOfSeq
  <2>3. flag = files[s + 1].flag BY <1>2 DEF FlagsAt, fileEntryCount
  <2> QED BY <2>2, <2>3 DEF Items
<1>9. CASE c \in {"GOTO_ROOT", "GOTO_PARENT"}
  <2>1. /\ pc' = "load" /\ request' = [command |-> c, argument |-> 0]
        /\ currentCommand' = c
        BY <1>2, <1>9 DEF Dispatch
  <2>2. request' \in R BY <1>9, <2>1, Constants DEF Requests
  <2>3. Picks(request', s) BY <1>9, <2>1 DEF Picks
  <2> QED BY <1>1, <1>4, <1>5, <1>9, <2>1, <2>2, <2>3
          DEF Phases, Loads, Commands, Given
<1>10. CASE c = "GOTO_DIRECTORY"
  <2>1. PICK n \in IndexesAt(s) : request' = [command |-> c, argument |-> n]
        BY <1>1, <1>2, <1>10 DEF Dispatch
  <2>2. pc' = "load" /\ currentCommand' = c BY <1>2, <1>10 DEF Dispatch
  <2>3. flag # 0 BY <1>4, <1>10 DEF Given
  <2>4. request' \in R BY <1>7, <1>10, <2>1 DEF Requests
  <2>5. Picks(request', s) BY <1>7, <1>8, <1>10, <2>1, <2>3 DEF Picks
  <2> QED BY <1>1, <1>5, <1>10, <2>1, <2>2, <2>4, <2>5 DEF Phases, Loads, Commands
<1>11. CASE c \in {"MOUNT_FILE_FAST", "MOUNT_FILE_SLOW"}
  <2>1. PICK n \in IndexesAt(s) : request' = [command |-> "MOUNT_FILE", argument |-> n]
        BY <1>1, <1>2, <1>11 DEF Dispatch
  <2>2. pc' = "mount" /\ currentCommand' = c BY <1>2, <1>11 DEF Dispatch
  <2>3. flag = 0 BY <1>4, <1>11 DEF Given
  <2>4. request' \in R BY <1>7, <2>1 DEF Requests
  <2>5. Picks(request', s) BY <1>7, <1>8, <2>1, <2>3 DEF Picks
  <2> QED BY <1>1, <1>5, <1>11, <2>1, <2>2, <2>4, <2>5 DEF Phases, Commands
<1>12. CASE c \in {"NONE", "BOOTLOADER"}
  <2>1. pc' = "frame" /\ request' = NoRequest /\ currentCommand' = "NONE"
        BY <1>2, <1>3, <1>12 DEF Dispatch
  <2>2. request' \in R BY <2>1, Constants DEF NoRequest
  <2>3. Picks(request', s) BY <2>1 DEF Picks, NoRequest
  <2> QED BY <1>1, <1>5, <2>1, <2>2, <2>3 DEF Phases, Commands, NoRequest
<1> QED BY <1>4, <1>9, <1>10, <1>11, <1>12 DEF Given

LEMMA HoldType == ASSUME hold \in 0..HoldMax, NEW b PROVE Hold(b) \in 0..HoldMax
<1>1. HoldMax \in Nat /\ HoldBack \in 0..HoldMax /\ 0 \in 0..HoldMax BY Constants
<1>2. ~(hold + 1 > HoldMax) => hold + 1 \in 0..HoldMax BY <1>1
<1> QED BY <1>1, <1>2, Zenon DEF Hold

LEMMA FrameKeeps == ASSUME Inv, NEW b \in ButtonSets, Frame(b) PROVE Inv'
<1>1. /\ previousButtons' = b /\ hold' = Hold(b) /\ loading' = << >>
      /\ creditsmenu' = (creditsmenu # ("SELECT" \in Pressed(b)))
      /\ UNCHANGED <<files, sectorBuffer, picoDir, picoSector, mounted, failures>>
      BY DEF Frame, picoVars
<1>2. creditsmenu' \in BOOLEAN BY <1>1, Zenon
<1>3. hold' \in 0..HoldMax BY <1>1, HoldType DEF Inv, Types
<1>4. loading' \in Lists BY <1>1, EmptySeq, Constants DEF Lists
<1>5. Types' BY <1>1, <1>2, <1>3, <1>4, FrameIs DEF Inv, Types
<1> QED BY <1>5, FrameIs DEF Inv

LEMMA NothingPressed ==
  ASSUME ~EarlyPress, Inv, Selection, currentCommand = "GOTO_ROOT",
         NEW b \in ButtonSets, Frame(b)
  PROVE  selectedindex' = selectedindex
<1>1. b \subseteq previousButtons /\ hold = 0
      BY DEF Frame, NewButtons, Selection
<1>2. ~(hold + 1 > HoldMax) BY <1>1, Constants
<1>3. Pressed(b) = {} BY <1>1, <1>2, Zenon DEF Pressed
<1>4. ByPage(Pressed(b), ByRow(Pressed(b), selectedindex)) = selectedindex
      BY <1>3 DEF ByPage, ByRow
<1> QED BY <1>4 DEF Frame

LEMMA FrameSelects ==
  ASSUME ~EarlyPress, Inv, Selection, NEW b \in ButtonSets, Frame(b)
  PROVE  Selection'
<1>1. files' = files BY DEF Frame
<1>2. ASSUME files # << >> PROVE selectedindex' < Len(files)
  <2>1. PICK l : l = fileEntryCount OBVIOUS
  <2>2. l \in Nat /\ l <= MaxFiles /\ l > 0 /\ selectedindex < l
        BY <1>2, <2>1, EmptySeq, LenProperties
           DEF fileEntryCount, Inv, Types, Lists, Selection
  <2>3. selectedindex \in 0..IndexModulus - 1 BY DEF Inv, Types
  <2>4. ByPage(Pressed(b), ByRow(Pressed(b), selectedindex)) < l
        BY <2>1, <2>2, <2>3, MovesInside
  <2>5. selectedindex' = selectedindex
        \/ selectedindex' = ByPage(Pressed(b), ByRow(Pressed(b), selectedindex))
        BY DEF Frame
  <2> QED BY <2>1, <2>2, <2>4, <2>5 DEF fileEntryCount
<1>3. ASSUME currentCommand' = "GOTO_ROOT" PROVE selectedindex' = 0
  <2>1. currentCommand = "GOTO_ROOT" BY <1>3, FrameIs
  <2> QED BY <2>1, NothingPressed DEF Selection
<1> QED BY <1>1, <1>2, <1>3, FrameIs DEF Selection

-------------------------------------------------------------------------------
(* The steps of list_load.                                                  *)

(* The Picostation answers with the first sector of the directory it is in  *)
(* now, or with the one that begins with the entry asked for.               *)
LEMMA ObeyIs ==
  ASSUME Inv, pc = "load", Obey(request)
  PROVE  /\ picoDir' \in Dirs /\ picoSector' \in Pieces
         /\ IF request.command = "GET_NEXT_CONTENTS"
            THEN picoDir' = picoDir
                 /\ picoSector' = SectorAt(picoDir, request.argument)
            ELSE \E d \in Dirs : d = picoDir' /\ picoSector' = SectorAt(d, 0)
<1>1. request.argument \in Nat /\ 0 \in Nat
  <2>1. request.argument \in 0..IndexModulus - 1 BY DEF Inv, Types
  <2> QED BY <2>1, Constants
<1>2. picoDir \in Dirs BY DEF Inv, Types
<1>3. CASE request.command = "GET_NEXT_CONTENTS"
  <2>1. picoSector' = SectorAt(picoDir, request.argument) /\ picoDir' = picoDir
        BY <1>3 DEF Obey
  <2> QED BY <1>1, <1>2, <1>3, <2>1, SectorAtIs
<1>4. CASE request.command # "GET_NEXT_CONTENTS"
  <2>1. /\ picoDir' = CASE request.command = "GOTO_ROOT" -> Root
                        [] request.command = "GOTO_PARENT" -> Parent[picoDir]
                        [] OTHER -> Opened(<<picoDir, request.argument>>)
        /\ picoSector' = SectorAt(picoDir', 0)
        BY <1>4 DEF Obey
  <2>2. Parent[picoDir] \in Dirs /\ Root \in Dirs BY <1>2, BrowserAssumption
  <2>3. \A p : Opened(p) \in Dirs BY <1>2, BrowserAssumption DEF Opened
  <2>4. picoDir' \in Dirs BY <2>1, <2>2, <2>3
  <2>5. PICK d \in Dirs : d = picoDir' BY <2>4
  <2>6. picoSector' = SectorAt(d, 0) BY <2>1, <2>5
  <2> QED BY <1>1, <1>4, <2>5, <2>6, SectorAtIs
<1> QED BY <1>3, <1>4

LEMMA LoadSectorIs ==
  ASSUME Inv, LoadSector
  PROVE  /\ pc = "load"
         /\ picoDir' \in Dirs /\ picoSector' \in Pieces
         /\ failures' \in 0..MaxFailures
         /\ failures' = 0 =>
               failures = 0 /\ Obey(request) /\ sectorBuffer' = picoSector'
         /\ \E p \in Pieces, list \in Lists :
               /\ p = sectorBuffer' /\ list = Lookup(loading, p)
               /\ IF HasNext(loading, p)
                  THEN /\ loading' = list
                       /\ request' = [command |-> "GET_NEXT_CONTENTS",
                                      argument |-> Len(list)]
                       /\ UNCHANGED <<pc, files, currentCommand, selectedindex>>
                  ELSE /\ files' = Cleaned(Sorted(list)) /\ loading' = << >>
                       /\ request' = NoRequest /\ currentCommand' = "NONE"
                       /\ Reselect /\ pc' \in {"frame", "outside"}
<1>1. pc = "load" BY DEF LoadSector
<1>2. /\ failures \in 0..MaxFailures /\ picoDir \in Dirs /\ picoSector \in Pieces
      /\ sectorBuffer \in Pieces /\ loading \in Lists
      BY DEF Inv, Types
<1>3. \/ Obey(request) /\ sectorBuffer' = picoSector' /\ UNCHANGED failures
      \/ Fail /\ Ignore /\ sectorBuffer' \in {picoSector, sectorBuffer}
      \/ Fail /\ Obey(request) /\ UNCHANGED sectorBuffer
      BY DEF LoadSector
<1>4. Obey(request) => picoDir' \in Dirs /\ picoSector' \in Pieces BY <1>1, ObeyIs
<1>5. Fail => failures' \in 0..MaxFailures /\ failures' # 0
      BY <1>2, Constants DEF Fail
<1>6. sectorBuffer' \in Pieces /\ picoDir' \in Dirs /\ picoSector' \in Pieces
      BY <1>2, <1>3, <1>4 DEF Ignore
<1>7. failures' \in 0..MaxFailures
      /\ (failures' = 0 => failures = 0 /\ Obey(request) /\ sectorBuffer' = picoSector')
      BY <1>2, <1>3, <1>5
<1>8. PICK p \in Pieces : p = sectorBuffer' BY <1>6
<1>9. PICK list \in Lists : list = Lookup(loading, p) BY <1>2, LookupIs
<1>10. IF HasNext(loading, p)
       THEN /\ loading' = list
            /\ request' = [command |-> "GET_NEXT_CONTENTS",
                           argument |-> Len(list)]
            /\ UNCHANGED <<pc, files, currentCommand, selectedindex>>
       ELSE /\ files' = Cleaned(Sorted(list)) /\ loading' = << >>
            /\ request' = NoRequest /\ currentCommand' = "NONE"
            /\ Reselect /\ pc' \in {"frame", "outside"}
       BY <1>8, <1>9 DEF LoadSector, NextArgument, AfterSort
<1> QED BY <1>1, <1>6, <1>7, <1>8, <1>9, <1>10

LEMMA ListIsKept ==
  ASSUME NEW list \in Lists
  PROVE  /\ Cleaned(Sorted(list)) \in Lists
         /\ \A k \in 1..Len(Cleaned(Sorted(list))) : \E n \in 1..Len(list) :
               Cleaned(Sorted(list))[k] = list[n]
<1>1. \A e \in Items : e.flag \in {0, 1} /\ e.name \in Nat
      BY NamesAssumption DEF Items
<1>2. list \in Seq(Items) /\ Len(list) \in Nat /\ Len(list) <= MaxFiles
      BY LenProperties DEF Lists
<1>3. /\ Sorted(list) \in Seq(Items) /\ Len(Sorted(list)) = Len(list)
      /\ \A k \in 1..Len(list) : \E n \in 1..Len(list) : Sorted(list)[k] = list[n]
      BY <1>1, <1>2, SortedIsListing
<1>4. PICK s \in Seq(Items) : s = Sorted(list) BY <1>3
<1>5. /\ Cleaned(s) \in Seq(Items) /\ Len(Cleaned(s)) <= Len(s)
      /\ \A k \in 1..Len(Cleaned(s)) : \E n \in 1..Len(s) : Cleaned(s)[k] = s[n]
      BY CleanedIsListing
<1>6. Len(Cleaned(s)) \in Nat BY <1>5, LenProperties
<1>7. Cleaned(s) \in Lists BY <1>2, <1>3, <1>4, <1>5, <1>6, Constants DEF Lists
<1>8. ASSUME NEW k \in 1..Len(Cleaned(s))
      PROVE  \E n \in 1..Len(list) : Cleaned(s)[k] = list[n]
  <2>1. PICK n \in 1..Len(list) : Cleaned(s)[k] = s[n] BY <1>3, <1>4, <1>5
  <2>2. PICK m \in 1..Len(list) : s[n] = list[m] BY <1>3, <1>4, <2>1
  <2> QED BY <2>1, <2>2
<1> QED BY <1>4, <1>7, <1>8

(* The first entries of a folder, numbered as the Picostation does. *)
Prefix(list, d) ==
    /\ Len(list) <= Len(Contents[d])
    /\ \A k \in 1..Len(list) : list[k] = [flag |-> Contents[d][k].flag,
                                          name |-> Contents[d][k].name,
                                          index |-> k - 1]

LEMMA SamePrefix ==
  ASSUME NEW a \in Lists, NEW b \in Lists, NEW d, Prefix(a, d), Prefix(b, d),
         Len(a) = Len(b)
  PROVE  a = b
<1>1. a \in Seq(Items) /\ b \in Seq(Items) BY DEF Lists
<1>2. \A k \in 1..Len(a) : a[k] = b[k] BY DEF Prefix
<1> QED BY <1>1, <1>2, SeqEqual

LEMMA ListedIsPrefix ==
  ASSUME NEW d \in Dirs, NEW n \in Nat, n <= MaxFiles
  PROVE  /\ Listed(FirstOf(Contents[d], n), 0) \in Lists
         /\ Prefix(Listed(FirstOf(Contents[d], n), 0), d)
         /\ Len(Listed(FirstOf(Contents[d], n), 0))
               = IF n <= Len(Contents[d]) THEN n ELSE Len(Contents[d])
<1>1. PICK s : s = FirstOf(Contents[d], n) OBVIOUS
<1>2. Contents[d] \in Seq(Entries) BY BrowserAssumption
<1>3. /\ s \in Seq(Entries) /\ Len(Contents[d]) \in Nat
      /\ Len(s) = IF n <= Len(Contents[d]) THEN n ELSE Len(Contents[d])
      /\ \A k \in 1..Len(s) : s[k] = Contents[d][k]
      BY <1>1, <1>2, FirstOfIs, LenProperties
<1>4. PICK z : z = 0 OBVIOUS
<1>5. z \in Nat /\ z + Len(s) <= MaxFiles /\ Len(s) \in Nat
      /\ Len(s) <= Len(Contents[d])
      BY <1>3, <1>4, Constants
<1>6. /\ Listed(s, z) \in Seq(Items) /\ Len(Listed(s, z)) = Len(s)
      /\ \A k \in 1..Len(s) :
            Listed(s, z)[k] = [flag |-> s[k].flag, name |-> s[k].name,
                               index |-> (z + k) - 1]
      BY <1>3, <1>5, ListedIs
<1>7. \A k \in 1..Len(s) : (z + k) - 1 = k - 1 BY <1>4, <1>5
<1>8. Prefix(Listed(s, z), d) BY <1>3, <1>5, <1>6, <1>7 DEF Prefix
<1>9. Listed(s, z) \in Lists BY <1>4, <1>5, <1>6 DEF Lists
<1> QED BY <1>1, <1>3, <1>4, <1>6, <1>8, <1>9

(* One more sector in its place; without a next one, the list is full or the *)
(* folder at its end.                                                        *)
LEMMA PrefixGrows ==
  ASSUME NEW d \in Dirs, NEW list \in Lists, Prefix(list, d), NEW p \in Pieces,
         p = SectorAt(d, Len(list))
  PROVE  /\ Prefix(Lookup(list, p), d)
         /\ ~HasNext(list, p) =>
               Len(Lookup(list, p)) = IF MaxFiles <= Len(Contents[d]) THEN MaxFiles
                                      ELSE Len(Contents[d])
<1> DEFINE n == Len(list)
           L == Len(Contents[d])
           more == Lookup(list, p)
<1>1. n \in Nat /\ n <= MaxFiles /\ n <= L BY LenProperties DEF Lists, Prefix
<1>2. /\ L \in Nat
      /\ p.hasNext <=> n + PerSector < L
      /\ Len(p.entries) = IF n + PerSector <= L THEN PerSector ELSE L - n
      /\ \A k \in 1..Len(p.entries) : p.entries[k] = Contents[d][n + k]
      BY <1>1, SectorAtIs
<1>3. PICK m \in Nat :
         /\ m = (IF n + Len(p.entries) <= MaxFiles
                 THEN Len(p.entries) ELSE MaxFiles - n)
         /\ Len(more) = n + m
         /\ \A k \in 1..n : more[k] = list[k]
         /\ \A k \in 1..m : more[n + k]
                 = [flag |-> p.entries[k].flag, name |-> p.entries[k].name,
                    index |-> (n + k) - 1]
      BY LookupIs
<1> HIDE DEF more, L
<1>4. m <= Len(p.entries) /\ n + m <= L /\ Len(p.entries) \in Nat
      BY <1>1, <1>2, <1>3, Constants
<1>5. ASSUME NEW k \in 1..n + m
      PROVE  more[k] = [flag |-> Contents[d][k].flag, name |-> Contents[d][k].name,
                        index |-> k - 1]
  <2>1. CASE k <= n
    <3>1. k \in 1..n BY <1>1, <1>3, <2>1
    <3>2. list[k] = [flag |-> Contents[d][k].flag, name |-> Contents[d][k].name,
                     index |-> k - 1]
          BY <3>1 DEF Prefix
    <3> QED BY <1>3, <3>1, <3>2
  <2>2. CASE ~(k <= n)
    <3>1. PICK j : j = k - n OBVIOUS
    <3>2. j \in 1..m /\ k = n + j /\ j \in 1..Len(p.entries)
          BY <1>1, <1>3, <1>4, <2>2, <3>1
    <3>3. p.entries[j] = Contents[d][k] BY <1>2, <3>2
    <3> QED BY <1>3, <3>2, <3>3
  <2> QED BY <2>1, <2>2
<1>6. Prefix(more, d) BY <1>3, <1>4, <1>5 DEF Prefix, L
<1>7. ASSUME ~HasNext(list, p) PROVE n + m = IF MaxFiles <= L THEN MaxFiles ELSE L
  <2>1. ~(n + PerSector < L) \/ ~(n + Len(p.entries) < MaxFiles)
        BY <1>2, <1>7 DEF HasNext
  <2>2. n + Len(p.entries) = IF n + PerSector <= L THEN n + PerSector ELSE L
        BY <1>1, <1>2, Constants
  <2>3. PICK e : e = Len(p.entries) OBVIOUS
  <2>4. /\ e \in Nat /\ m = (IF n + e <= MaxFiles THEN e ELSE MaxFiles - n)
        /\ n + e = (IF n + PerSector <= L THEN n + PerSector ELSE L)
        /\ ~(n + PerSector < L) \/ ~(n + e < MaxFiles)
        /\ MaxFiles \in Nat /\ PerSector \in Nat
        BY <1>3, <1>4, <2>1, <2>2, <2>3, Constants
  <2>5. n \in Nat /\ n <= MaxFiles /\ n <= L /\ L \in Nat BY <1>1, <1>2
  <2> QED BY <2>4, <2>5
<1> QED BY <1>3, <1>6, <1>7 DEF more, L

LEMMA LoadSectorKeeps == ASSUME Inv, LoadSector PROVE Inv'
<1>1. /\ pc = "load" /\ picoDir' \in Dirs /\ picoSector' \in Pieces
      /\ failures' \in 0..MaxFailures
      BY LoadSectorIs
<1>2. UNCHANGED <<creditsmenu, previousButtons, hold>> BY DEF LoadSector
<1>3. PICK p \in Pieces, list \in Lists :
         /\ p = sectorBuffer' /\ list = Lookup(loading, p)
         /\ IF HasNext(loading, p)
            THEN /\ loading' = list
                 /\ request' = [command |-> "GET_NEXT_CONTENTS",
                                argument |-> Len(list)]
                 /\ UNCHANGED <<pc, files, currentCommand, selectedindex>>
            ELSE /\ files' = Cleaned(Sorted(list)) /\ loading' = << >>
                 /\ request' = NoRequest /\ currentCommand' = "NONE"
                 /\ Reselect /\ pc' \in {"frame", "outside"}
      BY LoadSectorIs
<1>4. Types /\ Phases BY DEF Inv
<1>5. CASE HasNext(loading, p)
  <2>1. Len(list) \in Nat /\ Len(list) <= MaxFiles BY LenProperties DEF Lists
  <2>2. Len(list) \in 0..IndexModulus - 1 BY <2>1, Constants
  <2>3. request' \in [command : Requests \cup {"NONE"}, argument : 0..IndexModulus - 1]
        BY <1>3, <1>5, <2>2 DEF Requests
  <2>4. Types' BY <1>1, <1>2, <1>3, <1>4, <1>5, <2>3 DEF Types
  <2>5. Phases' BY <1>1, <1>3, <1>4, <1>5 DEF Phases
  <2> QED BY <2>4, <2>5 DEF Inv
<1>6. CASE ~HasNext(loading, p)
  <2>1. files' \in Lists BY <1>3, <1>6, ListIsKept
  <2>2. loading' \in Lists BY <1>3, <1>6, EmptySeq, Constants DEF Lists
  <2>3. request' \in [command : Requests \cup {"NONE"}, argument : 0..IndexModulus - 1]
        BY <1>3, <1>6, Constants DEF NoRequest
  <2>4. selectedindex' \in 0..IndexModulus - 1
        BY <1>3, <1>4, <1>6, Constants DEF Types, Reselect
  <2>5. Types' BY <1>1, <1>2, <1>3, <1>4, <1>6, <2>1, <2>2, <2>3, <2>4 DEF Types
  <2>6. Phases' BY <1>3, <1>6 DEF Phases, Commands
  <2> QED BY <2>5, <2>6 DEF Inv
<1> QED BY <1>5, <1>6

LEMMA LoadSectorSelects == ASSUME Inv, Selection, LoadSector PROVE Selection'
<1>1. pc = "load" /\ Inv' BY LoadSectorIs, LoadSectorKeeps
<1>2. \/ UNCHANGED <<pc, files, currentCommand, selectedindex>>
      \/ currentCommand' = "NONE" /\ Reselect
      BY LoadSectorIs
<1>3. CASE UNCHANGED <<pc, files, currentCommand, selectedindex>>
      BY <1>1, <1>3 DEF Selection
<1>4. CASE currentCommand' = "NONE" /\ Reselect
  <2>1. selectedindex' = 0 BY <1>4 DEF Reselect, Selection
  <2>2. ASSUME files' # << >> PROVE 0 < Len(files')
    <3>1. files' \in Seq(Items) BY <1>1 DEF Inv, Types, Lists
    <3> QED BY <2>2, <3>1, EmptySeq
  <2> QED BY <1>4, <2>1, <2>2 DEF Selection
<1> QED BY <1>2, <1>3, <1>4

(* When nothing fails, the directory listed is the one the Picostation is in. *)
LEMMA LoadSectorLists == ASSUME Inv, Listing, LoadSector PROVE Listing'
<1> SUFFICES ASSUME failures' = 0 PROVE Listing' BY DEF Listing
<1>1. PICK d \in Dirs : d = picoDir' BY LoadSectorIs
<1>2. /\ pc = "load" /\ failures = 0 /\ Obey(request)
      /\ sectorBuffer' = picoSector'
      BY LoadSectorIs
<1>3. PICK p \in Pieces, list \in Lists :
         /\ p = sectorBuffer' /\ list = Lookup(loading, p)
         /\ IF HasNext(loading, p)
            THEN /\ loading' = list
                 /\ request' = [command |-> "GET_NEXT_CONTENTS",
                                argument |-> Len(list)]
                 /\ UNCHANGED <<pc, files, currentCommand, selectedindex>>
            ELSE /\ files' = Cleaned(Sorted(list)) /\ loading' = << >>
                 /\ request' = NoRequest /\ currentCommand' = "NONE"
                 /\ Reselect /\ pc' \in {"frame", "outside"}
      BY LoadSectorIs
<1>4. loading \in Lists BY DEF Inv, Types
<1>5. Len(loading) \in Nat /\ Len(loading) <= MaxFiles
      BY <1>4, LenProperties DEF Lists
<1>6. p = SectorAt(d, Len(loading)) /\ Prefix(loading, d)
  <2>1. CASE request.command = "GET_NEXT_CONTENTS"
    <3>1. d = picoDir /\ p = SectorAt(picoDir, request.argument)
          BY <1>1, <1>2, <1>3, <2>1, ObeyIs
    <3>2. /\ Len(loading) <= Len(Contents[d])
          /\ loading = Listed(FirstOf(Contents[d], Len(loading)), 0)
          /\ request.argument = Len(loading)
          BY <1>2, <2>1, <3>1 DEF Listing
    <3>3. PICK n : n = Len(loading) OBVIOUS
    <3>4. Prefix(Listed(FirstOf(Contents[d], n), 0), d)
          BY <1>5, <3>3, ListedIsPrefix
    <3>5. loading = Listed(FirstOf(Contents[d], n), 0) BY <3>2, <3>3
    <3>6. Prefix(loading, d) BY <3>4, <3>5, Zenon
    <3> QED BY <3>1, <3>2, <3>6
  <2>2. CASE request.command # "GET_NEXT_CONTENTS"
    <3>1. p = SectorAt(d, 0) BY <1>1, <1>2, <1>3, <2>2, ObeyIs
    <3>2. loading = << >> BY <1>2, <2>2 DEF Listing
    <3>3. Len(loading) = 0 BY <3>2, EmptySeq
    <3>4. Prefix(loading, d)
      <4>1. Len(Contents[d]) \in Nat BY SectorAtIs
      <4> QED BY <3>3, <4>1 DEF Prefix
    <3> QED BY <3>1, <3>3, <3>4
  <2> QED BY <2>1, <2>2
<1>7. /\ Prefix(list, d)
      /\ ~HasNext(loading, p) =>
            Len(list) = IF MaxFiles <= Len(Contents[d]) THEN MaxFiles
                        ELSE Len(Contents[d])
      BY <1>3, <1>4, <1>6, PrefixGrows
<1>8. Len(list) \in Nat /\ Len(list) <= MaxFiles BY LenProperties DEF Lists
<1>9. CASE HasNext(loading, p)
  <2>1. /\ request'.command = "GET_NEXT_CONTENTS" /\ request'.argument = Len(list)
        /\ loading' = list
        BY <1>3, <1>9
  <2>2. Len(list) <= Len(Contents[d]) BY <1>7 DEF Prefix
  <2>3. list = Listed(FirstOf(Contents[d], Len(list)), 0)
    <3>1. PICK n : n = Len(list) OBVIOUS
    <3>2. /\ Listed(FirstOf(Contents[d], n), 0) \in Lists
          /\ Prefix(Listed(FirstOf(Contents[d], n), 0), d)
          /\ Len(Listed(FirstOf(Contents[d], n), 0)) = n
          BY <1>8, <2>2, <3>1, ListedIsPrefix
    <3> QED BY <1>7, <3>1, <3>2, SamePrefix
  <2> QED BY <1>1, <2>1, <2>2, <2>3 DEF Listing
<1>10. CASE ~HasNext(loading, p)
  <2>1. /\ files' = Cleaned(Sorted(list)) /\ request'.command = "NONE" /\ pc' # "load"
        BY <1>3, <1>10 DEF NoRequest
  <2>2. list = Listed(FirstOf(Contents[d], MaxFiles), 0)
    <3>1. /\ Listed(FirstOf(Contents[d], MaxFiles), 0) \in Lists
          /\ Prefix(Listed(FirstOf(Contents[d], MaxFiles), 0), d)
          /\ Len(Listed(FirstOf(Contents[d], MaxFiles), 0)) = Len(list)
          BY <1>7, <1>10, Constants, ListedIsPrefix
    <3> QED BY <1>7, <3>1, SamePrefix
  <2>3. Reference[d] = Cleaned(Sorted(list)) BY <2>2 DEF Reference
  <2> QED BY <1>1, <2>1, <2>3 DEF Listing
<1> QED BY <1>9, <1>10

-------------------------------------------------------------------------------
(* The other steps.                                                         *)

LEMMA MountKeeps ==
  ASSUME Inv, MountFile
  PROVE  Inv' /\ (Selection => Selection') /\ (Listing => Listing')
<1>1. /\ pc = "mount" /\ pc' = "booted"
      /\ UNCHANGED <<files, loading, sectorBuffer, request, currentCommand,
                     selectedindex, creditsmenu, previousButtons, hold,
                     picoDir, picoSector, failures>>
      BY DEF MountFile, menuVars
<1>2. Types' BY <1>1 DEF Inv, Types
<1>3. Phases' BY <1>1 DEF Inv, Phases
<1> QED BY <1>1, <1>2, <1>3 DEF Inv, Selection, Listing

LEMMA ResetKeeps ==
  ASSUME Inv, Reset
  PROVE  Inv' /\ Selection' /\ (Listing => Listing')
<1>1. /\ pc' = "frame" /\ files' = << >> /\ loading' = << >>
      /\ sectorBuffer' \in {Blank(TRUE), Blank(FALSE)}
      /\ request' = NoRequest /\ selectedindex' = 0
      /\ currentCommand' = "GOTO_ROOT" /\ creditsmenu' = FALSE
      /\ previousButtons' \in ButtonSets /\ hold' = 0
      /\ UNCHANGED <<picoDir, picoSector, failures>>
      BY DEF Reset, PowerOn, picoVars
<1>2. Blank(TRUE) \in Pieces /\ Blank(FALSE) \in Pieces
  <2>1. << >> \in Seq(Entries) /\ Len(<< >>) = 0 BY EmptySeq
  <2> QED BY <2>1, Constants DEF Blank, Pieces, Sectors
<1>3. << >> \in Lists BY EmptySeq, Constants DEF Lists
<1>4. NoRequest \in [command : Requests \cup {"NONE"}, argument : 0..IndexModulus - 1]
      BY Constants DEF NoRequest
<1>5. 0 \in 0..IndexModulus - 1 /\ 0 \in 0..HoldMax BY Constants
<1>6. Types' BY <1>1, <1>2, <1>3, <1>4, <1>5 DEF Inv, Types
<1>7. Phases' BY <1>1 DEF Phases, Commands
<1>8. Selection' BY <1>1 DEF Selection
<1>9. Listing => Listing' BY <1>1 DEF Listing
<1> QED BY <1>6, <1>7, <1>8, <1>9 DEF Inv

LEMMA FrameLists ==
  ASSUME Inv, Listing, NEW b \in ButtonSets, Frame(b) PROVE Listing'
<1>1. /\ pc = "frame" /\ loading' = << >>
      /\ UNCHANGED <<files, picoDir, failures>>
      BY DEF Frame, picoVars
<1>2. request'.command # "GET_NEXT_CONTENTS" BY FrameIs
<1>3. request = NoRequest BY <1>1 DEF Inv, Phases
<1> QED BY <1>1, <1>2, <1>3 DEF Listing, NoRequest

LEMMA StutterKeeps ==
  ASSUME Inv, UNCHANGED vars
  PROVE  Inv' /\ (Selection => Selection') /\ (Listing => Listing')
<1>1. UNCHANGED <<pc, files, loading, sectorBuffer, request, currentCommand,
                  selectedindex, creditsmenu, previousButtons, hold,
                  picoDir, picoSector, mounted, failures>>
      BY DEF vars, menuVars, picoVars
<1>2. Types' BY <1>1 DEF Inv, Types
<1>3. Phases' BY <1>1 DEF Inv, Phases
<1> QED BY <1>1, <1>2, <1>3 DEF Inv, Selection, Listing

LEMMA Starts == ASSUME Init PROVE Inv /\ Selection /\ Listing
<1>1. /\ pc = "frame" /\ files = << >> /\ loading = << >>
      /\ sectorBuffer \in {Blank(TRUE), Blank(FALSE)}
      /\ request = NoRequest /\ selectedindex = 0
      /\ currentCommand = "GOTO_ROOT" /\ creditsmenu = FALSE
      /\ previousButtons \in ButtonSets /\ hold = 0
      /\ picoDir = Root /\ picoSector = Blank(FALSE) /\ failures = 0
      BY DEF Init
<1>2. Blank(TRUE) \in Pieces /\ Blank(FALSE) \in Pieces
  <2>1. << >> \in Seq(Entries) /\ Len(<< >>) = 0 BY EmptySeq
  <2> QED BY <2>1, Constants DEF Blank, Pieces, Sectors
<1>3. << >> \in Lists BY EmptySeq, Constants DEF Lists
<1>4. NoRequest \in [command : Requests \cup {"NONE"}, argument : 0..IndexModulus - 1]
      BY Constants DEF NoRequest
<1>5. 0 \in 0..IndexModulus - 1 /\ 0 \in 0..HoldMax /\ 0 \in 0..MaxFailures
      /\ Root \in Dirs
      BY Constants
<1>6. Types BY <1>1, <1>2, <1>3, <1>4, <1>5 DEF Types
<1>7. Phases BY <1>1 DEF Phases, Commands
<1>8. Selection BY <1>1 DEF Selection
<1>9. Listing BY <1>1 DEF Listing
<1> QED BY <1>6, <1>7, <1>8, <1>9 DEF Inv

-------------------------------------------------------------------------------
(* What a command names.                                                    *)

(* Every entry shown is one of the folder, under the Picostation's index. *)
LEMMA ReferenceNames ==
  ASSUME NEW d \in Dirs, NEW k \in 1..Len(Reference[d])
  PROVE  \E n \in 1..Len(Contents[d]) :
            /\ Reference[d][k].index = n - 1
            /\ Reference[d][k].name = Contents[d][n].name
            /\ Reference[d][k].flag = Contents[d][n].flag
<1>1. PICK list \in Lists :
         /\ list = Listed(FirstOf(Contents[d], MaxFiles), 0) /\ Prefix(list, d)
         /\ Len(list) = IF MaxFiles <= Len(Contents[d]) THEN MaxFiles
                        ELSE Len(Contents[d])
      BY Constants, ListedIsPrefix
<1>2. Reference[d] = Cleaned(Sorted(list)) BY <1>1 DEF Reference
<1>3. PICK n \in 1..Len(list) : Reference[d][k] = list[n] BY <1>2, ListIsKept
<1>4. Len(list) \in Nat BY LenProperties DEF Lists
<1>5. Len(Contents[d]) \in Nat BY SectorAtIs
<1>6. n \in 1..Len(Contents[d]) BY <1>1, <1>4, <1>5 DEF Prefix
<1>7. list[n] = [flag |-> Contents[d][n].flag, name |-> Contents[d][n].name,
                 index |-> n - 1]
      BY <1>1 DEF Prefix
<1> QED BY <1>3, <1>6, <1>7

LEMMA FrameActs ==
  ASSUME ~EarlyPress, Inv, Selection, Listing, NEW b \in ButtonSets, Frame(b)
  PROVE  ActsOnSelected'
<1> SUFFICES ASSUME failures' = 0, files' # << >>,
                    request'.command \in {"GOTO_DIRECTORY", "MOUNT_FILE"}
             PROVE  (/\ selectedindex < fileEntryCount
                     /\ request.argument < Len(Contents[picoDir])
                     /\ LET e == Contents[picoDir][request.argument + 1]
                        IN  /\ e.name = files[selectedindex + 1].name
                            /\ e.flag = IF request.command = "GOTO_DIRECTORY"
                                        THEN 1 ELSE 0)'
    BY DEF ActsOnSelected
<1>1. /\ pc = "frame" /\ files' = files /\ picoDir' = picoDir /\ failures' = failures
      BY DEF Frame, picoVars
<1>2. PICK s : s = selectedindex' /\ Picks(request', s) BY FrameIs
<1>3. PICK r : r = request' OBVIOUS
<1>4. s < Len(files) /\ s \in Nat
  <2>1. Selection' BY FrameSelects
  <2>2. s \in 0..IndexModulus - 1 BY <1>2, FrameIs
  <2> QED BY <1>1, <1>2, <2>1, <2>2, Constants DEF Selection
<1>5. /\ r.argument = files[s + 1].index
      /\ files[s + 1].flag = IF r.command = "GOTO_DIRECTORY" THEN 1 ELSE 0
      BY <1>2, <1>3, <1>4 DEF Picks
<1>6. files = Reference[picoDir]
  <2>1. request = NoRequest BY <1>1 DEF Inv, Phases
  <2> QED BY <1>1, <2>1 DEF Listing, NoRequest
<1>7. PICK d \in Dirs : d = picoDir BY DEF Inv, Types
<1>8. s + 1 \in 1..Len(files)
  <2>1. Len(files) \in Nat BY LenProperties DEF Inv, Types, Lists
  <2> QED BY <1>4, <2>1
<1>9. PICK n \in 1..Len(Contents[d]) :
         /\ files[s + 1].index = n - 1
         /\ files[s + 1].name = Contents[d][n].name
         /\ files[s + 1].flag = Contents[d][n].flag
      BY <1>6, <1>7, <1>8, ReferenceNames
<1>10. r.argument = n - 1 /\ r.argument + 1 = n /\ r.argument < Len(Contents[d])
  <2>1. Len(Contents[d]) \in Nat BY SectorAtIs
  <2> QED BY <1>5, <1>9, <2>1
<1>11. LET e == Contents[d][r.argument + 1]
       IN  /\ e.name = files[s + 1].name
           /\ e.flag = IF r.command = "GOTO_DIRECTORY" THEN 1 ELSE 0
       BY <1>5, <1>9, <1>10
<1> QED BY <1>1, <1>2, <1>3, <1>4, <1>7, <1>10, <1>11 DEF fileEntryCount

LEMMA OthersAct ==
  ASSUME Inv, ActsOnSelected, LoadSector \/ MountFile \/ Reset \/ UNCHANGED vars
  PROVE  ActsOnSelected'
<1>1. CASE LoadSector
  <2>1. request'.command \in {"GET_NEXT_CONTENTS", "NONE"}
    <3>1. PICK p, list : IF HasNext(loading, p)
             THEN request' = [command |-> "GET_NEXT_CONTENTS", argument |-> Len(list)]
             ELSE request' = NoRequest
          BY <1>1, LoadSectorIs
    <3> QED BY <3>1 DEF NoRequest
  <2> QED BY <2>1 DEF ActsOnSelected
<1>2. CASE MountFile
      BY <1>2 DEF MountFile, menuVars, ActsOnSelected, fileEntryCount
<1>3. CASE Reset BY <1>3 DEF Reset, PowerOn, ActsOnSelected, NoRequest
<1>4. CASE UNCHANGED vars
      BY <1>4 DEF vars, menuVars, picoVars, ActsOnSelected, fileEntryCount
<1> QED BY <1>1, <1>2, <1>3, <1>4

-------------------------------------------------------------------------------
(* Theorems.                                                                *)

LEMMA Inductive == Spec => []IInv
<1>1. Init => IInv BY Starts DEF IInv
<1>2. IInv /\ [Next]_vars => IInv'
      BY FrameKeeps, FrameLists, LoadSectorKeeps, LoadSectorLists, MountKeeps,
         ResetKeeps, StutterKeeps
      DEF IInv, Next
<1> QED BY <1>1, <1>2, PTL DEF Spec

(* Every variable keeps its type, and neither list outgrows the table,      *)
(* whatever the Picostation sends.                                           *)
THEOREM TypeCorrect == Spec => []TypeOK
<1>1. IInv => TypeOK
  <2> SUFFICES ASSUME IInv PROVE TypeOK OBVIOUS
  <2>1. Types /\ Phases BY DEF IInv, Inv
  <2>2. ASSUME NEW list \in Lists
        PROVE  /\ Len(list) <= MaxFiles
               /\ \A k \in DOMAIN list : list[k].index \in 0..MaxFiles - 1
    <3>1. list \in Seq(Items) /\ Len(list) <= MaxFiles /\ DOMAIN list = 1..Len(list)
          BY LenProperties DEF Lists
    <3>2. \A k \in 1..Len(list) : list[k] \in Items BY <3>1, ElementOfSeq
    <3> QED BY <3>1, <3>2 DEF Items
  <2>3. sectorBuffer.hasNext \in BOOLEAN /\ Len(sectorBuffer.entries) <= PerSector
    <3>1. sectorBuffer \in Sectors /\ Len(sectorBuffer.entries) <= PerSector
          BY <2>1 DEF Types, Pieces
    <3> QED BY <3>1 DEF Sectors
  <2> QED BY <2>1, <2>2, <2>3 DEF TypeOK, Types, Phases
<1> QED BY <1>1, Inductive, PTL

(* While no command or read has failed, the list is that of the whole       *)
(* folder, however many sectors it took.                                     *)
THEOREM FolderIsShown == Spec => []ShowsFolder
<1>1. IInv => ShowsFolder
      BY DEF IInv, Inv, Phases, Listing, ShowsFolder, NoRequest
<1> QED BY <1>1, Inductive, PTL

LEMMA AlwaysSelected == ASSUME ~EarlyPress PROVE Spec => []Selection
<1>1. Init => Selection BY Starts
<1>2. IInv /\ Selection /\ [Next]_vars => Selection'
      BY FrameSelects, LoadSectorSelects, MountKeeps, ResetKeeps, StutterKeeps
      DEF IInv, Next
<1> QED BY <1>1, <1>2, Inductive, PTL DEF Spec

(* A list that is not empty has a selected entry, also when reads fail.     *)
THEOREM SelectionIsListed == ASSUME ~EarlyPress PROVE Spec => []SelectionListed
<1>1. Selection => SelectionListed BY DEF Selection, SelectionListed, fileEntryCount
<1> QED BY <1>1, AlwaysSelected, PTL

(* It is drawn on the screen, and the screen is full if the list allows.    *)
THEOREM SelectionIsVisible == ASSUME ~EarlyPress PROVE Spec => []SelectionVisible
<1>1. IInv /\ Selection => SelectionVisible
  <2> SUFFICES ASSUME IInv, Selection, files # << >>
               PROVE  /\ selectedindex \in FirstRow..FirstRow + PageSize - 1
                      /\ FirstRow = 0 \/ FirstRow + PageSize <= fileEntryCount
      BY DEF SelectionVisible
  <2>1. PICK l : l = fileEntryCount OBVIOUS
  <2>2. PICK s : s = selectedindex OBVIOUS
  <2>3. l \in Nat /\ s \in Nat /\ s < l /\ PageSize \in Nat /\ PageSize > 0
        BY <2>1, <2>2, LenProperties, Constants
           DEF IInv, Inv, Types, Lists, Selection, fileEntryCount
  <2>4. PICK h : h = PageSize \div 2 OBVIOUS
  <2>5. h \in Nat /\ h < PageSize BY <2>3, <2>4
  <2>6. CASE l < PageSize
    <3>1. FirstRow = 0 BY <2>1, <2>6 DEF FirstRow
    <3> QED BY <2>2, <2>3, <2>6, <3>1
  <2>7. CASE ~(l < PageSize)
    <3>1. PICK a \in Int, z \in Int : a = s - h /\ z = l - PageSize BY <2>3, <2>5
    <3>2. PICK m : m = Max({a, 0}) OBVIOUS
    <3>3. PICK f : f = Min({m, z}) OBVIOUS
    <3>4. FirstRow = f
          BY <2>1, <2>2, <2>4, <2>7, <3>1, <3>2, <3>3 DEF FirstRow
    <3>5. m = (IF a >= 0 THEN a ELSE 0) /\ m \in Int
      <4>1. PICK o \in Int : o = 0 OBVIOUS
      <4>2. Max({a, o}) = IF a >= o THEN a ELSE o BY MinMax
      <4> QED BY <3>2, <4>1, <4>2
    <3>6. f = (IF m <= z THEN m ELSE z) /\ f \in Int BY <3>1, <3>3, <3>5, MinMax
    <3>7. m >= 0 /\ m <= s /\ s - m <= h /\ z >= 0 /\ s - z < PageSize
          BY <2>3, <2>5, <2>7, <3>1, <3>5
    <3>8. f <= s /\ s < f + PageSize /\ f + PageSize <= l
          BY <2>3, <2>5, <3>1, <3>5, <3>6, <3>7
    <3>9. s \in f..f + PageSize - 1 BY <2>3, <3>6, <3>8
    <3> QED BY <2>1, <2>2, <3>4, <3>8, <3>9
  <2> QED BY <2>6, <2>7
<1> QED BY <1>1, Inductive, AlwaysSelected, PTL

(* The entry opened or mounted is the one selected on the screen.           *)
THEOREM ActsAsShown == ASSUME ~EarlyPress PROVE Spec => []ActsOnSelected
<1>1. Init => ActsOnSelected BY DEF Init, ActsOnSelected
<1>2. IInv /\ Selection /\ ActsOnSelected /\ [Next]_vars => ActsOnSelected'
      BY FrameActs, OthersAct DEF IInv, Next
<1> QED BY <1>1, <1>2, Inductive, AlwaysSelected, PTL DEF Spec
===============================================================================
