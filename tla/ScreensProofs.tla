--------------------------- MODULE ScreensProofs ----------------------------
(***************************************************************************)
(* Proofs about the two terminal screens, the log explorer and the backend *)
(* manager, for any number of records, files, rotations, polls and keys,   *)
(* and for any fleet, operations, other operators' commands, reloads and   *)
(* restarts.                                                               *)
(*                                                                         *)
(* The explorer (LogExplorer): the inductive invariant says of Tail what   *)
(* the bytes it has read are to the file it holds open, and of App that    *)
(* the selected row shows the remembered request. Its lemmas are about     *)
(* places: the n-th line end of a file, and what is read of a file that is *)
(* cut in two behind one.                                                  *)
(*                                                                         *)
(* The manager (BackendConsole) acts on the backend it asked about, and    *)
(* `backend drain` calls a backend safe only when it is. The server's half *)
(* of the inductive invariant is about the operation the waiter polls, as  *)
(* long as the process that keeps it lives; the screen's half, about the   *)
(* backend that the selected row shows.                                    *)
(***************************************************************************)
EXTENDS LogExplorer, BackendConsole, FiniteSetTheorems, SequenceTheorems, TLAPS

-----------------------------------------------------------------------------
(* Places and their order.                                                 *)

UpTo(S, i) == {j \in S : j <= i}
Rank(S, i) == Cardinality(UpTo(S, i))

(* A place of a set has a rank, between 1 and the number of places.        *)
LEMMA RankType ==
    ASSUME NEW S \in SUBSET Nat, IsFiniteSet(S), NEW i \in S
    PROVE  /\ Cardinality(S) \in Nat /\ IsFiniteSet(UpTo(S, i))
           /\ Rank(S, i) \in 1 .. Cardinality(S)
<1>1. UpTo(S, i) \in SUBSET S /\ i \in UpTo(S, i)
  BY DEF UpTo
<1> HIDE DEF UpTo
<1>2. IsFiniteSet(UpTo(S, i)) /\ Rank(S, i) <= Cardinality(S)
  BY <1>1, FS_Subset DEF Rank
<1>3. Cardinality(S) \in Nat /\ Rank(S, i) \in Nat
  BY <1>2, FS_CardinalityType DEF Rank
<1>4. Rank(S, i) # 0
  BY <1>1, <1>2, FS_EmptySet DEF Rank
<1> QED BY <1>2, <1>3, <1>4

(* A later place has a higher rank.                                        *)
LEMMA RankGrows ==
    ASSUME NEW S \in SUBSET Nat, IsFiniteSet(S), NEW i \in S, NEW j \in S, i < j
    PROVE  Rank(S, i) < Rank(S, j)
<1>1. UpTo(S, i) \in SUBSET UpTo(S, j)
  <2>1. ASSUME NEW k \in S, k <= i PROVE k <= j
    <3>1. i \in Nat /\ j \in Nat /\ k \in Nat
      OBVIOUS
    <3> QED BY <2>1, <3>1
  <2> QED BY <2>1 DEF UpTo
<1>2. j \in UpTo(S, j) /\ j \notin UpTo(S, i)
  <2>1. i \in Nat /\ j \in Nat
    OBVIOUS
  <2> QED BY <2>1 DEF UpTo
<1>3. UpTo(S, i) # UpTo(S, j)
  BY <1>2
<1>4. Rank(S, i) <= Rank(S, j) /\ Rank(S, i) # Rank(S, j)
  BY <1>1, <1>3, RankType, FS_Subset DEF Rank
<1>5. Rank(S, i) \in Nat /\ Rank(S, j) \in Nat
  BY RankType
<1> QED BY <1>4, <1>5

(* Nth and Rank undo each other.                                           *)
LEMMA NthOfRank ==
    ASSUME NEW S \in SUBSET Nat, IsFiniteSet(S), NEW i \in S
    PROVE  Nth(S, Rank(S, i)) = i
<1>1. ASSUME NEW j \in S, Rank(S, j) = Rank(S, i) PROVE j = i
  <2>1. Rank(S, i) \in Nat /\ i \in Nat /\ j \in Nat
    BY RankType
  <2>2. ~(i < j) /\ ~(j < i)
    BY <1>1, <2>1, RankGrows
  <2> QED BY <2>1, <2>2
<1>2. Nth(S, Rank(S, i)) = CHOOSE j \in S : Rank(S, j) = Rank(S, i)
  BY DEF Nth, Rank, UpTo
<1> QED BY <1>1, <1>2

(* The n-th place of a set is one of its places, and the n-th.             *)
LEMMA NthFacts ==
    ASSUME NEW S \in SUBSET Nat, IsFiniteSet(S), NEW n \in 1 .. Cardinality(S)
    PROVE  Nth(S, n) \in S /\ Rank(S, Nth(S, n)) = n
<1> DEFINE c == Cardinality(S)
           rank == [i \in S |-> Rank(S, i)]
<1>1. c \in Nat
  BY FS_CardinalityType
<1>2. rank \in [S -> 1 .. c]
  BY RankType
<1>3. ASSUME NEW i \in S, NEW j \in S, rank[i] = rank[j] PROVE i = j
  BY <1>3, NthOfRank
<1>4. rank \in Injection(S, 1 .. c)
  <2> HIDE DEF rank
  <2> QED BY <1>2, <1>3 DEF Injection, IsInjective
<1>5. IsFiniteSet(1 .. c) /\ Cardinality(1 .. c) = c
  BY <1>1, FS_Interval
<1>6. rank \in Surjection(S, 1 .. c)
  BY <1>4, <1>5, FS_Injection
<1>7. PICK i \in S : Rank(S, i) = n
  <2>1. \E i \in S : rank[i] = n
    <3> HIDE DEF rank
    <3> QED BY <1>6 DEF Surjection
  <2> QED BY <2>1
<1> QED BY <1>7, NthOfRank

(* A finite set of numbers has a least and a greatest element.             *)
LEMMA FirstAndLast ==
    ASSUME NEW S \in SUBSET Nat, IsFiniteSet(S), S # {}
    PROVE  /\ Min(S) \in S /\ \A j \in S : Min(S) <= j
           /\ Max(S) \in S /\ \A j \in S : j <= Max(S)
<1>1. Cardinality(S) \in Nat /\ Cardinality(S) # 0
  BY FS_CardinalityType, FS_EmptySet
<1>2. 1 \in 1 .. Cardinality(S) /\ Cardinality(S) \in 1 .. Cardinality(S)
  BY <1>1
<1>3. PICK i \in S : Rank(S, i) = 1
  BY <1>2, NthFacts
<1>4. PICK k \in S : Rank(S, k) = Cardinality(S)
  BY <1>2, NthFacts
<1>5. ASSUME NEW j \in S PROVE i <= j /\ j <= k
  <2>1. Rank(S, j) \in 1 .. Cardinality(S) /\ i \in Nat /\ j \in Nat /\ k \in Nat
    BY RankType
  <2>2. ~(j < i)
    <3>1. j < i => Rank(S, j) < 1
      BY <1>3, RankGrows
    <3> QED BY <1>1, <2>1, <3>1
  <2>3. ~(k < j)
    <3>1. k < j => Cardinality(S) < Rank(S, j)
      BY <1>4, RankGrows
    <3> QED BY <1>1, <2>1, <3>1
  <2> QED BY <2>1, <2>2, <2>3
<1> QED BY <1>5 DEF Min, Max

(* Induction, of a set of numbers: a number that it lacks would leave a    *)
(* least one.                                                              *)
LEMMA SetInduction ==
    ASSUME NEW S, 0 \in S, \A n \in Nat : n \in S => n + 1 \in S
    PROVE  \A n \in Nat : n \in S
<1> SUFFICES ASSUME NEW n \in Nat, n \notin S PROVE FALSE
  OBVIOUS
<1> DEFINE C == {i \in 0 .. n : i \notin S}
<1>1. C \in SUBSET Nat /\ n \in C /\ \A i \in C : i <= n
  OBVIOUS
<1>2. IsFiniteSet(C)
  <2> HIDE DEF C
  <2> QED BY <1>1, FS_BoundedSetOfNaturals
<1>3. PICK m \in C : \A j \in C : m <= j
  <2> HIDE DEF C
  <2> QED BY <1>1, <1>2, FirstAndLast
<1>4. m \in Nat /\ m # 0 /\ m <= n /\ m \notin S
  OBVIOUS
<1>5. m - 1 \in Nat /\ m - 1 \notin C /\ m - 1 \in 0 .. n
  <2>1. m - 1 \in Nat /\ ~(m <= m - 1) /\ m - 1 \in 0 .. n
    BY <1>4
  <2> HIDE DEF C
  <2> QED BY <1>3, <2>1
<1>6. m - 1 \in S
  BY <1>5
<1>7. (m - 1) + 1 \in S
  BY <1>5, <1>6
<1> QED BY <1>4, <1>7

-----------------------------------------------------------------------------
(* Places of two sequences, one behind the other.                          *)

Shift(m, B) == {m + i : i \in B}

(* Moving places along keeps their number.                                 *)
LEMMA ShiftSize ==
    ASSUME NEW m \in Nat, NEW B \in SUBSET Nat, IsFiniteSet(B)
    PROVE  IsFiniteSet(Shift(m, B)) /\ Cardinality(Shift(m, B)) = Cardinality(B)
<1> DEFINE f == [i \in B |-> m + i]
<1>1. f \in [B -> Shift(m, B)]
  BY DEF Shift
<1>2. ASSUME NEW i \in B, NEW j \in B, f[i] = f[j] PROVE i = j
  <2>1. i \in Nat /\ j \in Nat /\ m + i = m + j
    BY <1>2
  <2> QED BY <2>1
<1>3. \A k \in Shift(m, B) : \E i \in B : f[i] = k
  BY DEF Shift
<1>4. f \in Bijection(B, Shift(m, B))
  <2> HIDE DEF f
  <2> QED BY <1>1, <1>2, <1>3 DEF Bijection, Injection, Surjection, IsInjective
<1>5. ExistsBijection(B, Shift(m, B))
  BY <1>4 DEF ExistsBijection
<1> QED BY <1>5, FS_Bijection

(* The size of two sets that share nothing.                                *)
LEMMA DisjointSize ==
    ASSUME NEW A, NEW B, IsFiniteSet(A), IsFiniteSet(B), A \cap B = {}
    PROVE  /\ IsFiniteSet(A \cup B) /\ Cardinality(A) \in Nat /\ Cardinality(B) \in Nat
           /\ Cardinality(A \cup B) = Cardinality(A) + Cardinality(B)
<1>1. Cardinality(A) \in Nat /\ Cardinality(B) \in Nat /\ Cardinality({}) = 0
  BY FS_CardinalityType, FS_EmptySet
<1>2. IsFiniteSet(A \cup B)
      /\ Cardinality(A \cup B) = Cardinality(A) + Cardinality(B) - Cardinality(A \cap B)
  BY FS_Union
<1>3. Cardinality(A \cap B) = 0
  BY <1>1
<1> QED BY <1>1, <1>2, <1>3

(* The places up to m of a set, and those behind it.                       *)
InTwo(m, A, B, S) ==
    /\ m \in Nat /\ A \in SUBSET (0 .. m) /\ B \in SUBSET (Nat \ {0}) /\ IsFiniteSet(B)
    /\ S = A \cup Shift(m, B)

(* The places behind m are counted on from those up to m.                  *)
LEMMA RanksBehind ==
    ASSUME NEW m, NEW A, NEW B, NEW S, InTwo(m, A, B, S)
    PROVE  /\ IsFiniteSet(A) /\ IsFiniteSet(S) /\ S \in SUBSET Nat
           /\ Cardinality(A) \in Nat /\ Cardinality(B) \in Nat
           /\ Cardinality(S) = Cardinality(A) + Cardinality(B)
           /\ \A n \in 1 .. Cardinality(A) : Nth(S, n) = Nth(A, n)
           /\ \A n \in 1 .. Cardinality(B) : Nth(S, Cardinality(A) + n) = m + Nth(B, n)
<1> USE DEF InTwo
<1>1. IsFiniteSet(A) /\ A \in SUBSET Nat
  <2>1. IsFiniteSet(0 .. m)
    BY FS_Interval
  <2>2. IsFiniteSet(A)
    BY <2>1, FS_Subset
  <2> QED BY <2>2
<1>2. \A k \in Shift(m, B) : k \in Nat /\ k > m
  BY DEF Shift
<1>3. S \in SUBSET Nat /\ A \cap Shift(m, B) = {}
  <2>1. ASSUME NEW k \in A PROVE k \notin Shift(m, B)
    <3>1. k \in Nat /\ k <= m
      OBVIOUS
    <3> QED BY <1>2, <3>1
  <2>2. Shift(m, B) \in SUBSET Nat
    BY <1>2
  <2> QED BY <1>1, <2>1, <2>2
<1>4. /\ IsFiniteSet(S) /\ Cardinality(A) \in Nat /\ Cardinality(B) \in Nat
      /\ Cardinality(S) = Cardinality(A) + Cardinality(B)
  <2>1. IsFiniteSet(Shift(m, B)) /\ Cardinality(Shift(m, B)) = Cardinality(B)
    BY ShiftSize
  <2> QED BY <1>1, <1>3, <2>1, DisjointSize
<1>5. ASSUME NEW n \in 1 .. Cardinality(A) PROVE Nth(S, n) = Nth(A, n)
  <2>1. PICK i \in A : i = Nth(A, n) /\ Rank(A, i) = n
    BY <1>1, NthFacts
  <2>2. UpTo(S, i) = UpTo(A, i)
    <3>1. i \in Nat /\ i <= m
      OBVIOUS
    <3>2. ASSUME NEW k \in Shift(m, B) PROVE ~(k <= i)
      BY <1>2, <3>1
    <3> QED BY <3>2 DEF UpTo
  <2>3. Rank(S, i) = n /\ i \in S
    BY <2>1, <2>2 DEF Rank
  <2> QED BY <1>3, <1>4, <2>1, <2>3, NthOfRank
<1>6. ASSUME NEW n \in 1 .. Cardinality(B)
      PROVE  Nth(S, Cardinality(A) + n) = m + Nth(B, n)
  <2>1. PICK i \in B : i = Nth(B, n) /\ Rank(B, i) = n
    BY NthFacts
  <2>2. UpTo(S, m + i) = A \cup Shift(m, UpTo(B, i))
    <3>1. ASSUME NEW k \in A PROVE k <= m + i
      <4>1. k \in Nat /\ k <= m /\ i \in Nat
        OBVIOUS
      <4> QED BY <4>1
    <3>2. ASSUME NEW k \in B PROVE m + k <= m + i <=> k <= i
      <4>1. k \in Nat /\ i \in Nat
        OBVIOUS
      <4> QED BY <4>1
    <3> QED BY <3>1, <3>2 DEF UpTo, Shift
  <2>3. UpTo(B, i) \in SUBSET B
    BY DEF UpTo
  <2>4. IsFiniteSet(UpTo(B, i))
    BY <2>3, FS_Subset
  <2>5. IsFiniteSet(Shift(m, UpTo(B, i))) /\ Cardinality(Shift(m, UpTo(B, i))) = n
    BY <2>1, <2>3, <2>4, ShiftSize DEF Rank
  <2>6. A \cap Shift(m, UpTo(B, i)) = {}
    <3>1. Shift(m, UpTo(B, i)) \in SUBSET Shift(m, B)
      BY <2>3 DEF Shift
    <3> QED BY <1>3, <3>1
  <2>7. Rank(S, m + i) = Cardinality(A) + n /\ m + i \in S
    <3>1. m + i \in Shift(m, B)
      BY DEF Shift
    <3> QED BY <1>1, <2>2, <2>5, <2>6, <3>1, DisjointSize DEF Rank
  <2> QED BY <1>3, <1>4, <2>1, <2>7, NthOfRank
<1> QED BY <1>1, <1>3, <1>4, <1>5, <1>6

(* The elements at the places of a set.                                    *)
LEMMA AtFacts ==
    ASSUME NEW T, NEW s \in Seq(T), NEW S \in SUBSET (DOMAIN s)
    PROVE  /\ IsFiniteSet(S) /\ S \in SUBSET Nat /\ Cardinality(S) \in Nat
           /\ At(s, S) \in Seq(T) /\ Len(At(s, S)) = Cardinality(S)
           /\ DOMAIN At(s, S) = 1 .. Cardinality(S)
           /\ \A n \in 1 .. Cardinality(S) : At(s, S)[n] = s[Nth(S, n)]
<1>1. DOMAIN s = 1 .. Len(s) /\ Len(s) \in Nat
  OBVIOUS
<1>2. IsFiniteSet(S) /\ S \in SUBSET Nat
  <2>1. IsFiniteSet(1 .. Len(s)) /\ 1 .. Len(s) \in SUBSET Nat
    BY <1>1, FS_Interval
  <2>2. S \in SUBSET (1 .. Len(s))
    BY <1>1
  <2> QED BY <2>1, <2>2, FS_Subset
<1>3. Cardinality(S) \in Nat
  BY <1>2, FS_CardinalityType
<1>4. \A n \in 1 .. Cardinality(S) : s[Nth(S, n)] \in T
  <2>1. \A n \in 1 .. Cardinality(S) : Nth(S, n) \in DOMAIN s
    BY <1>2, NthFacts
  <2> QED BY <2>1
<1>5. At(s, S) \in [1 .. Cardinality(S) -> T]
  BY <1>4 DEF At
<1>6. At(s, S) \in Seq(T) /\ Len(At(s, S)) = Cardinality(S)
      /\ DOMAIN At(s, S) = 1 .. Cardinality(S)
  <2> HIDE DEF At
  <2> QED BY <1>3, <1>5
<1>7. \A n \in 1 .. Cardinality(S) : At(s, S)[n] = s[Nth(S, n)]
  BY DEF At
<1> QED BY <1>2, <1>3, <1>6, <1>7

(* What starts as s and goes on as t is s followed by t.                   *)
LEMMA IsConcatenation ==
    ASSUME NEW T, NEW s \in Seq(T), NEW t \in Seq(T), NEW u \in Seq(T),
           Len(u) = Len(s) + Len(t),
           \A n \in 1 .. Len(s) : u[n] = s[n],
           \A n \in 1 .. Len(t) : u[Len(s) + n] = t[n]
    PROVE  u = s \o t
<1>1. s \o t \in Seq(T) /\ Len(s \o t) = Len(u) /\ Len(s) \in Nat /\ Len(t) \in Nat
  OBVIOUS
<1>2. ASSUME NEW n \in 1 .. Len(u) PROVE u[n] = (s \o t)[n]
  <2>1. CASE n <= Len(s)
    BY <1>1, <2>1
  <2>2. CASE ~(n <= Len(s))
    <3>1. n - Len(s) \in 1 .. Len(t) /\ n = Len(s) + (n - Len(s))
      BY <1>1, <2>2
    <3>2. (s \o t)[n] = t[n - Len(s)]
      BY <1>1, <2>2
    <3> QED BY <3>1, <3>2
  <2> QED BY <2>1, <2>2
<1> QED BY <1>1, <1>2

-----------------------------------------------------------------------------
(* The lines of a file.                                                    *)

Piece == [record : Records, part : {"head", "rest"}]
RecordsOf(pieces) == [i \in DOMAIN pieces |-> pieces[i].record]

(* What Tail::poll makes of the bytes of a file: one record for each whole *)
(* line.                                                                   *)
LEMMA ReadableFacts ==
    ASSUME NEW F \in Seq(Piece)
    PROVE  /\ Ends(F) \in SUBSET (1 .. Len(F)) /\ WholeEnds(F) \in SUBSET Ends(F)
           /\ IsFiniteSet(Ends(F)) /\ IsFiniteSet(WholeEnds(F))
           /\ Cardinality(Ends(F)) \in Nat /\ Cardinality(WholeEnds(F)) \in Nat
           /\ Cardinality(WholeEnds(F)) <= Cardinality(Ends(F))
           /\ WholeEnds(F) \in SUBSET Nat
           /\ Readable(F) \in Seq(Records) /\ Len(Readable(F)) = Cardinality(WholeEnds(F))
           /\ \A n \in 1 .. Cardinality(WholeEnds(F)) :
                  Readable(F)[n] = F[Nth(WholeEnds(F), n)].record
<1>1. Ends(F) \in SUBSET (1 .. Len(F)) /\ WholeEnds(F) \in SUBSET Ends(F) /\ Len(F) \in Nat
  BY DEF Ends, WholeEnds
<1>2. IsFiniteSet(1 .. Len(F))
  BY <1>1, FS_Interval
<1>3. IsFiniteSet(Ends(F))
  BY <1>1, <1>2, FS_Subset
<1>4. IsFiniteSet(WholeEnds(F)) /\ Cardinality(WholeEnds(F)) <= Cardinality(Ends(F))
  BY <1>1, <1>3, FS_Subset
<1>5. Cardinality(Ends(F)) \in Nat /\ Cardinality(WholeEnds(F)) \in Nat
  BY <1>3, <1>4, FS_CardinalityType
<1>6. RecordsOf(F) \in Seq(Records) /\ DOMAIN RecordsOf(F) = 1 .. Len(F)
  <2>1. \A i \in 1 .. Len(F) : F[i].record \in Records
    <3>1. \A i \in 1 .. Len(F) : F[i] \in Piece
      OBVIOUS
    <3> QED BY <3>1 DEF Piece
  <2>2. RecordsOf(F) \in [1 .. Len(F) -> Records]
    BY <2>1 DEF RecordsOf
  <2> HIDE DEF RecordsOf
  <2> QED BY <1>1, <2>2
<1>7. WholeEnds(F) \in SUBSET (DOMAIN RecordsOf(F))
  BY <1>1, <1>6
<1>8. Readable(F) = At(RecordsOf(F), WholeEnds(F))
  BY DEF Readable, RecordsOf
<1>9. /\ WholeEnds(F) \in SUBSET Nat
      /\ Readable(F) \in Seq(Records) /\ Len(Readable(F)) = Cardinality(WholeEnds(F))
      /\ \A n \in 1 .. Cardinality(WholeEnds(F)) :
             Readable(F)[n] = RecordsOf(F)[Nth(WholeEnds(F), n)]
  BY <1>6, <1>7, <1>8, AtFacts
<1>10. ASSUME NEW n \in 1 .. Cardinality(WholeEnds(F))
       PROVE  RecordsOf(F)[Nth(WholeEnds(F), n)] = F[Nth(WholeEnds(F), n)].record
  <2>1. Nth(WholeEnds(F), n) \in 1 .. Len(F)
    BY <1>1, <1>4, <1>9, NthFacts
  <2> QED BY <2>1 DEF RecordsOf
<1> QED BY <1>1, <1>3, <1>4, <1>5, <1>9, <1>10

(* Piece j of F is piece i of Y, and m pieces of whole lines are before Y. *)
Behind(F, j, Y, i, m) ==
    /\ m \in Nat /\ i \in Nat \ {0} /\ j = m + i
    /\ Y[i] = F[j] /\ (i > 1 => Y[i - 1] = F[j - 1]) /\ (i > 2 => Y[i - 2] = F[j - 2])
    /\ m > 0 /\ i = 1 => F[j - 1].part = "rest"
    /\ m > 0 /\ i = 2 => F[j - 2].part = "rest"

(* Whether a line is whole does not depend on the lines before it.         *)
LEMMA WholeBehind ==
    ASSUME NEW F, NEW j, NEW Y, NEW i, NEW m, Behind(F, j, Y, i, m)
    PROVE  Whole(F, j) <=> Whole(Y, i)
<1> USE DEF Behind
<1>1. CASE i = 1
  <2>1. ~Whole(Y, i)
    BY <1>1 DEF Whole
  <2>2. m > 0 => F[j - 1] # Head1(F[j].record)
    BY <1>1 DEF Head1
  <2>3. j > 1 => m > 0
    BY <1>1
  <2> QED BY <2>1, <2>2, <2>3 DEF Whole
<1>2. CASE i = 2
  <2>1. i > 1 /\ ~(i > 2) /\ j > 1 /\ (j > 2 => m > 0)
    BY <1>2
  <2> QED BY <1>2, <2>1 DEF Whole
<1>3. CASE i > 2
  <2>1. i > 1 /\ j > 1 /\ j > 2
    BY <1>3
  <2> QED BY <1>3, <2>1 DEF Whole
<1> QED BY <1>1, <1>2, <1>3

(* The part of a sequence behind its first k elements.                     *)
LEMMA RearPart ==
    ASSUME NEW T, NEW s \in Seq(T), NEW k \in 0 .. Len(s)
    PROVE  /\ SubSeq(s, k + 1, Len(s)) \in Seq(T)
           /\ Len(SubSeq(s, k + 1, Len(s))) = Len(s) - k
           /\ \A i \in 1 .. Len(s) - k : SubSeq(s, k + 1, Len(s))[i] = s[k + i]
<1>1. Len(s) \in Nat /\ k \in Nat /\ k <= Len(s) /\ DOMAIN s = 1 .. Len(s)
  OBVIOUS
<1>2. k + 1 \in 1 .. Len(s) + 1 /\ Len(s) \in k + 1 - 1 .. Len(s)
  BY <1>1
<1>3. /\ SubSeq(s, k + 1, Len(s)) \in Seq(T)
      /\ Len(SubSeq(s, k + 1, Len(s))) = IF k + 1 <= Len(s) THEN Len(s) - (k + 1) + 1 ELSE 0
      /\ \A i \in 1 .. Len(s) - (k + 1) + 1 : SubSeq(s, k + 1, Len(s))[i] = s[k + 1 + i - 1]
  BY <1>1, <1>2, SubSeqProperties
<1>4. PICK u \in Seq(T) : u = SubSeq(s, k + 1, Len(s))
  BY <1>3
<1>5. Len(u) = Len(s) - k
  <2>1. Len(u) = IF k + 1 <= Len(s) THEN Len(s) - (k + 1) + 1 ELSE 0
    BY <1>3, <1>4
  <2>2. PICK n \in Nat : n = Len(s)
    BY <1>1
  <2>3. CASE k + 1 <= Len(s)
    <3>1. Len(u) = Len(s) - (k + 1) + 1
      BY <2>1, <2>3
    <3> QED BY <1>1, <2>2, <3>1
  <2>4. CASE ~(k + 1 <= Len(s))
    <3>1. Len(u) = 0
      BY <2>1, <2>4
    <3>2. k \in Nat /\ k <= n /\ ~(k + 1 <= n)
      BY <1>1, <2>2, <2>4
    <3>3. \A a, b \in Nat : a <= b /\ ~(a + 1 <= b) => a = b
      OBVIOUS
    <3>4. k = n
      BY <3>2, <3>3
    <3> QED BY <2>2, <3>1, <3>4
  <2> QED BY <2>3, <2>4
<1>6. ASSUME NEW i \in 1 .. Len(s) - k PROVE u[i] = s[k + i]
  <2>1. i \in 1 .. Len(s) - (k + 1) + 1 /\ k + 1 + i - 1 = k + i
    BY <1>1
  <2> QED BY <1>3, <1>4, <2>1
<1> QED BY <1>4, <1>5, <1>6

(* A file cut behind the end of a line is read in two parts.               *)
LEMMA LinesBehind ==
    ASSUME NEW F \in Seq(Piece), NEW m \in 0 .. Len(F), m = 0 \/ F[m].part = "rest",
           NEW X \in Seq(Piece), X = SubSeq(F, 1, m),
           NEW Y \in Seq(Piece), Y = SubSeq(F, m + 1, Len(F))
    PROVE  /\ Readable(F) = Readable(X) \o Readable(Y)
           /\ Cardinality(Ends(F)) = Cardinality(Ends(X)) + Cardinality(Ends(Y))
           /\ HeldBack(F) = HeldBack(Y)
<1>1. /\ Len(F) \in Nat /\ m \in Nat
      /\ Len(X) = m /\ \A i \in 1 .. m : X[i] = F[i]
      /\ Len(Y) = Len(F) - m /\ \A i \in 1 .. Len(F) - m : Y[i] = F[m + i]
  OBVIOUS
<1>2. Ends(F) = Ends(X) \cup Shift(m, Ends(Y))
  <2>1. ASSUME NEW i \in Ends(F) PROVE i \in Ends(X) \cup Shift(m, Ends(Y))
    <3>1. i \in 1 .. Len(F) /\ F[i].part = "rest"
      BY DEF Ends
    <3>2. CASE i <= m
      BY <1>1, <3>1, <3>2 DEF Ends
    <3>3. CASE ~(i <= m)
      <4>1. PICK k \in 1 .. Len(F) - m : i = m + k
        <5>1. i - m \in 1 .. Len(F) - m /\ i = m + (i - m)
          BY <1>1, <3>1, <3>3
        <5> QED BY <5>1
      <4>2. k \in DOMAIN Y /\ Y[k] = F[i]
        BY <1>1, <4>1
      <4>3. k \in Ends(Y)
        BY <3>1, <4>2 DEF Ends
      <4> QED BY <4>1, <4>3 DEF Shift
    <3> QED BY <3>2, <3>3
  <2>2. ASSUME NEW i \in Ends(X) PROVE i \in Ends(F)
    BY <1>1 DEF Ends
  <2>3. ASSUME NEW i \in Ends(Y) PROVE m + i \in Ends(F)
    <3>1. i \in 1 .. Len(Y) /\ Y[i].part = "rest"
      BY DEF Ends
    <3>2. m + i \in 1 .. Len(F) /\ Y[i] = F[m + i] /\ DOMAIN F = 1 .. Len(F)
      BY <1>1, <3>1
    <3> QED BY <3>1, <3>2 DEF Ends
  <2> QED BY <2>1, <2>2, <2>3 DEF Shift
<1>3. ASSUME NEW i \in Ends(X) PROVE Whole(F, i) <=> Whole(X, i)
  <2>1. i \in 1 .. m
    BY <1>1, ReadableFacts
  <2> QED BY <1>1, <2>1 DEF Whole
<1>4. ASSUME NEW i \in Ends(Y) PROVE Whole(F, m + i) <=> Whole(Y, i)
  <2>1. i \in 1 .. Len(F) - m /\ m + i \in 1 .. Len(F)
    <3>1. i \in 1 .. Len(Y)
      BY ReadableFacts
    <3> QED BY <1>1, <3>1
  <2>2. Y[i] = F[m + i]
    BY <1>1, <2>1
  <2>3. i > 1 => Y[i - 1] = F[(m + i) - 1]
    <3>1. i > 1 => i - 1 \in 1 .. Len(F) - m /\ m + (i - 1) = (m + i) - 1
      BY <1>1, <2>1
    <3> QED BY <1>1, <3>1
  <2>4. i > 2 => Y[i - 2] = F[(m + i) - 2]
    <3>1. i > 2 => i - 2 \in 1 .. Len(F) - m /\ m + (i - 2) = (m + i) - 2
      BY <1>1, <2>1
    <3> QED BY <1>1, <3>1
  <2>5. m > 0 /\ i = 1 => F[(m + i) - 1].part = "rest"
    <3>1. i = 1 => (m + i) - 1 = m
      BY <1>1
    <3> QED BY <1>1, <3>1
  <2>6. m > 0 /\ i = 2 => F[(m + i) - 2].part = "rest"
    <3>1. i = 2 => (m + i) - 2 = m
      BY <1>1
    <3> QED BY <1>1, <3>1
  <2>7. m \in Nat /\ i \in Nat \ {0} /\ m + i \in Nat
    BY <1>1, <2>1
  <2>8. Behind(F, m + i, Y, i, m)
    BY <2>2, <2>3, <2>4, <2>5, <2>6, <2>7 DEF Behind
  <2> QED BY <2>8, WholeBehind
<1>5. WholeEnds(F) = WholeEnds(X) \cup Shift(m, WholeEnds(Y))
  BY <1>2, <1>3, <1>4 DEF WholeEnds, Shift
<1>6. /\ Ends(X) \in SUBSET (0 .. m) /\ WholeEnds(X) \in SUBSET (0 .. m)
      /\ Ends(Y) \in SUBSET (Nat \ {0}) /\ WholeEnds(Y) \in SUBSET (Nat \ {0})
      /\ IsFiniteSet(Ends(Y)) /\ IsFiniteSet(WholeEnds(Y))
  <2>1. Ends(X) \in SUBSET (1 .. m) /\ WholeEnds(X) \in SUBSET Ends(X)
    BY <1>1, ReadableFacts
  <2>2. Ends(Y) \in SUBSET (1 .. Len(Y)) /\ WholeEnds(Y) \in SUBSET Ends(Y)
        /\ IsFiniteSet(Ends(Y)) /\ IsFiniteSet(WholeEnds(Y))
    BY ReadableFacts
  <2>3. 1 .. m \in SUBSET (0 .. m) /\ 1 .. Len(Y) \in SUBSET (Nat \ {0})
    BY <1>1
  <2> QED BY <2>1, <2>2, <2>3
<1>7. Cardinality(Ends(F)) = Cardinality(Ends(X)) + Cardinality(Ends(Y))
  <2>1. InTwo(m, Ends(X), Ends(Y), Ends(F))
    BY <1>1, <1>2, <1>6 DEF InTwo
  <2> QED BY <2>1, RanksBehind
<1>8. Readable(F) = Readable(X) \o Readable(Y)
  <2>0. PICK W, A, B : W = WholeEnds(F) /\ A = WholeEnds(X) /\ B = WholeEnds(Y)
    OBVIOUS
  <2>1. /\ Cardinality(A) \in Nat /\ Cardinality(B) \in Nat
        /\ Cardinality(W) = Cardinality(A) + Cardinality(B)
        /\ \A n \in 1 .. Cardinality(A) : Nth(W, n) = Nth(A, n)
        /\ \A n \in 1 .. Cardinality(B) : Nth(W, Cardinality(A) + n) = m + Nth(B, n)
    <3>1. InTwo(m, A, B, W)
      BY <1>1, <1>5, <1>6, <2>0 DEF InTwo
    <3> QED BY <3>1, RanksBehind
  <2>2. /\ Readable(F) \in Seq(Records) /\ Len(Readable(F)) = Cardinality(W)
        /\ \A n \in 1 .. Cardinality(W) : Readable(F)[n] = F[Nth(W, n)].record
    BY <2>0, ReadableFacts
  <2>3. /\ Readable(X) \in Seq(Records) /\ Len(Readable(X)) = Cardinality(A)
        /\ \A n \in 1 .. Cardinality(A) : Readable(X)[n] = F[Nth(A, n)].record
    <3>1. \A n \in 1 .. Cardinality(A) : Nth(A, n) \in 1 .. m
      <4>1. A \in SUBSET (1 .. m) /\ IsFiniteSet(A) /\ A \in SUBSET Nat
        BY <1>1, <2>0, ReadableFacts
      <4> QED BY <4>1, NthFacts
    <3> QED BY <1>1, <2>0, <3>1, ReadableFacts
  <2>4. /\ Readable(Y) \in Seq(Records) /\ Len(Readable(Y)) = Cardinality(B)
        /\ \A n \in 1 .. Cardinality(B) : Readable(Y)[n] = F[m + Nth(B, n)].record
    <3>1. \A n \in 1 .. Cardinality(B) : Nth(B, n) \in 1 .. Len(F) - m
      <4>1. B \in SUBSET (1 .. Len(F) - m) /\ IsFiniteSet(B) /\ B \in SUBSET Nat
        BY <1>1, <2>0, ReadableFacts
      <4> QED BY <4>1, NthFacts
    <3> QED BY <1>1, <2>0, <3>1, ReadableFacts
  <2>5. ASSUME NEW n \in 1 .. Cardinality(A) PROVE Readable(F)[n] = Readable(X)[n]
    <3>1. n \in 1 .. Cardinality(W)
      BY <2>1
    <3> QED BY <2>1, <2>2, <2>3, <3>1
  <2>6. ASSUME NEW n \in 1 .. Cardinality(B)
        PROVE  Readable(F)[Cardinality(A) + n] = Readable(Y)[n]
    <3>1. Cardinality(A) + n \in 1 .. Cardinality(W)
      BY <2>1
    <3> QED BY <2>1, <2>2, <2>4, <3>1
  <2>7. /\ Readable(F) \in Seq(Records) /\ Readable(X) \in Seq(Records)
        /\ Readable(Y) \in Seq(Records)
        /\ Len(Readable(F)) = Len(Readable(X)) + Len(Readable(Y))
        /\ \A n \in 1 .. Len(Readable(X)) : Readable(F)[n] = Readable(X)[n]
        /\ \A n \in 1 .. Len(Readable(Y)) : Readable(F)[Len(Readable(X)) + n] = Readable(Y)[n]
    BY <2>1, <2>2, <2>3, <2>4, <2>5, <2>6, Zenon
  <2> QED BY <2>7, IsConcatenation
<1>9. HeldBack(F) = HeldBack(Y)
  <2> DEFINE EF == Ends(F) \cup {0}  EY == Ends(Y) \cup {0}
  <2>1. /\ EF \in SUBSET Nat /\ IsFiniteSet(EF) /\ EF # {}
        /\ EY \in SUBSET (0 .. Len(Y)) /\ EY \in SUBSET Nat /\ IsFiniteSet(EY) /\ EY # {}
    <3>1. /\ Ends(F) \in SUBSET (1 .. Len(F)) /\ IsFiniteSet(Ends(F))
          /\ Ends(Y) \in SUBSET (1 .. Len(Y)) /\ IsFiniteSet(Ends(Y))
      BY ReadableFacts
    <3>2. 1 .. Len(F) \in SUBSET Nat /\ 1 .. Len(Y) \in SUBSET Nat /\ 0 \in 0 .. Len(Y)
          /\ 1 .. Len(Y) \in SUBSET (0 .. Len(Y))
      BY <1>1
    <3> QED BY <3>1, <3>2, FS_AddElement
  <2>2. Max(EF) \in EF /\ (\A j \in EF : j <= Max(EF)) /\ Max(EY) \in EY
        /\ \A j \in EY : j <= Max(EY)
    BY <2>1, FirstAndLast
  <2>3. m + Max(EY) \in EF
    <3>1. CASE Max(EY) = 0
      <4>1. m = 0 \/ m \in Ends(F)
        BY <1>1 DEF Ends
      <4> QED BY <1>1, <3>1, <4>1
    <3>2. CASE Max(EY) \in Ends(Y)
      BY <1>2, <3>2 DEF Shift
    <3> QED BY <2>2, <3>1, <3>2
  <2>4. ASSUME NEW j \in EF PROVE j <= m + Max(EY)
    <3>1. Max(EY) \in Nat /\ j \in Nat
      BY <2>1, <2>2
    <3>2. CASE j = 0 \/ j \in Ends(X)
      <4>1. j <= m
        BY <1>1, <1>6, <3>2
      <4> QED BY <1>1, <3>1, <4>1
    <3>3. CASE j \in Shift(m, Ends(Y))
      <4>1. PICK i \in Ends(Y) : j = m + i
        BY <3>3 DEF Shift
      <4>2. i <= Max(EY) /\ i \in Nat
        BY <2>1, <2>2
      <4> QED BY <1>1, <3>1, <4>1, <4>2
    <3> QED BY <1>2, <3>2, <3>3
  <2>5. Max(EF) = m + Max(EY) /\ Max(EY) \in 0 .. Len(Y)
    <3>1. Max(EF) <= m + Max(EY) /\ m + Max(EY) <= Max(EF)
      BY <2>2, <2>3, <2>4
    <3>2. Max(EF) \in Nat /\ Max(EY) \in Nat /\ Max(EY) \in 0 .. Len(Y)
      BY <2>1, <2>2
    <3>3. \A a, b \in Nat : a <= b /\ b <= a => a = b
      OBVIOUS
    <3>4. m + Max(EY) \in Nat
      BY <1>1, <3>2
    <3> HIDE DEF EF, EY
    <3> QED BY <3>1, <3>2, <3>3, <3>4
  <2>6. PICK k \in 0 .. Len(Y) : k = Max(EY) /\ m + k = Max(EF)
    BY <2>5
  <2>7. HeldBack(F) = SubSeq(F, m + k + 1, Len(F)) /\ HeldBack(Y) = SubSeq(Y, k + 1, Len(Y))
    BY <2>6 DEF HeldBack
  <2>8. SubSeq(F, m + k + 1, Len(F)) = SubSeq(Y, k + 1, Len(Y))
    <3> DEFINE U == SubSeq(F, m + k + 1, Len(F))  V == SubSeq(Y, k + 1, Len(Y))
    <3>0. m + k \in 0 .. Len(F) /\ Len(Y) - k = Len(F) - (m + k)
      BY <1>1
    <3>1. U \in Seq(Piece) /\ Len(U) = Len(F) - (m + k)
          /\ \A i \in 1 .. Len(F) - (m + k) : U[i] = F[m + k + i]
      BY <3>0, RearPart
    <3>2. V \in Seq(Piece) /\ Len(V) = Len(F) - (m + k)
          /\ \A i \in 1 .. Len(F) - (m + k) : V[i] = Y[k + i]
      <4>1. V \in Seq(Piece) /\ Len(V) = Len(Y) - k /\ \A i \in 1 .. Len(Y) - k : V[i] = Y[k + i]
        BY RearPart
      <4> QED BY <3>0, <4>1
    <3>3. ASSUME NEW i \in 1 .. Len(F) - (m + k) PROVE Y[k + i] = F[m + k + i]
      <4>1. k + i \in 1 .. Len(F) - m /\ m + (k + i) = m + k + i
        BY <1>1
      <4> QED BY <1>1, <4>1
    <3> HIDE DEF U, V
    <3>4. Len(U) = Len(V) /\ \A i \in 1 .. Len(U) : U[i] = V[i]
      BY <3>1, <3>2, <3>3
    <3>5. U \in Seq(Piece) /\ V \in Seq(Piece)
      BY <3>1, <3>2
    <3>6. U = V
      BY <3>4, <3>5, SeqEqual
    <3> QED BY <3>6 DEF U, V
  <2> QED BY <2>7, <2>8
<1> QED BY <1>7, <1>8, <1>9

(* Both parts of a sequence cut in two.                                    *)
LEMMA Parts ==
    ASSUME NEW T, NEW s \in Seq(T), NEW m \in 0 .. Len(s)
    PROVE  SubSeq(s, 1, m) \in Seq(T) /\ SubSeq(s, m + 1, Len(s)) \in Seq(T)
<1>1. Len(s) \in Nat /\ m \in Nat /\ m <= Len(s)
  OBVIOUS
<1>2. SubSeq(s, 1, m) \in Seq(T)
  BY <1>1
<1>3. SubSeq(s, m + 1, Len(s)) \in Seq(T)
  BY <1>1
<1> QED BY <1>2, <1>3

(* What is held back is behind the last line end, and holds no line.       *)
LEMMA HeldBackFacts ==
    ASSUME NEW R \in Seq(Piece)
    PROVE  \E m \in 0 .. Len(R) :
               /\ m = 0 \/ R[m].part = "rest"
               /\ HeldBack(R) = SubSeq(R, m + 1, Len(R))
               /\ Readable(SubSeq(R, 1, m)) = Readable(R)
               /\ Cardinality(Ends(SubSeq(R, 1, m))) = Cardinality(Ends(R))
<1> DEFINE E == Ends(R) \cup {0}
<1>1. E \in SUBSET (0 .. Len(R)) /\ E \in SUBSET Nat /\ IsFiniteSet(E) /\ E # {}
  <2>1. Ends(R) \in SUBSET (1 .. Len(R)) /\ IsFiniteSet(Ends(R)) /\ Len(R) \in Nat
    BY ReadableFacts
  <2>2. 1 .. Len(R) \in SUBSET (0 .. Len(R)) /\ 0 \in 0 .. Len(R) /\ 0 .. Len(R) \in SUBSET Nat
    BY <2>1
  <2> QED BY <2>1, <2>2, FS_AddElement
<1>2. PICK m \in E : m = Max(E) /\ \A j \in E : j <= m
  <2> HIDE DEF E
  <2> QED BY <1>1, FirstAndLast
<1>3. m \in 0 .. Len(R) /\ m \in Nat /\ (m = 0 \/ R[m].part = "rest")
  <2>1. m = 0 \/ m \in Ends(R)
    OBVIOUS
  <2> QED BY <1>1, <2>1 DEF Ends
<1>4. HeldBack(R) = SubSeq(R, m + 1, Len(R))
  BY <1>2 DEF HeldBack
<1>5. PICK X \in Seq(Piece), Y \in Seq(Piece) :
          X = SubSeq(R, 1, m) /\ Y = SubSeq(R, m + 1, Len(R))
  BY <1>3, Parts, Zenon
<1>6. Ends(Y) = {}
  <2> SUFFICES ASSUME NEW i \in Ends(Y) PROVE FALSE
    OBVIOUS
  <2>1. i \in 1 .. Len(R) - m /\ Y[i] = R[m + i] /\ Y[i].part = "rest"
    BY <1>3, <1>5 DEF Ends
  <2>2. m + i \in Ends(R) /\ ~(m + i <= m)
    BY <1>3, <2>1 DEF Ends
  <2> QED BY <1>2, <2>2
<1>7. Cardinality(Ends(Y)) = 0 /\ Readable(Y) = <<>>
  <2>1. Cardinality(Ends(Y)) = 0
    BY <1>6, FS_EmptySet
  <2>2. Readable(Y) \in Seq(Records) /\ Len(Readable(Y)) = Cardinality(WholeEnds(Y))
        /\ WholeEnds(Y) \in SUBSET Ends(Y)
    BY ReadableFacts
  <2>3. WholeEnds(Y) = {}
    BY <1>6, <2>2
  <2>4. Len(Readable(Y)) = 0
    BY <2>2, <2>3, FS_EmptySet
  <2> QED BY <2>1, <2>2, <2>4
<1>8. Readable(R) = Readable(X) \o Readable(Y)
      /\ Cardinality(Ends(R)) = Cardinality(Ends(X)) + Cardinality(Ends(Y))
  BY <1>3, <1>5, LinesBehind
<1>9. Readable(X) = Readable(R)
  <2>1. Readable(X) \in Seq(Records)
    BY ReadableFacts
  <2> QED BY <1>7, <1>8, <2>1
<1>10. Cardinality(Ends(X)) = Cardinality(Ends(R))
  <2>1. Cardinality(Ends(X)) \in Nat
    BY ReadableFacts
  <2> QED BY <1>7, <1>8, <2>1
<1> QED BY <1>3, <1>4, <1>5, <1>9, <1>10

(* What poll reads, behind what it held back, is the rest of the lines.    *)
Polled(F, o, R, P) ==
    /\ F \in Seq(Piece) /\ o \in 0 .. Len(F) /\ R = SubSeq(F, 1, o)
    /\ P = HeldBack(R) \o SubSeq(F, o + 1, Len(F))

(* Tail::poll: the pieces it holds back and the pieces it reads give the   *)
(* records that the file has behind the ones read before.                  *)
LEMMA PollReadsTheRest ==
    ASSUME NEW F, NEW o, NEW R, NEW P, Polled(F, o, R, P)
    PROVE  /\ R \in Seq(Piece) /\ P \in Seq(Piece)
           /\ Readable(F) = Readable(R) \o Readable(P)
           /\ Cardinality(Ends(F)) = Cardinality(Ends(R)) + Cardinality(Ends(P))
           /\ HeldBack(F) = HeldBack(P)
<1> USE DEF Polled
<1>1. /\ Len(F) \in Nat /\ o \in Nat /\ R \in Seq(Piece)
      /\ Len(R) = o /\ \A i \in 1 .. o : R[i] = F[i]
  OBVIOUS
<1>2. PICK m \in 0 .. Len(R) :
          /\ m = 0 \/ R[m].part = "rest"
          /\ HeldBack(R) = SubSeq(R, m + 1, Len(R))
          /\ Readable(SubSeq(R, 1, m)) = Readable(R)
          /\ Cardinality(Ends(SubSeq(R, 1, m))) = Cardinality(Ends(R))
  BY <1>1, HeldBackFacts
<1>3. m \in Nat /\ m \in 0 .. Len(F) /\ (m = 0 \/ F[m].part = "rest")
  BY <1>1, <1>2
<1>4. PICK X \in Seq(Piece), Y \in Seq(Piece) :
          X = SubSeq(F, 1, m) /\ Y = SubSeq(F, m + 1, Len(F))
  BY <1>3, Parts, Zenon
<1>5. X = SubSeq(R, 1, m)
  <2>1. SubSeq(R, 1, m) \in Seq(Piece) /\ Len(SubSeq(R, 1, m)) = m
        /\ \A i \in 1 .. m : SubSeq(R, 1, m)[i] = R[i]
    BY <1>1, <1>2, <1>3
  <2>2. Len(X) = m /\ \A i \in 1 .. m : X[i] = F[i]
    BY <1>3, <1>4
  <2>3. \A i \in 1 .. m : F[i] = R[i]
    BY <1>1, <1>2, <1>3
  <2> QED BY <2>1, <2>2, <2>3
<1>6. Y = P
  <2>1. PICK H \in Seq(Piece), T \in Seq(Piece) :
            H = SubSeq(R, m + 1, Len(R)) /\ T = SubSeq(F, o + 1, Len(F))
    <3>1. SubSeq(R, m + 1, Len(R)) \in Seq(Piece)
      BY <1>1, Parts
    <3>2. SubSeq(F, o + 1, Len(F)) \in Seq(Piece)
      BY Parts
    <3> QED BY <3>1, <3>2
  <2>2. Len(H) = o - m /\ \A i \in 1 .. o - m : H[i] = F[m + i]
    <3>1. Len(H) = o - m /\ \A i \in 1 .. o - m : H[i] = R[m + i]
      BY <1>1, <1>2, <1>3, <2>1
    <3>2. \A i \in 1 .. o - m : m + i \in 1 .. o
      BY <1>1, <1>2, <1>3
    <3> QED BY <1>1, <3>1, <3>2
  <2>3. Len(T) = Len(F) - o /\ \A i \in 1 .. Len(F) - o : T[i] = F[o + i]
    BY <1>1, <2>1
  <2>4. Len(Y) = Len(F) - m /\ \A i \in 1 .. Len(F) - m : Y[i] = F[m + i]
    BY <1>3, <1>4, RearPart
  <2>5. Len(Y) = Len(H) + Len(T) /\ o - m \in Nat
    BY <1>1, <1>2, <1>3, <2>2, <2>3, <2>4
  <2>6. \A n \in 1 .. Len(H) : Y[n] = H[n]
    <3>1. \A n \in 1 .. o - m : n \in 1 .. Len(F) - m
      BY <1>1, <1>2, <1>3
    <3> QED BY <2>2, <2>4, <3>1
  <2>7. ASSUME NEW n \in 1 .. Len(T) PROVE Y[Len(H) + n] = T[n]
    <3>1. n \in 1 .. Len(F) - o /\ (o - m) + n \in 1 .. Len(F) - m /\ m + ((o - m) + n) = o + n
      BY <1>1, <1>2, <1>3, <2>3
    <3>2. Y[(o - m) + n] = F[m + ((o - m) + n)]
      BY <2>4, <3>1
    <3> QED BY <2>2, <2>3, <3>1, <3>2
  <2>8. Y = H \o T
    BY <2>5, <2>6, <2>7, IsConcatenation
  <2> QED BY <1>2, <2>1, <2>8
<1>7. /\ Readable(F) = Readable(X) \o Readable(Y) /\ HeldBack(F) = HeldBack(Y)
      /\ Cardinality(Ends(F)) = Cardinality(Ends(X)) + Cardinality(Ends(Y))
  BY <1>3, <1>4, LinesBehind
<1> QED BY <1>1, <1>2, <1>5, <1>6, <1>7

-----------------------------------------------------------------------------
(* What is shown.                                                          *)

AppOK(a) ==
    /\ a = [records |-> a.records, view |-> a.view, selected |-> a.selected,
            selected_id |-> a.selected_id, needle |-> a.needle,
            editing_filter |-> a.editing_filter, errors_only |-> a.errors_only,
            user_selected |-> a.user_selected, principal |-> a.principal, quit |-> a.quit]
    /\ a.records \in Seq(Records)
    /\ a.view \in Views /\ a.needle \in 0 .. MaxNeedle
    /\ a.selected \in Nat \ {0} /\ a.user_selected \in Nat \ {0}
    /\ a.editing_filter \in BOOLEAN /\ a.errors_only \in BOOLEAN /\ a.quit \in BOOLEAN

Follows(a) ==
    a.selected_id \in ToSet(Visible(a)) => Visible(a)[a.selected] = a.selected_id
UserRowOK(a) == a.user_selected \in 1 .. LastRow(ByPrincipal(a.records))
AppInv(a) ==
    /\ AppOK(a)
    /\ a.selected \in 1 .. LastRow(Visible(a))
    /\ UserRowOK(a)
    /\ Follows(a)

(* The smaller and the larger of two numbers.                              *)
LEMMA MinMax ==
    ASSUME NEW i \in Nat, NEW j \in Nat
    PROVE  /\ Min({i, j}) = IF i <= j THEN i ELSE j
           /\ Max({i, j}) = IF i <= j THEN j ELSE i
<1>1. \A x \in {i, j} : (\A y \in {i, j} : x <= y) => x = IF i <= j THEN i ELSE j
  OBVIOUS
<1>2. \A x \in {i, j} : (\A y \in {i, j} : x >= y) => x = IF i <= j THEN j ELSE i
  OBVIOUS
<1>3. \E x \in {i, j} : \A y \in {i, j} : x <= y
  OBVIOUS
<1>4. \E x \in {i, j} : \A y \in {i, j} : x >= y
  OBVIOUS
<1> QED BY <1>1, <1>2, <1>3, <1>4 DEF Min, Max

(* The rows of the request list are records; there is always a last row to *)
(* clamp to.                                                               *)
LEMMA VisibleFacts ==
    ASSUME NEW a, a.records \in Seq(Records)
    PROVE  /\ Visible(a) \in Seq(Records) /\ LastRow(Visible(a)) \in Nat \ {0}
           /\ ToSet(Visible(a)) \in SUBSET Records
           /\ Visible(a) # <<>> => DOMAIN Visible(a) = 1 .. LastRow(Visible(a))
<1>1. Shown(a) \in SUBSET (DOMAIN a.records)
  BY DEF Shown
<1>2. PICK s \in Seq(Records) : s = At(a.records, Shown(a))
  BY <1>1, AtFacts
<1>3. Visible(a) = [i \in 1 .. Len(s) |-> s[(Len(s) - i) + 1]]
  BY <1>2 DEF Visible, Reverse
<1>4. \A i \in 1 .. Len(s) : s[(Len(s) - i) + 1] \in Records
  <2>1. \A i \in 1 .. Len(s) : (Len(s) - i) + 1 \in 1 .. Len(s)
    OBVIOUS
  <2> QED BY <2>1
<1>5. Visible(a) \in Seq(Records)
  <2>1. Visible(a) \in [1 .. Len(s) -> Records]
    BY <1>3, <1>4
  <2> QED BY <2>1
<1>6. ToSet(Visible(a)) \in SUBSET Records
  BY <1>5 DEF ToSet
<1>7. Visible(a) # <<>> => Len(Visible(a)) \in Nat \ {0} /\ DOMAIN Visible(a) = 1 .. Len(Visible(a))
  BY <1>5
<1> QED BY <1>5, <1>6, <1>7 DEF LastRow

(* What is visible is a matter of the records and of the filters.          *)
LEMMA VisibleSame ==
    ASSUME NEW a, NEW b, b.records = a.records, b.needle = a.needle,
           b.errors_only = a.errors_only, b.principal = a.principal
    PROVE  Visible(b) = Visible(a)
<1>1. Shown(b) = Shown(a)
  BY DEF Shown, Filter
<1> QED BY <1>1 DEF Visible

(* So it is for the list of principals.                                    *)
LEMMA UserRows ==
    ASSUME NEW records \in Seq(Records)
    PROVE  LastRow(ByPrincipal(records)) \in Nat \ {0}
<1>1. IsFiniteSet(Principals(records))
  <2> DEFINE f == [i \in DOMAIN records |-> PrincipalBucket(records, records[i])]
  <2>1. IsFiniteSet(DOMAIN records)
    <3>1. DOMAIN records = 1 .. Len(records) /\ Len(records) \in Nat
      OBVIOUS
    <3>2. IsFiniteSet(1 .. Len(records))
      BY <3>1, FS_Interval
    <3> QED BY <3>1, <3>2
  <2>2. f \in Surjection(DOMAIN records, Principals(records))
    <3>1. \A p \in Principals(records) : \E i \in DOMAIN records : f[i] = p
      BY DEF Principals, ToSet
    <3>2. f \in [DOMAIN records -> Principals(records)]
      BY DEF Principals, ToSet
    <3> HIDE DEF f
    <3> QED BY <3>1, <3>2 DEF Surjection
  <2> HIDE DEF f
  <2> QED BY <2>1, <2>2, FS_Surjection
<1>2. PICK c \in Nat : c = Cardinality(Principals(records))
  BY <1>1, FS_CardinalityType
<1>3. DOMAIN ByPrincipal(records) = 1 .. c
  BY <1>2 DEF ByPrincipal
<1>4. ByPrincipal(records) \in Seq({ByPrincipal(records)[n] : n \in 1 .. c})
      /\ Len(ByPrincipal(records)) = c
  <2> DEFINE all == Principals(records)
             e(n) == CHOOSE p \in all : Cardinality({q \in all : Before(records, q, p)}) = n - 1
             f == [n \in 1 .. c |-> e(n)]
  <2>1. ByPrincipal(records) = f
    BY <1>2 DEF ByPrincipal
  <2>2. f = [n \in 1 .. c |-> f[n]]
    <3> HIDE DEF e
    <3> QED OBVIOUS
  <2> HIDE DEF f
  <2> HIDE DEF ByPrincipal
  <2> QED BY <1>2, <1>3, <2>1, <2>2
<1>5. ByPrincipal(records) # <<>> => c # 0
  <2> HIDE DEF ByPrincipal
  <2> QED BY <1>4
<1> QED BY <1>2, <1>4, <1>5 DEF LastRow

(* App::select leaves the selection on a row that is shown, and remembers  *)
(* the request it shows.                                                   *)
LEMMA SelectFacts ==
    ASSUME NEW a, AppOK(a), UserRowOK(a), NEW index \in Nat \ {0}
    PROVE  AppInv(Select(a, index)) /\ Select(a, index).records = a.records
<1>1. PICK v \in Seq(Records) : v = Visible(a) /\ LastRow(v) \in Nat \ {0}
          /\ (v # <<>> => DOMAIN v = 1 .. LastRow(v)) /\ ToSet(v) \in SUBSET Records
  BY VisibleFacts DEF AppOK
<1>2. PICK at \in 1 .. LastRow(v) : at = Min({index, LastRow(v)})
  BY <1>1, MinMax
<1>3. PICK id : id = IF v = <<>> THEN NoId ELSE v[at]
  OBVIOUS
<1>4. PICK b : b = Select(a, index)
  OBVIOUS
<1>5. b = [a EXCEPT !.selected = at, !.selected_id = id]
  BY <1>1, <1>2, <1>3, <1>4 DEF Select
<1>6. /\ AppOK(b) /\ b.records = a.records /\ b.needle = a.needle
      /\ b.errors_only = a.errors_only /\ b.principal = a.principal
      /\ b.user_selected = a.user_selected /\ b.selected = at /\ b.selected_id = id
  <2>1. at \in Nat \ {0}
    BY <1>1, <1>2
  <2> QED BY <1>5, <2>1 DEF AppOK
<1>7. Visible(b) = v
  BY <1>1, <1>6, VisibleSame
<1>8. Follows(b)
  <2>1. CASE v = <<>>
    <3>1. ToSet(v) = {}
      BY <2>1 DEF ToSet
    <3> QED BY <1>7, <3>1 DEF Follows
  <2>2. CASE v # <<>>
    BY <1>3, <1>6, <1>7, <2>2 DEF Follows
  <2> QED BY <2>1, <2>2
<1>9. UserRowOK(b)
  BY <1>6 DEF UserRowOK
<1> QED BY <1>2, <1>4, <1>6, <1>7, <1>8, <1>9 DEF AppInv

(* App::resolve_selection: the row that shows the remembered request, or   *)
(* the first one when none does.                                           *)
LEMMA ResolveFacts ==
    ASSUME NEW a, AppOK(a), UserRowOK(a)
    PROVE  AppInv(ResolveSelection(a)) /\ ResolveSelection(a).records = a.records
<1>1. PICK v \in Seq(Records) : v = Visible(a) /\ LastRow(v) \in Nat \ {0}
          /\ (v # <<>> => DOMAIN v = 1 .. LastRow(v)) /\ ToSet(v) \in SUBSET Records
  BY VisibleFacts DEF AppOK
<1>2. PICK at : at = IF a.selected_id = NoId \/ Position(v, a.selected_id) = 0
                     THEN 1 ELSE Position(v, a.selected_id)
  OBVIOUS
<1>3. at \in 1 .. LastRow(v) /\ (a.selected_id \in ToSet(v) => v[at] = a.selected_id)
  <2>1. CASE a.selected_id \notin ToSet(v)
    <3>1. at = 1
      BY <1>2, <2>1 DEF Position
    <3> QED BY <1>1, <2>1, <3>1
  <2>2. CASE a.selected_id \in ToSet(v)
    <3> DEFINE P == {i \in DOMAIN v : v[i] = a.selected_id}
    <3>1. v # <<>> /\ P # {} /\ P \in SUBSET (1 .. LastRow(v))
      <4>1. \E i \in DOMAIN v : v[i] = a.selected_id
        BY <2>2 DEF ToSet
      <4>2. v # <<>>
        BY <4>1
      <4> QED BY <1>1, <4>1, <4>2
    <3>2. P \in SUBSET Nat /\ IsFiniteSet(P)
      <4>1. IsFiniteSet(1 .. LastRow(v)) /\ 1 .. LastRow(v) \in SUBSET Nat
        BY <1>1, FS_Interval
      <4> HIDE DEF P
      <4> QED BY <3>1, <4>1, FS_Subset
    <3>3. Min(P) \in P
      <4> HIDE DEF P
      <4> QED BY <3>1, <3>2, FirstAndLast
    <3>4. Position(v, a.selected_id) = Min(P)
      BY <2>2 DEF Position
    <3>5. Min(P) \in 1 .. LastRow(v) /\ v[Min(P)] = a.selected_id /\ Min(P) # 0
      <4>1. PICK k \in P : k = Min(P)
        BY <3>3
      <4>2. k \in 1 .. LastRow(v) /\ v[k] = a.selected_id
        BY <3>1
      <4> QED BY <1>1, <4>1, <4>2
    <3>6. a.selected_id # NoId
      BY <1>1, <2>2, ExplorerAssumption DEF NoId
    <3> HIDE DEF P
    <3> QED BY <1>2, <3>4, <3>5, <3>6
  <2> QED BY <2>1, <2>2
<1>4. PICK b : b = ResolveSelection(a)
  OBVIOUS
<1>5. b = [a EXCEPT !.selected = at]
  BY <1>1, <1>2, <1>4 DEF ResolveSelection
<1>6. /\ AppOK(b) /\ b.records = a.records /\ b.needle = a.needle
      /\ b.errors_only = a.errors_only /\ b.principal = a.principal
      /\ b.user_selected = a.user_selected /\ b.selected = at /\ b.selected_id = a.selected_id
  <2>1. at \in Nat \ {0}
    BY <1>1, <1>3
  <2> QED BY <1>5, <2>1 DEF AppOK
<1>7. Visible(b) = v
  BY <1>1, <1>6, VisibleSame
<1>8. Follows(b)
  BY <1>3, <1>6, <1>7 DEF Follows
<1>9. UserRowOK(b)
  BY <1>6 DEF UserRowOK
<1> QED BY <1>3, <1>4, <1>6, <1>7, <1>8, <1>9 DEF AppInv

-----------------------------------------------------------------------------
(* The inductive invariant.                                                *)

FileTypes ==
    /\ files \in [Inodes -> Seq(Piece)] /\ path \in Inodes \cup {0}
    /\ writer \in [inode : Inodes, next : Nat, half : BOOLEAN]
TailTypes ==
    /\ tail \in [file : Inodes \cup {0}, offset : Nat, partial : Seq(Piece), malformed : Nat]
    /\ polling \in [on : BOOLEAN, restarted : BOOLEAN]
    /\ unnoticed \in BOOLEAN

ReadSoFar == SubSeq(files[tail.file], 1, tail.offset)

(* What was read, what is held back of it and what is shown of it.  The    *)
(* records of a file that is given up are shown until the read that the    *)
(* restart announces.                                                      *)
TailInv ==
    /\ polling.restarted => polling.on /\ tail.offset = 0
    /\ polling.on => tail.file # 0
    /\ tail.file = 0 => tail.offset = 0 /\ tail.partial = <<>> /\ app.records = <<>>
    /\ tail.file # 0 /\ ~unnoticed =>
           /\ tail.offset <= Len(files[tail.file])
           /\ tail.partial = HeldBack(ReadSoFar)
           /\ ~polling.restarted =>
                  /\ app.records = Readable(ReadSoFar)
                  /\ Len(app.records) + tail.malformed >= Cardinality(Ends(ReadSoFar))

ExplorerInv == FileTypes /\ TailTypes /\ TailInv /\ AppInv(app)

(* Nothing is read from nothing.                                           *)
LEMMA NothingRead ==
    /\ Readable(<<>>) = <<>> /\ HeldBack(<<>>) = <<>> /\ Cardinality(Ends(<<>>)) = 0
    /\ \A F \in Seq(Piece) : SubSeq(F, 1, 0) = <<>>
<1>1. Ends(<<>>) = {} /\ WholeEnds(<<>>) = {}
  BY DEF Ends, WholeEnds
<1>2. <<>> \in Seq(Piece)
  OBVIOUS
<1>3. Cardinality(Ends(<<>>)) = 0 /\ Cardinality(WholeEnds(<<>>)) = 0
  BY <1>1, FS_EmptySet
<1>4. Readable(<<>>) = <<>>
  <2>1. Readable(<<>>) \in Seq(Records) /\ Len(Readable(<<>>)) = 0
    BY <1>2, <1>3, ReadableFacts
  <2> HIDE DEF Readable
  <2> QED BY <2>1
<1>5. HeldBack(<<>>) = <<>>
  <2>1. Max(Ends(<<>>) \cup {0}) = 0
    <3>1. Ends(<<>>) \cup {0} = {0, 0}
      BY <1>1
    <3> QED BY <3>1, MinMax
  <2> QED BY <2>1 DEF HeldBack
<1> QED BY <1>3, <1>4, <1>5

(* An explorer that has not read yet, of any file.                         *)
LEMMA ExplorerInitInv == ExplorerInit => ExplorerInv
<1> SUFFICES ASSUME ExplorerInit PROVE ExplorerInv
  OBVIOUS
<1> USE DEF ExplorerInit
<1>1. FileTypes
  <2>1. 1 \in Inodes
    BY ExplorerAssumption DEF Inodes
  <2> QED BY <2>1 DEF FileTypes
<1>2. TailTypes /\ TailInv
  <2>1. TailTypes
    <3>1. <<>> \in Seq(Piece)
      OBVIOUS
    <3> QED BY <3>1 DEF TailTypes
  <2>2. tail.file = 0 /\ tail.offset = 0 /\ tail.partial = <<>> /\ app.records = <<>>
        /\ ~polling.on /\ ~polling.restarted
    OBVIOUS
  <2> QED BY <2>1, <2>2 DEF TailInv
<1>3. PICK a : a = app
  OBVIOUS
<1>4. AppOK(a) /\ a.records = <<>> /\ a.selected = 1 /\ a.selected_id = 0 /\ a.user_selected = 1
  BY <1>3, ExplorerAssumption DEF AppOK, Views, NoId
<1>5. LastRow(Visible(a)) \in Nat \ {0} /\ ToSet(Visible(a)) \in SUBSET Records
      /\ LastRow(ByPrincipal(a.records)) \in Nat \ {0}
  <2>1. a.records \in Seq(Records)
    BY <1>4
  <2> QED BY <2>1, VisibleFacts, UserRows
<1>6. Follows(a) /\ UserRowOK(a) /\ a.selected \in 1 .. LastRow(Visible(a))
  BY <1>4, <1>5, ExplorerAssumption DEF Follows, UserRowOK
<1>7. AppInv(app)
  BY <1>3, <1>4, <1>6 DEF AppInv
<1> QED BY <1>1, <1>2, <1>7 DEF ExplorerInv

(* Only what follows the read part is appended.                            *)
LEMMA AppendKeepsRead ==
    ASSUME NEW F \in Seq(Piece), NEW P \in Seq(Piece), NEW o \in 0 .. Len(F)
    PROVE  /\ F \o P \in Seq(Piece) /\ o <= Len(F \o P)
           /\ SubSeq(F \o P, 1, o) = SubSeq(F, 1, o)
<1>1. PICK G \in Seq(Piece) : G = F \o P /\ Len(F) \in Nat /\ o \in Nat /\ o <= Len(F)
          /\ Len(F) <= Len(G) /\ \A i \in 1 .. Len(F) : G[i] = F[i]
  <2>1. F \o P \in Seq(Piece) /\ Len(F) \in Nat /\ Len(P) \in Nat /\ o \in Nat /\ o <= Len(F)
    OBVIOUS
  <2>2. Len(F \o P) = Len(F) + Len(P)
    OBVIOUS
  <2>3. Len(F) <= Len(F \o P)
    BY <2>1, <2>2
  <2>4. \A i \in 1 .. Len(F) : (F \o P)[i] = F[i]
    BY <2>1
  <2> QED BY <2>1, <2>3, <2>4
<1>2. SubSeq(G, 1, o) \in Seq(Piece) /\ Len(SubSeq(G, 1, o)) = o
      /\ \A i \in 1 .. o : SubSeq(G, 1, o)[i] = G[i]
  BY <1>1
<1>3. SubSeq(F, 1, o) \in Seq(Piece) /\ Len(SubSeq(F, 1, o)) = o
      /\ \A i \in 1 .. o : SubSeq(F, 1, o)[i] = F[i]
  BY <1>1
<1>4. \A i \in 1 .. o : G[i] = F[i]
  BY <1>1
<1>5. SubSeq(G, 1, o) = SubSeq(F, 1, o)
  BY <1>2, <1>3, <1>4
<1> QED BY <1>1, <1>5

(* The file that is read keeps its read part, while the reader rests.      *)
LEMMA ReadKept ==
    ASSUME TailTypes, TailInv, UNCHANGED <<tail, polling, app>>,
           ~unnoticed' => ~unnoticed,
           tail.file # 0 /\ ~unnoticed' =>
               /\ tail.offset <= Len(files'[tail.file])
               /\ SubSeq(files'[tail.file], 1, tail.offset) = ReadSoFar
    PROVE  TailInv'
<1>1. tail.file # 0 /\ ~unnoticed' => ReadSoFar' = ReadSoFar
  BY DEF ReadSoFar
<1> QED BY <1>1 DEF TailInv

(* The writer appends to a file, possibly the one that is read.            *)
LEMMA WriterKeepsInv ==
    ASSUME ExplorerInv, NEW P \in Seq(Piece), Append1(P),
           writer' \in [inode : Inodes, next : Nat, half : BOOLEAN],
           UNCHANGED <<path, tail, polling, app, unnoticed>>
    PROVE  ExplorerInv'
<1>1. writer.inode \in Inodes /\ files \in [Inodes -> Seq(Piece)]
      /\ tail.file \in Inodes \cup {0} /\ tail.offset \in Nat
  BY DEF ExplorerInv, FileTypes, TailTypes
<1>2. PICK G \in Seq(Piece) : G = files[writer.inode] \o P
  <2>1. files[writer.inode] \in Seq(Piece)
    BY <1>1
  <2>2. files[writer.inode] \o P \in Seq(Piece)
    BY <2>1
  <2> QED BY <2>2
<1>3. files' = [files EXCEPT ![writer.inode] = G]
  BY <1>2 DEF Append1
<1>4. FileTypes'
  BY <1>1, <1>3 DEF ExplorerInv, FileTypes
<1>5. ASSUME tail.file # 0, ~unnoticed
      PROVE  /\ tail.offset <= Len(files'[tail.file])
             /\ SubSeq(files'[tail.file], 1, tail.offset) = ReadSoFar
  <2>1. tail.file \in Inodes /\ tail.offset <= Len(files[tail.file])
    BY <1>1, <1>5 DEF ExplorerInv, TailInv
  <2>2. CASE tail.file = writer.inode
    <3>1. files'[tail.file] = files[tail.file] \o P /\ files[tail.file] \in Seq(Piece)
      BY <1>1, <1>2, <1>3, <2>2
    <3>2. tail.offset \in 0 .. Len(files[tail.file])
      BY <1>1, <2>1, <3>1
    <3> QED BY <3>1, <3>2, AppendKeepsRead DEF ReadSoFar
  <2>3. CASE tail.file # writer.inode
    <3>1. files'[tail.file] = files[tail.file]
      BY <1>1, <1>3, <2>1, <2>3
    <3> QED BY <2>1, <3>1 DEF ReadSoFar
  <2> QED BY <2>2, <2>3
<1>6. TailInv'
  BY <1>5, ReadKept DEF ExplorerInv
<1>7. TailTypes' /\ AppInv(app)'
  BY DEF ExplorerInv, TailTypes
<1> QED BY <1>4, <1>6, <1>7 DEF ExplorerInv

(* Every step of the proxy, and of whoever rotates its file.               *)
LEMMA WorldKeepsInv ==
    ASSUME ExplorerInv, WriteHalf \/ WriteRest \/ Truncate \/ Rename \/ ProxyRestart
    PROVE  ExplorerInv'
<1>1. /\ files \in [Inodes -> Seq(Piece)] /\ path \in Inodes \cup {0}
      /\ writer \in [inode : Inodes, next : Nat, half : BOOLEAN]
      /\ tail.file \in Inodes \cup {0} /\ tail.offset \in Nat
  BY DEF ExplorerInv, FileTypes, TailTypes
<1>2. ASSUME NEW r \in Records
      PROVE  /\ <<Head1(r)>> \in Seq(Piece) /\ <<Rest(r)>> \in Seq(Piece)
             /\ <<Head1(r), Rest(r)>> \in Seq(Piece)
  <2>1. Head1(r) \in Piece /\ Rest(r) \in Piece
    BY DEF Head1, Rest, Piece
  <2> HIDE DEF Head1, Rest, Piece
  <2> QED BY <2>1
<1>3. CASE WriteHalf
  <2>1. <<Head1(writer.next)>> \in Seq(Piece)
    BY <1>2, <1>3 DEF WriteHalf
  <2>2. writer' \in [inode : Inodes, next : Nat, half : BOOLEAN]
    BY <1>1, <1>3 DEF WriteHalf
  <2>3. Append1(<<Head1(writer.next)>>) /\ UNCHANGED <<path, tail, polling, app, unnoticed>>
    BY <1>3 DEF WriteHalf
  <2> QED BY <2>1, <2>2, <2>3, WriterKeepsInv
<1>4. CASE WriteRest
  <2>1. PICK P \in Seq(Piece) : Append1(P)
    BY <1>2, <1>4 DEF WriteRest
  <2>2. writer' \in [inode : Inodes, next : Nat, half : BOOLEAN]
    <3>1. writer.next + 1 \in Nat
      BY <1>1
    <3> QED BY <1>1, <1>4, <3>1 DEF WriteRest
  <2>3. UNCHANGED <<path, tail, polling, app, unnoticed>>
    BY <1>4 DEF WriteRest
  <2> QED BY <2>1, <2>2, <2>3, WriterKeepsInv
<1>5. CASE Truncate
  <2>1. /\ path \in Inodes /\ files' = [files EXCEPT ![path] = <<>>]
        /\ unnoticed' = (unnoticed \/ (tail.file = path /\ tail.offset > 0))
        /\ UNCHANGED <<path, writer, tail, polling, app>>
    BY <1>1, <1>5 DEF Truncate
  <2>2. FileTypes'
    BY <1>1, <2>1 DEF FileTypes
  <2>3. TailTypes'
    BY <2>1 DEF ExplorerInv, TailTypes
  <2>4. ASSUME tail.file # 0, ~unnoticed'
        PROVE  /\ tail.offset <= Len(files'[tail.file])
               /\ SubSeq(files'[tail.file], 1, tail.offset) = ReadSoFar
    <3>1. tail.file \in Inodes /\ tail.offset <= Len(files[tail.file])
      BY <1>1, <2>1, <2>4 DEF ExplorerInv, TailInv
    <3>2. CASE tail.file = path
      <4>1. tail.offset = 0 /\ files'[tail.file] = <<>> /\ files[tail.file] \in Seq(Piece)
        <5>1. ~(tail.offset > 0)
          BY <2>1, <2>4, <3>2
        <5>2. tail.offset = 0
          BY <1>1, <5>1
        <5>3. files'[tail.file] = <<>>
          BY <1>1, <2>1, <3>2
        <5> QED BY <1>1, <3>1, <5>2, <5>3
      <4> QED BY <4>1, NothingRead DEF ReadSoFar
    <3>3. CASE tail.file # path
      <4>1. files'[tail.file] = files[tail.file]
        BY <1>1, <2>1, <3>1, <3>3
      <4> QED BY <3>1, <4>1 DEF ReadSoFar
    <3> QED BY <3>2, <3>3
  <2>5. TailInv'
    BY <2>1, <2>4, ReadKept DEF ExplorerInv
  <2>6. AppInv(app)'
    BY <2>1 DEF ExplorerInv
  <2> QED BY <2>2, <2>3, <2>5, <2>6 DEF ExplorerInv
<1>6. ASSUME FileTypes', UNCHANGED <<files, tail, polling, app, unnoticed>> PROVE ExplorerInv'
  <2>1. TailInv' /\ TailTypes' /\ AppInv(app)'
    BY <1>6 DEF ExplorerInv, TailInv, TailTypes, ReadSoFar
  <2> QED BY <1>6, <2>1 DEF ExplorerInv
<1>7. CASE Rename
  BY <1>1, <1>6, <1>7 DEF Rename, FileTypes
<1>8. CASE ProxyRestart
  <2>1. path' \in Inodes
    BY <1>1, <1>8 DEF ProxyRestart
  <2>2. writer' \in [inode : Inodes, next : Nat, half : BOOLEAN]
    BY <1>1, <1>8, <2>1 DEF ProxyRestart
  <2>3. UNCHANGED <<files, tail, polling, app, unnoticed>>
    BY <1>8 DEF ProxyRestart
  <2> QED BY <1>1, <1>6, <2>1, <2>2, <2>3 DEF FileTypes
<1> QED BY <1>3, <1>4, <1>5, <1>7, <1>8

(* The half of poll that looks at the path and decides whether to restart. *)
LEMMA PollCheckKeepsInv == ASSUME ExplorerInv, PollCheck PROVE ExplorerInv'
<1>1. /\ files \in [Inodes -> Seq(Piece)] /\ path \in Inodes \cup {0} /\ 0 \notin Inodes
      /\ tail \in [file : Inodes \cup {0}, offset : Nat, partial : Seq(Piece), malformed : Nat]
      /\ polling \in [on : BOOLEAN, restarted : BOOLEAN] /\ unnoticed \in BOOLEAN
  BY DEF ExplorerInv, FileTypes, TailTypes, Inodes
<1>2. PICK afresh \in BOOLEAN : afresh = (tail.file = 0 \/ Replaced)
  OBVIOUS
<1>3. PICK file \in Inodes : file = IF afresh THEN path ELSE tail.file
  BY <1>1, <1>2 DEF PollCheck, Replaced
<1>4. PICK offset \in Nat : offset = IF afresh THEN 0 ELSE tail.offset
  BY <1>1
<1>5. PICK shrank \in BOOLEAN : shrank <=> Len(files[file]) < offset
  OBVIOUS
<1>6. PICK restarted \in BOOLEAN : restarted = (Replaced \/ shrank)
  OBVIOUS
<1>7. PICK partial \in Seq(Piece) : partial = IF afresh \/ shrank THEN <<>> ELSE tail.partial
  <2>1. <<>> \in Seq(Piece)
    OBVIOUS
  <2> QED BY <1>1, <2>1
<1>8. PICK start \in Nat : start = IF shrank THEN 0 ELSE offset
  OBVIOUS
<1>9. /\ tail' = [tail EXCEPT !.file = file, !.offset = start, !.partial = partial]
      /\ polling' = [on |-> TRUE, restarted |-> restarted]
      /\ unnoticed' = (unnoticed /\ ~restarted)
      /\ UNCHANGED <<files, path, writer, app>> /\ ~polling.on
  BY <1>2, <1>3, <1>4, <1>5, <1>6, <1>7, <1>8 DEF PollCheck, worldVars, Idle
<1>10. /\ tail'.file = file /\ tail'.offset = start /\ tail'.partial = partial
       /\ tail'.malformed = tail.malformed /\ polling'.on /\ polling'.restarted = restarted
  BY <1>1, <1>9
<1>11. FileTypes' /\ TailTypes' /\ AppInv(app)'
  BY <1>1, <1>9 DEF ExplorerInv, FileTypes, TailTypes
<1>12. ~polling.restarted
  BY <1>9 DEF ExplorerInv, TailInv
<1>13. files[file] \in Seq(Piece) /\ Len(files[file]) \in Nat
  BY <1>1
<1>14. file # 0
  BY <1>1
<1>15. TailInv'
  <2>1. CASE afresh \/ shrank
    <3>1. start = 0 /\ partial = <<>>
      BY <1>4, <1>7, <1>8, <2>1
    <3>2. SubSeq(files'[tail'.file], 1, tail'.offset) = <<>>
      BY <1>9, <1>10, <1>13, <3>1, NothingRead
    <3>3. ~restarted => app.records = <<>>
      <4>1. ~restarted => tail.file = 0
        BY <1>2, <1>6, <2>1
      <4> QED BY <4>1 DEF ExplorerInv, TailInv
    <3>4. Len(app.records) + tail.malformed >= 0
      <4>1. app.records \in Seq(Records) /\ tail.malformed \in Nat
        BY <1>1 DEF ExplorerInv, AppInv, AppOK
      <4> QED BY <4>1
    <3>5. ReadSoFar' = <<>>
      BY <3>2 DEF ReadSoFar
    <3>6. 0 <= Len(files[file])
      BY <1>13
    <3>7. /\ tail'.offset <= Len(files'[tail'.file]) /\ tail'.partial = HeldBack(ReadSoFar')
          /\ Len(app'.records) + tail'.malformed >= Cardinality(Ends(ReadSoFar'))
      BY <1>9, <1>10, <3>1, <3>4, <3>5, <3>6, NothingRead
    <3>8. ~polling'.restarted => app'.records = Readable(ReadSoFar')
      BY <1>9, <1>10, <3>3, <3>5, NothingRead
    <3> QED BY <1>10, <1>14, <3>1, <3>7, <3>8 DEF TailInv
  <2>2. CASE ~(afresh \/ shrank)
    <3>1. /\ file = tail.file /\ start = tail.offset /\ partial = tail.partial /\ ~restarted
          /\ tail.file # 0
      BY <1>2, <1>3, <1>4, <1>6, <1>7, <1>8, <2>2
    <3>2. ReadSoFar' = ReadSoFar
      BY <1>9, <1>10, <3>1 DEF ReadSoFar
    <3> QED BY <1>9, <1>10, <1>12, <3>1, <3>2 DEF ExplorerInv, TailInv
  <2> QED BY <2>1, <2>2
<1> QED BY <1>11, <1>15 DEF ExplorerInv

(* App::refresh.                                                           *)
LEMMA RefreshFacts ==
    ASSUME NEW a, AppInv(a), NEW restarted \in BOOLEAN, NEW records \in Seq(Records)
    PROVE  /\ AppInv(Refresh(a, restarted, records))
           /\ Refresh(a, restarted, records).records
                  = (IF restarted THEN <<>> ELSE a.records) \o records
<1>1. AppOK(a) /\ a.records \in Seq(Records) /\ a.user_selected \in Nat \ {0}
  BY DEF AppInv, AppOK
<1>2. PICK all \in Seq(Records) : all = (IF restarted THEN <<>> ELSE a.records) \o records
  <2>1. PICK base \in Seq(Records) : base = IF restarted THEN <<>> ELSE a.records
    <3>1. <<>> \in Seq(Records)
      OBVIOUS
    <3> QED BY <1>1, <3>1
  <2>2. base \o records \in Seq(Records)
    OBVIOUS
  <2> QED BY <2>1, <2>2
<1>3. CASE ~restarted /\ records = <<>>
  <2>1. Refresh(a, restarted, records) = a
    BY <1>3 DEF Refresh
  <2>2. a.records = all
    BY <1>1, <1>2, <1>3
  <2> QED BY <1>2, <2>1, <2>2
<1>4. CASE ~(~restarted /\ records = <<>>)
  <2>1. PICK b : b = [a EXCEPT !.records = all]
    OBVIOUS
  <2>2. b.records = all /\ b.user_selected = a.user_selected /\ AppOK(b)
    BY <1>1, <2>1 DEF AppOK
  <2>3. PICK last \in Nat \ {0} : last = LastRow(ByPrincipal(all))
    BY UserRows
  <2>4. PICK row \in 1 .. last : row = Min({a.user_selected, last})
    BY <1>1, MinMax
  <2>5. PICK c : c = [b EXCEPT !.user_selected = row]
    OBVIOUS
  <2>6. c.records = all /\ c.user_selected = row /\ AppOK(c)
    <3>1. row \in Nat \ {0}
      OBVIOUS
    <3> QED BY <2>2, <2>5, <3>1 DEF AppOK
  <2>7. UserRowOK(c)
    BY <2>3, <2>6 DEF UserRowOK
  <2>8. Refresh(a, restarted, records) = ResolveSelection(c)
    <3>1. b.user_selected = a.user_selected /\ b.records = all
      BY <2>2
    <3>2. b = [a EXCEPT !.records = (IF restarted THEN <<>> ELSE @) \o records]
      BY <1>2, <2>1
    <3>3. c = [b EXCEPT !.user_selected = Min({@, LastRow(ByPrincipal(b.records))})]
      BY <2>3, <2>4, <2>5, <3>1
    <3> QED BY <1>4, <3>2, <3>3 DEF Refresh
  <2> QED BY <1>2, <2>6, <2>7, <2>8, ResolveFacts
<1> QED BY <1>3, <1>4

(* The half of poll that reads up to the end, with the refresh of the      *)
(* screen.                                                                 *)
LEMMA PollReadKeepsInv == ASSUME ExplorerInv, PollRead PROVE ExplorerInv'
<1>1. /\ files \in [Inodes -> Seq(Piece)]
      /\ tail \in [file : Inodes \cup {0}, offset : Nat, partial : Seq(Piece), malformed : Nat]
      /\ polling \in [on : BOOLEAN, restarted : BOOLEAN] /\ unnoticed \in BOOLEAN
      /\ polling.on /\ tail.file # 0 /\ AppInv(app) /\ app.records \in Seq(Records)
  BY DEF ExplorerInv, FileTypes, TailTypes, TailInv, PollRead, AppInv, AppOK
<1>2. PICK F \in Seq(Piece) : F = files[tail.file]
  BY <1>1
<1>3. PICK o \in Nat, n \in Nat : o = tail.offset /\ n = Len(F)
  BY <1>1
<1>4. PICK appended \in Seq(Piece) : appended = SubSeq(F, o + 1, n)
  <2>1. SubSeq(F, o + 1, n) \in Seq(Piece)
    <3>1. CASE o <= n
      <4>1. o \in 0 .. Len(F)
        BY <1>3, <3>1
      <4> QED BY <1>3, <4>1, Parts
    <3>2. CASE ~(o <= n)
      BY <1>3, <3>2
    <3> QED BY <3>1, <3>2
  <2> QED BY <2>1
<1>5. PICK P \in Seq(Piece) : P = tail.partial \o appended
  <2>1. tail.partial \in Seq(Piece)
    BY <1>1
  <2>2. tail.partial \o appended \in Seq(Piece)
    BY <2>1
  <2> QED BY <2>2
<1>6. PICK e \in Nat, k \in Nat : e = Cardinality(Ends(P)) /\ k = Len(Readable(P)) /\ k <= e
  BY ReadableFacts
<1>7. HeldBack(P) \in Seq(Piece)
  <2>1. PICK m \in 0 .. Len(P) : HeldBack(P) = SubSeq(P, m + 1, Len(P))
    BY HeldBackFacts
  <2> QED BY <2>1, Parts
<1>8. PICK moved \in Nat, bad \in Nat :
          moved = o + Len(appended) /\ bad = tail.malformed + e - k
  <2>1. o + Len(appended) \in Nat /\ tail.malformed + e - k \in Nat
    <3>1. tail.malformed \in Nat
      BY <1>1
    <3> QED BY <1>6, <3>1
  <2> QED BY <2>1
<1>9. /\ tail' = [tail EXCEPT !.offset = moved, !.partial = HeldBack(P), !.malformed = bad]
      /\ app' = Refresh(app, polling.restarted, Readable(P))
      /\ polling' = [on |-> FALSE, restarted |-> FALSE]
      /\ UNCHANGED <<files, path, writer, unnoticed>>
  BY <1>2, <1>3, <1>4, <1>5, <1>6, <1>8 DEF PollRead, worldVars
<1>10. /\ tail'.file = tail.file /\ tail'.offset = moved /\ tail'.partial = HeldBack(P)
       /\ tail'.malformed = bad /\ ~polling'.on /\ ~polling'.restarted
  BY <1>1, <1>9
<1>11. FileTypes' /\ TailTypes'
  BY <1>1, <1>7, <1>9 DEF ExplorerInv, FileTypes, TailTypes
<1>12. AppInv(app') /\ app'.records = (IF polling.restarted THEN <<>> ELSE app.records) \o Readable(P)
  <2>1. polling.restarted \in BOOLEAN /\ Readable(P) \in Seq(Records)
    BY <1>1, ReadableFacts
  <2>2. PICK r \in BOOLEAN : r = polling.restarted
    BY <2>1
  <2>3. PICK records \in Seq(Records) : records = Readable(P)
    BY <2>1
  <2>4. PICK a : a = app /\ AppInv(a)
    BY <1>1
  <2>5. AppInv(Refresh(a, r, records))
        /\ Refresh(a, r, records).records = (IF r THEN <<>> ELSE a.records) \o records
    BY <2>4, RefreshFacts
  <2>6. app' = Refresh(a, r, records)
    BY <1>9, <2>2, <2>3, <2>4
  <2> QED BY <2>2, <2>3, <2>4, <2>5, <2>6
<1>13. AppInv(app)'
  BY <1>12 DEF AppInv, AppOK, UserRowOK, Follows
<1>14. ASSUME ~unnoticed
       PROVE  /\ tail'.offset <= Len(files'[tail'.file])
              /\ tail'.partial = HeldBack(ReadSoFar')
              /\ app'.records = Readable(ReadSoFar')
              /\ Len(app'.records) + tail'.malformed >= Cardinality(Ends(ReadSoFar'))
  <2>1. PICK R : R = SubSeq(F, 1, o) /\ R = ReadSoFar
    BY <1>2, <1>3 DEF ReadSoFar
  <2>2. o <= n /\ tail.partial = HeldBack(R)
    BY <1>1, <1>2, <1>3, <1>14, <2>1 DEF ExplorerInv, TailInv
  <2>3. moved = n /\ o \in 0 .. Len(F)
    BY <1>3, <1>4, <1>8, <2>2
  <2>4. ReadSoFar' = F
    <3>1. ReadSoFar' = SubSeq(F, 1, Len(F))
      BY <1>2, <1>3, <1>9, <1>10, <2>3 DEF ReadSoFar
    <3>2. SubSeq(F, 1, Len(F)) \in Seq(Piece) /\ Len(SubSeq(F, 1, Len(F))) = Len(F)
          /\ \A i \in 1 .. Len(F) : SubSeq(F, 1, Len(F))[i] = F[i]
      BY <1>3
    <3> QED BY <3>1, <3>2
  <2>5. /\ R \in Seq(Piece) /\ Readable(F) = Readable(R) \o Readable(P)
        /\ Cardinality(Ends(F)) = Cardinality(Ends(R)) + e
        /\ HeldBack(F) = HeldBack(P)
    <3>1. P = HeldBack(R) \o SubSeq(F, o + 1, Len(F))
      BY <1>3, <1>4, <1>5, <2>2
    <3>2. /\ R \in Seq(Piece) /\ Readable(F) = Readable(R) \o Readable(P)
          /\ Cardinality(Ends(F)) = Cardinality(Ends(R)) + Cardinality(Ends(P))
          /\ HeldBack(F) = HeldBack(P)
      <4>1. Polled(F, o, R, P)
        BY <2>1, <2>3, <3>1 DEF Polled
      <4> QED BY <4>1, PollReadsTheRest
    <3> QED BY <1>6, <3>2
  <2>6. PICK base \in Seq(Records) : base = (IF polling.restarted THEN <<>> ELSE app.records)
    <3>1. <<>> \in Seq(Records)
      OBVIOUS
    <3> QED BY <1>1, <3>1
  <2>7. base = Readable(R) /\ Len(base) + tail.malformed >= Cardinality(Ends(R))
    <3>1. CASE polling.restarted
      <4>1. o = 0
        BY <1>3, <3>1 DEF ExplorerInv, TailInv
      <4>2. R = <<>>
        BY <2>1, <4>1, NothingRead
      <4>3. tail.malformed >= 0 /\ tail.malformed \in Nat
        BY <1>1
      <4> QED BY <2>6, <3>1, <4>2, <4>3, NothingRead
    <3>2. CASE ~polling.restarted
      BY <1>1, <1>14, <2>1, <2>6, <3>2 DEF ExplorerInv, TailInv
    <3> QED BY <3>1, <3>2
  <2>8. app'.records = Readable(F)
    BY <1>12, <2>5, <2>6, <2>7
  <2>9. Len(app'.records) = Len(base) + k
    <3>1. Readable(P) \in Seq(Records)
      BY ReadableFacts
    <3> QED BY <1>6, <1>12, <2>6, <3>1
  <2>10. Len(app'.records) + bad >= Cardinality(Ends(F))
    <3>1. Len(base) \in Nat /\ tail.malformed \in Nat /\ Cardinality(Ends(R)) \in Nat
      <4>1. Cardinality(Ends(R)) \in Nat
        BY <2>5, ReadableFacts
      <4> QED BY <1>1, <2>6, <4>1
    <3>2. PICK b \in Nat, bad0 \in Nat, c \in Nat :
              b = Len(base) /\ bad0 = tail.malformed /\ c = Cardinality(Ends(R))
      BY <3>1
    <3>3. b + bad0 >= c /\ bad = bad0 + e - k /\ k <= e
      BY <1>6, <1>8, <2>7, <3>2
    <3>4. (b + k) + bad >= c + e
      BY <3>3
    <3> QED BY <2>5, <2>9, <3>2, <3>4
  <2> QED BY <1>2, <1>3, <1>9, <1>10, <2>3, <2>4, <2>5, <2>8, <2>10
<1>15. TailInv'
  BY <1>1, <1>9, <1>10, <1>14 DEF TailInv
<1> QED BY <1>11, <1>13, <1>15 DEF ExplorerInv

-----------------------------------------------------------------------------
(* App::handle.                                                            *)

(* A key that leaves the records and the file alone.                       *)
LEMMA HandleKeepsInv ==
    ASSUME ExplorerInv, NEW next, Handle(next), AppInv(next), next.records = app.records
    PROVE  ExplorerInv'
<1>1. app' = next /\ UNCHANGED <<files, path, writer, tail, polling, unnoticed>>
  BY DEF Handle, worldVars
<1>2. FileTypes' /\ TailTypes'
  BY <1>1 DEF ExplorerInv, FileTypes, TailTypes
<1>3. app'.records = app.records /\ ReadSoFar' = ReadSoFar
  BY <1>1 DEF ReadSoFar
<1>4. TailInv'
  BY <1>1, <1>3 DEF ExplorerInv, TailInv
<1>5. AppInv(app)'
  BY <1>1 DEF AppInv, AppOK, UserRowOK, Follows
<1> QED BY <1>2, <1>4, <1>5 DEF ExplorerInv

(* One that changes what is filtered, and selects a row.                   *)
LEMMA SelectingKeepsInv ==
    ASSUME ExplorerInv, NEW a, AppOK(a), a.records = app.records,
           a.user_selected = app.user_selected, NEW row \in Nat \ {0}, Handle(Select(a, row))
    PROVE  ExplorerInv'
<1>1. UserRowOK(a)
  BY DEF ExplorerInv, AppInv, UserRowOK
<1>2. AppInv(Select(a, row)) /\ Select(a, row).records = app.records
  BY <1>1, SelectFacts
<1>3. PICK next : next = Select(a, row)
  OBVIOUS
<1> QED BY <1>2, <1>3, HandleKeepsInv

(* A key typed into the filter.                                            *)
LEMMA EditFilterKeepsInv == ASSUME ExplorerInv, EditFilter PROVE ExplorerInv'
<1>1. PICK a0 : a0 = app /\ AppOK(a0) /\ a0.needle \in 0 .. MaxNeedle
  BY DEF ExplorerInv, AppInv, AppOK
<1>2. 1 \in Nat \ {0} /\ MaxNeedle \in Nat
  BY ExplorerAssumption
<1>3. CASE app.needle < MaxNeedle /\ Handle(Select([app EXCEPT !.needle = @ + 1], 1))
  <2>1. a0.needle + 1 \in 0 .. MaxNeedle
    BY <1>1, <1>2, <1>3
  <2>2. PICK a : a = [a0 EXCEPT !.needle = a0.needle + 1]
    OBVIOUS
  <2>3. AppOK(a) /\ a.records = a0.records /\ a.user_selected = a0.user_selected
    BY <1>1, <2>1, <2>2 DEF AppOK
  <2>4. Handle(Select(a, 1))
    BY <1>1, <1>3, <2>2
  <2> QED BY <1>1, <1>2, <2>3, <2>4, SelectingKeepsInv
<1>4. CASE Handle(Select([app EXCEPT !.needle = IF @ = 0 THEN 0 ELSE @ - 1], 1))
  <2>1. PICK k \in 0 .. MaxNeedle : k = IF a0.needle = 0 THEN 0 ELSE a0.needle - 1
    BY <1>1, <1>2
  <2>2. PICK a : a = [a0 EXCEPT !.needle = k]
    OBVIOUS
  <2>3. AppOK(a) /\ a.records = a0.records /\ a.user_selected = a0.user_selected
    BY <1>1, <2>1, <2>2 DEF AppOK
  <2>4. Handle(Select(a, 1))
    BY <1>1, <1>4, <2>1, <2>2
  <2> QED BY <1>1, <1>2, <2>3, <2>4, SelectingKeepsInv
<1>5. CASE Handle(Select([app EXCEPT !.editing_filter = FALSE], 1))
  <2>2. PICK a : a = [a0 EXCEPT !.editing_filter = FALSE]
    OBVIOUS
  <2>3. AppOK(a) /\ a.records = a0.records /\ a.user_selected = a0.user_selected
    BY <1>1, <2>2 DEF AppOK
  <2>4. Handle(Select(a, 1))
    BY <1>1, <1>5, <2>2
  <2> QED BY <1>1, <1>2, <2>3, <2>4, SelectingKeepsInv
<1>6. CASE Handle(Select([app EXCEPT !.editing_filter = FALSE, !.needle = 0], 1))
  <2>1. 0 \in 0 .. MaxNeedle
    BY <1>2
  <2>2. PICK a : a = [a0 EXCEPT !.editing_filter = FALSE, !.needle = 0]
    OBVIOUS
  <2>3. AppOK(a) /\ a.records = a0.records /\ a.user_selected = a0.user_selected
    BY <1>1, <2>1, <2>2 DEF AppOK
  <2>4. Handle(Select(a, 1))
    BY <1>1, <1>6, <2>2
  <2> QED BY <1>1, <1>2, <2>3, <2>4, SelectingKeepsInv
<1> QED BY <1>3, <1>4, <1>5, <1>6 DEF EditFilter

(* Up, Down, Home and End stay within the list.                            *)
LEMMA MovesStay ==
    ASSUME NEW last \in Nat \ {0}, NEW at \in 1 .. last, NEW to \in Moves(at, last)
    PROVE  to \in 1 .. last
<1>1. at - 1 \in Nat /\ at + 1 \in Nat /\ 1 \in Nat
  OBVIOUS
<1>2. Max({at - 1, 1}) \in 1 .. last /\ Min({at + 1, last}) \in 1 .. last
  <2>1. Max({at - 1, 1}) = IF at - 1 <= 1 THEN 1 ELSE at - 1
    BY <1>1, MinMax
  <2>2. Min({at + 1, last}) = IF at + 1 <= last THEN at + 1 ELSE last
    BY <1>1, MinMax
  <2> QED BY <2>1, <2>2
<1> QED BY <1>2 DEF Moves

(* The other keys.                                                         *)
LEMMA KeysKeepInv ==
    ASSUME ExplorerInv,
           \/ MoveUser \/ EnterUser \/ MoveRequest \/ SwitchView
           \/ StartFilter \/ ToggleErrors \/ Escape
    PROVE  ExplorerInv'
<1>1. PICK a0 : a0 = app
  OBVIOUS
<1>2. /\ AppOK(a0) /\ UserRowOK(a0) /\ Follows(a0) /\ a0.records \in Seq(Records)
      /\ a0.selected \in 1 .. LastRow(Visible(a0))
  BY <1>1 DEF ExplorerInv, AppInv, AppOK
<1>3. 1 \in Nat \ {0}
  OBVIOUS
(* A key that leaves the filters and the selected request alone.           *)
<1>4. ASSUME NEW a, AppOK(a), UserRowOK(a), a.records = a0.records, a.needle = a0.needle,
             a.errors_only = a0.errors_only, a.principal = a0.principal,
             a.selected = a0.selected, a.selected_id = a0.selected_id, Handle(a)
      PROVE  ExplorerInv'
  <2>1. Visible(a) = Visible(a0)
    BY <1>4, VisibleSame
  <2>2. AppInv(a)
    BY <1>2, <1>4, <2>1 DEF AppInv, Follows
  <2> QED BY <1>1, <1>4, <2>2, HandleKeepsInv
<1>5. CASE MoveUser
  <2>1. PICK last \in Nat \ {0} : last = LastRow(ByPrincipal(a0.records))
    BY <1>2, UserRows
  <2>2. PICK at \in Moves(a0.user_selected, last) : Handle([a0 EXCEPT !.user_selected = at])
    BY <1>1, <1>5, <2>1 DEF MoveUser
  <2>3. at \in 1 .. last
    BY <1>2, <2>1, MovesStay DEF UserRowOK
  <2>4. PICK a : a = [a0 EXCEPT !.user_selected = at]
    OBVIOUS
  <2>5. /\ AppOK(a) /\ a.records = a0.records /\ a.needle = a0.needle
        /\ a.errors_only = a0.errors_only /\ a.principal = a0.principal
        /\ a.selected = a0.selected /\ a.selected_id = a0.selected_id /\ a.user_selected = at
    <3>1. at \in Nat \ {0}
      BY <2>3
    <3> QED BY <1>2, <2>4, <3>1 DEF AppOK
  <2>6. UserRowOK(a)
    BY <2>1, <2>3, <2>5 DEF UserRowOK
  <2> QED BY <1>4, <2>2, <2>4, <2>5, <2>6
<1>6. CASE EnterUser
  <2>1. PICK p, a : a = [a0 EXCEPT !.principal = p, !.view = "Requests"] /\ Handle(Select(a, 1))
    BY <1>1, <1>6 DEF EnterUser
  <2>2. AppOK(a) /\ a.records = a0.records /\ a.user_selected = a0.user_selected
    BY <1>2, <2>1 DEF AppOK, Views
  <2> QED BY <1>1, <1>3, <2>1, <2>2, SelectingKeepsInv
<1>7. CASE MoveRequest
  <2>1. PICK last \in Nat \ {0} : last = LastRow(Visible(a0))
    BY <1>2, VisibleFacts
  <2>2. PICK at \in Moves(a0.selected, last) : Handle(Select(a0, at))
    BY <1>1, <1>7, <2>1 DEF MoveRequest
  <2>3. at \in 1 .. last
    BY <1>2, <2>1, MovesStay
  <2>4. at \in Nat \ {0}
    BY <2>3
  <2> QED BY <1>1, <1>2, <2>2, <2>4, SelectingKeepsInv
<1>8. CASE SwitchView
  <2>1. PICK view \in Views : Handle([a0 EXCEPT !.view = view])
    BY <1>1, <1>8 DEF SwitchView
  <2>2. PICK a : a = [a0 EXCEPT !.view = view]
    OBVIOUS
  <2>3. /\ AppOK(a) /\ a.records = a0.records /\ a.needle = a0.needle
        /\ a.errors_only = a0.errors_only /\ a.principal = a0.principal
        /\ a.selected = a0.selected /\ a.selected_id = a0.selected_id
        /\ a.user_selected = a0.user_selected
    BY <1>2, <2>2 DEF AppOK
  <2>4. UserRowOK(a)
    BY <1>2, <2>3 DEF UserRowOK
  <2> QED BY <1>4, <2>1, <2>2, <2>3, <2>4
<1>9. CASE StartFilter
  <2>1. PICK a : a = [a0 EXCEPT !.editing_filter = TRUE, !.view = "Requests"] /\ Handle(a)
    BY <1>1, <1>9 DEF StartFilter
  <2>2. /\ AppOK(a) /\ a.records = a0.records /\ a.needle = a0.needle
        /\ a.errors_only = a0.errors_only /\ a.principal = a0.principal
        /\ a.selected = a0.selected /\ a.selected_id = a0.selected_id
        /\ a.user_selected = a0.user_selected
    BY <1>2, <2>1 DEF AppOK, Views
  <2>3. UserRowOK(a)
    BY <1>2, <2>2 DEF UserRowOK
  <2> QED BY <1>4, <2>1, <2>2, <2>3
<1>10. CASE ToggleErrors
  <2>1. PICK e \in BOOLEAN : e = ~a0.errors_only
    OBVIOUS
  <2>2. PICK a : a = [a0 EXCEPT !.errors_only = e, !.view = "Requests"]
    OBVIOUS
  <2>3. Handle(Select(a, 1))
    BY <1>1, <1>10, <2>1, <2>2 DEF ToggleErrors
  <2>4. AppOK(a) /\ a.records = a0.records /\ a.user_selected = a0.user_selected
    BY <1>2, <2>2 DEF AppOK, Views
  <2> QED BY <1>1, <1>3, <2>3, <2>4, SelectingKeepsInv
<1>11. CASE Escape
  <2>1. CASE app.view = "Requests" /\ app.principal # Nobody
    <3>1. PICK a : a = [a0 EXCEPT !.principal = Nobody] /\ Handle(Select(a, 1))
      BY <1>1, <1>11, <2>1 DEF Escape
    <3>2. AppOK(a) /\ a.records = a0.records /\ a.user_selected = a0.user_selected
      BY <1>2, <3>1 DEF AppOK
    <3> QED BY <1>1, <1>3, <3>1, <3>2, SelectingKeepsInv
  <2>2. CASE ~(app.view = "Requests" /\ app.principal # Nobody)
    <3>1. PICK a : a = [a0 EXCEPT !.quit = TRUE] /\ Handle(a)
      BY <1>1, <1>11, <2>2 DEF Escape
    <3>2. /\ AppOK(a) /\ a.records = a0.records /\ a.needle = a0.needle
          /\ a.errors_only = a0.errors_only /\ a.principal = a0.principal
          /\ a.selected = a0.selected /\ a.selected_id = a0.selected_id
          /\ a.user_selected = a0.user_selected
      BY <1>2, <3>1 DEF AppOK
    <3>3. UserRowOK(a)
      BY <1>2, <3>2 DEF UserRowOK
    <3> QED BY <1>4, <3>1, <3>2, <3>3
  <2> QED BY <2>1, <2>2
<1> QED BY <1>5, <1>6, <1>7, <1>8, <1>9, <1>10, <1>11

(* Every step keeps the inductive invariant.                               *)
LEMMA ExplorerNextInv == ExplorerInv /\ [ExplorerNext]_explorerVars => ExplorerInv'
<1> SUFFICES ASSUME ExplorerInv, [ExplorerNext]_explorerVars PROVE ExplorerInv'
  OBVIOUS
<1>1. CASE WriteHalf \/ WriteRest \/ Truncate \/ Rename \/ ProxyRestart
  BY <1>1, WorldKeepsInv
<1>2. CASE PollCheck
  BY <1>2, PollCheckKeepsInv
<1>3. CASE PollRead
  BY <1>3, PollReadKeepsInv
<1>4. CASE EditFilter
  BY <1>4, EditFilterKeepsInv
<1>5. CASE \/ MoveUser \/ EnterUser \/ MoveRequest \/ SwitchView
           \/ StartFilter \/ ToggleErrors \/ Escape
  BY <1>5, KeysKeepInv
<1>6. CASE UNCHANGED explorerVars
  <2>1. UNCHANGED <<files, path, writer, tail, polling, app, unnoticed>>
    BY <1>6 DEF explorerVars
  <2>2. FileTypes' /\ TailTypes' /\ TailInv' /\ AppInv(app)'
    BY <2>1 DEF ExplorerInv, FileTypes, TailTypes, TailInv, ReadSoFar
  <2> QED BY <2>2 DEF ExplorerInv
<1> QED BY <1>1, <1>2, <1>3, <1>4, <1>5, <1>6 DEF ExplorerNext

-----------------------------------------------------------------------------
(* What the run checks is part of the inductive invariant.                 *)
LEMMA ExplorerInvGives ==
    ExplorerInv => ExplorerTypeOK /\ ExplorerShowsTheFile /\ HighlightFollows
<1> SUFFICES ASSUME ExplorerInv PROVE ExplorerTypeOK /\ ExplorerShowsTheFile /\ HighlightFollows
  OBVIOUS
<1>1. ExplorerTypeOK
  BY DEF ExplorerInv, TailTypes, AppInv, AppOK, UserRowOK, ExplorerTypeOK
<1>2. ExplorerShowsTheFile
  BY DEF ExplorerInv, TailInv, ReadSoFar, ExplorerShowsTheFile
<1>3. HighlightFollows
  BY DEF ExplorerInv, AppInv, Follows, HighlightFollows
<1> QED BY <1>1, <1>2, <1>3

(* Whatever is written, truncated and rotated between the two halves of a  *)
(* poll, Tail has read a prefix of the file it holds open, what it holds   *)
(* back is the unfinished last line of that prefix, and the selection of   *)
(* App is on a row that is shown.                                          *)
THEOREM ExplorerInvariant == ExplorerSpec => []ExplorerInv
  BY ExplorerInitInv, ExplorerNextInv, PTL DEF ExplorerSpec

(* The types of reader and screen; every selected row is a row of its      *)
(* list.                                                                   *)
THEOREM ExplorerTypesHold == ExplorerSpec => []ExplorerTypeOK
  BY ExplorerInvariant, ExplorerInvGives, PTL

(* Tail::poll loses no line and shows none twice: between polls, and       *)
(* unless the file outgrew a truncation before the next poll, the records  *)
(* on the screen are exactly the whole lines of the part of the file that  *)
(* has been read, and the other lines are counted.                         *)
THEOREM ShowsTheFile == ExplorerSpec => []ExplorerShowsTheFile
  BY ExplorerInvariant, ExplorerInvGives, PTL

(* App::refresh keeps the highlighted request: while it is visible, the    *)
(* selected row is the one that shows it, whatever arrives, is filtered or *)
(* is read again from a new file.                                          *)
THEOREM HighlightIsKept == ExplorerSpec => []HighlightFollows
  BY ExplorerInvariant, ExplorerInvGives, PTL

-----------------------------------------------------------------------------
(* The backend manager.                                                    *)

USE ConsoleAssumption

Modes == {"Active", "Draining", "Disabled"}
Operation == [backend : Fleet, phase : DrainPhases,
              next : {"none", "Complete", "Failed", "Cancelled"}]
Row == [id : Fleet, mode : Modes]
WaiterType == [state : {"idle", "waiting", "safe", "error", "detached"},
               backend : Fleet \cup {NoOne}, epoch : Nat, operation : Nat]
ConsoleType == [rows : Seq(Row), selected : Nat,
                mode : {"Browse", "ConfirmDrain", "ConfirmDisable"},
                named : Fleet \cup {NoOne}, due : BOOLEAN]

ServerTypes ==
    /\ modes \in [Fleet -> Modes]
    /\ configured \in SUBSET Fleet /\ configured # {}
    /\ operations \in Seq(Operation)
    /\ epoch \in Nat
    /\ waiter \in WaiterType
    /\ reopened \in BOOLEAN

(* The operation that is polled is of the backend that was asked for, and  *)
(* once its driver has found the backend disabled, that still is or was    *)
(* opened after: the driver may not have said so yet.                      *)
PolledInv ==
    waiter.state = "waiting" /\ waiter.epoch = epoch =>
        /\ waiter.operation \in DOMAIN operations
        /\ operations[waiter.operation].backend = waiter.backend
        /\ FoundDisabled(waiter.operation) => modes[waiter.backend] = "Disabled" \/ reopened

ServerInv ==
    /\ ServerTypes
    /\ waiter.state # "idle" => waiter.backend \in Fleet /\ waiter.epoch <= epoch
    /\ PolledInv
    /\ SafeMeansDisabled

(* While no list has left out the backend that the prompt names, it is the *)
(* one that is selected.                                                   *)
ScreenInv ==
    /\ console \in ConsoleType
    /\ console.selected \in DOMAIN console.rows
    /\ lost \in BOOLEAN
    /\ console.mode # "Browse" /\ ~lost => SelectedBackend = console.named
    /\ ~strayed

ConsoleInv == ServerInv /\ ScreenInv
-----------------------------------------------------------------------------
(* Lists.                                                                  *)

(* A finite set of numbers can be listed in ascending order: a number's    *)
(* place is one more than how many are smaller.                            *)
LEMMA AscendingIsOfTheSet ==
    ASSUME NEW S \in SUBSET Nat, IsFiniteSet(S)
    PROVE  Cardinality(S) \in Nat /\ Ascending(S) \in [1 .. Cardinality(S) -> S]
<1> DEFINE n == Cardinality(S)
           below(x) == {y \in S : y < x}
           place == [x \in S |-> Cardinality(below(x)) + 1]
<1>1. n \in Nat
  BY FS_CardinalityType
<1>2. ASSUME NEW x \in S
      PROVE  IsFiniteSet(below(x)) /\ Cardinality(below(x)) \in Nat /\ place[x] \in 1 .. n
  <2>1. below(x) \in SUBSET (S \ {x})
    OBVIOUS
  <2>2. IsFiniteSet(S \ {x}) /\ Cardinality(S \ {x}) = n - 1
    BY FS_RemoveElement
  <2>3. IsFiniteSet(below(x)) /\ Cardinality(below(x)) <= n - 1
    <3> HIDE DEF below, n
    <3> QED BY <2>1, <2>2, FS_Subset
  <2>4. Cardinality(below(x)) \in Nat
    BY <2>3, FS_CardinalityType
  <2>5. place[x] = Cardinality(below(x)) + 1
    OBVIOUS
  <2> HIDE DEF place, below, n
  <2> QED BY <2>3, <2>4, <2>5, <1>1
<1>3. ASSUME NEW x \in S, NEW y \in S, x < y PROVE place[x] < place[y]
  <2>1. below(x) \in SUBSET below(y)
    <3>1. ASSUME NEW z \in S, z < x PROVE z < y
      <4>1. x \in Nat /\ y \in Nat /\ z \in Nat
        OBVIOUS
      <4> QED BY <1>3, <3>1, <4>1
    <3> QED BY <3>1
  <2>2. below(x) # below(y)
    <3>1. x \in below(y) /\ x \notin below(x)
      BY <1>3
    <3> QED BY <3>1
  <2>3. Cardinality(below(x)) <= Cardinality(below(y))
        /\ Cardinality(below(y)) # Cardinality(below(x))
    <3> HIDE DEF below
    <3> QED BY <2>1, <2>2, <1>2, FS_Subset
  <2>4. Cardinality(below(x)) \in Nat /\ Cardinality(below(y)) \in Nat
    BY <1>2
  <2>5. place[x] = Cardinality(below(x)) + 1 /\ place[y] = Cardinality(below(y)) + 1
    OBVIOUS
  <2> HIDE DEF place, below
  <2> QED BY <2>3, <2>4, <2>5
<1>4. place \in Injection(S, 1 .. n)
  <2>1. place \in [S -> 1 .. n]
    BY <1>2
  <2>2. \A x \in S : place[x] \in Nat
    <3>1. \A x \in S : place[x] \in 1 .. n
      BY <1>2
    <3> HIDE DEF place, n
    <3> QED BY <1>1, <3>1
  <2> HIDE DEF place, n
  <2>3. ASSUME NEW x \in S, NEW y \in S, place[x] = place[y] PROVE x = y
    <3>1. ~(place[x] < place[y]) /\ ~(place[y] < place[x])
      BY <2>2, <2>3
    <3>2. ~(x < y) /\ ~(y < x)
      BY <1>3, <3>1
    <3> QED BY <3>2
  <2> QED BY <2>1, <2>3 DEF Injection, IsInjective
<1>5. IsFiniteSet(1 .. n) /\ Cardinality(1 .. n) = n
  BY <1>1, FS_Interval
<1>6. place \in Surjection(S, 1 .. n)
  BY <1>4, <1>5, FS_Injection
<1> DEFINE s == [i \in 1 .. n |-> CHOOSE x \in S : place[x] = i]
<1>7. \A i \in 1 .. n : s[i] \in S /\ place[s[i]] = i
  <2> HIDE DEF place
  <2> QED BY <1>6 DEF Surjection
<1>8. s \in [1 .. n -> S] /\ DOMAIN s = 1 .. n
  BY <1>7
<1>9. ASSUME NEW i \in 1 .. n, NEW j \in 1 .. n, i < j PROVE s[i] < s[j]
  <2>1. s[i] \in S /\ s[j] \in S /\ place[s[i]] = i /\ place[s[j]] = j
    BY <1>7
  <2> HIDE DEF s, place
  <2>2. s[i] # s[j]
    BY <1>9, <2>1
  <2>3. ~(s[j] < s[i])
    <3>1. s[j] < s[i] => j < i
      BY <1>3, <2>1
    <3> QED BY <1>1, <1>9, <3>1
  <2>4. s[i] \in Nat /\ s[j] \in Nat
    BY <2>1
  <2> QED BY <2>2, <2>3, <2>4
<1>10. \E t \in [1 .. n -> S] : \A i, j \in DOMAIN t : i < j => t[i] < t[j]
  <2> HIDE DEF s, n
  <2> QED BY <1>8, <1>9
<1> QED
  <2> HIDE DEF n
  <2>1. (CHOOSE t \in [1 .. n -> S] : \A i, j \in DOMAIN t : i < j => t[i] < t[j])
            \in [1 .. n -> S]
    BY <1>10
  <2> QED BY <1>1, <2>1 DEF Ascending, n

(* The configured backends make a list that is not empty.                  *)
LEMMA ListFacts ==
    ASSUME NEW C \in SUBSET Fleet, C # {}, NEW M \in [Fleet -> Modes]
    PROVE  /\ List(C, M) \in Seq(Row) /\ Len(List(C, M)) \in Nat \ {0}
           /\ DOMAIN List(C, M) = 1 .. Len(List(C, M))
<1>1. IsFiniteSet(C) /\ C \in SUBSET Nat
  BY FS_Subset
<1>2. Cardinality(C) \in Nat /\ Ascending(C) \in [1 .. Cardinality(C) -> C]
  BY <1>1, AscendingIsOfTheSet
<1>3. Cardinality(C) # 0
  BY <1>1, FS_EmptySet
<1>4. ASSUME NEW i \in 1 .. Cardinality(C) PROVE List(C, M)[i] \in Row
  <2>1. Ascending(C)[i] \in Fleet
    BY <1>2
  <2> QED BY <2>1 DEF List, Row
<1>5. DOMAIN List(C, M) = 1 .. Cardinality(C)
  BY DEF List
<1>6. List(C, M) \in [1 .. Cardinality(C) -> Row]
  <2>1. List(C, M) = [i \in 1 .. Cardinality(C) |-> List(C, M)[i]]
    BY DEF List
  <2> QED BY <1>4, <2>1
<1>7. List(C, M) \in Seq(Row) /\ Len(List(C, M)) = Cardinality(C)
  <2> HIDE DEF List
  <2> QED BY <1>2, <1>5, <1>6
<1> QED BY <1>2, <1>3, <1>5, <1>7

-----------------------------------------------------------------------------
(* The initial states.                                                     *)

(* A server that has just started, and a manager that has its first list.  *)
LEMMA ConsoleInitInv == ConsoleInit => ConsoleInv
<1> SUFFICES ASSUME ConsoleInit PROVE ConsoleInv
  OBVIOUS
<1>1. modes \in [Fleet -> Modes] /\ configured = Fleet
  BY DEF ConsoleInit, Modes
<1>2. operations = <<>> /\ operations \in Seq(Operation)
  BY DEF ConsoleInit
<1>3. waiter \in WaiterType /\ waiter.state = "idle" /\ epoch \in Nat /\ reopened \in BOOLEAN
  BY DEF ConsoleInit, WaiterType
<1>4. ServerInv
  BY <1>1, <1>2, <1>3 DEF ServerInv, ServerTypes, PolledInv, SafeMeansDisabled
<1>5. BackendList \in Seq(Row) /\ Len(BackendList) \in Nat \ {0}
      /\ DOMAIN BackendList = 1 .. Len(BackendList)
  BY <1>1, ListFacts DEF BackendList
<1>6. ScreenInv
  <2>1. console.rows = BackendList /\ console.selected = 1 /\ console.mode = "Browse"
        /\ console = [rows |-> BackendList, selected |-> 1, mode |-> "Browse", named |-> NoOne,
                      due |-> FALSE]
    BY DEF ConsoleInit
  <2>2. console \in ConsoleType
    BY <1>5, <2>1 DEF ConsoleType
  <2>3. 1 \in DOMAIN BackendList
    BY <1>5
  <2> QED BY <2>1, <2>2, <2>3 DEF ConsoleInit, ScreenInv
<1> QED BY <1>4, <1>6 DEF ConsoleInv

-----------------------------------------------------------------------------
(* The server's steps.                                                     *)

(* The operation that a drain ends up with is under way, and those there   *)
(* were are as they were.                                                  *)
LEMMA EnsureFacts ==
    ASSUME NEW ops \in Seq(Operation), NEW b \in Fleet
    PROVE  /\ EnsureDrainOperation(ops, b) \in Seq(Operation)
           /\ Driving(EnsureDrainOperation(ops, b), b) # {}
           /\ DOMAIN ops \subseteq DOMAIN EnsureDrainOperation(ops, b)
           /\ \A i \in DOMAIN ops : EnsureDrainOperation(ops, b)[i] = ops[i]
           /\ Driving(ops, b) = {} =>
                  \A i \in Driving(EnsureDrainOperation(ops, b), b) :
                      EnsureDrainOperation(ops, b)[i].next = "none"
<1> DEFINE new == NewOperation(b)
<1>1. CASE Driving(ops, b) # {}
  BY <1>1 DEF EnsureDrainOperation
<1>2. CASE Driving(ops, b) = {}
  <2>1. new \in Operation /\ new.backend = b /\ new.phase = "Draining" /\ new.next = "none"
    BY DEF NewOperation, Operation, DrainPhases
  <2> HIDE DEF new
  <2>2. /\ Append(ops, new) \in Seq(Operation)
        /\ DOMAIN Append(ops, new) = 1 .. Len(ops) + 1
        /\ \A i \in DOMAIN ops : Append(ops, new)[i] = ops[i]
        /\ Append(ops, new)[Len(ops) + 1] = new
    BY <2>1
  <2>3. EnsureDrainOperation(ops, b) = Append(ops, new)
    BY <1>2 DEF EnsureDrainOperation, new
  <2>4. Len(ops) + 1 \in Driving(Append(ops, new), b)
    BY <2>1, <2>2 DEF Driving
  <2>5. DOMAIN ops = 1 .. Len(ops) /\ Len(ops) \in Nat
    OBVIOUS
  <2>6. ASSUME NEW i \in Driving(Append(ops, new), b) PROVE Append(ops, new)[i].next = "none"
    <3>1. i \in 1 .. Len(ops) + 1 /\ i \notin DOMAIN ops
      BY <1>2, <2>2 DEF Driving
    <3>2. i = Len(ops) + 1
      BY <2>5, <3>1
    <3> QED BY <2>1, <2>2, <3>2
  <2>7. PICK grown : grown = Append(ops, new)
    OBVIOUS
  <2>8. /\ grown \in Seq(Operation) /\ DOMAIN grown = 1 .. Len(ops) + 1
        /\ \A i \in DOMAIN ops : grown[i] = ops[i]
        /\ Driving(grown, b) # {}
        /\ \A i \in Driving(grown, b) : grown[i].next = "none"
        /\ EnsureDrainOperation(ops, b) = grown
    BY <2>2, <2>3, <2>4, <2>6, <2>7
  <2>9. DOMAIN ops \subseteq DOMAIN grown
    BY <2>5, <2>8
  <2> QED BY <2>8, <2>9
<1> QED BY <1>1, <1>2

(* What a command may do to what is polled: operations only get more, and  *)
(* who leaves Disabled is noted.                                           *)
LEMMA CommandKeepsServer ==
    ASSUME ServerInv, UNCHANGED <<waiter, epoch>>,
           modes' \in [Fleet -> Modes], configured' \in SUBSET Fleet, configured' # {},
           operations' \in Seq(Operation), reopened' \in BOOLEAN,
           DOMAIN operations \subseteq DOMAIN operations',
           \A i \in DOMAIN operations : operations'[i] = operations[i],
           reopened => reopened',
           ASSUME waiter.backend \in Fleet, modes'[waiter.backend] # modes[waiter.backend],
                  modes'[waiter.backend] # "Disabled"
           PROVE  reopened' = Opens(waiter.backend)
    PROVE  ServerInv'
  BY DEF ServerInv, ServerTypes, PolledInv, SafeMeansDisabled, Opens, Known, FoundDisabled

(* begin_drain: a new operation for one backend.                           *)
LEMMA StartDrainKeepsServer ==
    ASSUME ServerInv, UNCHANGED waiter, NEW b, StartDrain(b) PROVE ServerInv'
<1>1. /\ b \in Fleet /\ modes' = [modes EXCEPT ![b] = "Draining"]
      /\ operations' = EnsureDrainOperation(operations, b)
      /\ reopened' = Opens(b) /\ UNCHANGED <<configured, epoch>>
  BY DEF ServerInv, ServerTypes, StartDrain
<1>2. modes' \in [Fleet -> Modes] /\ \A c \in Fleet : c # b => modes'[c] = modes[c]
  BY <1>1 DEF ServerInv, ServerTypes, Modes
<1>3. /\ operations' \in Seq(Operation) /\ DOMAIN operations \subseteq DOMAIN operations'
      /\ \A i \in DOMAIN operations : operations'[i] = operations[i]
  BY <1>1, EnsureFacts DEF ServerInv, ServerTypes
<1>4. reopened' \in BOOLEAN /\ (reopened => reopened')
  BY <1>1 DEF Opens, ServerInv, ServerTypes
<1>5. configured' \in SUBSET Fleet /\ configured' # {}
  BY <1>1 DEF ServerInv, ServerTypes
<1> QED BY <1>1, <1>2, <1>3, <1>4, <1>5, CommandKeepsServer

(* disable: one backend is disabled, its operations are left to their      *)
(* driver.                                                                 *)
LEMMA DisableKeepsServer ==
    ASSUME ServerInv, UNCHANGED waiter, NEW b, DisableBackend(b) PROVE ServerInv'
<1>1. /\ b \in Fleet /\ modes' = [modes EXCEPT ![b] = "Disabled"]
      /\ UNCHANGED <<configured, operations, epoch, reopened>>
  BY DEF ServerInv, ServerTypes, DisableBackend
<1>2. modes' \in [Fleet -> Modes] /\ modes'[b] = "Disabled"
      /\ \A c \in Fleet : c # b => modes'[c] = modes[c]
  BY <1>1 DEF ServerInv, ServerTypes, Modes
<1>3. configured' \in SUBSET Fleet /\ configured' # {} /\ operations' \in Seq(Operation)
      /\ reopened' \in BOOLEAN
  BY <1>1 DEF ServerInv, ServerTypes
<1> QED BY <1>1, <1>2, <1>3, CommandKeepsServer

(* activate opens one backend.                                             *)
LEMMA ActivateKeepsServer ==
    ASSUME ServerInv, UNCHANGED waiter, NEW b, ActivateBackend(b) PROVE ServerInv'
<1>1. /\ b \in Fleet /\ modes' = [modes EXCEPT ![b] = "Active"]
      /\ reopened' = Opens(b) /\ UNCHANGED <<configured, operations, epoch>>
  BY DEF ServerInv, ServerTypes, ActivateBackend
<1>2. modes' \in [Fleet -> Modes] /\ \A c \in Fleet : c # b => modes'[c] = modes[c]
  BY <1>1 DEF ServerInv, ServerTypes, Modes
<1>3. reopened' \in BOOLEAN /\ (reopened => reopened')
  BY <1>1 DEF Opens, ServerInv, ServerTypes
<1>4. configured' \in SUBSET Fleet /\ configured' # {} /\ operations' \in Seq(Operation)
  BY <1>1 DEF ServerInv, ServerTypes
<1> QED BY <1>1, <1>2, <1>3, <1>4, CommandKeepsServer

(* A reload that changes which backends there are.                         *)
LEMMA ReloadKeepsServer ==
    ASSUME ServerInv, UNCHANGED waiter, NEW new \in SUBSET Fleet, ReloadRuntime(new)
    PROVE  ServerInv'
<1>1. configured' = new /\ new # {} /\ UNCHANGED <<modes, operations, epoch, reopened>>
  BY DEF ReloadRuntime
<1>2. modes' \in [Fleet -> Modes] /\ operations' \in Seq(Operation) /\ reopened' \in BOOLEAN
  BY <1>1 DEF ServerInv, ServerTypes
<1> QED BY <1>1, <1>2, CommandKeepsServer

(* A driver's step changes its operation; when it has found the backend    *)
(* disabled, the backend is, or the driver knew before.                    *)
LEMMA OperationKeepsServer ==
    ASSUME ServerInv, UNCHANGED <<waiter, configured, epoch, reopened>>,
           NEW i \in DOMAIN operations, NEW o \in Operation,
           o.backend = operations[i].backend,
           operations' = [operations EXCEPT ![i] = o],
           modes' \in [Fleet -> Modes],
           \A c \in Fleet : modes'[c] = modes[c] \/ modes'[c] = "Disabled",
           "Complete" \in {o.phase, o.next} =>
               FoundDisabled(i) \/ modes'[operations[i].backend] = "Disabled"
    PROVE  ServerInv'
<1>1. operations \in Seq(Operation)
  BY DEF ServerInv, ServerTypes
<1>2. /\ operations' \in Seq(Operation) /\ DOMAIN operations' = DOMAIN operations
      /\ \A j \in DOMAIN operations : /\ operations'[j].backend = operations[j].backend
                                       /\ j # i => operations'[j] = operations[j]
      /\ operations'[i] = o
  BY <1>1
<1>3. ServerTypes'
  BY <1>2 DEF ServerInv, ServerTypes
<1>4. PolledInv'
  <2> SUFFICES ASSUME waiter.state = "waiting", waiter.epoch = epoch
               PROVE  /\ waiter.operation \in DOMAIN operations'
                      /\ operations'[waiter.operation].backend = waiter.backend
                      /\ "Complete" \in {operations'[waiter.operation].phase,
                                         operations'[waiter.operation].next} =>
                             modes'[waiter.backend] = "Disabled" \/ reopened
    BY DEF PolledInv, FoundDisabled
  <2>1. /\ waiter.operation \in DOMAIN operations
        /\ operations[waiter.operation].backend = waiter.backend /\ waiter.backend \in Fleet
        /\ FoundDisabled(waiter.operation) => modes[waiter.backend] = "Disabled" \/ reopened
    BY DEF ServerInv, PolledInv
  <2>2. CASE waiter.operation = i
    BY <1>2, <2>1, <2>2
  <2>3. CASE waiter.operation # i
    BY <1>2, <2>1, <2>3 DEF FoundDisabled
  <2> QED BY <2>2, <2>3
<1>5. SafeMeansDisabled'
  BY DEF ServerInv, SafeMeansDisabled
<1> QED BY <1>3, <1>4, <1>5 DEF ServerInv

(* drive_drain: a drain completes; or is found ended, and then said to be  *)
(* so, whatever commands came between.                                     *)
LEMMA DriverKeepsServer ==
    ASSUME ServerInv, NEW i \in DOMAIN operations,
           DriverCompletes(i) \/ DriverNotices(i) \/ DriverPublishes(i)
    PROVE  ServerInv'
<1>1. operations[i] \in Operation /\ modes \in [Fleet -> Modes]
  BY DEF ServerInv, ServerTypes
<1>2. CASE DriverCompletes(i)
  <2>1. modes' \in [Fleet -> Modes] /\ modes'[operations[i].backend] = "Disabled"
        /\ \A c \in Fleet : modes'[c] = modes[c] \/ modes'[c] = "Disabled"
    BY <1>1, <1>2 DEF DriverCompletes, Modes, Operation
  <2>2. PICK o : o = [operations[i] EXCEPT !.phase = "Complete"]
    OBVIOUS
  <2>3. o \in Operation /\ o.backend = operations[i].backend
    BY <1>1, <2>2 DEF Operation, DrainPhases
  <2>4. operations' = [operations EXCEPT ![i] = o]
        /\ UNCHANGED <<waiter, configured, epoch, reopened>>
    BY <1>2, <2>2 DEF DriverCompletes
  <2> QED BY <2>1, <2>3, <2>4, OperationKeepsServer
<1>3. CASE DriverNotices(i)
  <2>1. PICK p : p = SupersededPhase(operations[i].backend)
    OBVIOUS
  <2>2. p \in {"Complete", "Failed", "Cancelled"}
        /\ (p = "Complete" => modes[operations[i].backend] = "Disabled")
    BY <2>1 DEF SupersededPhase
  <2>3. PICK o : o = [operations[i] EXCEPT !.next = p]
    OBVIOUS
  <2>4. o \in Operation /\ o.backend = operations[i].backend /\ o.phase = operations[i].phase
        /\ o.next = p
    BY <1>1, <2>2, <2>3 DEF Operation
  <2>5. /\ operations[i].phase = "Draining" /\ operations' = [operations EXCEPT ![i] = o]
        /\ UNCHANGED <<modes, configured, epoch, waiter, reopened>>
    BY <1>3, <2>1, <2>3 DEF DriverNotices
  <2> QED BY <1>1, <2>2, <2>4, <2>5, OperationKeepsServer
<1>4. CASE DriverPublishes(i)
  <2>1. PICK o : o = [operations[i] EXCEPT !.phase = operations[i].next]
    OBVIOUS
  <2>2. operations[i].next # "none" /\ operations' = [operations EXCEPT ![i] = o]
        /\ UNCHANGED <<modes, configured, epoch, waiter, reopened>>
    BY <1>4, <2>1 DEF DriverPublishes
  <2>3. operations[i].next \in DrainPhases
    BY <1>1, <2>2 DEF Operation, DrainPhases
  <2>4. o \in Operation /\ o.backend = operations[i].backend
        /\ o.phase = operations[i].next /\ o.next = operations[i].next
    BY <1>1, <2>1, <2>3 DEF Operation
  <2>5. "Complete" \in {o.phase, o.next} => FoundDisabled(i)
    BY <2>4 DEF FoundDisabled
  <2> QED BY <1>1, <2>2, <2>4, <2>5, OperationKeepsServer
<1> QED BY <1>2, <1>3, <1>4

(* A new process numbers its operations anew, and the epoch tells.         *)
LEMMA RestartKeepsServer == ASSUME ServerInv, RestartServer PROVE ServerInv'
<1> DEFINE S == {b \in configured : modes[b] = "Draining"}
<1>1. S \in SUBSET Fleet /\ S \in SUBSET Nat /\ IsFiniteSet(S)
  <2>1. S \in SUBSET Fleet
    BY DEF ServerInv, ServerTypes
  <2> HIDE DEF S
  <2> QED BY <2>1, FS_Subset
<1>2. operations' \in Seq(Operation)
  <2> HIDE DEF S
  <2>1. Cardinality(S) \in Nat /\ Ascending(S) \in [1 .. Cardinality(S) -> S]
    BY <1>1, AscendingIsOfTheSet
  <2>2. operations' = [i \in 1 .. Cardinality(S) |-> NewOperation(Ascending(S)[i])]
    BY <2>1 DEF RestartServer, S
  <2>3. \A i \in 1 .. Cardinality(S) : NewOperation(Ascending(S)[i]) \in Operation
    BY <1>1, <2>1 DEF NewOperation, Operation, DrainPhases
  <2> QED BY <2>1, <2>2, <2>3
<1>3. epoch \in Nat /\ epoch' = epoch + 1 /\ UNCHANGED <<modes, configured, waiter, reopened>>
  BY DEF RestartServer, ServerInv, ServerTypes
<1>4. ServerTypes'
  BY <1>2, <1>3 DEF ServerInv, ServerTypes
<1>5. waiter.state # "idle" => waiter.backend \in Fleet /\ waiter.epoch < epoch'
  BY <1>3 DEF ServerInv, ServerTypes, WaiterType
<1>6. waiter.epoch \in Nat
  BY DEF ServerInv, ServerTypes, WaiterType
<1>7. PolledInv'
  BY <1>3, <1>5, <1>6 DEF PolledInv
<1>8. SafeMeansDisabled'
  BY <1>3 DEF ServerInv, SafeMeansDisabled
<1> QED BY <1>3, <1>4, <1>5, <1>6, <1>7, <1>8 DEF ServerInv

-----------------------------------------------------------------------------
(* `backend drain`.                                                        *)

(* `backend drain` starts an operation and waits for it.                   *)
LEMMA BeginWaitKeepsServer == ASSUME ServerInv, NEW b \in Fleet, BeginWait(b) PROVE ServerInv'
<1>1. /\ modes' = [modes EXCEPT ![b] = "Draining"]
      /\ reopened' = (\E i \in Driving(operations, b) : FoundDisabled(i))
      /\ operations' = EnsureDrainOperation(operations, b)
      /\ waiter' = [state |-> "waiting", backend |-> b, epoch |-> epoch,
                    operation |-> CHOOSE i \in Driving(operations', b) : TRUE]
      /\ UNCHANGED <<configured, epoch>>
  BY DEF BeginWait
<1>2. modes' \in [Fleet -> Modes]
  BY <1>1 DEF ServerInv, ServerTypes, Modes
<1>3. operations' \in Seq(Operation) /\ Driving(operations', b) # {}
  BY <1>1, EnsureFacts DEF ServerInv, ServerTypes
<1>4. waiter'.operation \in Driving(operations', b)
  BY <1>1, <1>3
<1>5. /\ waiter'.operation \in DOMAIN operations' /\ operations'[waiter'.operation].backend = b
      /\ operations'[waiter'.operation].phase = "Draining" /\ waiter'.operation \in Nat
  BY <1>3, <1>4 DEF Driving
<1>6. epoch \in Nat
  BY DEF ServerInv, ServerTypes
<1>7. waiter' \in WaiterType /\ waiter'.state = "waiting" /\ waiter'.backend = b
      /\ waiter'.epoch = epoch
  <2>1. PICK n \in Nat : n = waiter'.operation
    BY <1>5
  <2>2. waiter' = [state |-> "waiting", backend |-> b, epoch |-> epoch, operation |-> n]
    BY <1>1, <2>1
  <2> QED BY <1>6, <2>2 DEF WaiterType
<1>8. ServerTypes'
  BY <1>1, <1>2, <1>3, <1>7 DEF ServerInv, ServerTypes
<1>9. ASSUME "Complete" \in {operations'[waiter'.operation].phase, operations'[waiter'.operation].next}
      PROVE  reopened'
  <2>1. operations'[waiter'.operation].next = "Complete"
    BY <1>5, <1>9
  <2>2. Driving(operations, b) # {}
    BY <1>1, <1>4, <2>1, EnsureFacts DEF ServerInv, ServerTypes
  <2>3. operations' = operations
    BY <1>1, <2>2 DEF EnsureDrainOperation
  <2> QED BY <1>1, <1>4, <2>1, <2>3 DEF FoundDisabled
<1>10. PolledInv' /\ SafeMeansDisabled'
  BY <1>5, <1>7, <1>9 DEF PolledInv, SafeMeansDisabled, FoundDisabled
<1> QED BY <1>1, <1>6, <1>7, <1>8, <1>10 DEF ServerInv

(* A waiter that ends says what it has seen.                               *)
LEMMA TellKeepsServer ==
    ASSUME ServerInv, NEW what \in {"safe", "error", "detached"}, Tell(what),
           what = "safe" => Known /\ operations[waiter.operation].phase = "Complete"
    PROVE  ServerInv'
<1>1. /\ waiter.state = "waiting" /\ waiter' = [waiter EXCEPT !.state = what]
      /\ UNCHANGED <<modes, configured, operations, epoch, reopened>>
  BY DEF Tell, serverVars
<1>2. /\ waiter' \in WaiterType /\ waiter'.state = what /\ waiter'.backend = waiter.backend
      /\ waiter'.epoch = waiter.epoch
  BY <1>1 DEF ServerInv, ServerTypes, WaiterType
<1>3. ServerTypes'
  BY <1>1, <1>2 DEF ServerInv, ServerTypes
<1>4. PolledInv'
  BY <1>2 DEF PolledInv
<1>5. what = "safe" => modes[waiter.backend] = "Disabled" \/ reopened
  BY <1>1 DEF ServerInv, PolledInv, Known, FoundDisabled
<1>6. SafeMeansDisabled'
  BY <1>1, <1>2, <1>5 DEF SafeMeansDisabled
<1> QED BY <1>1, <1>2, <1>3, <1>4, <1>6 DEF ServerInv

-----------------------------------------------------------------------------
(* The manager's screen.                                                   *)

(* Steps of the screen leave the server alone.                             *)
LEMMA ServerUnchanged ==
    ASSUME ServerInv, UNCHANGED <<modes, configured, operations, epoch, waiter, reopened>>
    PROVE  ServerInv'
  BY DEF ServerInv, ServerTypes, PolledInv, SafeMeansDisabled, FoundDisabled

(* Steps of the server leave the screen alone.                             *)
LEMMA ScreenUnchanged ==
    ASSUME ScreenInv, UNCHANGED <<console, lost, strayed>> PROVE ScreenInv'
  BY DEF ScreenInv, SelectedBackend

(* A new list: the row of the selected backend, or one that is there.      *)
LEMMA RefreshKeepsScreen == ASSUME ServerInv, ScreenInv, RefreshList PROVE ScreenInv'
<1>1. PICK rows : rows = BackendList
  OBVIOUS
<1>2. PICK at : at = Reselect(rows)
  OBVIOUS
<1>3. /\ console' = [console EXCEPT !.rows = rows, !.selected = at, !.due = FALSE]
      /\ lost' = (lost \/ (console.mode # "Browse" /\ RowOf(rows, console.named) = {}))
      /\ UNCHANGED strayed
  BY <1>1, <1>2 DEF RefreshList
<1>4. rows \in Seq(Row) /\ Len(rows) \in Nat \ {0} /\ DOMAIN rows = 1 .. Len(rows)
  BY <1>1, ListFacts DEF BackendList, ServerInv, ServerTypes
<1>5. console.selected \in 1 .. Len(console.rows) /\ Len(console.rows) \in Nat
  BY DEF ScreenInv, ConsoleType
<1>6. at \in DOMAIN rows
  <2>1. CASE RowOf(rows, SelectedBackend) # {}
    BY <1>2, <2>1 DEF Reselect, RowOf
  <2>2. CASE RowOf(rows, SelectedBackend) = {}
    <3>1. at = Clamp(console.selected, rows)
      BY <1>2, <2>2 DEF Reselect
    <3> QED BY <1>4, <1>5, <3>1 DEF Clamp
  <2> QED BY <2>1, <2>2
<1>7. RowOf(rows, SelectedBackend) # {} => rows[at].id = SelectedBackend
  BY <1>2 DEF Reselect, RowOf
<1>8. /\ console' \in ConsoleType /\ console'.rows = rows /\ console'.selected = at
      /\ console'.mode = console.mode /\ console'.named = console.named
  <2>1. at \in Nat
    BY <1>4, <1>6
  <2>2. console \in ConsoleType
    BY DEF ScreenInv
  <2> QED BY <1>3, <1>4, <2>1, <2>2 DEF ConsoleType
<1>9. SelectedBackend' = rows[at].id
  BY <1>6, <1>8 DEF SelectedBackend
<1>10. lost' \in BOOLEAN
  BY <1>3 DEF ScreenInv
<1>11. ASSUME console'.mode # "Browse", ~lost' PROVE SelectedBackend' = console'.named
  <2>1. ~lost /\ RowOf(rows, console.named) # {} /\ console.mode # "Browse"
    BY <1>3, <1>8, <1>11
  <2>2. SelectedBackend = console.named
    BY <2>1 DEF ScreenInv
  <2> QED BY <1>7, <1>8, <1>9, <2>1, <2>2
<1> QED BY <1>3, <1>6, <1>8, <1>10, <1>11 DEF ScreenInv

(* A list that did not come leaves the old one on the screen.              *)
LEMMA GiveUpKeepsScreen == ASSUME ScreenInv, GiveUpRefresh PROVE ScreenInv'
<1>1. /\ console' \in ConsoleType /\ console'.rows = console.rows
      /\ console'.selected = console.selected /\ console'.mode = console.mode
      /\ console'.named = console.named /\ UNCHANGED <<lost, strayed>>
  BY DEF GiveUpRefresh, ScreenInv, ConsoleType
<1>2. SelectedBackend' = SelectedBackend
  BY <1>1 DEF SelectedBackend
<1> QED BY <1>1, <1>2 DEF ScreenInv

(* A key that asks nothing, or asks of the selected row.                   *)
LEMMA PressKeepsScreen ==
    ASSUME ScreenInv, NEW next \in ConsoleType, Press(next), next.selected \in DOMAIN next.rows,
           next.mode # "Browse" => next.rows[next.selected].id = next.named
    PROVE  ScreenInv'
<1>1. console' = next /\ lost' \in BOOLEAN /\ UNCHANGED strayed
  BY DEF Press, ScreenInv
<1> QED BY <1>1 DEF ScreenInv, SelectedBackend

(* The keys that only move the selection, ask or cancel.                   *)
LEMMA KeysKeepScreen ==
    ASSUME ScreenInv, MoveSelection \/ AskConfirm \/ Decline PROVE ScreenInv'
<1>0. console \in ConsoleType /\ console.selected \in DOMAIN console.rows
      /\ console.rows \in Seq(Row)
  BY DEF ScreenInv, ConsoleType
<1>1. CASE MoveSelection
  <2>1. PICK i \in DOMAIN console.rows : Press([console EXCEPT !.selected = i])
    BY <1>1 DEF MoveSelection
  <2>2. PICK next : next = [console EXCEPT !.selected = i]
    OBVIOUS
  <2>3. i \in Nat
    BY <1>0
  <2>4. next \in ConsoleType /\ next.selected = i /\ next.rows = console.rows
        /\ next.mode = console.mode
    BY <1>0, <2>2, <2>3 DEF ConsoleType
  <2>5. console.mode = "Browse"
    BY <1>1 DEF MoveSelection, Browsing
  <2> QED BY <2>1, <2>2, <2>4, <2>5, PressKeepsScreen
<1>2. CASE AskConfirm
  <2>1. PICK row : row = console.rows[console.selected]
    OBVIOUS
  <2>2. row \in Row
    BY <1>0, <2>1
  <2>3. PICK ask \in {"ConfirmDrain", "ConfirmDisable"} :
            Press([console EXCEPT !.mode = ask, !.named = row.id])
    BY <1>2, <2>1 DEF AskConfirm
  <2>4. PICK next : next = [console EXCEPT !.mode = ask, !.named = row.id]
    OBVIOUS
  <2>5. next \in ConsoleType /\ next.selected = console.selected /\ next.rows = console.rows
        /\ next.named = row.id
    BY <1>0, <2>2, <2>4 DEF ConsoleType, Row
  <2> QED BY <1>0, <2>1, <2>3, <2>4, <2>5, PressKeepsScreen
<1>3. CASE Decline
  <2>1. PICK next : next = [console EXCEPT !.mode = "Browse", !.named = NoOne]
    OBVIOUS
  <2>2. next \in ConsoleType /\ next.selected = console.selected /\ next.rows = console.rows
        /\ next.mode = "Browse"
    BY <1>0, <2>1 DEF ConsoleType
  <2> QED BY <1>0, <1>3, <2>1, <2>2, PressKeepsScreen DEF Decline
<1> QED BY <1>1, <1>2, <1>3

(* A request leaves the list as it is and the prompt down.                 *)
LEMMA RequestKeepsScreen ==
    ASSUME ScreenInv, NEW command \in ConsoleType, command.mode = "Browse",
           command.selected = console.selected, command.rows = console.rows,
           console' = command \/ console' = [command EXCEPT !.due = TRUE],
           lost' = FALSE, ~strayed'
    PROVE  ScreenInv'
<1>1. /\ console' \in ConsoleType /\ console'.mode = "Browse"
      /\ console'.selected = console.selected /\ console'.rows = console.rows
  BY DEF ConsoleType
<1> QED BY <1>1 DEF ScreenInv

(* The answer to a question acts on the selected row.                      *)
LEMMA ConfirmKeepsInv == ASSUME ConsoleInv, Confirm PROVE ConsoleInv'
<1>0. ServerInv /\ ScreenInv /\ console \in ConsoleType
  BY DEF ConsoleInv, ScreenInv
<1>1. PICK b : b = SelectedBackend
  OBVIOUS
<1>2. PICK command : command = [console EXCEPT !.mode = "Browse", !.named = NoOne]
  OBVIOUS
<1>3. /\ console.mode # "Browse" /\ UNCHANGED waiter /\ lost' = FALSE
      /\ strayed' = (strayed \/ (b # console.named /\ ~lost))
      /\ console' = command \/ console' = [command EXCEPT !.due = TRUE]
      /\ StartDrain(b) \/ DisableBackend(b) \/ UNCHANGED <<serverVars, reopened>>
  BY <1>1, <1>2 DEF Confirm, Request, Asked
<1>4. ServerInv'
  BY <1>0, <1>3, StartDrainKeepsServer, DisableKeepsServer, ServerUnchanged DEF serverVars
<1>5. ~strayed'
  BY <1>0, <1>1, <1>3 DEF ScreenInv
<1>6. command \in ConsoleType /\ command.mode = "Browse"
      /\ command.selected = console.selected /\ command.rows = console.rows
  BY <1>0, <1>2 DEF ConsoleType
<1> QED BY <1>0, <1>3, <1>4, <1>5, <1>6, RequestKeepsScreen DEF ConsoleInv

(* The keys that act without a question.                                   *)
LEMMA CommandsKeepInv == ASSUME ConsoleInv, ActivateSelected \/ ReloadFromConsole PROVE ConsoleInv'
<1>0. ServerInv /\ ScreenInv /\ console \in ConsoleType /\ ~strayed
  BY DEF ConsoleInv, ScreenInv
<1>1. /\ console.mode = "Browse" /\ UNCHANGED <<waiter, strayed>> /\ lost' = FALSE
      /\ console' = console \/ console' = [console EXCEPT !.due = TRUE]
  BY DEF ActivateSelected, ReloadFromConsole, Request, Browsing
<1>2. \/ ActivateBackend(SelectedBackend)
      \/ \E new \in SUBSET Fleet : ReloadRuntime(new)
      \/ UNCHANGED <<serverVars, reopened>>
  BY DEF ActivateSelected, ReloadFromConsole, Request
<1>3. ServerInv'
  BY <1>0, <1>1, <1>2, ActivateKeepsServer, ReloadKeepsServer, ServerUnchanged DEF serverVars
<1>4. ScreenInv'
  BY <1>0, <1>1, RequestKeepsScreen
<1> QED BY <1>3, <1>4 DEF ConsoleInv

-----------------------------------------------------------------------------
(* Every step keeps the inductive invariant.                               *)
LEMMA ConsoleNextKeepsInv == ConsoleInv /\ [ConsoleNext]_consoleVars => ConsoleInv'
<1> SUFFICES ASSUME ConsoleInv, [ConsoleNext]_consoleVars PROVE ConsoleInv'
  OBVIOUS
<1>0. ServerInv /\ ScreenInv
  BY DEF ConsoleInv
<1>1. CASE UNCHANGED consoleVars
  BY <1>0, <1>1, ServerUnchanged, ScreenUnchanged DEF consoleVars, serverVars, ConsoleInv
<1>2. CASE OtherOperator
  <2>1. UNCHANGED <<console, waiter, lost, strayed>>
    BY <1>2 DEF OtherOperator
  <2>2. \/ \E b \in Fleet : StartDrain(b) \/ DisableBackend(b) \/ ActivateBackend(b)
        \/ \E new \in SUBSET Fleet : ReloadRuntime(new)
    BY <1>2 DEF OtherOperator
  <2>3. ServerInv'
    BY <1>0, <2>1, <2>2, StartDrainKeepsServer, DisableKeepsServer, ActivateKeepsServer,
       ReloadKeepsServer
  <2> QED BY <1>0, <2>1, <2>3, ScreenUnchanged DEF ConsoleInv
<1>3. CASE RestartServer
  <2>1. UNCHANGED <<console, lost, strayed>>
    BY <1>3 DEF RestartServer
  <2> QED BY <1>0, <1>3, <2>1, RestartKeepsServer, ScreenUnchanged DEF ConsoleInv
<1>4. ASSUME NEW i \in DOMAIN operations,
             DriverCompletes(i) \/ DriverNotices(i) \/ DriverPublishes(i)
      PROVE  ConsoleInv'
  <2>1. UNCHANGED <<console, lost, strayed>>
    BY <1>4 DEF DriverCompletes, DriverNotices, DriverPublishes
  <2> QED BY <1>0, <1>4, <2>1, DriverKeepsServer, ScreenUnchanged DEF ConsoleInv
<1>5. CASE RefreshList \/ GiveUpRefresh
  <2>1. UNCHANGED <<modes, configured, operations, epoch, waiter, reopened>>
    BY <1>5 DEF RefreshList, GiveUpRefresh, serverVars
  <2> QED BY <1>0, <1>5, <2>1, RefreshKeepsScreen, GiveUpKeepsScreen, ServerUnchanged
          DEF ConsoleInv
<1>6. CASE MoveSelection \/ AskConfirm \/ Decline
  <2>1. UNCHANGED <<modes, configured, operations, epoch, waiter, reopened>>
    BY <1>6 DEF MoveSelection, AskConfirm, Decline, Press, serverVars
  <2> QED BY <1>0, <1>6, <2>1, KeysKeepScreen, ServerUnchanged DEF ConsoleInv
<1>7. CASE Confirm
  BY <1>7, ConfirmKeepsInv
<1>8. CASE ActivateSelected \/ ReloadFromConsole
  BY <1>8, CommandsKeepInv
<1>9. ASSUME NEW b \in Fleet, BeginWait(b) PROVE ConsoleInv'
  <2>1. UNCHANGED <<console, lost, strayed>>
    BY <1>9 DEF BeginWait
  <2> QED BY <1>0, <1>9, <2>1, BeginWaitKeepsServer, ScreenUnchanged DEF ConsoleInv
<1>10. CASE PollOperation \/ StopWaiting
  <2>1. PICK what \in {"safe", "error", "detached"} :
            /\ Tell(what)
            /\ what = "safe" => Known /\ operations[waiter.operation].phase = "Complete"
    BY <1>10 DEF PollOperation, StopWaiting
  <2>2. UNCHANGED <<console, lost, strayed>>
    BY <2>1 DEF Tell
  <2> QED BY <1>0, <2>1, <2>2, TellKeepsServer, ScreenUnchanged DEF ConsoleInv
<1> QED
  BY <1>1, <1>2, <1>3, <1>4, <1>5, <1>6, <1>7, <1>8, <1>9, <1>10 DEF ConsoleNext

-----------------------------------------------------------------------------
(* The inductive invariant: what the waiter polls and what the screen      *)
(* shows, whatever other operators, reloads and restarts do meanwhile.     *)
THEOREM ConsoleInvariant == ConsoleSpec => []ConsoleInv
  BY ConsoleInitInv, ConsoleNextKeepsInv, PTL DEF ConsoleSpec

(* The types of server, manager and waiter; App.selected is a row of the   *)
(* list that is shown.                                                     *)
THEOREM ConsoleTypesHold == ConsoleSpec => []ConsoleTypeOK
<1>1. ConsoleInv => ConsoleTypeOK
  <2> SUFFICES ASSUME ConsoleInv PROVE ConsoleTypeOK
    OBVIOUS
  <2>1. /\ modes \in [Fleet -> {"Active", "Draining", "Disabled"}] /\ configured \subseteq Fleet
        /\ operations \in Seq(Operation)
    BY DEF ConsoleInv, ServerInv, ServerTypes, Modes
  <2>2. waiter.state \in {"idle", "waiting", "safe", "error", "detached"}
    BY DEF ConsoleInv, ServerInv, ServerTypes, WaiterType
  <2>3. /\ console.selected \in DOMAIN console.rows
        /\ console.mode \in {"Browse", "ConfirmDrain", "ConfirmDisable"}
    BY DEF ConsoleInv, ScreenInv, ConsoleType
  <2>4. \A i \in DOMAIN operations :
            /\ operations[i].backend \in Fleet /\ operations[i].phase \in DrainPhases
            /\ operations[i].next \in {"none", "Complete", "Failed", "Cancelled"}
    <3>1. \A i \in DOMAIN operations : operations[i] \in Operation
      BY <2>1
    <3> QED BY <3>1 DEF Operation
  <2> QED BY <2>1, <2>2, <2>3, <2>4 DEF ConsoleTypeOK
<1> QED BY <1>1, ConsoleInvariant, PTL

(* start_drain and force_disable act on the selected row at the answer, not*)
(* at the question; since refresh() moves the selection with its backend,  *)
(* the two are the same as long as every list has shown that backend.      *)
THEOREM AnswerIsForTheQuestion == ConsoleSpec => []ConfirmedIsNamedWhileShown
<1>1. ConsoleInv => ConfirmedIsNamedWhileShown
  BY DEF ConsoleInv, ScreenInv, ConfirmedIsNamedWhileShown
<1> QED BY <1>1, ConsoleInvariant, PTL

(* wait_for_drain says "safe to stop" only of a backend that is disabled,  *)
(* or was opened or drained again after its driver had found it disabled:  *)
(* identifiers of operations are not used again by the next process, but   *)
(* what the driver saw may be old when it is published.                    *)
THEOREM SafeIsSafe == ConsoleSpec => []SafeMeansDisabled
<1>1. ConsoleInv => SafeMeansDisabled
  BY DEF ConsoleInv, ServerInv
<1> QED BY <1>1, ConsoleInvariant, PTL
=============================================================================
