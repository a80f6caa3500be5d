----------------------- MODULE DocumentListingProofs ------------------------
(***************************************************************************)
(* Theorems about DocumentListing, for any documents, users, page and      *)
(* size.  That a page agrees with its total rests on two facts about       *)
(* LIMIT and OFFSET over a finite set (PageIsBacked, ShortPageIsLast), and *)
(* on what the rows visible to the SELECT and to the COUNT have in common  *)
(* (Drifted).  That a walk through all pages is complete rests on a third: *)
(* a row that comes or goes moves every other by at most one place, so of  *)
(* the rows before a place, or beyond it, only one at a time changes sides *)
(* (Before, Beyond, WalkInv).                                              *)
(***************************************************************************)
EXTENDS DocumentListing, FiniteSetTheorems, WellFoundedInduction, TLAPS

(* Rank and Slice, of any set of documents.                                *)
UpFrom(V, d) == {e \in V : e >= d}

RankIn(V, d) == Cardinality(UpFrom(V, d))

SliceOf(V, a, n) == {d \in V : RankIn(V, d) > a /\ RankIn(V, d) <= a + n}

LEMMA Counts ==
  ASSUME NEW V, IsFiniteSet(V)
  PROVE  \A d : /\ IsFiniteSet(UpFrom(V, d)) /\ RankIn(V, d) \in Nat
                /\ d \in V /\ d \in Nat => RankIn(V, d) > 0
<1> SUFFICES ASSUME NEW d
             PROVE  /\ IsFiniteSet(UpFrom(V, d)) /\ RankIn(V, d) \in Nat
                    /\ d \in V /\ d \in Nat => RankIn(V, d) > 0
  OBVIOUS
<1>1. IsFiniteSet(UpFrom(V, d)) /\ RankIn(V, d) \in Nat
  BY FS_Subset, FS_CardinalityType DEF UpFrom, RankIn
<1>2. d \in V /\ d \in Nat => UpFrom(V, d) # {}
  BY DEF UpFrom
<1>3. RankIn(V, d) = 0 => UpFrom(V, d) = {}
  BY <1>1, FS_EmptySet DEF RankIn
<1> QED
  BY <1>1, <1>2, <1>3

(* The rows are numbered from the highest id down, no two alike.           *)
LEMMA HigherRanksLower ==
  ASSUME NEW V \in SUBSET Nat, IsFiniteSet(V), NEW d \in V, NEW e \in V, e > d
  PROVE  RankIn(V, e) < RankIn(V, d)
<1>1. UpFrom(V, e) \in SUBSET UpFrom(V, d) /\ UpFrom(V, e) # UpFrom(V, d)
  <2>1. d \in UpFrom(V, d) /\ d \notin UpFrom(V, e)
    BY DEF UpFrom
  <2>2. ASSUME NEW f \in UpFrom(V, e) PROVE f \in UpFrom(V, d)
    <3>1. f \in V /\ f >= e
      BY DEF UpFrom
    <3>2. f \in Nat /\ d \in Nat /\ e \in Nat
      BY <3>1
    <3> QED
      BY <3>1, <3>2 DEF UpFrom
  <2> QED
    BY <2>1, <2>2
<1>2. /\ IsFiniteSet(UpFrom(V, d))
      /\ RankIn(V, d) \in Nat /\ RankIn(V, e) \in Nat
  BY Counts
<1>3. RankIn(V, e) <= RankIn(V, d) /\ RankIn(V, e) # RankIn(V, d)
  BY <1>1, <1>2, FS_Subset DEF RankIn
<1> QED
  BY <1>2, <1>3

LEMMA Highest ==
  ASSUME NEW V \in SUBSET Nat, NEW S \in SUBSET V, IsFiniteSet(V), S # {}
  PROVE  \E m \in S : \A e \in S : e <= m
<1> DEFINE T == {UpFrom(S, d) : d \in S}
<1>1. IsFiniteSet(S)
  BY FS_Subset
<1>2. T \subseteq FiniteSubsetsOf(S) /\ T # {}
  <2>1. ASSUME NEW d \in S PROVE UpFrom(S, d) \in FiniteSubsetsOf(S)
    <3>1. IsFiniteSet(UpFrom(S, d)) /\ UpFrom(S, d) \subseteq S
      BY <1>1, Counts DEF UpFrom
    <3> QED
      BY <3>1 DEF FiniteSubsetsOf
  <2> QED
    BY <2>1
<1> HIDE DEF T
<1>3. PICK x \in T : \A y \in T : ~(<<y, x>> \in StrictSubsetOrdering(S))
  <2>1. IsWellFoundedOn(StrictSubsetOrdering(S), FiniteSubsetsOf(S))
    BY FS_StrictSubsetOrderingWellFounded
  <2> QED
    BY <1>2, <2>1, WFMin
<1> USE DEF T
<1>4. PICK m \in S : x = UpFrom(S, m)
  OBVIOUS
<1>5. ASSUME NEW e \in S, e > m PROVE FALSE
  <2>1. UpFrom(S, e) \in T
    BY <1>5
  <2>2. UpFrom(S, e) \subseteq UpFrom(S, m)
    <3> SUFFICES ASSUME NEW f \in UpFrom(S, e) PROVE f \in UpFrom(S, m)
      OBVIOUS
    <3>1. f \in S /\ f >= e
      BY DEF UpFrom
    <3>2. f \in Nat /\ e \in Nat /\ m \in Nat
      BY <3>1, <1>5
    <3> QED
      BY <3>1, <3>2, <1>5 DEF UpFrom
  <2>3. m \in UpFrom(S, m) /\ m \notin UpFrom(S, e)
    <3> e \in Nat /\ m \in Nat
      BY <1>5
    <3> QED
      BY <1>5 DEF UpFrom
  <2>4. <<UpFrom(S, e), x>> \in StrictSubsetOrdering(S)
    BY <2>2, <2>3, <1>4 DEF StrictSubsetOrdering, UpFrom
  <2> QED
    BY <1>3, <2>1, <2>4
<1> QED
  BY <1>5

(* No more rows than there are places from the first to the last.          *)
LEMMA Width ==
  ASSUME NEW V \in SUBSET Nat, IsFiniteSet(V), NEW a \in Nat, NEW n \in Nat
  PROVE  /\ IsFiniteSet(SliceOf(V, a, n))
         /\ Cardinality(SliceOf(V, a, n)) \in Nat
         /\ Cardinality(SliceOf(V, a, n)) <= n
<1> DEFINE S == SliceOf(V, a, n)
           T == (a + 1) .. (a + n)
           f == [d \in S |-> RankIn(V, d)]
<1>1. S \subseteq V /\ IsFiniteSet(S) /\ Cardinality(S) \in Nat
  BY FS_Subset, FS_CardinalityType DEF SliceOf
<1>2. f \in [S -> T]
  BY Counts DEF SliceOf
<1>3. ASSUME NEW d \in S, NEW e \in S, f[d] = f[e]
      PROVE  d = e
  <2>1. RankIn(V, d) = RankIn(V, e) /\ RankIn(V, d) \in Nat
    BY <1>3, Counts
  <2>2. d \in V /\ e \in V /\ d \in Nat /\ e \in Nat
    BY <1>1
  <2>3. ~(d > e) /\ ~(e > d)
    BY <2>1, <2>2, HigherRanksLower
  <2> QED
    BY <2>2, <2>3
<1>4. f \in Injection(S, T)
  BY <1>2, <1>3 DEF Injection, IsInjective
<1>5. IsFiniteSet(T) /\ Cardinality(T) = n
  BY FS_Interval
<1>6. Cardinality(S) <= Cardinality(T)
  BY <1>4, <1>5, FS_Injection
<1> QED
  BY <1>1, <1>5, <1>6

(* The rows before a row.                                                  *)
LEMMA RowsBefore ==
  ASSUME NEW V \in SUBSET Nat, IsFiniteSet(V), NEW m \in V
  PROVE  /\ IsFiniteSet(UpFrom(V, m) \ {m})
         /\ Cardinality(UpFrom(V, m) \ {m}) = RankIn(V, m) - 1
<1>1. IsFiniteSet(UpFrom(V, m))
  BY Counts
<1>2. m \in UpFrom(V, m)
  BY DEF UpFrom
<1> QED
  BY <1>1, <1>2, FS_RemoveElement DEF RankIn

(* A page that is not empty has all the rows that it skips before it.      *)
LEMMA PageIsBacked ==
  ASSUME NEW V \in SUBSET Nat, IsFiniteSet(V), NEW a \in Nat, NEW n \in Nat,
         SliceOf(V, a, n) # {}
  PROVE  Cardinality(V) >= a + Cardinality(SliceOf(V, a, n))
<1> DEFINE S == SliceOf(V, a, n)
<1>1. S \in SUBSET V /\ S # {}
  BY DEF SliceOf
<1>2. PICK m \in S : \A e \in S : e <= m
  BY <1>1, Highest
<1> DEFINE B == UpFrom(V, m) \ {m}
<1>3. m \in V /\ m \in Nat /\ RankIn(V, m) \in Nat /\ RankIn(V, m) > a
  BY <1>1, Counts DEF SliceOf
<1>4. IsFiniteSet(B) /\ Cardinality(B) = RankIn(V, m) - 1
  BY <1>3, RowsBefore
<1>5. IsFiniteSet(S) /\ Cardinality(S) \in Nat
  BY Width
<1>6. B \cap S = {}
  <2> SUFFICES ASSUME NEW e \in B \cap S PROVE FALSE
    OBVIOUS
  <2>1. e \in Nat /\ e >= m /\ e # m /\ e <= m
    BY <1>1, <1>2 DEF UpFrom
  <2> QED
    BY <2>1, <1>3
<1>7. IsFiniteSet(B \cup S) /\ Cardinality(B \cup S) = Cardinality(B) + Cardinality(S)
  <2>1. Cardinality(B \cup S) = Cardinality(B) + Cardinality(S) - Cardinality(B \cap S)
    BY <1>4, <1>5, FS_Union
  <2>2. Cardinality(B \cap S) = 0
    BY <1>6, FS_EmptySet
  <2>3. IsFiniteSet(B \cup S)
    BY <1>4, <1>5, FS_Union
  <2> QED
    BY <1>3, <1>4, <1>5, <2>1, <2>2, <2>3
<1>8. B \cup S \in SUBSET V
  BY <1>1 DEF UpFrom
<1>9. Cardinality(B \cup S) <= Cardinality(V) /\ Cardinality(V) \in Nat
  BY <1>8, FS_Subset, FS_CardinalityType
<1> QED
  BY <1>3, <1>4, <1>5, <1>7, <1>9

(* A page with fewer rows than it may have ends with the last row.         *)
LEMMA ShortPageIsLast ==
  ASSUME NEW V \in SUBSET Nat, IsFiniteSet(V), NEW a \in Nat, NEW n \in Nat,
         Cardinality(SliceOf(V, a, n)) < n
  PROVE  Cardinality(V) <= a + Cardinality(SliceOf(V, a, n))
<1> DEFINE S == SliceOf(V, a, n)
           P == SliceOf(V, 0, a)
           R == {d \in V : RankIn(V, d) > a + n}
<1>1. IsFiniteSet(S) /\ Cardinality(S) \in Nat /\ S \subseteq V
  BY Width DEF SliceOf
<1>2. IsFiniteSet(P) /\ Cardinality(P) \in Nat /\ Cardinality(P) <= a
  BY Width
<1>3. /\ IsFiniteSet(P \cup S)
      /\ Cardinality(P \cup S) \in Nat
      /\ Cardinality(P \cup S) <= a + Cardinality(S)
  <2>1. Cardinality(P \cup S) = Cardinality(P) + Cardinality(S) - Cardinality(P \cap S)
    BY <1>1, <1>2, FS_Union
  <2>2. IsFiniteSet(P \cap S) /\ IsFiniteSet(P \cup S)
    BY <1>1, <1>2, FS_Union, FS_Subset
  <2>3. Cardinality(P \cap S) \in Nat /\ Cardinality(P \cup S) \in Nat
    BY <2>2, FS_CardinalityType
  <2> QED
    BY <1>1, <1>2, <2>1, <2>2, <2>3
<1>4. ASSUME NEW d \in V PROVE d \in P \/ d \in S \/ d \in R
  <2>1. RankIn(V, d) \in Nat /\ RankIn(V, d) > 0
    BY Counts
  <2> QED
    BY <2>1 DEF SliceOf
<1>5. R = {}
  <2> SUFFICES ASSUME R # {} PROVE FALSE
    OBVIOUS
  <2>1. PICK m \in R : \A e \in R : e <= m
    BY Highest
  <2> DEFINE B == UpFrom(V, m) \ {m}
  <2>2. m \in V /\ m \in Nat /\ RankIn(V, m) \in Nat /\ RankIn(V, m) > a + n
    BY Counts
  <2>3. IsFiniteSet(B) /\ Cardinality(B) = RankIn(V, m) - 1
    BY <2>2, RowsBefore
  <2>4. ASSUME NEW e \in B PROVE e \in P \cup S
    <3>1. e \in V /\ e \in Nat /\ e >= m /\ e # m
      BY <2>4 DEF UpFrom
    <3>2. e \notin R
      <4> SUFFICES ASSUME e \in R PROVE FALSE
        OBVIOUS
      <4>1. e <= m
        BY <2>1
      <4> QED
        BY <3>1, <2>2, <4>1
    <3> QED
      BY <1>4, <3>1, <3>2
  <2>5. B \in SUBSET (P \cup S)
    BY <2>4
  <2>6. Cardinality(B) <= Cardinality(P \cup S)
    BY <1>3, <2>5, FS_Subset
  <2> QED
    BY <1>1, <1>3, <2>2, <2>3, <2>6
<1>6. V \in SUBSET (P \cup S)
  BY <1>4, <1>5
<1>7. Cardinality(V) <= Cardinality(P \cup S) /\ Cardinality(V) \in Nat
  BY <1>3, <1>6, FS_Subset, FS_CardinalityType
<1> QED
  BY <1>1, <1>3, <1>7

(* What fits in 32 bits is not changed by the conversion.                  *)
LEMMA Int32Keeps ==
  ASSUME NEW x \in Nat, x < Int32Limit
  PROVE  Int32(x) = x
<1>1. Int32Limit \in Nat \ {0}
  BY Int32LimitAssumption
<1>2. ASSUME NEW y \in Nat, NEW k \in Nat \ {0}, y < k
      PROVE  y % k = y
  BY <1>2, Z3
<1>3. (x + Int32Limit) % (2 * Int32Limit) = x + Int32Limit
  BY <1>1, <1>2
<1> QED
  BY <1>1, <1>3 DEF Int32

-----------------------------------------------------------------------------
LEMMA VisibleRows ==
  /\ Visible \in SUBSET Nat /\ IsFiniteSet(Visible)
  /\ \A o : Slice(o) = SliceOf(Visible, o, size)
<1>1. Visible \in SUBSET Documents
  BY DEF Visible
<1>2. Visible \in SUBSET Nat /\ IsFiniteSet(Visible)
  BY <1>1, ListingAssumption, FS_Subset
<1>3. \A o : Slice(o) = SliceOf(Visible, o, size)
  BY DEF Slice, SliceOf, Rank, RankIn, UpFrom
<1> QED
  BY <1>2, <1>3

LEMMA Offsets ==
  ASSUME TypeOK
  PROVE  /\ (page - 1) * size \in Nat
         /\ Offset \in Int
         /\ Fits => Offset = (page - 1) * size
<1>1. page - 1 \in Nat /\ size \in Nat
  BY ListingAssumption DEF TypeOK
<1>2. ASSUME NEW i \in Nat, NEW j \in Nat
      PROVE  i * j \in Nat
  BY Z3
<1>3. (page - 1) * size \in Nat
  BY <1>1, <1>2
<1>4. ASSUME NEW x \in Int PROVE Int32(x) \in Int
  BY Int32LimitAssumption DEF Int32
<1>5. Offset \in Int
  BY <1>3, <1>4 DEF Offset
<1>6. Fits => Offset = (page - 1) * size
  BY <1>3, Int32Keeps DEF Offset, Fits
<1> QED
  BY <1>3, <1>5, <1>6

(* Nothing is undeleted, so what was deleted when the page was asked for   *)
(* is deleted when it is read.                                             *)
StaysGone == gone \subseteq deleted

(* The page is a slice of what the SELECT saw, and the rows visible now    *)
(* differ from those by what appeared and went since.                      *)
Drifted ==
  step = "count" /\ Fits =>
    \E seen \in SUBSET Documents :
      /\ items = SliceOf(seen, (page - 1) * size, size)
      /\ seen \ between.went \subseteq Visible
      /\ Visible \subseteq seen \cup between.appeared

IInv == TypeOK /\ StaysGone /\ PageShowsLive /\ Drifted /\ PageAgreesWithTotal

LEMMA Initially ==
  ASSUME Init
  PROVE  IInv
<1>1. TypeOK
  <2>1. Cardinality({}) = 0
    BY FS_EmptySet
  <2>2. TableTypeOK /\ walk \in NewWalk
    BY DEF Init, TableInit, TableTypeOK, Status, NoWalk, NewWalk
  <2>3. between \in [appeared : SUBSET Documents, went : SUBSET Documents]
    BY DEF Init, Nothing
  <2> QED
    BY <2>1, <2>2, <2>3, ListingAssumption DEF Init, TypeOK, TableInit
<1> QED
  BY <1>1 DEF IInv, Init, StaysGone, PageShowsLive, Drifted, PageAgreesWithTotal

(* The actions that leave the rows, the request and the page alone.        *)
LEMMA BadRequestKeeps ==
  ASSUME IInv, BadRequest
  PROVE  IInv'
<1>1. TypeOK'
  <2>1. NoWalk \in NewWalk
    BY DEF NoWalk, NewWalk
  <2> QED
    BY <2>1 DEF IInv, TypeOK, BadRequest, TableTypeOK, tableVars, request
<1>2. StaysGone' /\ PageShowsLive'
  BY DEF IInv, StaysGone, PageShowsLive, InScope, May, BadRequest, tableVars, request
<1>3. Drifted' /\ PageAgreesWithTotal'
  BY DEF BadRequest, Drifted, PageAgreesWithTotal
<1> QED
  BY <1>1, <1>2, <1>3 DEF IInv

LEMMA AskKeeps ==
  ASSUME IInv, Ask
  PROVE  IInv'
<1>1. page' \in Nat \ {0} /\ size' \in 1 .. MaxSize
  <2>1. PICK pageValue \in PageValues, sizeValue \in SizeValues :
          /\ WellFormed(pageValue, sizeValue)
          /\ page' = NormalPage(OrDefault(pageValue, 1))
          /\ size' = NormalSize(OrDefault(sizeValue, DefaultSize))
    BY DEF Ask
  <2>2. /\ pageValue \in Int \cup {Absent, NotNumber}
        /\ sizeValue \in Int \cup {Absent, NotNumber}
        /\ DefaultSize \in 1 .. MaxSize /\ MaxSize \in Nat \ {0}
    BY ListingAssumption, Int32LimitAssumption
  <2>3. OrDefault(pageValue, 1) \in Int /\ OrDefault(sizeValue, DefaultSize) \in Int
    BY <2>1, <2>2 DEF WellFormed, OrDefault
  <2> QED
    BY <2>1, <2>2, <2>3 DEF NormalPage, NormalSize
<1>2. walk' \in NewWalk
  <2>1. Visible \in SUBSET Documents
    BY DEF Visible
  <2> QED
    BY <2>1 DEF Ask, IInv, TypeOK, NoWalk, NewWalk
<1>3. Cardinality(items') <= size'
  <2>1. items' = {} /\ Cardinality({}) = 0
    BY FS_EmptySet DEF Ask
  <2> QED
    BY <1>1, <2>1
<1>4. TypeOK'
  BY <1>1, <1>2, <1>3 DEF IInv, TypeOK, Ask, TableTypeOK, tableVars
<1>5. StaysGone' /\ PageShowsLive' /\ Drifted' /\ PageAgreesWithTotal'
  BY DEF Ask, StaysGone, PageShowsLive, Drifted, PageAgreesWithTotal, tableVars
<1> QED
  BY <1>4, <1>5 DEF IInv

LEMMA FailKeeps ==
  ASSUME IInv, Fail, UNCHANGED <<cancelled, tableVars, request, gone>>
  PROVE  IInv'
<1>1. TypeOK'
  <2>1. NoWalk \in NewWalk
    BY DEF NoWalk, NewWalk
  <2> QED
    BY <2>1 DEF IInv, TypeOK, Fail, TableTypeOK, tableVars, request
<1>2. StaysGone' /\ PageShowsLive'
  BY DEF IInv, StaysGone, PageShowsLive, InScope, May, Fail, tableVars, request
<1>3. Drifted' /\ PageAgreesWithTotal'
  BY DEF Fail, Drifted, PageAgreesWithTotal
<1> QED
  BY <1>1, <1>2, <1>3 DEF IInv

LEMMA SelectItemsKeeps ==
  ASSUME IInv, SelectItems
  PROVE  IInv'
<1>1. UNCHANGED <<cancelled, tableVars, request, gone>>
  BY DEF SelectItems
<1>2. CASE Fail
  BY <1>1, <1>2, FailKeeps
<1>3. CASE /\ Offset >= 0
           /\ items' = Slice(Offset)
           /\ step' = "count"
           /\ between' = Nothing
           /\ UNCHANGED <<total, answer, walk>>
  <2>1. /\ Offset \in Nat /\ size \in Nat
        /\ Fits => Offset = (page - 1) * size
    BY <1>3, Offsets, ListingAssumption DEF IInv, TypeOK
  <2>2. items' = SliceOf(Visible, Offset, size)
    BY <1>3, VisibleRows
  <2>3. Cardinality(items') <= size
    BY <2>1, <2>2, Width, VisibleRows
  <2>4. items' \subseteq Visible
    BY <2>2 DEF SliceOf
  <2>5. Visible \subseteq Documents
    BY DEF Visible
  <2>6. TypeOK'
    <3>1. Nothing \in [appeared : SUBSET Documents, went : SUBSET Documents]
      BY DEF Nothing
    <3> QED
      BY <1>1, <1>3, <2>3, <2>4, <2>5, <3>1
      DEF IInv, TypeOK, TableTypeOK, tableVars, request
  <2>7. StaysGone'
    BY <1>1 DEF IInv, StaysGone, tableVars
  <2>8. PageShowsLive'
    <3>1. \A d \in Visible : InScope(d) /\ d \notin gone
      BY DEF IInv, StaysGone, Visible, Live
    <3> QED
      BY <1>1, <2>4, <2>5, <3>1 DEF PageShowsLive, InScope, May, tableVars, request
  <2>9. Drifted'
    <3>1. Visible' = Visible
      BY <1>1 DEF Visible, InScope, May, Live, tableVars, request
    <3>2. page' = page /\ size' = size /\ Fits' = Fits
      BY <1>1 DEF request, Fits
    <3>3. Fits' => items' = SliceOf(Visible, (page' - 1) * size', size')
      BY <2>1, <2>2, <3>2
    <3>4. between'.went = {} /\ between'.appeared = {}
      BY <1>3 DEF Nothing
    <3> QED
      BY <2>5, <3>1, <3>3, <3>4 DEF Drifted
  <2>10. PageAgreesWithTotal'
    BY <1>3 DEF PageAgreesWithTotal
  <2> QED
    BY <2>6, <2>7, <2>8, <2>9, <2>10 DEF IInv
<1>4. Offset \in Int
  BY Offsets DEF IInv
<1> QED
  BY <1>2, <1>3, <1>4 DEF SelectItems

(* A page of the rows seen before, and the number of the rows there now.   *)
LEMMA PageAndTotal ==
  ASSUME NEW V \in SUBSET Documents, NEW W \in SUBSET Documents,
         NEW went \in SUBSET Documents, NEW appeared \in SUBSET Documents,
         NEW a \in Nat, NEW n \in Nat,
         V \ went \subseteq W, W \subseteq V \cup appeared
  PROVE  LET S == SliceOf(V, a, n)
         IN  /\ S # {} => Cardinality(W) >= a + Cardinality(S) - Cardinality(went)
             /\ Cardinality(S) < n =>
                  Cardinality(W) <= a + Cardinality(S) + Cardinality(appeared)
<1> DEFINE S == SliceOf(V, a, n)
<1>1. /\ V \in SUBSET Nat
      /\ IsFiniteSet(V) /\ IsFiniteSet(W) /\ IsFiniteSet(went) /\ IsFiniteSet(appeared)
  BY ListingAssumption, FS_Subset
<1>2. /\ Cardinality(V) \in Nat /\ Cardinality(W) \in Nat
      /\ Cardinality(went) \in Nat /\ Cardinality(appeared) \in Nat
      /\ Cardinality(S) \in Nat
  BY <1>1, FS_CardinalityType, Width
<1>3. ASSUME NEW X, NEW Y, NEW Z, IsFiniteSet(X), IsFiniteSet(Y), IsFiniteSet(Z),
             X \subseteq Y \cup Z
      PROVE  Cardinality(X) <= Cardinality(Y) + Cardinality(Z)
  <2>1. Cardinality(Y \cup Z) = Cardinality(Y) + Cardinality(Z) - Cardinality(Y \cap Z)
    BY <1>3, FS_Union
  <2>2. IsFiniteSet(Y \cup Z) /\ IsFiniteSet(Y \cap Z)
    BY <1>3, FS_Union, FS_Subset
  <2>3. Cardinality(X) <= Cardinality(Y \cup Z)
    BY <1>3, <2>2, FS_Subset
  <2>4. /\ Cardinality(X) \in Nat /\ Cardinality(Y) \in Nat /\ Cardinality(Z) \in Nat
        /\ Cardinality(Y \cap Z) \in Nat
    BY <1>3, <2>2, FS_CardinalityType
  <2> QED
    BY <2>1, <2>3, <2>4
<1>4. V \subseteq W \cup went
  OBVIOUS
<1>5. Cardinality(V) <= Cardinality(W) + Cardinality(went)
  BY <1>1, <1>3, <1>4
<1>6. Cardinality(W) <= Cardinality(V) + Cardinality(appeared)
  BY <1>1, <1>3
<1>7. S # {} => Cardinality(V) >= a + Cardinality(S)
  BY <1>1, PageIsBacked
<1>8. Cardinality(S) < n => Cardinality(V) <= a + Cardinality(S)
  BY <1>1, ShortPageIsLast
<1> QED
  BY <1>2, <1>5, <1>6, <1>7, <1>8

LEMMA CountItemsKeeps ==
  ASSUME IInv, CountItems
  PROVE  IInv'
<1>1. step = "count" /\ UNCHANGED <<cancelled, tableVars, request, gone>>
  BY DEF CountItems
<1>2. CASE Fail
  BY <1>1, <1>2, FailKeeps
<1>3. CASE /\ total' = Counted
           /\ step' = "idle"
           /\ answer' = 200
           /\ walk' = [walk EXCEPT !.seen = @ \cup items, !.again = @ \cup (walk.seen \cap items)]
           /\ UNCHANGED <<items, between>>
  <2>1. total' = Cardinality(Visible) /\ total' \in Nat
    BY <1>3, VisibleRows, FS_CardinalityType DEF Counted
  <2>2. TypeOK'
    <3>1. walk' \in NewWalk
      <4>1. walk \in NewWalk /\ items \subseteq Documents
        BY DEF IInv, TypeOK
      <4>2. ASSUME NEW w \in NewWalk, NEW s \in SUBSET Documents
            PROVE  [w EXCEPT !.seen = s] \in NewWalk /\ [w EXCEPT !.again = s] \in NewWalk
        BY DEF NewWalk
      <4>3. walk.again \subseteq Documents /\ walk.seen \subseteq Documents
        BY <4>1 DEF NewWalk
      <4> DEFINE w == [walk EXCEPT !.seen = walk.seen \cup items]
      <4>4. w \in NewWalk
        BY <4>1, <4>2, <4>3
      <4>5. [w EXCEPT !.again = walk.again \cup (walk.seen \cap items)] \in NewWalk
        BY <4>1, <4>2, <4>3, <4>4
      <4> QED
        BY <1>3, <4>5, Zenon
    <3> QED
      BY <1>1, <1>3, <2>1, <3>1 DEF IInv, TypeOK, TableTypeOK, tableVars, request
  <2>3. StaysGone' /\ PageShowsLive'
    BY <1>1, <1>3
    DEF IInv, StaysGone, PageShowsLive, InScope, May, tableVars, request
  <2>4. Drifted'
    BY <1>3 DEF Drifted
  <2>5. PageAgreesWithTotal'
    <3>1. page' = page /\ size' = size /\ items' = items /\ between' = between /\ Fits' = Fits
      BY <1>1, <1>3 DEF request, Fits
    <3>2. ASSUME Fits
          PROVE  /\ items # {} => Cardinality(Visible) >= (page - 1) * size + Cardinality(items)
                                                           - Cardinality(between.went)
                 /\ Cardinality(items) < size =>
                      Cardinality(Visible) <= (page - 1) * size + Cardinality(items)
                                              + Cardinality(between.appeared)
      <4>1. PICK seen \in SUBSET Documents :
              /\ items = SliceOf(seen, (page - 1) * size, size)
              /\ seen \ between.went \subseteq Visible
              /\ Visible \subseteq seen \cup between.appeared
        BY <1>1, <3>2 DEF IInv, Drifted
      <4>2. /\ (page - 1) * size \in Nat /\ size \in Nat
            /\ Visible \in SUBSET Documents
            /\ between.went \in SUBSET Documents /\ between.appeared \in SUBSET Documents
        BY Offsets, ListingAssumption DEF IInv, TypeOK, Visible
      <4> QED
        BY <4>1, <4>2, PageAndTotal
    <3> QED
      BY <2>1, <3>1, <3>2 DEF PageAgreesWithTotal
  <2> QED
    BY <2>2, <2>3, <2>4, <2>5 DEF IInv
<1> QED
  BY <1>2, <1>3 DEF CountItems

(* What an insertion or a deletion leaves as it was.                       *)
LEMMA NotedKeeps ==
  ASSUME IInv, NEW d \in Documents, NEW field \in {"appeared", "went"}, Noted(d, field),
         UNCHANGED <<cancelled, request, reading, gone>>
  PROVE  /\ between' \in [appeared : SUBSET Documents, went : SUBSET Documents]
         /\ walk' \in NewWalk
         /\ PageShowsLive' /\ PageAgreesWithTotal'
<1>1. between' \in [appeared : SUBSET Documents, went : SUBSET Documents]
  BY DEF IInv, TypeOK, Noted
<1>2. walk' \in NewWalk
  BY DEF IInv, TypeOK, NewWalk, Noted
<1>3. PageShowsLive'
  BY DEF IInv, PageShowsLive, InScope, May, request, reading
<1>4. PageAgreesWithTotal'
  <2>1. UNCHANGED <<page, size, step, items, total, answer>> /\ Fits' = Fits
    BY DEF request, reading, Fits
  <2>2. step = "idle" => between' = between
    BY DEF Noted
  <2> QED
    BY <2>1, <2>2 DEF IInv, PageAgreesWithTotal
<1> QED
  BY <1>1, <1>2, <1>3, <1>4

LEMMA InsertKeeps ==
  ASSUME IInv, NEW d \in Documents, Insert(d)
  PROVE  IInv'
<1>1. /\ Noted(d, "appeared")
      /\ UNCHANGED <<cancelled, request, reading, gone>>
      /\ status' = [status EXCEPT ![d] = "pending"] /\ deleted' = deleted
  BY DEF Insert, CreateDocument, Applied
<1>2. /\ between' \in [appeared : SUBSET Documents, went : SUBSET Documents]
      /\ walk' \in NewWalk
      /\ PageShowsLive' /\ PageAgreesWithTotal'
  BY <1>1, NotedKeeps
<1>3. TypeOK'
  <2>1. TableTypeOK'
    BY <1>1 DEF IInv, TypeOK, TableTypeOK, Status
  <2> QED
    BY <1>1, <1>2, <2>1 DEF IInv, TypeOK, request, reading
<1>4. StaysGone'
  BY <1>1 DEF IInv, StaysGone
<1>5. Drifted'
  <2> SUFFICES ASSUME step = "count", Fits
               PROVE  \E seen \in SUBSET Documents :
                        /\ items' = SliceOf(seen, (page' - 1) * size', size')
                        /\ seen \ between'.went \subseteq Visible'
                        /\ Visible' \subseteq seen \cup between'.appeared
    BY <1>1 DEF Drifted, Fits, request, reading
  <2>1. PICK seen \in SUBSET Documents :
          /\ items = SliceOf(seen, (page - 1) * size, size)
          /\ seen \ between.went \subseteq Visible
          /\ Visible \subseteq seen \cup between.appeared
    BY DEF IInv, Drifted
  <2>2. items' = SliceOf(seen, (page' - 1) * size', size')
    BY <1>1, <2>1 DEF request, reading
  <2>3. /\ between'.went = between.went
        /\ between'.appeared = IF InScope(d) THEN between.appeared \cup {d} ELSE between.appeared
    <3>1. between' = IF InScope(d)
                       THEN [between EXCEPT !["appeared"] = between["appeared"] \cup {d}]
                       ELSE between
      BY <1>1 DEF Noted
    <3>2. between \in [appeared : SUBSET Documents, went : SUBSET Documents]
      BY DEF IInv, TypeOK
    <3> QED
      BY <3>1, <3>2
  <2>4. /\ Visible \subseteq Visible'
        /\ \A e \in Visible' : e \in Visible \/ (e = d /\ InScope(d))
    BY <1>1 DEF IInv, TypeOK, TableTypeOK, Visible, Live, InScope, May, request
  <2>5. seen \ between'.went \subseteq Visible'
    BY <2>1, <2>3, <2>4
  <2>6. Visible' \subseteq seen \cup between'.appeared
    <3> SUFFICES ASSUME NEW e \in Visible' PROVE e \in seen \cup between'.appeared
      OBVIOUS
    <3>1. CASE e \in Visible
      BY <2>1, <2>3, <3>1
    <3>2. CASE e = d /\ InScope(d)
      BY <2>3, <3>2
    <3> QED
      BY <2>4, <3>1, <3>2
  <2> QED
    BY <2>2, <2>5, <2>6
<1> QED
  BY <1>2, <1>3, <1>4, <1>5 DEF IInv

LEMMA DeleteKeeps ==
  ASSUME IInv, NEW d \in Documents, Delete(d)
  PROVE  IInv'
<1>1. /\ Noted(d, "went")
      /\ UNCHANGED <<cancelled, request, reading, gone>>
      /\ deleted' = deleted \cup {d} /\ status' = status
  BY DEF Delete, SoftDeleteDocument
<1>2. /\ between' \in [appeared : SUBSET Documents, went : SUBSET Documents]
      /\ walk' \in NewWalk
      /\ PageShowsLive' /\ PageAgreesWithTotal'
  BY <1>1, NotedKeeps
<1>3. TypeOK'
  <2>1. TableTypeOK'
    BY <1>1 DEF IInv, TypeOK, TableTypeOK
  <2> QED
    BY <1>1, <1>2, <2>1 DEF IInv, TypeOK, request, reading
<1>4. StaysGone'
  BY <1>1 DEF IInv, StaysGone
<1>5. Drifted'
  <2> SUFFICES ASSUME step = "count", Fits
               PROVE  \E seen \in SUBSET Documents :
                        /\ items' = SliceOf(seen, (page' - 1) * size', size')
                        /\ seen \ between'.went \subseteq Visible'
                        /\ Visible' \subseteq seen \cup between'.appeared
    BY <1>1 DEF Drifted, Fits, request, reading
  <2>1. PICK seen \in SUBSET Documents :
          /\ items = SliceOf(seen, (page - 1) * size, size)
          /\ seen \ between.went \subseteq Visible
          /\ Visible \subseteq seen \cup between.appeared
    BY DEF IInv, Drifted
  <2>2. items' = SliceOf(seen, (page' - 1) * size', size')
    BY <1>1, <2>1 DEF request, reading
  <2>3. /\ between'.appeared = between.appeared
        /\ between'.went = IF InScope(d) THEN between.went \cup {d} ELSE between.went
    <3>1. between' = IF InScope(d)
                       THEN [between EXCEPT !["went"] = between["went"] \cup {d}]
                       ELSE between
      BY <1>1 DEF Noted
    <3>2. between \in [appeared : SUBSET Documents, went : SUBSET Documents]
      BY DEF IInv, TypeOK
    <3> QED
      BY <3>1, <3>2
  <2>4. /\ Visible' \subseteq Visible
        /\ \A e \in Visible : e \in Visible' \/ (e = d /\ InScope(d))
    BY <1>1 DEF Visible, Live, InScope, May, request
  <2>5. Visible' \subseteq seen \cup between'.appeared
    BY <2>1, <2>3, <2>4
  <2>6. seen \ between'.went \subseteq Visible'
    <3> SUFFICES ASSUME NEW e \in seen \ between'.went PROVE e \in Visible'
      OBVIOUS
    <3>1. e \in Visible /\ ~(e = d /\ InScope(d))
      BY <2>1, <2>3
    <3> QED
      BY <2>4, <3>1
  <2> QED
    BY <2>2, <2>5, <2>6
<1> QED
  BY <1>2, <1>3, <1>4, <1>5 DEF IInv

-----------------------------------------------------------------------------
(* The strengthened invariant holds in every state of a listing.           *)
THEOREM ListingInvariance == Spec => []IInv
<1>1. Init => IInv
  BY Initially
<1>2. IInv /\ [Next]_vars => IInv'
  <2> SUFFICES ASSUME IInv, [Next]_vars PROVE IInv'
    OBVIOUS
  <2>1. CASE BadRequest
    BY <2>1, BadRequestKeeps
  <2>2. CASE Ask
    BY <2>2, AskKeeps
  <2>3. CASE SelectItems
    BY <2>3, SelectItemsKeeps
  <2>4. CASE CountItems
    BY <2>4, CountItemsKeeps
  <2>5. ASSUME NEW d \in Documents, Insert(d) PROVE IInv'
    BY <2>5, InsertKeeps
  <2>6. ASSUME NEW d \in Documents, Delete(d) PROVE IInv'
    BY <2>6, DeleteKeeps
  <2>7. CASE UNCHANGED vars
    <3>1. TypeOK' /\ StaysGone' /\ PageShowsLive'
      BY <2>7 DEF vars, tableVars, request, reading, IInv, TypeOK, TableTypeOK, StaysGone,
                  PageShowsLive, InScope, May
    <3>2. Visible' = Visible /\ Fits' = Fits
      BY <2>7 DEF vars, tableVars, request, Visible, InScope, May, Live, Fits
    <3>3. Drifted'
      BY <2>7, <3>2 DEF vars, request, reading, IInv, Drifted
    <3>4. PageAgreesWithTotal'
      BY <2>7, <3>2 DEF vars, request, reading, IInv, PageAgreesWithTotal
    <3> QED
      BY <3>1, <3>3, <3>4 DEF IInv
  <2> QED
    BY <2>1, <2>2, <2>3, <2>4, <2>5, <2>6, <2>7 DEF Next
<1> QED
  BY <1>1, <1>2, PTL DEF Spec

(* Every variable has its type; a page has no more rows than its size.     *)
THEOREM ListingTypeCorrect == Spec => []TypeOK
<1>1. IInv => TypeOK
  BY DEF IInv
<1> QED
  BY <1>1, ListingInvariance, PTL

(* A page shows rows the actor may see and none that was deleted before it *)
(* was asked for.                                                          *)
THEOREM NothingDeletedIsShown == Spec => []PageShowsLive
<1>1. IInv => PageShowsLive
  BY DEF IInv
<1> QED
  BY <1>1, ListingInvariance, PTL

(* A page and its total disagree by no more than what changed between the  *)
(* two statements, however many documents there are.                       *)
THEOREM PageAndTotalAgree == Spec => []PageAgreesWithTotal
<1>1. IInv => PageAgreesWithTotal
  BY DEF IInv
<1> QED
  BY <1>1, ListingInvariance, PTL

-----------------------------------------------------------------------------
(* What an insertion or a deletion does to the ranks of the other rows:    *)
(* those below it move by one place.                                       *)
LEMMA RanksMoveByOne ==
  ASSUME NEW V \in SUBSET Nat, IsFiniteSet(V), NEW d \in Nat
  PROVE  \A x : /\ RankIn(V, x) \in Nat /\ RankIn(V \cup {d}, x) \in Nat
                /\ RankIn(V, x) <= RankIn(V \cup {d}, x)
                /\ RankIn(V \cup {d}, x) <= RankIn(V, x) + 1
<1> SUFFICES ASSUME NEW x
             PROVE  /\ RankIn(V, x) \in Nat /\ RankIn(V \cup {d}, x) \in Nat
                    /\ RankIn(V, x) <= RankIn(V \cup {d}, x)
                    /\ RankIn(V \cup {d}, x) <= RankIn(V, x) + 1
  OBVIOUS
<1>1. IsFiniteSet(V \cup {d})
  BY FS_AddElement
<1>2. /\ IsFiniteSet(UpFrom(V, x)) /\ RankIn(V, x) \in Nat
      /\ IsFiniteSet(UpFrom(V \cup {d}, x)) /\ RankIn(V \cup {d}, x) \in Nat
  BY <1>1, Counts
<1>3. UpFrom(V, x) \in SUBSET UpFrom(V \cup {d}, x)
  BY DEF UpFrom
<1>4. RankIn(V, x) <= RankIn(V \cup {d}, x)
  BY <1>2, <1>3, FS_Subset DEF RankIn
<1>5. UpFrom(V \cup {d}, x) \in SUBSET (UpFrom(V, x) \cup {d})
  BY DEF UpFrom
<1>6. /\ IsFiniteSet(UpFrom(V, x) \cup {d})
      /\ \/ Cardinality(UpFrom(V, x) \cup {d}) = Cardinality(UpFrom(V, x))
         \/ Cardinality(UpFrom(V, x) \cup {d}) = Cardinality(UpFrom(V, x)) + 1
  BY <1>2, FS_AddElement
<1>7. Cardinality(UpFrom(V \cup {d}, x)) <= Cardinality(UpFrom(V, x) \cup {d})
  BY <1>5, <1>6, FS_Subset
<1> QED
  BY <1>2, <1>4, <1>6, <1>7 DEF RankIn

LEMMA UnionBound ==
  ASSUME NEW X, NEW Y, NEW Z, IsFiniteSet(Y), IsFiniteSet(Z), X \subseteq Y \cup Z
  PROVE  /\ IsFiniteSet(X)
         /\ Cardinality(X) \in Nat /\ Cardinality(Y) \in Nat /\ Cardinality(Z) \in Nat
         /\ Cardinality(X) <= Cardinality(Y) + Cardinality(Z)
<1>1. Cardinality(Y \cup Z) = Cardinality(Y) + Cardinality(Z) - Cardinality(Y \cap Z)
  BY FS_Union
<1>2. IsFiniteSet(Y \cup Z) /\ IsFiniteSet(Y \cap Z)
  BY FS_Union, FS_Subset
<1>3. IsFiniteSet(X) /\ Cardinality(X) <= Cardinality(Y \cup Z)
  BY <1>2, FS_Subset
<1>4. /\ Cardinality(X) \in Nat /\ Cardinality(Y) \in Nat /\ Cardinality(Z) \in Nat
      /\ Cardinality(Y \cap Z) \in Nat
  BY <1>2, <1>3, FS_CardinalityType
<1> QED
  BY <1>1, <1>3, <1>4

(* The rows of X among the first a rows of V, and behind them.             *)
Before(V, X, a) == {x \in X : RankIn(V, x) <= a}

Beyond(V, X, a) == {x \in X \cap V : RankIn(V, x) > a}

(* A deletion brings at most one more row before a place.                  *)
LEMMA DeletionShifts ==
  ASSUME NEW V \in SUBSET Nat, IsFiniteSet(V), NEW d \in V, NEW a \in Nat,
         NEW X \in SUBSET (V \ {d})
  PROVE  /\ IsFiniteSet(Before(V \ {d}, X, a))
         /\ Cardinality(Before(V \ {d}, X, a)) \in Nat
         /\ Cardinality(Before(V, X, a)) \in Nat
         /\ Cardinality(Before(V \ {d}, X, a)) <= Cardinality(Before(V, X, a)) + 1
<1> DEFINE W == V \ {d}
<1>1. /\ W \in SUBSET Nat /\ IsFiniteSet(W) /\ d \in Nat /\ W \cup {d} = V
  BY FS_Subset
<1>2. /\ IsFiniteSet(SliceOf(V, a, 1)) /\ Cardinality(SliceOf(V, a, 1)) \in Nat
      /\ Cardinality(SliceOf(V, a, 1)) <= 1
  BY Width
<1>3. IsFiniteSet(Before(V, X, a))
  BY FS_Subset DEF Before
<1>4. Before(W, X, a) \subseteq Before(V, X, a) \cup SliceOf(V, a, 1)
  <2> HIDE DEF W
  <2> SUFFICES ASSUME NEW x \in X, RankIn(W, x) <= a
               PROVE  x \in Before(V, X, a) \cup SliceOf(V, a, 1)
    BY DEF Before
  <2>1. RankIn(V, x) \in Nat /\ RankIn(W, x) \in Nat /\ RankIn(V, x) <= RankIn(W, x) + 1
    BY <1>1, RanksMoveByOne
  <2>2. x \in V
    OBVIOUS
  <2> QED
    BY <2>1, <2>2 DEF SliceOf, Before
<1> HIDE DEF W
<1>5. /\ IsFiniteSet(Before(W, X, a))
      /\ Cardinality(Before(W, X, a)) \in Nat /\ Cardinality(Before(V, X, a)) \in Nat
      /\ Cardinality(Before(W, X, a))
           <= Cardinality(Before(V, X, a)) + Cardinality(SliceOf(V, a, 1))
  BY <1>2, <1>3, <1>4, UnionBound
<1> QED
  BY <1>2, <1>5 DEF W

(* An insertion pushes at most one more row behind a place.                *)
LEMMA InsertionShifts ==
  ASSUME NEW V \in SUBSET Nat, IsFiniteSet(V), NEW d \in Nat, NEW a \in Nat,
         NEW X, d \notin X
  PROVE  /\ IsFiniteSet(Beyond(V \cup {d}, X, a))
         /\ Cardinality(Beyond(V \cup {d}, X, a)) \in Nat
         /\ Cardinality(Beyond(V, X, a)) \in Nat
         /\ Cardinality(Beyond(V \cup {d}, X, a)) <= Cardinality(Beyond(V, X, a)) + 1
<1> DEFINE W == V \cup {d}
<1>1. W \in SUBSET Nat /\ IsFiniteSet(W)
  BY FS_AddElement
<1>2. /\ IsFiniteSet(SliceOf(W, a, 1)) /\ Cardinality(SliceOf(W, a, 1)) \in Nat
      /\ Cardinality(SliceOf(W, a, 1)) <= 1
  BY <1>1, Width
<1>3. IsFiniteSet(Beyond(V, X, a))
  BY FS_Subset DEF Beyond
<1>4. Beyond(W, X, a) \subseteq Beyond(V, X, a) \cup SliceOf(W, a, 1)
  <2> SUFFICES ASSUME NEW x \in X \cap V, RankIn(W, x) > a, ~(RankIn(V, x) > a)
               PROVE  x \in SliceOf(W, a, 1)
    BY DEF Beyond
  <2>1. RankIn(V, x) \in Nat /\ RankIn(W, x) \in Nat /\ RankIn(W, x) <= RankIn(V, x) + 1
    BY RanksMoveByOne
  <2> QED
    BY <2>1 DEF SliceOf
<1> QED
  BY <1>2, <1>3, <1>4, UnionBound

(* Reading the next page leaves no more rows skipped than were before it,  *)
(* and none behind a page that is not full.                                *)
LEMMA PageSkipsNothing ==
  ASSUME NEW V \in SUBSET Nat, IsFiniteSet(V), NEW a \in Nat, NEW n \in Nat,
         NEW X \in SUBSET V
  PROVE  LET S == SliceOf(V, a, n)
         IN  /\ Before(V, X \ S, a + n) \subseteq Before(V, X, a)
             /\ Cardinality(S) < n => X \ S \subseteq Before(V, X, a)
<1> DEFINE S == SliceOf(V, a, n)
<1>1. ASSUME NEW x \in X \ S, RankIn(V, x) <= a + n
      PROVE  x \in Before(V, X, a)
  <2>1. RankIn(V, x) \in Nat
    BY Counts
  <2> QED
    BY <1>1, <2>1 DEF SliceOf, Before
<1>2. ASSUME Cardinality(S) < n, NEW x \in X \ S
      PROVE  RankIn(V, x) <= a + n
  <2>1. Cardinality(V) <= a + Cardinality(S) /\ Cardinality(S) \in Nat
    BY <1>2, ShortPageIsLast, Width
  <2>2. UpFrom(V, x) \in SUBSET V
    BY DEF UpFrom
  <2>3. /\ RankIn(V, x) <= Cardinality(V) /\ Cardinality(V) \in Nat
        /\ RankIn(V, x) \in Nat
    BY <2>2, Counts, FS_Subset, FS_CardinalityType DEF RankIn
  <2> QED
    BY <1>2, <2>1, <2>3
<1> QED
  BY <1>1, <1>2 DEF Before

(* The rows a page shows again are rows that lay behind the page before.   *)
LEMMA PageRepeatsWhatLayBehind ==
  ASSUME NEW V \in SUBSET Nat, IsFiniteSet(V), NEW a \in Nat, NEW n \in Nat,
         NEW X, NEW Y, IsFiniteSet(Y)
  PROVE  LET S == SliceOf(V, a, n)
             again == Y \cup (X \cap S)
             behind == Beyond(V, X \cup S, a + n)
         IN  /\ Cardinality(again) \in Nat /\ Cardinality(behind) \in Nat
             /\ Cardinality(Y) \in Nat /\ Cardinality(Beyond(V, X, a)) \in Nat
             /\ Cardinality(again) + Cardinality(behind)
                  <= Cardinality(Y) + Cardinality(Beyond(V, X, a))
<1> DEFINE S == SliceOf(V, a, n)
           again == Y \cup (X \cap S)
           behind == Beyond(V, X \cup S, a + n)
           both == (X \cap S) \cup behind
<1>1. \A x : RankIn(V, x) \in Nat
  BY Counts
<1>2. IsFiniteSet(Beyond(V, X, a)) /\ IsFiniteSet(X \cap S) /\ IsFiniteSet(behind)
  <2>1. Beyond(V, X, a) \in SUBSET V /\ X \cap S \in SUBSET V /\ behind \in SUBSET V
    BY DEF Beyond, SliceOf
  <2> QED
    BY <2>1, FS_Subset
<1>3. both \in SUBSET Beyond(V, X, a) /\ (X \cap S) \cap behind = {}
  <2>1. ASSUME NEW x \in X \cap S PROVE x \in Beyond(V, X, a) /\ x \notin behind
    <3>1. x \in V /\ RankIn(V, x) > a /\ RankIn(V, x) <= a + n
      BY DEF SliceOf
    <3> QED
      BY <1>1, <3>1 DEF Beyond
  <2>2. ASSUME NEW x \in behind PROVE x \in Beyond(V, X, a)
    <3>1. x \in V /\ RankIn(V, x) > a + n /\ (x \in X \/ x \in S)
      BY DEF Beyond
    <3>2. RankIn(V, x) > a /\ x \notin S
      BY <1>1, <3>1 DEF SliceOf
    <3> QED
      BY <3>1, <3>2 DEF Beyond
  <2> QED
    BY <2>1, <2>2
<1>4. /\ Cardinality(again) \in Nat /\ Cardinality(Y) \in Nat /\ Cardinality(X \cap S) \in Nat
      /\ Cardinality(again) <= Cardinality(Y) + Cardinality(X \cap S)
  BY <1>2, UnionBound
<1>5. Cardinality(both) = Cardinality(X \cap S) + Cardinality(behind)
  <2>1. Cardinality(both)
          = Cardinality(X \cap S) + Cardinality(behind) - Cardinality((X \cap S) \cap behind)
    BY <1>2, FS_Union
  <2>2. Cardinality((X \cap S) \cap behind) = 0
    BY <1>3, FS_EmptySet
  <2>3. Cardinality(X \cap S) \in Nat /\ Cardinality(behind) \in Nat
    BY <1>2, FS_CardinalityType
  <2> QED
    BY <2>1, <2>2, <2>3
<1>6. Cardinality(both) <= Cardinality(Beyond(V, X, a))
  BY <1>2, <1>3, FS_Subset
<1>7. Cardinality(behind) \in Nat /\ Cardinality(Beyond(V, X, a)) \in Nat
  BY <1>2, FS_CardinalityType
<1> QED
  BY <1>4, <1>5, <1>6, <1>7

-----------------------------------------------------------------------------
(* What a walk has shown, and shown twice, a page that waits for its total *)
(* included; and how many rows its pages so far have come to.              *)
Shown == IF step = "count" THEN walk.seen \cup items ELSE walk.seen

Repeated ==
  IF step = "count" THEN walk.again \cup (walk.seen \cap items) ELSE walk.again

Frontier == IF step = "select" THEN (page - 1) * size ELSE page * size

WalkHistory ==
  /\ walk.owed \subseteq Visible
  /\ \A d \in walk.seen \cup items : status[d] # "none"
  /\ \A d \in walk.appeared : status[d] # "none"
  /\ walk.went \subseteq deleted

(* What the walk owes and has not shown lies behind it, but for one row    *)
(* for each that went; after a short page there is nothing behind it.      *)
FewSkipped ==
  /\ Cardinality(Before(Visible, walk.owed \ Shown, Frontier)) <= Cardinality(walk.went)
  /\ step \in {"count", "idle"} /\ Cardinality(items) < size =>
       Cardinality(walk.owed \ Shown) <= Cardinality(walk.went)

(* What it has shown does not lie behind it, but for one row for each that *)
(* appeared, whether that row was shown again already or not.              *)
FewRepeated ==
  Cardinality(Repeated) + Cardinality(Beyond(Visible, Shown, Frontier))
    <= Cardinality(walk.appeared)

WalkInv == walk.on => WalkHistory /\ (Fits => FewSkipped /\ FewRepeated)

LEMMA WalkTypes ==
  ASSUME TypeOK
  PROVE  /\ walk.on \in BOOLEAN
         /\ walk.owed \in SUBSET Documents /\ walk.seen \in SUBSET Documents
         /\ walk.again \in SUBSET Documents /\ walk.appeared \in SUBSET Documents
         /\ walk.went \in SUBSET Documents /\ items \in SUBSET Documents
         /\ Shown \in SUBSET Documents /\ Repeated \in SUBSET Documents
         /\ Frontier \in Nat
<1>1. /\ walk.on \in BOOLEAN
      /\ walk.owed \in SUBSET Documents /\ walk.seen \in SUBSET Documents
      /\ walk.again \in SUBSET Documents /\ walk.appeared \in SUBSET Documents
      /\ walk.went \in SUBSET Documents /\ items \in SUBSET Documents
  BY DEF TypeOK, NewWalk
<1>2. page \in Nat /\ page - 1 \in Nat /\ size \in Nat
  BY ListingAssumption DEF TypeOK
<1>3. ASSUME NEW i \in Nat, NEW j \in Nat
      PROVE  i * j \in Nat
  BY Z3
<1> QED
  BY <1>1, <1>2, <1>3 DEF Shown, Repeated, Frontier

LEMMA FiniteDocuments ==
  \A X \in SUBSET Documents : IsFiniteSet(X) /\ Cardinality(X) \in Nat /\ X \in SUBSET Nat
  BY ListingAssumption, FS_Subset, FS_CardinalityType

LEMMA PlacesOfPages ==
  ASSUME TypeOK
  PROVE  (page - 1) * size + size = page * size /\ size \in Nat /\ page * size \in Nat
<1>1. ASSUME NEW i \in Nat, NEW j \in Nat
      PROVE  (i - 1) * j + j = i * j /\ i * j \in Nat
  BY Z3
<1> QED
  BY <1>1, ListingAssumption DEF TypeOK

(* The first page begins a walk, and the page after a full one goes on.    *)
LEMMA AskWalks ==
  ASSUME IInv, IInv', WalkInv, Ask
  PROVE  WalkInv'
<1>1. /\ step = "idle" /\ step' = "select" /\ items' = {}
      /\ UNCHANGED <<status, deleted, actor>>
  BY DEF Ask, tableVars
<1>2. Visible' = Visible /\ Visible \in SUBSET Documents
  BY <1>1 DEF Visible, InScope, May, Live
<1>3. Shown' = walk'.seen /\ Repeated' = walk'.again /\ Frontier' = (page' - 1) * size'
  BY <1>1 DEF Shown, Repeated, Frontier
<1>4. CASE page' = 1 /\ walk' = [NoWalk EXCEPT !.on = TRUE, !.owed = Visible]
  <2>1. /\ walk'.owed = Visible /\ walk'.seen = {} /\ walk'.again = {}
        /\ walk'.appeared = {} /\ walk'.went = {}
    BY <1>4 DEF NoWalk
  <2>2. WalkHistory'
    BY <1>1, <1>2, <2>1 DEF WalkHistory
  <2>3. Frontier' = 0
    <3>1. size' \in Nat
      BY ListingAssumption DEF IInv, TypeOK
    <3> QED
      BY <1>3, <1>4, <3>1
  <2>4. Cardinality({}) = 0
    BY FS_EmptySet
  <2>5. FewSkipped'
    <3>1. Before(Visible, Visible, 0) = {}
      <4>1. \A x \in Visible : RankIn(Visible, x) \in Nat /\ RankIn(Visible, x) > 0
        BY VisibleRows, Counts
      <4> QED
        BY <4>1 DEF Before
    <3>2. Before(Visible', walk'.owed \ Shown', Frontier') = {}
      BY <1>2, <1>3, <2>1, <2>3, <3>1
    <3> QED
      BY <1>1, <2>1, <2>4, <3>2 DEF FewSkipped
  <2>6. FewRepeated'
    <3>1. Beyond(Visible', Shown', Frontier') = {} /\ Repeated' = {}
      BY <1>3, <2>1 DEF Beyond
    <3> QED
      BY <2>1, <2>4, <3>1 DEF FewRepeated
  <2> QED
    BY <2>2, <2>5, <2>6 DEF WalkInv
<1>5. CASE page' = page + 1 /\ size' = size /\ walk' = walk
  <2>1. /\ (page' - 1) * size' = page * size
        /\ (page - 1) * size + size = page * size
        /\ (page - 1) * size \in Nat /\ size \in Nat
    BY <1>5, PlacesOfPages, Offsets DEF IInv, TypeOK
  <2>2. Fits' => Fits
    BY <2>1, Int32LimitAssumption DEF Fits
  <2>3. Shown' = Shown /\ Repeated' = Repeated /\ Frontier' = Frontier
    BY <1>1, <1>3, <1>5, <2>1 DEF Shown, Repeated, Frontier
  <2>4. ASSUME walk.on PROVE WalkHistory'
    BY <1>1, <1>2, <1>5, <2>4 DEF WalkInv, WalkHistory
  <2>5. ASSUME walk.on, Fits PROVE FewSkipped'
    BY <1>1, <1>2, <1>5, <2>3, <2>5 DEF WalkInv, FewSkipped
  <2>6. ASSUME walk.on, Fits PROVE FewRepeated'
    BY <1>2, <1>5, <2>3, <2>6 DEF WalkInv, FewRepeated
  <2> QED
    BY <1>5, <2>2, <2>4, <2>5, <2>6 DEF WalkInv
<1>6. CASE walk' = NoWalk
  BY <1>6 DEF WalkInv, NoWalk
<1> QED
  BY <1>4, <1>5, <1>6 DEF Ask

LEMMA SelectItemsWalks ==
  ASSUME IInv, IInv', WalkInv, SelectItems
  PROVE  WalkInv'
<1>1. step = "select" /\ UNCHANGED <<status, deleted, actor, page, size>>
  BY DEF SelectItems, tableVars, request
<1>2. CASE Fail
  BY <1>2 DEF Fail, NoWalk, WalkInv
<1>3. CASE items' = Slice(Offset) /\ step' = "count" /\ walk' = walk
  <2>1. Visible' = Visible /\ Visible \in SUBSET Documents /\ Fits' = Fits
    BY <1>1 DEF Visible, InScope, May, Live, Fits
  <2>2. items' = SliceOf(Visible, Offset, size)
    BY <1>3, VisibleRows
  <2>3. ASSUME walk.on PROVE WalkHistory'
    <3>1. \A d \in items' : status[d] # "none"
      BY <2>2 DEF SliceOf, Visible, Live
    <3> QED
      BY <1>1, <1>3, <2>1, <2>3, <3>1 DEF WalkInv, WalkHistory
  <2> DEFINE a == (page - 1) * size
             S == SliceOf(Visible, a, size)
  <2>4. /\ a \in Nat /\ size \in Nat /\ page * size = a + size
        /\ Fits => Offset = a
    BY PlacesOfPages, Offsets DEF IInv
  <2> HIDE DEF a
  <2>5. /\ Shown = walk.seen /\ Repeated = walk.again /\ Frontier = a
        /\ Shown' = walk.seen \cup items' /\ Repeated' = walk.again \cup (walk.seen \cap items')
        /\ Frontier' = a + size
    BY <1>1, <1>3, <2>4 DEF Shown, Repeated, Frontier, a
  <2>6. ASSUME walk.on, Fits PROVE FewSkipped'
    <3> DEFINE X == walk.owed \ walk.seen
    <3>1. X \in SUBSET Visible
      BY <2>6 DEF WalkInv, WalkHistory
    <3>2. /\ Before(Visible, X \ S, a + size) \subseteq Before(Visible, X, a)
          /\ Cardinality(S) < size => X \ S \subseteq Before(Visible, X, a)
      BY <2>4, <3>1, PageSkipsNothing, VisibleRows
    <3>3. /\ Cardinality(Before(Visible, X, a)) <= Cardinality(walk.went)
          /\ IsFiniteSet(Before(Visible, X, a))
      <4>1. Cardinality(Before(Visible, X, a)) <= Cardinality(walk.went)
        BY <2>5, <2>6 DEF WalkInv, FewSkipped
      <4>2. Before(Visible, X, a) \in SUBSET Documents
        BY <2>1, <3>1 DEF Before
      <4> QED
        BY <4>1, <4>2, FiniteDocuments
    <3>4. S = items' /\ walk'.owed \ Shown' = X \ S
      BY <1>3, <2>2, <2>4, <2>5, <2>6
    <3>5. \A Y \in SUBSET Before(Visible, X, a) : Cardinality(Y) <= Cardinality(walk.went)
      <4> SUFFICES ASSUME NEW Y \in SUBSET Before(Visible, X, a)
                   PROVE  Cardinality(Y) <= Cardinality(walk.went)
        OBVIOUS
      <4>1. /\ Cardinality(Y) <= Cardinality(Before(Visible, X, a)) /\ Cardinality(Y) \in Nat
            /\ Cardinality(Before(Visible, X, a)) \in Nat
        BY <3>3, FS_Subset, FS_CardinalityType
      <4>2. Cardinality(walk.went) \in Nat
        BY WalkTypes, FiniteDocuments DEF IInv
      <4> QED
        BY <3>3, <4>1, <4>2
    <3>6. Cardinality(Before(Visible', walk'.owed \ Shown', Frontier')) <= Cardinality(walk'.went)
      BY <1>3, <2>1, <2>5, <3>2, <3>4, <3>5
    <3>7. Cardinality(items') < size' => Cardinality(walk'.owed \ Shown') <= Cardinality(walk'.went)
      BY <1>1, <1>3, <3>2, <3>4, <3>5
    <3> QED
      BY <3>6, <3>7 DEF FewSkipped
  <2>7. ASSUME walk.on, Fits PROVE FewRepeated'
    <3> DEFINE again == walk.again \cup (walk.seen \cap S)
               behind == Beyond(Visible, walk.seen \cup S, a + size)
    <3>1. IsFiniteSet(walk.again) /\ Cardinality(walk.appeared) \in Nat
      BY WalkTypes, FiniteDocuments DEF IInv
    <3>2. /\ Cardinality(again) \in Nat /\ Cardinality(behind) \in Nat
          /\ Cardinality(walk.again) \in Nat
          /\ Cardinality(Beyond(Visible, walk.seen, a)) \in Nat
          /\ Cardinality(again) + Cardinality(behind)
               <= Cardinality(walk.again) + Cardinality(Beyond(Visible, walk.seen, a))
      BY <2>4, <3>1, VisibleRows, PageRepeatsWhatLayBehind
    <3>3. Cardinality(walk.again) + Cardinality(Beyond(Visible, walk.seen, a))
            <= Cardinality(walk.appeared)
      BY <2>5, <2>7 DEF WalkInv, FewRepeated
    <3>4. /\ Repeated' = again /\ Beyond(Visible', Shown', Frontier') = behind
          /\ walk'.appeared = walk.appeared
      BY <1>3, <2>1, <2>2, <2>4, <2>5, <2>7
    <3>5. Cardinality(again) + Cardinality(behind) <= Cardinality(walk.appeared)
      <4> HIDE DEF again, behind
      <4> QED
        BY <3>1, <3>2, <3>3
    <3> QED
      BY <3>4, <3>5 DEF FewRepeated
  <2> QED
    BY <1>3, <2>1, <2>3, <2>6, <2>7 DEF WalkInv
<1> QED
  BY <1>2, <1>3 DEF SelectItems

(* The count adds the page to what was shown: nothing else moves.          *)
LEMMA CountItemsWalks ==
  ASSUME IInv, IInv', WalkInv, CountItems
  PROVE  WalkInv'
<1>1. step = "count" /\ UNCHANGED <<status, deleted, actor, page, size>>
  BY DEF CountItems, tableVars, request
<1>2. CASE Fail
  BY <1>2 DEF Fail, NoWalk, WalkInv
<1>3. CASE /\ step' = "idle" /\ items' = items
           /\ walk' = [walk EXCEPT !.seen = @ \cup items, !.again = @ \cup (walk.seen \cap items)]
  <2>1. Visible' = Visible /\ Fits' = Fits
    BY <1>1 DEF Visible, InScope, May, Live, Fits
  <2>2. /\ walk'.on = walk.on /\ walk'.owed = walk.owed /\ walk'.went = walk.went
        /\ walk'.appeared = walk.appeared
        /\ walk'.seen = walk.seen \cup items
        /\ walk'.again = walk.again \cup (walk.seen \cap items)
    BY <1>3 DEF IInv, TypeOK, NewWalk
  <2>3. Shown' = Shown /\ Repeated' = Repeated /\ Frontier' = Frontier
    BY <1>1, <1>3, <2>2 DEF Shown, Repeated, Frontier
  <2>4. ASSUME walk.on PROVE WalkHistory'
    BY <1>1, <1>3, <2>1, <2>2, <2>4 DEF WalkInv, WalkHistory
  <2>5. ASSUME walk.on, Fits PROVE FewSkipped' /\ FewRepeated'
    BY <1>1, <1>3, <2>1, <2>2, <2>3, <2>5 DEF WalkInv, FewSkipped, FewRepeated
  <2> QED
    BY <2>1, <2>2, <2>4, <2>5 DEF WalkInv
<1> QED
  BY <1>2, <1>3 DEF CountItems

LEMMA InsertWalks ==
  ASSUME IInv, IInv', WalkInv, NEW d \in Documents, Insert(d)
  PROVE  WalkInv'
<1>1. /\ UNCHANGED <<deleted, actor, step, page, size, items>>
      /\ status[d] = "none" /\ status' = [status EXCEPT ![d] = "pending"]
  BY DEF Insert, CreateDocument, Applied, request, reading
<1>2. /\ Shown' = (IF step = "count" THEN walk'.seen \cup items ELSE walk'.seen)
      /\ Repeated' = (IF step = "count" THEN walk'.again \cup (walk'.seen \cap items) ELSE walk'.again)
      /\ Frontier' = Frontier /\ Fits' = Fits
  BY <1>1 DEF Shown, Repeated, Frontier, Fits
<1> SUFFICES ASSUME walk'.on PROVE WalkHistory' /\ (Fits => FewSkipped' /\ FewRepeated')
  BY <1>2 DEF WalkInv
<1>3. /\ walk.on
      /\ walk'.owed = walk.owed \ deleted /\ walk'.went = walk.went
      /\ walk'.seen = walk.seen /\ walk'.again = walk.again
      /\ walk'.appeared = IF InScope(d) THEN walk.appeared \cup {d} ELSE walk.appeared
  <2>1. walk.on
    BY DEF Insert, Noted
  <2>2. walk' = [(IF InScope(d)
                    THEN [walk EXCEPT !["appeared"] = walk["appeared"] \cup {d}]
                    ELSE walk) EXCEPT !.owed = @ \ deleted']
    BY <2>1 DEF Insert, Noted
  <2>3. walk \in NewWalk
    BY DEF IInv, TypeOK
  <2> QED
    BY <1>1, <2>1, <2>2, <2>3 DEF NewWalk
<1>4. WalkHistory
  BY <1>3 DEF WalkInv
<1>5. walk'.owed = walk.owed
  BY <1>3, <1>4 DEF WalkHistory, Visible, Live
<1>6. \/ Visible' = Visible
      \/ Visible' = Visible \cup {d} /\ InScope(d)
  BY <1>1 DEF IInv, TypeOK, TableTypeOK, Visible, Live, InScope, May
<1>7. /\ Shown' = Shown /\ Repeated' = Repeated
      /\ Shown \in SUBSET Documents /\ d \notin Shown /\ Frontier \in Nat
      /\ walk.appeared \in SUBSET Documents /\ d \notin walk.appeared
  <2>1. Shown' = Shown /\ Repeated' = Repeated
    BY <1>2, <1>3 DEF Shown, Repeated
  <2>2. d \notin Shown /\ d \notin walk.appeared
    BY <1>1, <1>4 DEF WalkHistory, Shown
  <2> QED
    BY <2>1, <2>2, WalkTypes DEF IInv
<1>8. WalkHistory'
  <2>1. walk'.owed \subseteq Visible'
    BY <1>4, <1>5, <1>6 DEF WalkHistory
  <2>2. \A e \in Documents : status[e] # "none" \/ e = d => status'[e] # "none"
    BY <1>1 DEF IInv, TypeOK, TableTypeOK
  <2>3. /\ \A e \in walk'.seen \cup items' : status'[e] # "none"
        /\ \A e \in walk'.appeared : status'[e] # "none"
    <3>1. /\ walk.seen \cup items \subseteq Documents
          /\ \A e \in walk.appeared : e \in Documents
      BY <1>7, WalkTypes DEF IInv
    <3>2. walk'.appeared \subseteq walk.appeared \cup {d}
      BY <1>3
    <3> QED
      BY <1>1, <1>3, <1>4, <2>2, <3>1, <3>2 DEF WalkHistory
  <2> QED
    BY <1>1, <1>3, <1>4, <2>1, <2>3 DEF WalkHistory
<1>9. ASSUME Fits PROVE FewSkipped'
  <2> DEFINE X == walk.owed \ Shown
  <2>1. FewSkipped
    BY <1>3, <1>9 DEF WalkInv
  <2>2. /\ IsFiniteSet(Before(Visible, X, Frontier))
        /\ Before(Visible', X, Frontier) \in SUBSET Before(Visible, X, Frontier)
    <3>1. Before(Visible, X, Frontier) \in SUBSET Documents
      BY WalkTypes DEF Before, IInv
    <3>2. \A x : /\ RankIn(Visible, x) \in Nat /\ RankIn(Visible', x) \in Nat
                 /\ RankIn(Visible, x) <= RankIn(Visible', x)
      <4>1. d \in Nat /\ Visible \in SUBSET Nat /\ IsFiniteSet(Visible)
        BY ListingAssumption, VisibleRows
      <4>2. CASE Visible' = Visible \cup {d}
        <5>1. \A x : /\ RankIn(Visible, x) \in Nat /\ RankIn(Visible \cup {d}, x) \in Nat
                     /\ RankIn(Visible, x) <= RankIn(Visible \cup {d}, x)
          BY <4>1, RanksMoveByOne
        <5> QED
          BY <4>2, <5>1
      <4>3. CASE Visible' = Visible
        BY <4>1, <4>3, Counts
      <4> QED
        BY <1>6, <4>2, <4>3
    <3> QED
      BY <1>7, <3>1, <3>2, FiniteDocuments DEF Before
  <2>3. Cardinality(Before(Visible', X, Frontier)) <= Cardinality(walk.went)
    <3>1. /\ Cardinality(Before(Visible', X, Frontier)) <= Cardinality(Before(Visible, X, Frontier))
          /\ Cardinality(Before(Visible', X, Frontier)) \in Nat
          /\ Cardinality(Before(Visible, X, Frontier)) \in Nat
      BY <2>2, FS_Subset, FS_CardinalityType
    <3>2. Cardinality(walk.went) \in Nat
      BY WalkTypes, FiniteDocuments DEF IInv
    <3> QED
      BY <2>1, <3>1, <3>2 DEF FewSkipped
  <2> QED
    BY <1>1, <1>2, <1>3, <1>5, <1>7, <2>1, <2>3 DEF FewSkipped
<1>10. ASSUME Fits PROVE FewRepeated'
  <2>1. FewRepeated
    BY <1>3, <1>10 DEF WalkInv
  <2>2. /\ Cardinality(walk.appeared) \in Nat /\ Cardinality(Repeated) \in Nat
        /\ Cardinality(walk.appeared \cup {d}) = Cardinality(walk.appeared) + 1
    <3>1. IsFiniteSet(walk.appeared) /\ Cardinality(Repeated) \in Nat
      BY <1>7, WalkTypes, FiniteDocuments DEF IInv
    <3> QED
      BY <1>7, <3>1, FS_AddElement, FS_CardinalityType
  <2>3. CASE Visible' = Visible \cup {d} /\ InScope(d)
    <3>1. /\ Cardinality(Beyond(Visible', Shown, Frontier))
               <= Cardinality(Beyond(Visible, Shown, Frontier)) + 1
          /\ Cardinality(Beyond(Visible', Shown, Frontier)) \in Nat
          /\ Cardinality(Beyond(Visible, Shown, Frontier)) \in Nat
      <4>1. d \in Nat
        BY ListingAssumption
      <4> QED
        BY <1>7, <2>3, <4>1, InsertionShifts, VisibleRows
    <3>2. walk'.appeared = walk.appeared \cup {d}
      BY <1>3, <2>3
    <3>3. Cardinality(Repeated) + Cardinality(Beyond(Visible', Shown, Frontier))
            <= Cardinality(walk'.appeared)
      BY <2>1, <2>2, <3>1, <3>2 DEF FewRepeated
    <3> QED
      BY <1>2, <1>7, <3>3 DEF FewRepeated
  <2>4. CASE Visible' = Visible
    <3>1. Cardinality(walk.appeared) <= Cardinality(walk'.appeared)
      BY <1>3, <2>2
    <3>2. Cardinality(Beyond(Visible, Shown, Frontier)) \in Nat
      <4>1. Beyond(Visible, Shown, Frontier) \in SUBSET Documents
        BY <1>7 DEF Beyond
      <4> QED
        BY <4>1, FiniteDocuments
    <3>3. Cardinality(walk'.appeared) \in Nat
      BY <1>3, <2>2
    <3>4. Cardinality(Repeated) + Cardinality(Beyond(Visible', Shown, Frontier))
            <= Cardinality(walk'.appeared)
      BY <2>1, <2>2, <2>4, <3>1, <3>2, <3>3 DEF FewRepeated
    <3> QED
      BY <1>2, <1>7, <3>4 DEF FewRepeated
  <2> QED
    BY <1>6, <2>3, <2>4
<1> QED
  BY <1>8, <1>9, <1>10

LEMMA DeleteWalks ==
  ASSUME IInv, IInv', WalkInv, NEW d \in Documents, Delete(d)
  PROVE  WalkInv'
<1>1. /\ UNCHANGED <<status, actor, step, page, size, items>>
      /\ Live(d) /\ d \notin deleted /\ deleted' = deleted \cup {d}
  BY DEF Delete, SoftDeleteDocument, request, reading, Live
<1>2. Frontier' = Frontier /\ Fits' = Fits
  BY <1>1 DEF Frontier, Fits
<1> SUFFICES ASSUME walk'.on PROVE WalkHistory' /\ (Fits => FewSkipped' /\ FewRepeated')
  BY <1>2 DEF WalkInv
<1>3. /\ walk.on
      /\ walk'.owed = walk.owed \ deleted'
      /\ walk'.seen = walk.seen /\ walk'.again = walk.again /\ walk'.appeared = walk.appeared
      /\ walk'.went = IF InScope(d) THEN walk.went \cup {d} ELSE walk.went
  <2>1. walk.on
    BY DEF Delete, Noted
  <2>2. walk' = [(IF InScope(d)
                    THEN [walk EXCEPT !["went"] = walk["went"] \cup {d}]
                    ELSE walk) EXCEPT !.owed = @ \ deleted']
    BY <2>1 DEF Delete, Noted
  <2>3. walk \in NewWalk
    BY DEF IInv, TypeOK
  <2> QED
    BY <2>1, <2>2, <2>3 DEF NewWalk
<1>4. WalkHistory
  BY <1>3 DEF WalkInv
<1>5. walk'.owed = walk.owed \ {d}
  BY <1>1, <1>3, <1>4 DEF WalkHistory, Visible, Live
<1>6. Visible' = IF InScope(d) THEN Visible \ {d} ELSE Visible
  BY <1>1 DEF Visible, Live, InScope, May
<1>7. /\ Shown' = Shown /\ Repeated' = Repeated
      /\ Shown \in SUBSET Documents /\ Frontier \in Nat
      /\ InScope(d) => d \in Visible
      /\ Visible \in SUBSET Nat /\ IsFiniteSet(Visible)
  <2>1. Shown' = Shown /\ Repeated' = Repeated
    BY <1>1, <1>3 DEF Shown, Repeated
  <2> QED
    BY <1>1, <2>1, WalkTypes, VisibleRows DEF IInv, Visible
<1>8. WalkHistory'
  <2>1. walk'.owed \subseteq Visible'
    BY <1>4, <1>5, <1>6 DEF WalkHistory
  <2>2. walk'.went \subseteq deleted'
    BY <1>1, <1>3, <1>4 DEF WalkHistory
  <2> QED
    BY <1>1, <1>3, <1>4, <2>1, <2>2 DEF WalkHistory
<1>9. /\ IsFiniteSet(walk.went) /\ Cardinality(walk.went) \in Nat
      /\ Cardinality(walk'.went) \in Nat
      /\ Cardinality(walk'.went) = IF InScope(d) THEN Cardinality(walk.went) + 1
                                                 ELSE Cardinality(walk.went)
  <2>1. IsFiniteSet(walk.went) /\ Cardinality(walk.went) \in Nat
    BY WalkTypes, FiniteDocuments DEF IInv
  <2>2. d \notin walk.went
    BY <1>1, <1>4 DEF WalkHistory
  <2>3. Cardinality(walk.went \cup {d}) = Cardinality(walk.went) + 1
    BY <2>1, <2>2, FS_AddElement
  <2> QED
    BY <1>3, <2>1, <2>3
<1>10. ASSUME Fits PROVE FewSkipped'
  <2> DEFINE X == walk.owed \ Shown
             Y == (walk.owed \ {d}) \ Shown
  <2>1. FewSkipped
    BY <1>3, <1>10 DEF WalkInv
  <2>2. /\ IsFiniteSet(X) /\ X \in SUBSET Visible /\ Y \in SUBSET X
        /\ IsFiniteSet(Before(Visible, X, Frontier))
    <3>1. X \in SUBSET Documents
      BY WalkTypes DEF IInv
    <3>2. IsFiniteSet(X) /\ X \in SUBSET Visible
      BY <1>4, <3>1, FiniteDocuments DEF WalkHistory
    <3> QED
      BY <3>2, FS_Subset DEF Before
  <2>3. /\ Cardinality(Before(Visible, Y, Frontier)) <= Cardinality(Before(Visible, X, Frontier))
        /\ Cardinality(Before(Visible, Y, Frontier)) \in Nat
        /\ Cardinality(Before(Visible, X, Frontier)) \in Nat
    <3>1. Before(Visible, Y, Frontier) \in SUBSET Before(Visible, X, Frontier)
      BY <2>2 DEF Before
    <3>2. IsFiniteSet(Before(Visible, Y, Frontier))
      BY <2>2, <3>1, FS_Subset
    <3> QED
      BY <2>2, <3>1, <3>2, FS_Subset, FS_CardinalityType
  <2>4. Cardinality(Before(Visible', Y, Frontier)) <= Cardinality(walk'.went)
    <3>1. CASE InScope(d)
      <4>1. Y \in SUBSET (Visible \ {d})
        BY <2>2
      <4>2. /\ Cardinality(Before(Visible \ {d}, Y, Frontier)) \in Nat
            /\ Cardinality(Before(Visible \ {d}, Y, Frontier))
                 <= Cardinality(Before(Visible, Y, Frontier)) + 1
        <5> HIDE DEF Y
        <5> QED
          BY <1>7, <3>1, <4>1, DeletionShifts
      <4>3. Cardinality(Before(Visible \ {d}, Y, Frontier)) <= Cardinality(walk'.went)
        <5> HIDE DEF X, Y
        <5>1. Cardinality(Before(Visible, X, Frontier)) <= Cardinality(walk.went)
          BY <2>1 DEF FewSkipped, X
        <5> QED
          BY <1>9, <2>3, <3>1, <4>2, <5>1
      <4> QED
        BY <1>6, <3>1, <4>3
    <3>2. CASE ~InScope(d)
      <4> HIDE DEF X, Y
      <4>1. Cardinality(Before(Visible, X, Frontier)) <= Cardinality(walk.went)
        BY <2>1 DEF FewSkipped, X
      <4> QED
        BY <1>6, <1>9, <2>3, <3>2, <4>1
    <3> QED
      BY <3>1, <3>2
  <2>5. step \in {"count", "idle"} /\ Cardinality(items) < size =>
          Cardinality(Y) <= Cardinality(walk'.went)
    <3>1. Cardinality(Y) <= Cardinality(X) /\ Cardinality(Y) \in Nat /\ Cardinality(X) \in Nat
      <4> HIDE DEF X, Y
      <4>1. IsFiniteSet(Y)
        BY <2>2, FS_Subset
      <4> QED
        BY <2>2, <4>1, FS_Subset, FS_CardinalityType
    <3>2. step \in {"count", "idle"} /\ Cardinality(items) < size =>
            Cardinality(X) <= Cardinality(walk.went)
      BY <2>1 DEF FewSkipped
    <3> HIDE DEF X, Y
    <3> QED
      BY <1>9, <3>1, <3>2
  <2> QED
    BY <1>1, <1>2, <1>5, <1>7, <2>4, <2>5 DEF FewSkipped
<1>11. ASSUME Fits PROVE FewRepeated'
  <2>1. FewRepeated
    BY <1>3, <1>11 DEF WalkInv
  <2>2. /\ IsFiniteSet(Beyond(Visible, Shown, Frontier))
        /\ Beyond(Visible', Shown, Frontier) \in SUBSET Beyond(Visible, Shown, Frontier)
    <3>1. \A x : /\ RankIn(Visible, x) \in Nat /\ RankIn(Visible', x) \in Nat
                 /\ RankIn(Visible', x) <= RankIn(Visible, x)
      <4>1. CASE InScope(d)
        <5> DEFINE W == Visible \ {d}
        <5>1. W \in SUBSET Nat /\ IsFiniteSet(W) /\ d \in Nat /\ W \cup {d} = Visible
          BY <1>7, <4>1, FS_Subset
        <5>2. Visible' = W
          BY <1>6, <4>1
        <5> HIDE DEF W
        <5> QED
          BY <5>1, <5>2, RanksMoveByOne
      <4>2. CASE ~InScope(d)
        BY <1>6, <1>7, <4>2, Counts
      <4> QED
        BY <4>1, <4>2
    <3>2. Visible' \subseteq Visible
      BY <1>6
    <3>3. Beyond(Visible', Shown, Frontier) \in SUBSET Beyond(Visible, Shown, Frontier)
      <4> SUFFICES ASSUME NEW x \in Shown, x \in Visible', RankIn(Visible', x) > Frontier
                   PROVE  x \in Visible /\ RankIn(Visible, x) > Frontier
        BY DEF Beyond
      <4>1. /\ RankIn(Visible, x) \in Nat /\ RankIn(Visible', x) \in Nat /\ Frontier \in Nat
            /\ RankIn(Visible', x) <= RankIn(Visible, x)
        BY <1>7, <3>1
      <4> QED
        BY <3>2, <4>1
    <3>4. Beyond(Visible, Shown, Frontier) \in SUBSET Visible
      BY DEF Beyond
    <3> QED
      BY <1>7, <3>3, <3>4, FS_Subset
  <2>3. /\ Cardinality(Beyond(Visible', Shown, Frontier))
             <= Cardinality(Beyond(Visible, Shown, Frontier))
        /\ Cardinality(Beyond(Visible', Shown, Frontier)) \in Nat
        /\ Cardinality(Beyond(Visible, Shown, Frontier)) \in Nat
    BY <2>2, FS_Subset, FS_CardinalityType
  <2>4. Cardinality(Repeated) \in Nat /\ Cardinality(walk.appeared) \in Nat
    BY WalkTypes, FiniteDocuments DEF IInv
  <2>5. Cardinality(Repeated) + Cardinality(Beyond(Visible', Shown, Frontier))
          <= Cardinality(walk.appeared)
    BY <2>1, <2>3, <2>4 DEF FewRepeated
  <2> QED
    BY <1>2, <1>3, <1>7, <2>5 DEF FewRepeated
<1> QED
  BY <1>8, <1>10, <1>11

(* A walk through all pages misses and repeats no more rows than were      *)
(* deleted and inserted under it, however many pages it takes.             *)
THEOREM WalksAreComplete == Spec => []WalkIsComplete
<1>1. Init => WalkInv
  BY DEF Init, NoWalk, WalkInv
<1>2. IInv /\ IInv' /\ WalkInv /\ [Next]_vars => WalkInv'
  <2> SUFFICES ASSUME IInv, IInv', WalkInv, [Next]_vars PROVE WalkInv'
    OBVIOUS
  <2>1. CASE BadRequest
    BY <2>1 DEF BadRequest, NoWalk, WalkInv
  <2>2. CASE Ask
    BY <2>2, AskWalks
  <2>3. CASE SelectItems
    BY <2>3, SelectItemsWalks
  <2>4. CASE CountItems
    BY <2>4, CountItemsWalks
  <2>5. ASSUME NEW d \in Documents, Insert(d) PROVE WalkInv'
    BY <2>5, InsertWalks
  <2>6. ASSUME NEW d \in Documents, Delete(d) PROVE WalkInv'
    BY <2>6, DeleteWalks
  <2>7. CASE UNCHANGED vars
    <3>1. Visible' = Visible /\ Fits' = Fits
      BY <2>7 DEF vars, tableVars, request, Visible, InScope, May, Live, Fits
    <3>2. Shown' = Shown /\ Repeated' = Repeated /\ Frontier' = Frontier
      BY <2>7 DEF vars, request, reading, Shown, Repeated, Frontier
    <3> QED
      BY <2>7, <3>1, <3>2
      DEF vars, tableVars, request, reading, WalkInv, WalkHistory, FewSkipped, FewRepeated
  <2> QED
    BY <2>1, <2>2, <2>3, <2>4, <2>5, <2>6, <2>7 DEF Next
<1>3. IInv /\ WalkInv => WalkIsComplete
  <2> SUFFICES ASSUME IInv, WalkInv, walk.on, step = "idle", answer = 200, ~FullPage, Fits
               PROVE  /\ Cardinality(walk.owed \ walk.seen) <= Cardinality(walk.went)
                      /\ Cardinality(walk.again) <= Cardinality(walk.appeared)
    BY DEF WalkIsComplete
  <2>1. FewSkipped /\ FewRepeated
    BY DEF WalkInv
  <2>2. Shown = walk.seen /\ Repeated = walk.again
    BY DEF Shown, Repeated
  <2>3. Cardinality(items) < size
    <3>1. Cardinality(items) <= size /\ size \in Nat
      BY ListingAssumption DEF IInv, TypeOK
    <3>2. Cardinality(items) \in Nat
      BY WalkTypes, FiniteDocuments DEF IInv
    <3> QED
      BY <3>1, <3>2 DEF FullPage
  <2>4. Cardinality(walk.again) <= Cardinality(walk.appeared)
    <3>1. Beyond(Visible, Shown, Frontier) \in SUBSET Documents
      BY WalkTypes DEF Beyond, IInv
    <3>2. /\ Cardinality(Beyond(Visible, Shown, Frontier)) \in Nat
          /\ Cardinality(walk.again) \in Nat /\ Cardinality(walk.appeared) \in Nat
      BY <3>1, WalkTypes, FiniteDocuments DEF IInv
    <3> QED
      BY <2>1, <2>2, <3>2 DEF FewRepeated
  <2> QED
    BY <2>1, <2>2, <2>3, <2>4 DEF FewSkipped
<1> QED
  BY <1>1, <1>2, <1>3, ListingInvariance, PTL DEF Spec
=============================================================================
