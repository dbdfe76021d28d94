-------------------------- MODULE AvailabilityProofs --------------------------
(***************************************************************************)
(* The availability arithmetic counts instants, for any length of day and   *)
(* week, any shifts, zones and histories, and any window.                   *)
(*                                                                         *)
(* SumDisjoint: summing over a family of disjoint sets the number of their  *)
(* elements gives the number of elements of their union.  Every sum of the  *)
(* code is such a sum: the breaks cut out of a day, the days of a shift,    *)
(* the intervals of a state.  A fold over a set is a recursive function; it *)
(* is shown to be the number of elements of the union (which solves the     *)
(* recursion) by taking a smallest set on which the two would differ.       *)
(*                                                                         *)
(* HistoryInv: the rows of a machine follow each other without a gap and    *)
(* the last one is open, so that every instant after the first event is in  *)
(* exactly one of them.                                                     *)
(***************************************************************************)
EXTENDS Availability, FiniteSetTheorems, SequenceTheorems, WellFoundedInduction, TLAPS

-----------------------------------------------------------------------------
(* Sums                                                                     *)

\* A set of numbers that is not empty has a least element.
LEMMA LeastNumber ==
    ASSUME NEW T \in SUBSET Nat, T # {}
    PROVE  \E x \in T : \A y \in T : x <= y
<1> DEFINE R == {ss \in Nat \X Nat : ss[1] < ss[2]}
<1>1. IsWellFoundedOn(R, Nat)
  BY NatLessThanWellFounded DEF OpToRel
<1> HIDE DEF R
<1>2. PICK x \in T : \A y \in T : ~ (<<y, x>> \in R)
  BY <1>1, WFMin
<1>3. \A y \in T : ~(y < x)
  BY <1>2 DEF R
<1> QED
  BY <1>3

\* The elements of the sets of a family.
Joined(A, s) == UNION {A[d] : d \in s}

\* A is a family of disjoint sets of instants of U.
Family(A, D, U) ==
    /\ \A d \in D : A[d] \subseteq U
    /\ \A d, e \in D : d # e => A[d] \cap A[e] = {}

\* One member of the family adds its elements to those of the others.
LEMMA JoinedAdds ==
    ASSUME NEW U, IsFiniteSet(U), NEW D, NEW A, Family(A, D, U),
           NEW s \in SUBSET D, NEW x \in s
    PROVE  Cardinality(Joined(A, s)) = Cardinality(A[x]) + Cardinality(Joined(A, s \ {x}))
<1> DEFINE rest == Joined(A, s \ {x})
<1>1. Joined(A, s) = A[x] \cup rest
  BY DEF Joined
<1>2. A[x] \cap rest = {}
  BY DEF Joined, Family
<1>3. A[x] \in SUBSET U /\ rest \in SUBSET U
  BY DEF Joined, Family
<1> HIDE DEF rest
<1>4. IsFiniteSet(A[x]) /\ IsFiniteSet(rest)
  BY <1>3, FS_Subset
<1>5. Cardinality(A[x]) \in Nat /\ Cardinality(rest) \in Nat /\ Cardinality({}) = 0
  BY <1>4, FS_CardinalityType, FS_EmptySet
<1>6. Cardinality(A[x] \cup rest) = Cardinality(A[x]) + Cardinality(rest) - Cardinality({})
  BY <1>2, <1>4, FS_Union
<1> QED
  BY <1>1, <1>5, <1>6 DEF rest

\* The right-hand side of the recursion SumFunctionOnSet is defined by.
Summed(g, f, D) ==
    [s \in SUBSET D |-> IF s = {} THEN 0
                        ELSE f[CHOOSE x \in s : TRUE] + g[s \ {CHOOSE x \in s : TRUE}]]

\* SumFunctionOnSet, with the folds it is made of unfolded.
LEMMA SumFunctionIs ==
    ASSUME NEW f, NEW D
    PROVE  SumFunctionOnSet(f, D) = (CHOOSE g : g = Summed(g, f, D))[D]
  BY Zenon DEF SumFunctionOnSet, FoldFunctionOnSet, MapThenFoldSet, Summed

\* The sum of the sizes of disjoint sets is the size of their union.
LEMMA SumDisjoint ==
    ASSUME NEW U, IsFiniteSet(U), NEW D, IsFiniteSet(D), NEW A, Family(A, D, U), NEW f,
           \A d \in D : f[d] = Cardinality(A[d])
    PROVE  SumFunctionOnSet(f, D) = Cardinality(Joined(A, D))
<1> DEFINE total == [s \in SUBSET D |-> Cardinality(Joined(A, s))]
           g == CHOOSE h : h = Summed(h, f, D)
           Bad == {n \in Nat : \E s \in SUBSET D : Cardinality(s) = n /\ g[s] # total[s]}
<1>1. ASSUME NEW s \in SUBSET D PROVE IsFiniteSet(s) /\ Cardinality(s) \in Nat
  BY FS_Subset, FS_CardinalityType
<1>2. total[{}] = 0
  <2>1. Joined(A, {}) = {} /\ {} \in SUBSET D
    BY DEF Joined
  <2> QED
    BY <2>1, FS_EmptySet
<1>3. ASSUME NEW s \in SUBSET D, NEW x \in s PROVE total[s] = f[x] + total[s \ {x}]
  BY JoinedAdds
<1> HIDE DEF total
<1>4. total = Summed(total, f, D)
  <2>1. ASSUME NEW s \in SUBSET D
        PROVE  total[s] = IF s = {} THEN 0
                          ELSE f[CHOOSE x \in s : TRUE] + total[s \ {CHOOSE x \in s : TRUE}]
    <3>1. CASE s = {}
      BY <1>2, <3>1
    <3>2. CASE s # {}
      <4>1. (CHOOSE x \in s : TRUE) \in s
        BY <3>2
      <4> QED
        BY <1>3, <3>2, <4>1
    <3> QED
      BY <3>1, <3>2
  <2>2. total = [s \in SUBSET D |-> total[s]]
    BY DEF total
  <2> QED
    BY <2>1, <2>2 DEF Summed
<1>5. g = Summed(g, f, D)
  BY <1>4
<1> HIDE DEF g
<1>6. Bad = {}
  <2> SUFFICES ASSUME Bad # {} PROVE FALSE
    OBVIOUS
  <2>0. Bad \in SUBSET Nat
    OBVIOUS
  <2>1. PICK n \in Bad : \A m \in Bad : n <= m
    BY <2>0, LeastNumber
  <2>2. PICK s \in SUBSET D : Cardinality(s) = n /\ g[s] # total[s]
    BY <2>1
  <2>3. s # {}
    BY <1>2, <1>5, <2>2 DEF Summed
  <2> DEFINE x == CHOOSE x \in s : TRUE
  <2>4. x \in s
    BY <2>3
  <2>5. g[s] = f[x] + g[s \ {x}]
    BY <1>5, <2>3 DEF Summed
  <2> HIDE DEF x
  <2>6. total[s] = f[x] + total[s \ {x}]
    BY <1>3, <2>4
  <2>7. g[s \ {x}] # total[s \ {x}] /\ s \ {x} \in SUBSET D
    BY <2>2, <2>5, <2>6
  <2>8. Cardinality(s \ {x}) = n - 1 /\ n \in Nat
    BY <1>1, <2>2, <2>4, FS_RemoveElement
  <2>9. Cardinality(s \ {x}) \in Nat
    BY <1>1, <2>7
  <2>10. n - 1 \in Bad
    BY <2>7, <2>8, <2>9
  <2> QED
    BY <2>1, <2>8, <2>10
<1>7. D \in SUBSET D /\ Cardinality(D) \in Nat
  BY FS_CardinalityType
<1>8. g[D] = total[D]
  BY <1>6, <1>7
<1>9. SumFunctionOnSet(f, D) = g[D]
  BY SumFunctionIs DEF g
<1> QED
  BY <1>7, <1>8, <1>9 DEF total

-----------------------------------------------------------------------------
(* Planned time of a day                                                    *)

\* How many instants there are from a to b.
LEMMA SpanCount ==
    ASSUME NEW a \in Int, NEW b \in Int
    PROVE  /\ IsFiniteSet(a..(b - 1))
           /\ Cardinality(a..(b - 1)) = IF b > a THEN b - a ELSE 0
  BY FS_Interval

\* maxTime and minTime as bounds.
LEMMA LargerSmaller ==
    ASSUME NEW a \in Int, NEW b \in Int
    PROVE  /\ Larger(a, b) \in Int /\ Smaller(a, b) \in Int
           /\ \A x \in Int : Larger(a, b) <= x <=> a <= x /\ b <= x
           /\ \A x \in Int : x < Smaller(a, b) <=> x < a /\ x < b
  BY DEF Larger, Smaller

\* Days begin a day's length apart.
LEMMA StartsApart ==
    ASSUME NEW d \in Int, NEW e \in Int, NEW z \in Int
    PROVE  /\ StartOf(d, z) \in Int
           /\ d < e => StartOf(d, z) + DayLen <= StartOf(e, z)
           /\ StartOf(d + 1, z) = StartOf(d, z) + DayLen
<1>1. DayLen \in Nat \ {0}
  BY AvailabilityAssumption
<1>2. ASSUME d < e PROVE d * DayLen + DayLen <= e * DayLen
  <2>1. e - d - 1 \in Nat
    BY <1>2
  <2>2. (e - d - 1) * DayLen \in Nat
    BY <1>1, <2>1
  <2>3. (e - d - 1) * DayLen = e * DayLen - d * DayLen - DayLen
    BY <1>1
  <2> QED
    BY <1>1, <2>2, <2>3
<1>3. (d + 1) * DayLen = d * DayLen + DayLen
  BY <1>1
<1> QED
  BY <1>1, <1>2, <1>3 DEF StartOf

\* startOfDay: an instant is in its own day.
LEMMA DayHolds ==
    ASSUME NEW t \in Int, NEW z \in Int
    PROVE  /\ DayOf(t, z) \in Int
           /\ StartOf(DayOf(t, z), z) <= t
           /\ t < StartOf(DayOf(t, z), z) + DayLen
<1>1. DayLen \in Nat \ {0}
  BY AvailabilityAssumption
<1>2. ASSUME NEW u \in Int, NEW n \in Nat \ {0}
      PROVE  u \div n \in Int /\ (u \div n) * n <= u /\ u < (u \div n) * n + n
  OBVIOUS
<1>3. t + z \in Int
  OBVIOUS
<1> QED
  BY <1>1, <1>2, <1>3 DEF DayOf, StartOf

\* A window between two instants.
IsWindow(w) == w.from \in Int /\ w.to \in Int

\* Instant x is planned time of the shift s that begins on day d.
OnDay(s, d, x) ==
    LET m == x - StartOf(d, s.zone) IN
    /\ m \in s.start..(s.end - 1)
    /\ \A i \in DOMAIN s.breaks : m \notin s.breaks[i].start..(s.breaks[i].end - 1)

\* A window has finitely many instants.
LEMMA InstantsFinite ==
    ASSUME NEW w, IsWindow(w)
    PROVE  IsFiniteSet(Instants(w)) /\ Instants(w) \subseteq Int
  BY SpanCount DEF IsWindow, Instants

\* overlap counts the instants two spans have in common.
LEMMA OverlapCount ==
    ASSUME NEW a \in Int, NEW b \in Int, NEW c \in Int, NEW d \in Int
    PROVE  Overlap(a, b, c, d) = Cardinality((a..(b - 1)) \cap (c..(d - 1)))
<1> DEFINE lo == Larger(a, c)
           hi == Smaller(b, d)
<1>1. lo \in Int /\ hi \in Int
  BY LargerSmaller
<1>2. (a..(b - 1)) \cap (c..(d - 1)) = lo..(hi - 1)
  BY DEF Larger, Smaller
<1>3. Overlap(a, b, c, d) = IF hi > lo THEN hi - lo ELSE 0
  BY DEF Overlap
<1> HIDE DEF lo, hi
<1> QED
  BY <1>1, <1>2, <1>3, SpanCount

\* plannedTimeOnDay counts the instants of the window in the shift of day d and
\* in none of its breaks; the clamp at zero is never needed.
LEMMA DayCount ==
    ASSUME NEW s, IsShift(s), WellFormed(s), NEW d \in Int, NEW w, IsWindow(w)
    PROVE  PlannedTimeOnDay(s, d, w) = Cardinality({x \in Instants(w) : OnDay(s, d, x)})
<1> DEFINE day == StartOf(d, s.zone)
           wf == Larger(day + s.start, w.from)
           wt == Smaller(day + s.end, w.to)
           W == wf..(wt - 1)
           D == DOMAIN s.breaks
           bs(i) == s.breaks[i].start
           be(i) == s.breaks[i].end
           B == [i \in D |-> ((day + bs(i))..(day + be(i) - 1)) \cap W]
           f == [i \in D |-> Overlap(day + bs(i), day + be(i), wf, wt)]
           A == {x \in Instants(w) : OnDay(s, d, x)}
<1>1. day \in Int /\ s.start \in Int /\ s.end \in Int /\ w.from \in Int /\ w.to \in Int
  BY StartsApart DEF IsShift, IsWindow
<1>2. ASSUME NEW i \in D PROVE bs(i) \in Int /\ be(i) \in Int
  <2>1. s.breaks[i] \in [start : Int, end : Int]
    <3>1. ASSUME NEW R, NEW q \in Seq(R), NEW j \in DOMAIN q PROVE q[j] \in R
      OBVIOUS
    <3>2. s.breaks \in Seq([start : Int, end : Int])
      BY DEF IsShift
    <3> QED
      BY <3>1, <3>2
  <2> QED
    BY <2>1
<1>3. D = 1..Len(s.breaks) /\ Len(s.breaks) \in Nat
  BY DEF IsShift
<1>4. ASSUME NEW i \in D, NEW j \in D, i # j, NEW m
      PROVE  ~(m \in bs(i)..(be(i) - 1) /\ m \in bs(j)..(be(j) - 1))
  BY <1>4 DEF WellFormed
<1>5. PlannedTimeOnDay(s, d, w) =
        IF wt <= wf THEN 0 ELSE Larger(wt - wf - SumFunctionOnSet(f, D), 0)
  BY DEF PlannedTimeOnDay, SumFunction
<1>6. \A x \in Instants(w) : OnDay(s, d, x) <=>
        /\ x - day \in s.start..(s.end - 1)
        /\ \A i \in D : x - day \notin bs(i)..(be(i) - 1)
  BY DEF OnDay
<1>7. \A x : x \in Instants(w) <=> x \in w.from..(w.to - 1)
  BY DEF Instants
<1> HIDE DEF day, D, bs, be
<1>0. day + s.start \in Int /\ day + s.end \in Int
  BY <1>1
<1>8. wf \in Int /\ wt \in Int
  BY <1>0, <1>1, LargerSmaller
<1>9. \A x \in Int : x \in W <=> /\ x \in w.from..(w.to - 1)
                                 /\ x - day \in s.start..(s.end - 1)
  <2>1. \A x \in Int : wf <= x <=> day + s.start <= x /\ w.from <= x
    BY <1>0, <1>1, LargerSmaller
  <2>2. \A x \in Int : x < wt <=> x < day + s.end /\ x < w.to
    BY <1>0, <1>1, LargerSmaller
  <2> HIDE DEF wf, wt
  <2> QED
    BY <1>1, <1>8, <2>1, <2>2
<1> HIDE DEF wf, wt
<1>10. IsFiniteSet(W) /\ Cardinality(W) = IF wt > wf THEN wt - wf ELSE 0
  BY <1>8, SpanCount
<1>11. IsFiniteSet(D)
  BY <1>3, FS_Interval
<1>12. Family(B, D, W)
  <2>1. ASSUME NEW i \in D, NEW j \in D, i # j PROVE B[i] \cap B[j] = {}
    <3> SUFFICES ASSUME NEW x \in B[i], x \in B[j] PROVE FALSE
      OBVIOUS
    <3>1. x \in Int
      BY <1>8
    <3>2. x - day \in bs(i)..(be(i) - 1) /\ x - day \in bs(j)..(be(j) - 1)
      BY <1>1, <1>2, <3>1
    <3> QED
      BY <1>4, <2>1, <3>2
  <2> QED
    BY <2>1 DEF Family
<1>13. \A i \in D : f[i] = Cardinality(B[i])
  BY <1>1, <1>2, <1>8, OverlapCount
<1> HIDE DEF f
<1>14. SumFunctionOnSet(f, D) = Cardinality(Joined(B, D))
  BY <1>10, <1>11, <1>12, <1>13, SumDisjoint
<1>15. A = W \ Joined(B, D)
  <2>1. W \subseteq Int /\ Instants(w) \subseteq Int
    BY <1>8, InstantsFinite
  <2>2. ASSUME NEW x \in Int, x \in W
        PROVE  x \in Joined(B, D) <=> \E i \in D : x - day \in bs(i)..(be(i) - 1)
    <3>1. \A i \in D : x \in B[i] <=> x - day \in bs(i)..(be(i) - 1)
      BY <1>1, <1>2, <2>2
    <3> HIDE DEF B
    <3> QED
      BY <3>1 DEF Joined
  <2> HIDE DEF B, W
  <2> QED
    BY <1>6, <1>7, <1>9, <2>1, <2>2
<1>16. Joined(B, D) \in SUBSET W
  BY <1>12 DEF Joined, Family
<1> HIDE DEF B, W, A
<1>17. /\ Cardinality(A) = Cardinality(W) - Cardinality(W \cap Joined(B, D))
       /\ W \cap Joined(B, D) = Joined(B, D)
  BY <1>10, <1>15, <1>16, FS_Difference
<1>18. /\ Cardinality(Joined(B, D)) <= Cardinality(W)
       /\ Cardinality(Joined(B, D)) \in Nat /\ Cardinality(W) \in Nat
  BY <1>10, <1>16, FS_Subset, FS_CardinalityType
<1> DEFINE cj == Cardinality(Joined(B, D))
           cw == Cardinality(W)
<1> HIDE DEF cj, cw
<1>19. Cardinality(A) = cw - cj /\ cj <= cw /\ cj \in Nat /\ cw \in Nat
  BY <1>17, <1>18 DEF cj, cw
<1>20. cw = (IF wt > wf THEN wt - wf ELSE 0) /\ SumFunctionOnSet(f, D) = cj
  BY <1>10, <1>14 DEF cj, cw
<1>21. PlannedTimeOnDay(s, d, w) = Cardinality(A)
  <2>1. CASE wt > wf
    <3>1. PlannedTimeOnDay(s, d, w) = Larger(cw - cj, 0)
      BY <1>5, <1>8, <1>20, <2>1
    <3> QED
      BY <1>19, <3>1 DEF Larger
  <2>2. CASE ~(wt > wf)
    BY <1>5, <1>8, <1>19, <1>20, <2>2
  <2> QED
    BY <2>1, <2>2
<1> QED
  BY <1>21 DEF A

-----------------------------------------------------------------------------
(* Planned time of a window                                                 *)

\* An instant is in the shift of its own day or of the day before, no other.
LEMMA DaysOf ==
    ASSUME NEW s, IsShift(s), WellFormed(s), NEW x \in Int, NEW d \in Int,
           x - StartOf(d, s.zone) \in s.start..(s.end - 1)
    PROVE  DayOf(x, s.zone) - 1 <= d /\ d <= DayOf(x, s.zone)
<1> DEFINE q == DayOf(x, s.zone)
           at(n) == StartOf(n, s.zone)
<1>1. s.zone \in Int /\ s.start \in Int /\ s.end \in Int /\ DayLen \in Nat \ {0}
  BY AvailabilityAssumption DEF IsShift
<1>2. q \in Int /\ at(q) <= x /\ x < at(q) + DayLen
  BY <1>1, DayHolds
<1>3. ASSUME NEW m \in Int PROVE at(m) \in Int
  BY <1>1, StartsApart
<1>4. ASSUME NEW m \in Int, NEW n \in Int, m < n PROVE at(m) + DayLen <= at(n)
  BY <1>1, <1>4, StartsApart
<1>5. at(d + 1) = at(d) + DayLen
  BY <1>1, StartsApart
<1>6. s.start >= 0 /\ s.end <= DayLen + DayLen
  BY <1>1 DEF WellFormed
<1>7. at(d) <= x /\ x < at(d) + DayLen + DayLen
  BY <1>1, <1>3, <1>6
<1> HIDE DEF at, q
<1>8. ~(q < d)
  BY <1>1, <1>2, <1>3, <1>4, <1>7
<1>9. ~(d + 1 < q)
  BY <1>1, <1>2, <1>3, <1>4, <1>5, <1>7
<1> QED
  BY <1>2, <1>8, <1>9 DEF q

\* Later instants are on later days.
LEMMA DayOrder ==
    ASSUME NEW x \in Int, NEW y \in Int, x <= y, NEW z \in Int
    PROVE  DayOf(x, z) <= DayOf(y, z)
<1> DEFINE p == DayOf(x, z)
           q == DayOf(y, z)
<1>1. DayLen \in Nat
  BY AvailabilityAssumption
<1>2. p \in Int /\ StartOf(p, z) <= x
  BY DayHolds
<1>3. q \in Int /\ y < StartOf(q, z) + DayLen
  BY DayHolds
<1> HIDE DEF p, q
<1>4. StartOf(p, z) \in Int /\ StartOf(q, z) \in Int
  BY <1>2, <1>3, StartsApart
<1>5. q < p => StartOf(q, z) + DayLen <= StartOf(p, z)
  BY <1>2, <1>3, StartsApart
<1>6. ~(q < p)
  BY <1>1, <1>2, <1>3, <1>4, <1>5
<1> QED
  BY <1>2, <1>3, <1>6 DEF p, q

\* PlannedProductionTime of a window that is not empty, as a sum over days.
LEMMA PlannedIs ==
    ASSUME NEW s, NEW w, IsWindow(w), w.from < w.to
    PROVE  LET days == {d \in (DayOf(w.from, s.zone) - 1)..(DayOf(w.to, s.zone) + 1) :
                          AppliesOn(s, d)}
               f == [d \in days |-> PlannedTimeOnDay(s, d, w)]
           IN  PlannedProductionTime(s, w) = SumFunctionOnSet(f, days)
<1> DEFINE days == {d \in (DayOf(w.from, s.zone) - 1)..(DayOf(w.to, s.zone) + 1) :
                      AppliesOn(s, d)}
           f == [d \in days |-> PlannedTimeOnDay(s, d, w)]
<1>1. ~(w.to <= w.from)
  BY DEF IsWindow
<1>2. PlannedProductionTime(s, w) = SumFunction(f)
  BY <1>1 DEF PlannedProductionTime
<1>3. DOMAIN f = days
  OBVIOUS
<1> QED
  BY <1>2, <1>3 DEF SumFunction

\* The days firstDay to lastDay hold every planned instant, each once.
LEMMA PlannedCount ==
    ASSUME NEW s, IsShift(s), WellFormed(s), NEW w, IsWindow(w), w.from < w.to
    PROVE  PlannedProductionTime(s, w) = Cardinality({x \in Instants(w) : IsPlanned(s, x)})
<1> DEFINE first == DayOf(w.from, s.zone) - 1
           last  == DayOf(w.to, s.zone) + 1
           days  == {d \in first..last : AppliesOn(s, d)}
           A     == [d \in days |-> {x \in Instants(w) : OnDay(s, d, x)}]
           f     == [d \in days |-> PlannedTimeOnDay(s, d, w)]
           I     == Instants(w)
<1>1. /\ s.zone \in Int /\ s.start \in Int /\ s.end \in Int /\ DayLen \in Nat \ {0}
      /\ w.from \in Int /\ w.to \in Int
  BY AvailabilityAssumption DEF IsShift, IsWindow
<1>2. IsFiniteSet(I) /\ I \subseteq Int
  BY InstantsFinite
<1>3. first \in Int /\ last \in Int
  <2>1. DayOf(w.from, s.zone) \in Int
    BY <1>1, DayHolds
  <2>2. DayOf(w.to, s.zone) \in Int
    BY <1>1, DayHolds
  <2> QED
    BY <2>1, <2>2
<1>4. IsFiniteSet(days) /\ days \subseteq Int
  <2>1. days \in SUBSET (first..last)
    OBVIOUS
  <2> HIDE DEF days, first, last
  <2>2. IsFiniteSet(first..last) /\ first..last \subseteq Int
    BY <1>3, FS_Interval
  <2> QED
    BY <2>1, <2>2, FS_Subset
<1>5. ASSUME NEW x \in I, NEW d \in Int, OnDay(s, d, x)
      PROVE  d \in first..last /\ d \in (DayOf(x, s.zone) - 2)..(DayOf(x, s.zone) + 2)
  <2>1. x \in Int /\ w.from <= x /\ x <= w.to
    BY <1>1, <1>2 DEF Instants
  <2>2. DayOf(x, s.zone) - 1 <= d /\ d <= DayOf(x, s.zone)
    BY <1>5, <2>1, DaysOf DEF OnDay
  <2>3. DayOf(w.from, s.zone) <= DayOf(x, s.zone) /\ DayOf(x, s.zone) <= DayOf(w.to, s.zone)
    BY <1>1, <2>1, DayOrder
  <2>4. DayOf(x, s.zone) \in Int /\ DayOf(w.from, s.zone) \in Int /\ DayOf(w.to, s.zone) \in Int
    BY <1>1, <2>1, DayHolds
  <2> QED
    BY <2>2, <2>3, <2>4
<1>6. ASSUME NEW d \in Int, NEW e \in Int, d < e, NEW x \in Int
      PROVE  ~(OnDay(s, d, x) /\ OnDay(s, e, x))
  <2>1. StartOf(d, s.zone) \in Int /\ StartOf(e, s.zone) \in Int
    BY <1>1, StartsApart
  <2>2. StartOf(d, s.zone) + DayLen <= StartOf(e, s.zone)
    BY <1>1, <1>6, StartsApart
  <2>3. s.end - s.start <= DayLen
    BY DEF WellFormed
  <2> QED
    BY <1>1, <2>1, <2>2, <2>3 DEF OnDay
<1>7. Family(A, days, I)
  <2>1. ASSUME NEW d \in days, NEW e \in days, d # e PROVE A[d] \cap A[e] = {}
    <3>1. d \in Int /\ e \in Int
      BY <1>4
    <3>2. ASSUME NEW x \in I PROVE ~(OnDay(s, d, x) /\ OnDay(s, e, x))
      <4>1. d < e \/ e < d
        BY <2>1, <3>1
      <4> QED
        BY <1>2, <1>6, <3>1, <4>1
    <3> HIDE DEF days
    <3> QED
      BY <3>2
  <2>2. \A d \in days : A[d] \subseteq I
    OBVIOUS
  <2> HIDE DEF A
  <2> QED
    BY <2>1, <2>2 DEF Family
<1>8. \A d \in days : f[d] = Cardinality(A[d])
  <2> SUFFICES ASSUME NEW d \in days PROVE f[d] = Cardinality(A[d])
    OBVIOUS
  <2>1. d \in Int
    BY <1>4
  <2> HIDE DEF days
  <2> QED
    BY <2>1, DayCount
<1>9. PlannedProductionTime(s, w) = SumFunctionOnSet(f, days)
  BY PlannedIs
<1>10. {x \in I : IsPlanned(s, x)} = Joined(A, days)
  <2>1. ASSUME NEW x \in I PROVE IsPlanned(s, x) <=> \E d \in days : OnDay(s, d, x)
    <3>1. IsPlanned(s, x) <=>
            \E d \in (DayOf(x, s.zone) - 2)..(DayOf(x, s.zone) + 2) :
               AppliesOn(s, d) /\ OnDay(s, d, x)
      BY DEF IsPlanned, OnDay
    <3>2. DayOf(x, s.zone) \in Int
      BY <1>1, <1>2, DayHolds
    <3> QED
      BY <1>3, <1>5, <3>1, <3>2
  <2>2. \A x : x \in Joined(A, days) <=> x \in I /\ \E d \in days : OnDay(s, d, x)
    <3> HIDE DEF days
    <3> QED
      BY DEF Joined
  <2> HIDE DEF A, days
  <2> QED
    BY <2>1, <2>2
<1> HIDE DEF A, f, days
<1>11. SumFunctionOnSet(f, days) = Cardinality(Joined(A, days))
  BY <1>2, <1>4, <1>7, <1>8, SumDisjoint
<1> QED
  BY <1>9, <1>10, <1>11

-----------------------------------------------------------------------------
(* The history of the machine                                               *)

\* A row of state_intervals.
Row == [state : States, start : Nat, startOff : Offsets,
        end : Nat \cup {Open}, endOff : Offsets]

\* Rows follow each other without gap or overlap, and the last one is open.
HistoryInv ==
    /\ now \in Nat /\ shifts \in ShiftTables /\ intervals \in Seq(Row)
    /\ \A i \in DOMAIN intervals :
         /\ intervals[i].start <= now
         /\ i = Len(intervals) => intervals[i].end = Open
    /\ \A i, j \in DOMAIN intervals : i < j =>
         /\ intervals[i].end # Open
         /\ intervals[i].start < intervals[i].end
         /\ intervals[i].end <= intervals[j].start
         /\ j = i + 1 => intervals[i].end = intervals[j].start

\* The empty history.
LEMMA HistoryInit == Init => HistoryInv
  BY DEF Init, HistoryInv

\* Apply closes the open row at the instant at which it opens the next.
LEMMA HistoryNext == HistoryInv /\ [Next]_vars => HistoryInv'
<1> SUFFICES ASSUME HistoryInv, [Next]_vars PROVE HistoryInv'
  OBVIOUS
<1>1. CASE Tick
  <2>1. now' = now + 1 /\ shifts' = shifts /\ intervals' = intervals
    BY <1>1 DEF Tick
  <2>2. \A i \in DOMAIN intervals : intervals[i].start \in Nat
    <3> SUFFICES ASSUME NEW i \in DOMAIN intervals PROVE intervals[i].start \in Nat
      OBVIOUS
    <3>1. intervals[i] \in Row
      BY DEF HistoryInv
    <3> QED
      BY <3>1 DEF Row
  <2> QED
    BY <2>1, <2>2 DEF HistoryInv
<1>2. ASSUME NEW state \in States, NEW off \in Offsets, Change(state, off) PROVE HistoryInv'
  <2> DEFINE n == Len(intervals)
             new == [state |-> state, start |-> now, startOff |-> off, end |-> Open, endOff |-> off]
             old == IF n = 0 THEN << >>
                    ELSE [intervals EXCEPT ![n].end = now, ![n].endOff = off]
  <2>1. /\ intervals' = Append(old, new) /\ now' = now /\ shifts' = shifts
        /\ n > 0 => intervals[n].start < now
    BY <1>2 DEF Change
  <2>2. now \in Nat /\ intervals \in Seq(Row) /\ n \in Nat /\ DOMAIN intervals = 1..n
    BY DEF HistoryInv
  <2>3. new \in Row
    BY <2>2 DEF Row
  <2>4. /\ old \in Seq(Row) /\ Len(old) = n
        /\ \A i \in 1..n : i # n => old[i] = intervals[i]
        /\ n # 0 => old[n].start = intervals[n].start /\ old[n].end = now
    <3>1. CASE n = 0
      BY <3>1
    <3>2. CASE n # 0
      <4>1. intervals[n] \in Row
        BY <2>2, <3>2
      <4> DEFINE r == [intervals[n] EXCEPT !.end = now, !.endOff = off]
      <4>2. r \in Row /\ r.start = intervals[n].start /\ r.end = now
        BY <2>2, <4>1 DEF Row
      <4>3. old = [intervals EXCEPT ![n] = r]
        BY <2>2, <3>2
      <4> HIDE DEF r, old
      <4>4. n \in 1..Len(intervals)
        BY <2>2, <3>2
      <4>5. old \in Seq(Row) /\ Len(old) = n
        BY <2>2, <4>2, <4>3, <4>4, ExceptSeq
      <4>6. (\A i \in 1..n : i # n => old[i] = intervals[i]) /\ old[n] = r
        BY <2>2, <4>3, <4>4
      <4> QED
        BY <4>2, <4>5, <4>6
    <3> QED
      BY <3>1, <3>2
  <2> HIDE DEF old
  <2> DEFINE rows == Append(old, new)
  <2>5. /\ rows \in Seq(Row) /\ Len(rows) = n + 1 /\ DOMAIN rows = 1..(n + 1)
        /\ \A i \in 1..n : rows[i] = old[i]
        /\ rows[n + 1] = new
    <3> HIDE DEF n, new
    <3> QED
      BY <2>2, <2>3, <2>4, AppendProperties
  <2> HIDE DEF rows
  <2>6. rows[n + 1].start = now /\ rows[n + 1].end = Open
    BY <2>5
  <2> HIDE DEF new
  <2>7. \A i \in 1..n : rows[i].start = intervals[i].start
    <3> SUFFICES ASSUME NEW i \in 1..n PROVE rows[i].start = intervals[i].start
      OBVIOUS
    <3>1. CASE i = n
      <4>1. n # 0 /\ rows[n] = old[n]
        BY <2>2, <2>5, <3>1
      <4>2. rows[n].start = intervals[n].start
        BY <2>4, <4>1
      <4> QED
        BY <3>1, <4>2
    <3>2. CASE i # n
      BY <2>4, <2>5, <3>2
    <3> QED
      BY <3>1, <3>2
  <2>8. \A i \in 1..n : i # n => rows[i].end = intervals[i].end
    BY <2>2, <2>4, <2>5
  <2>9. n # 0 => rows[n].end = now
    <3>1. n # 0 => n \in 1..n
      BY <2>2
    <3> HIDE DEF n
    <3> QED
      BY <2>4, <2>5, <3>1
  <2>10. \A i \in 1..n : intervals[i].start \in Nat /\ intervals[i].end \in Nat \cup {Open}
    <3> SUFFICES ASSUME NEW i \in 1..n
                 PROVE  intervals[i].start \in Nat /\ intervals[i].end \in Nat \cup {Open}
      OBVIOUS
    <3>1. intervals[i] \in Row
      BY <2>2
    <3> QED
      BY <3>1 DEF Row
  <2>11. \A i \in 1..n : intervals[i].start <= now
    BY <2>2 DEF HistoryInv
  <2>12. \A i, j \in 1..n : i < j =>
         /\ intervals[i].end # Open
         /\ intervals[i].start < intervals[i].end
         /\ intervals[i].end <= intervals[j].start
         /\ j = i + 1 => intervals[i].end = intervals[j].start
    BY <2>2 DEF HistoryInv
  <2> HIDE DEF n
  <2>13. ASSUME NEW i \in 1..(n + 1), NEW j \in 1..(n + 1), i < j
         PROVE  /\ rows[i].end # Open
                /\ rows[i].start < rows[i].end
                /\ rows[i].end <= rows[j].start
                /\ j = i + 1 => rows[i].end = rows[j].start
    <3>0. i \in 1..n /\ n # 0 /\ now # Open
      BY <2>2, <2>13 DEF Open
    <3>1. CASE j # n + 1 /\ i # n
      <4>1. j \in 1..n
        BY <2>2, <3>1
      <4> QED
        BY <2>7, <2>8, <2>12, <2>13, <3>0, <3>1, <4>1
    <3>2. CASE j = n + 1 /\ i # n
      <4>1. i < n /\ n \in 1..n /\ j # i + 1
        BY <2>2, <3>0, <3>2
      <4>2. /\ intervals[i].end # Open
            /\ intervals[i].start < intervals[i].end
            /\ intervals[i].end <= intervals[n].start
            /\ intervals[n].start <= now
        BY <2>11, <2>12, <3>0, <4>1
      <4>3. intervals[i].end <= now
        BY <2>2, <2>10, <3>0, <4>1, <4>2
      <4> QED
        BY <2>6, <2>7, <2>8, <3>0, <3>2, <4>1, <4>2, <4>3
    <3>3. CASE i = n
      <4>1. j = n + 1
        BY <2>2, <2>13, <3>3
      <4>2. rows[i].start < now
        BY <2>1, <2>2, <2>7, <3>0, <3>3 DEF n
      <4> QED
        BY <2>2, <2>6, <2>9, <3>0, <3>3, <4>1, <4>2
    <3> QED
      BY <3>1, <3>2, <3>3, <2>2, <2>13
  <2>14. ASSUME NEW i \in 1..(n + 1)
         PROVE  rows[i].start <= now /\ (i = n + 1 => rows[i].end = Open)
    <3>1. CASE i \in 1..n
      BY <2>2, <2>7, <2>11, <3>1
    <3>2. CASE i = n + 1
      BY <2>2, <2>6, <3>2
    <3> QED
      BY <2>2, <3>1, <3>2
  <2>15. shifts' \in ShiftTables /\ now' \in Nat /\ intervals' = rows /\ now' = now
    BY <2>1 DEF HistoryInv, rows
  <2> QED
    BY <2>5, <2>13, <2>14, <2>15 DEF HistoryInv
<1>3. CASE UNCHANGED vars
  BY <1>3 DEF vars, HistoryInv
<1> QED
  BY <1>1, <1>2, <1>3 DEF Next

\* Instant x is in row i.
Covers(i, x) ==
    /\ intervals[i].start <= x
    /\ intervals[i].end = Open \/ x < intervals[i].end

\* The fields of a row.
LEMMA RowTypes ==
    ASSUME HistoryInv, NEW i \in DOMAIN intervals
    PROVE  /\ intervals[i].start \in Nat /\ intervals[i].end \in Nat \cup {Open}
           /\ intervals[i].startOff \in Offsets /\ intervals[i].endOff \in Offsets
           /\ intervals[i].state \in States
<1>1. intervals[i] \in Row
  BY DEF HistoryInv
<1> QED
  BY <1>1 DEF Row

\* No instant is in two rows.
LEMMA CoversOnce ==
    ASSUME HistoryInv, NEW i \in DOMAIN intervals, NEW j \in DOMAIN intervals, i # j,
           NEW x \in Int, Covers(i, x)
    PROVE  ~Covers(j, x)
<1>0. DOMAIN intervals \subseteq Nat
  BY DEF HistoryInv
<1>1. /\ intervals[i].start \in Nat /\ intervals[i].end \in Nat \cup {Open}
      /\ intervals[j].start \in Nat /\ intervals[j].end \in Nat \cup {Open}
  BY RowTypes
<1>2. i < j => intervals[i].end # Open /\ intervals[i].end <= intervals[j].start
  BY DEF HistoryInv
<1>3. j < i => intervals[j].end # Open /\ intervals[j].end <= intervals[i].start
  BY DEF HistoryInv
<1>4. i < j \/ j < i
  BY <1>0
<1> QED
  BY <1>1, <1>2, <1>3, <1>4 DEF Covers, Open

\* The state at an instant is that of the row it is in.
LEMMA StateAtIs ==
    ASSUME HistoryInv, NEW i \in DOMAIN intervals, NEW x \in Int, Covers(i, x)
    PROVE  StateAt(x) = intervals[i].state
<1>1. \A j \in DOMAIN intervals : Covers(j, x) <=> j = i
  BY CoversOnce
<1>2. (CHOOSE j \in DOMAIN intervals : Covers(j, x)) = i
  BY <1>1
<1> QED
  BY <1>2 DEF StateAt, Covers

\* From the first event on, every instant is in a row.
LEMMA KnownCovered ==
    ASSUME HistoryInv, NEW x \in Int
    PROVE  Known(x) <=> \E i \in DOMAIN intervals : Covers(i, x)
<1> DEFINE n == Len(intervals)
<1>0. n \in Nat /\ DOMAIN intervals = 1..n /\ (intervals = << >> <=> n = 0)
  BY DEF HistoryInv
<1>1. ASSUME Known(x) PROVE \E i \in DOMAIN intervals : Covers(i, x)
  <2>1. n # 0 /\ intervals[1].start <= x
    BY <1>0, <1>1 DEF Known
  <2> DEFINE T == {i \in 1..n : intervals[i].end = Open \/ x < intervals[i].end}
  <2>2. n \in T
    BY <1>0, <2>1 DEF HistoryInv
  <2>3. T \in SUBSET Nat /\ T # {}
    BY <2>2
  <2>4. PICK i \in T : \A j \in T : i <= j
    BY <2>3, LeastNumber
  <2>5. intervals[i].start <= x
    <3>1. CASE i = 1
      BY <2>1, <3>1
    <3>2. CASE i # 1
      <4>1. i - 1 \in 1..n /\ i - 1 \notin T /\ i \in 1..n /\ i - 1 < i /\ i = (i - 1) + 1
        BY <1>0, <2>4, <3>2
      <4>2. intervals[i - 1].end = intervals[i].start
        BY <1>0, <4>1 DEF HistoryInv
      <4>3. ~(x < intervals[i].start)
        BY <4>1, <4>2
      <4>4. intervals[i].start \in Nat
        BY <1>0, <4>1, RowTypes
      <4> QED
        BY <4>3, <4>4
    <3> QED
      BY <3>1, <3>2
  <2> QED
    BY <1>0, <2>4, <2>5 DEF Covers
<1>2. ASSUME NEW i \in DOMAIN intervals, Covers(i, x) PROVE Known(x)
  <2>1. 1 \in DOMAIN intervals /\ i \in Nat /\ (i = 1 \/ 1 < i) /\ intervals # << >>
    BY <1>0
  <2>2. /\ intervals[1].start \in Nat /\ intervals[1].end \in Nat \cup {Open}
        /\ intervals[i].start \in Nat
    BY <2>1, RowTypes
  <2>3. intervals[i].start <= x
    BY <1>2 DEF Covers
  <2>4. CASE i = 1
    BY <2>1, <2>3, <2>4 DEF Known
  <2>5. CASE 1 < i
    <3>1. /\ intervals[1].end # Open /\ intervals[1].start < intervals[1].end
          /\ intervals[1].end <= intervals[i].start
      BY <2>1, <2>5 DEF HistoryInv
    <3>2. intervals[1].start <= x
      BY <2>2, <2>3, <3>1
    <3> QED
      BY <2>1, <3>2 DEF Known
  <2> QED
    BY <2>1, <2>4, <2>5
<1> QED
  BY <1>1, <1>2

-----------------------------------------------------------------------------
(* Rows and instants                                                        *)

\* The clipping of Aggregate counts the instants of a row inside the window.
LEMMA RowCount ==
    ASSUME HistoryInv, NEW i \in DOMAIN intervals, NEW w, IsWindow(w)
    PROVE  Clipped(intervals[i], w) = Cardinality({x \in Instants(w) : Covers(i, x)})
<1> DEFINE lo == Larger(intervals[i].start, w.from)
           hi == IF intervals[i].end # Open /\ intervals[i].end < w.to THEN intervals[i].end
                 ELSE w.to
           A == {x \in Instants(w) : Covers(i, x)}
<1>1. /\ intervals[i].start \in Int /\ intervals[i].end \in Int
      /\ w.from \in Int /\ w.to \in Int
  BY RowTypes DEF IsWindow, Open
<1>2. lo \in Int /\ hi \in Int
  BY <1>1, LargerSmaller
<1>3. Clipped(intervals[i], w) = IF hi > lo THEN hi - lo ELSE 0
  BY DEF Clipped
<1>4. \A x \in Int : lo <= x <=> intervals[i].start <= x /\ w.from <= x
  BY <1>1, LargerSmaller
<1>5. \A x \in Int : x < hi <=> x < w.to /\ (intervals[i].end = Open \/ x < intervals[i].end)
  BY <1>1
<1> HIDE DEF lo, hi
<1>6. A = lo..(hi - 1)
  BY <1>1, <1>2, <1>4, <1>5 DEF Instants, Covers
<1> HIDE DEF A
<1>7. Cardinality(lo..(hi - 1)) = IF hi > lo THEN hi - lo ELSE 0
  BY <1>2, SpanCount
<1>8. Clipped(intervals[i], w) = Cardinality(A)
  BY <1>3, <1>6, <1>7
<1> QED
  BY <1>8 DEF A

\* A row outside S covers no instant of w.
Suffice(S, w) ==
    /\ S \subseteq DOMAIN intervals
    /\ \A i \in DOMAIN intervals : \A x \in Instants(w) : Covers(i, x) => i \in S

\* The rows of S, and the instants of w, in which the machine is in a state of T.
RowsIn(S, T)   == {i \in S : intervals[i].state \in T}
InStates(T, w) == {x \in Instants(w) : Known(x) /\ StateAt(x) \in T}

\* The clipped rows in a state of T add up to the instants in a state of T.
LEMMA RowsCount ==
    ASSUME HistoryInv, NEW w, IsWindow(w), NEW S, Suffice(S, w), NEW T, NEW f,
           \A i \in S : f[i] = Clipped(intervals[i], w)
    PROVE  SumFunctionOnSet(f, RowsIn(S, T)) = Cardinality(InStates(T, w))
<1> DEFINE rows == RowsIn(S, T)
           I == Instants(w)
           A == [i \in rows |-> {x \in I : Covers(i, x)}]
<1>1. IsFiniteSet(I) /\ I \subseteq Int
  BY InstantsFinite
<1>2. IsFiniteSet(DOMAIN intervals)
  <2>1. DOMAIN intervals = 1..Len(intervals) /\ Len(intervals) \in Nat
    BY DEF HistoryInv
  <2> QED
    BY <2>1, FS_Interval
<1>0. \A i : i \in rows <=> i \in S /\ intervals[i].state \in T
  BY DEF RowsIn
<1> HIDE DEF rows
<1>3. rows \in SUBSET DOMAIN intervals
  BY <1>0 DEF Suffice
<1>4. IsFiniteSet(rows)
  BY <1>2, <1>3, FS_Subset
<1>5. Family(A, rows, I)
  <2>1. \A i \in rows : A[i] \subseteq I
    OBVIOUS
  <2>2. ASSUME NEW i \in rows, NEW j \in rows, i # j PROVE A[i] \cap A[j] = {}
    <3>1. i \in DOMAIN intervals /\ j \in DOMAIN intervals
      BY <1>3
    <3>2. ASSUME NEW x \in I PROVE ~(Covers(i, x) /\ Covers(j, x))
      BY <1>1, <2>2, <3>1, CoversOnce
    <3> HIDE DEF I
    <3> QED
      BY <3>2
  <2> HIDE DEF A
  <2> QED
    BY <2>1, <2>2 DEF Family
<1>6. \A i \in rows : f[i] = Cardinality(A[i])
  <2> SUFFICES ASSUME NEW i \in rows PROVE f[i] = Cardinality(A[i])
    OBVIOUS
  <2>1. i \in S /\ i \in DOMAIN intervals
    BY <1>0, <1>3
  <2>2. A[i] = {x \in I : Covers(i, x)}
    OBVIOUS
  <2> HIDE DEF A
  <2> QED
    BY <2>1, <2>2, RowCount
<1>7. InStates(T, w) = Joined(A, rows)
  <2>1. ASSUME NEW x \in I
        PROVE  Known(x) /\ StateAt(x) \in T <=> \E i \in rows : Covers(i, x)
    <3>1. ASSUME Known(x), StateAt(x) \in T PROVE \E i \in rows : Covers(i, x)
      <4>1. PICK i \in DOMAIN intervals : Covers(i, x)
        BY <1>1, <3>1, KnownCovered
      <4>2. StateAt(x) = intervals[i].state
        BY <1>1, <4>1, StateAtIs
      <4>3. i \in S
        BY <4>1 DEF Suffice
      <4> QED
        BY <1>0, <3>1, <4>1, <4>2, <4>3
    <3>2. ASSUME NEW i \in rows, Covers(i, x) PROVE Known(x) /\ StateAt(x) \in T
      <4>1. i \in DOMAIN intervals /\ intervals[i].state \in T
        BY <1>0, <1>3
      <4>2. Known(x)
        BY <1>1, <3>2, <4>1, KnownCovered
      <4>3. StateAt(x) = intervals[i].state
        BY <1>1, <3>2, <4>1, StateAtIs
      <4> QED
        BY <4>1, <4>2, <4>3
    <3> QED
      BY <3>1, <3>2
  <2>2. \A x : x \in Joined(A, rows) <=> x \in I /\ \E i \in rows : Covers(i, x)
    <3> HIDE DEF I
    <3> QED
      BY DEF Joined
  <2>3. \A x : x \in InStates(T, w) <=> x \in I /\ Known(x) /\ StateAt(x) \in T
    BY DEF InStates
  <2> HIDE DEF A, I
  <2> QED
    BY <2>1, <2>2, <2>3
<1> HIDE DEF A
<1>8. SumFunctionOnSet(f, rows) = Cardinality(Joined(A, rows))
  BY <1>1, <1>4, <1>5, <1>6, SumDisjoint
<1> QED
  BY <1>7, <1>8 DEF rows

\* The states of planned and of unplanned downtime.
PlannedStops == {"setup", "maintenance"}
Failures     == {"stopped"}

\* Aggregate, of rows that hold every instant of the window, counts the
\* planned stops and the failures of the window.
LEMMA AggregateCount ==
    ASSUME HistoryInv, NEW w, IsWindow(w), NEW S, Suffice(S, w), NEW planned
    PROVE  LET in == Aggregate(w, Restrict(intervals, S), planned)
           IN  /\ in.planned = planned
               /\ in.plannedDown = Cardinality(InStates(PlannedStops, w))
               /\ in.unplannedDown = Cardinality(InStates(Failures, w))
<1> DEFINE ivs == Restrict(intervals, S)
           dur == [i \in S |-> Clipped(ivs[i], w)]
           in == Aggregate(w, ivs, planned)
           stops == RowsIn(S, PlannedStops)
           fails == RowsIn(S, Failures)
<1>1. DOMAIN ivs = S /\ \A i \in S : ivs[i] = intervals[i]
  BY DEF Restrict
<1>2. \A i \in S : dur[i] = Clipped(intervals[i], w)
  BY <1>1
<1>3. /\ {i \in {j \in DOMAIN ivs : IsDowntime(ivs[j].state)} : IsPlannedStop(ivs[i].state)} = stops
      /\ {j \in DOMAIN ivs : IsDowntime(ivs[j].state)} \ stops = fails
  BY <1>1 DEF IsDowntime, IsPlannedStop, PlannedStops, Failures, RowsIn
<1>4. dur = [i \in DOMAIN ivs |-> Clipped(ivs[i], w)]
  BY <1>1
<1> HIDE DEF ivs, dur, stops, fails
<1>5. /\ in.planned = planned
      /\ in.plannedDown = SumFunctionOnSet(dur, stops)
      /\ in.unplannedDown = SumFunctionOnSet(dur, fails)
  BY <1>3, <1>4 DEF Aggregate
<1> HIDE DEF in
<1>6. SumFunctionOnSet(dur, stops) = Cardinality(InStates(PlannedStops, w))
  BY <1>2, RowsCount DEF stops
<1>7. SumFunctionOnSet(dur, fails) = Cardinality(InStates(Failures, w))
  BY <1>2, RowsCount DEF fails
<1>8. /\ in.planned = planned
      /\ in.plannedDown = Cardinality(InStates(PlannedStops, w))
      /\ in.unplannedDown = Cardinality(InStates(Failures, w))
  BY <1>5, <1>6, <1>7
<1> QED
  BY <1>8 DEF in, ivs

\* Whole seconds in UTC: the texts compare as the instants do.
LEMMA TextOrder ==
    ASSUME PlainTimestamps, NEW t \in Int, NEW b \in Int, NEW off \in Offsets
    PROVE  (TextBefore(t, off, b) <=> t < b) /\ (TextAfter(t, off, b) <=> t > b)
<1>1. off = 0 /\ SecondLen = 1
  BY DEF PlainTimestamps
<1>2. ASSUME NEW u \in Int PROVE TextRank(u, 0) = 3 * u + 2
  <2>1. (u + 0) \div 1 = u /\ (u + 0) % 1 = 0
    OBVIOUS
  <2> QED
    BY <1>1, <2>1 DEF TextRank
<1>3. TextRank(t, 0) = 3 * t + 2 /\ TextRank(b, 0) = 3 * b + 2
  BY <1>2
<1> QED
  BY <1>1, <1>3 DEF TextBefore, TextAfter

\* The rows ByMachineRange selects.
Selection(w) == {i \in DOMAIN intervals :
    /\ intervals[i].start < w.to
    /\ intervals[i].end = Open \/ intervals[i].end > w.from}

\* ByMachineRange returns the rows that have an instant in the window.
LEMMA RangeIs ==
    ASSUME HistoryInv, PlainTimestamps, NEW w, IsWindow(w)
    PROVE  ByMachineRange(w) = Restrict(intervals, Selection(w)) /\ Suffice(Selection(w), w)
<1>1. w.from \in Int /\ w.to \in Int
  BY DEF IsWindow
<1>2. ASSUME NEW i \in DOMAIN intervals
      PROVE  /\ TextBefore(intervals[i].start, intervals[i].startOff, w.to)
                  <=> intervals[i].start < w.to
             /\ TextAfter(intervals[i].end, intervals[i].endOff, w.from)
                  <=> intervals[i].end > w.from
  <2>1. /\ intervals[i].start \in Int /\ intervals[i].end \in Int
        /\ intervals[i].startOff \in Offsets /\ intervals[i].endOff \in Offsets
    BY RowTypes DEF Open
  <2> QED
    BY <1>1, <2>1, TextOrder
<1>3. Selection(w) = {i \in DOMAIN intervals :
          /\ TextBefore(intervals[i].start, intervals[i].startOff, w.to)
          /\ intervals[i].end = Open
               \/ TextAfter(intervals[i].end, intervals[i].endOff, w.from)}
  BY <1>2 DEF Selection
<1>4. ByMachineRange(w) = Restrict(intervals, Selection(w))
  BY <1>3 DEF ByMachineRange
<1>5. ASSUME NEW i \in DOMAIN intervals, NEW x \in Instants(w), Covers(i, x)
      PROVE  i \in Selection(w)
  <2>1. x \in Int /\ w.from <= x /\ x < w.to
    BY <1>1 DEF Instants
  <2>2. intervals[i].start \in Int /\ intervals[i].end \in Int
    BY RowTypes DEF Open
  <2> QED
    BY <1>1, <1>5, <2>1, <2>2 DEF Covers, Selection
<1>6. Suffice(Selection(w), w)
  BY <1>5 DEF Suffice, Selection
<1> QED
  BY <1>4, <1>6

-----------------------------------------------------------------------------
(* Theorems                                                                 *)

\* Shift.PlannedProductionTime, summed day by day with clipped overlaps, is
\* exactly the number of planned instants of the window, for any well-formed
\* shift: overnight shifts that began the day before, weekday limits, breaks
\* cut by the window and zones are neither missed nor counted twice.
THEOREM PlannedExact ==
    ASSUME ShiftsWellFormed
    PROVE  Spec => []PlannedCountsInstants
<1>1. HistoryInv => PlannedCountsInstants
  <2> SUFFICES ASSUME HistoryInv, NEW w \in Windows, NEW r \in shifts
               PROVE  PlannedProductionTime(r.shift, w) =
                        Cardinality({x \in Instants(w) : IsPlanned(r.shift, x)})
    BY DEF PlannedCountsInstants
  <2>1. IsWindow(w) /\ w.from < w.to
    BY DEF Windows, IsWindow, HistoryInv
  <2>2. IsShift(r.shift) /\ WellFormed(r.shift)
    BY AvailabilityAssumption DEF ShiftsWellFormed, HistoryInv
  <2> QED
    BY <2>1, <2>2, PlannedCount
<1> QED
  BY <1>1, HistoryInit, HistoryNext, PTL DEF Spec

\* ByMachineRange and Aggregate: with timestamps of whole seconds in UTC, the
\* rows read for a window and clipped to it add up to exactly the instants of
\* the window at which the machine was stopped, planned and unplanned.
THEOREM DowntimeExact ==
    ASSUME PlainTimestamps
    PROVE  Spec => []DowntimeCountsInstants
<1>1. HistoryInv => DowntimeCountsInstants
  <2> SUFFICES ASSUME HistoryInv PROVE DowntimeCountsInstants
    OBVIOUS
  <2>1. ASSUME NEW w \in Windows
        PROVE  LET in == Aggregate(w, ByMachineRange(w), 0)
                   down == {x \in Instants(w) : Known(x) /\ IsDowntime(StateAt(x))}
               IN /\ in.plannedDown = Cardinality({x \in down : IsPlannedStop(StateAt(x))})
                  /\ in.unplannedDown = Cardinality({x \in down : ~IsPlannedStop(StateAt(x))})
    <3> DEFINE in == Aggregate(w, ByMachineRange(w), 0)
               down == {x \in Instants(w) : Known(x) /\ IsDowntime(StateAt(x))}
    <3>1. IsWindow(w)
      BY DEF Windows, IsWindow, HistoryInv
    <3>2. ByMachineRange(w) = Restrict(intervals, Selection(w)) /\ Suffice(Selection(w), w)
      BY <3>1, RangeIs
    <3>3. /\ in.plannedDown = Cardinality(InStates(PlannedStops, w))
          /\ in.unplannedDown = Cardinality(InStates(Failures, w))
      BY <3>1, <3>2, AggregateCount
    <3>4. /\ {x \in down : IsPlannedStop(StateAt(x))} = InStates(PlannedStops, w)
          /\ {x \in down : ~IsPlannedStop(StateAt(x))} = InStates(Failures, w)
      BY DEF InStates, IsDowntime, IsPlannedStop, PlannedStops, Failures
    <3> QED
      BY <3>3, <3>4
  <2> QED
    BY <2>1 DEF DowntimeCountsInstants
<1> QED
  BY <1>1, HistoryInit, HistoryNext, PTL DEF Spec

\* The fields of a Ratio.
LEMMA RatioIs ==
    ASSUME NEW in
    PROVE  LET r == Ratio(in)
           IN  /\ r.hasData <=> in.planned # 0
               /\ r.hasData =>
                    /\ r.planned = in.planned
                    /\ r.plannedDown = in.plannedDown
                    /\ r.unplannedDown = in.unplannedDown
                    /\ r.run = Larger(in.planned - (in.plannedDown + in.unplannedDown), 0)
  BY DEF Ratio

\* The planned time of the machine's shifts is counted shift by shift.
LEMMA ApplicablePlanned ==
    ASSUME HistoryInv, ShiftsWellFormed, NEW w, IsWindow(w), w.from < w.to
    PROVE  ForMachineWindow(shifts, w).planned =
             SumFunction([r \in Applicable |->
                            Cardinality({x \in Instants(w) : IsPlanned(r.shift, x)})])
<1> DEFINE own == {r \in shifts : r.machine = Machine}
           found == IF own # {} THEN own ELSE {r \in shifts : r.machine = "*"}
           f == [r \in found |-> PlannedProductionTime(r.shift, w)]
           g == [r \in Applicable |-> Cardinality({x \in Instants(w) : IsPlanned(r.shift, x)})]
<1>1. found = Applicable
  <2>1. \A r : r \in found <=> r \in Applicable
    <3>1. Machine # "*"
      BY DEF Machine
    <3>2. CASE own # {}
      BY <3>1, <3>2 DEF Applicable
    <3>3. CASE own = {}
      BY <3>1, <3>3 DEF Applicable
    <3> QED
      BY <3>2, <3>3
  <2> QED
    BY <2>1
<1>2. ASSUME NEW r \in Applicable
      PROVE  PlannedProductionTime(r.shift, w) =
               Cardinality({x \in Instants(w) : IsPlanned(r.shift, x)})
  <2>1. r \in shifts /\ shifts \in ShiftTables
    BY DEF Applicable, HistoryInv
  <2>2. IsShift(r.shift) /\ WellFormed(r.shift)
    BY <2>1, AvailabilityAssumption DEF ShiftsWellFormed
  <2> QED
    BY <2>2, PlannedCount
<1>3. ForMachineWindow(shifts, w).planned = SumFunction(f)
  BY DEF ForMachineWindow
<1> HIDE DEF found
<1>4. f = g
  BY <1>1, <1>2
<1> QED
  BY <1>3, <1>4

\* Engine.tick: with well-formed shifts, or none, every snapshot pushed to the
\* sinks is a count of the instants since the machine's first event, planned,
\* stopped and failed, in whatever offsets and fractions of a second the events
\* are written.
THEOREM LiveExact ==
    ASSUME ShiftsWellFormed
    PROVE  Spec => []LiveCountsInstants
<1>1. HistoryInv => LiveCountsInstants
  <2> SUFFICES ASSUME HistoryInv, intervals # << >>, intervals[1].start < now
               PROVE  LiveCountsInstants
    BY DEF LiveCountsInstants
  <2> DEFINE seen == {x \in 0..(now - 1) : Known(x)}
             stops == {x \in seen : IsPlannedStop(StateAt(x))}
             fails == {x \in seen : IsDowntime(StateAt(x))} \ stops
             planned == SumFunction([r \in Applicable |->
                                       Cardinality({x \in seen : IsPlanned(r.shift, x)})])
             w == LiveWindow
             in == Aggregate(w, intervals, ForMachineWindow(shifts, w).planned)
  <2>1. 1 \in DOMAIN intervals
    BY DEF HistoryInv
  <2>2. intervals[1].start \in Nat /\ now \in Nat
    BY <2>1, RowTypes DEF HistoryInv
  <2>3. w.from = intervals[1].start /\ w.to = now /\ w.from < w.to /\ IsWindow(w)
    BY <2>2 DEF LiveWindow, Window, IsWindow
  <2>4. seen = Instants(w)
    BY <2>2, <2>3 DEF Known, Instants
  <2>5. ForMachineWindow(shifts, w).planned = planned
    <3> HIDE DEF w, seen
    <3> QED
      BY <2>3, <2>4, ApplicablePlanned
  <2>6. stops = InStates(PlannedStops, w) /\ fails = InStates(Failures, w)
    <3>1. \A x \in Instants(w) : Known(x)
      BY <2>4
    <3> HIDE DEF seen, w
    <3>2. stops = InStates(PlannedStops, w)
      BY <2>4, <3>1 DEF InStates, IsPlannedStop, PlannedStops
    <3>3. \A x : x \in fails <=> x \in InStates(Failures, w)
      BY <2>4, <3>1 DEF InStates, IsDowntime, IsPlannedStop, Failures
    <3> QED
      BY <3>2, <3>3
  <2>7. Restrict(intervals, DOMAIN intervals) = intervals /\ Suffice(DOMAIN intervals, w)
    BY DEF Restrict, Suffice, HistoryInv
  <2>8. LiveSnapshot = Ratio(in)
    BY DEF LiveSnapshot
  <2> HIDE DEF w, seen, planned, stops, fails
  <2>9. /\ in.planned = planned
        /\ in.plannedDown = Cardinality(stops)
        /\ in.unplannedDown = Cardinality(fails)
    BY <2>3, <2>5, <2>6, <2>7, AggregateCount
  <2> HIDE DEF in
  <2>10. /\ LiveSnapshot.hasData <=> planned # 0
         /\ LiveSnapshot.hasData =>
              /\ LiveSnapshot.planned = planned
              /\ LiveSnapshot.plannedDown = Cardinality(stops)
              /\ LiveSnapshot.unplannedDown = Cardinality(fails)
              /\ LiveSnapshot.run = Larger(planned - (Cardinality(stops) + Cardinality(fails)), 0)
    BY <2>8, <2>9, RatioIs
  <2> QED
    BY <2>10 DEF LiveCountsInstants, planned, stops, fails, seen
<1> QED
  BY <1>1, HistoryInit, HistoryNext, PTL DEF Spec
=============================================================================
