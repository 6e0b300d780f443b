-------------------------- MODULE HoldAuctionProofs --------------------------
(***************************************************************************)
(* The auction of the Rust exchange, for every set of bidders, request,    *)
(* reply and order of arrival.  The first part is about the order in which *)
(* the bids of one bidder are kept, the second about the auction itself.   *)
(***************************************************************************)
EXTENDS HoldAuction, FiniteSetTheorems, TLAPS

\* R orders the elements of I, strictly and totally.
Orders(R, I) ==
    /\ \A i \in I : <<i, i>> \notin R
    /\ \A i, j \in I : i # j => <<i, j>> \in R \/ <<j, i>> \in R
    /\ \A i, j, k \in I : <<i, j>> \in R /\ <<j, k>> \in R => <<i, k>> \in R

Below(R, I, i) == {j \in I : <<j, i>> \in R}

-----------------------------------------------------------------------------
LEMMA EmptyHasNoPlaces == DOMAIN <<>> = {}
OBVIOUS

\* Shifting a place, and a place between two others.
LEMMA ShiftBack ==
  ASSUME NEW m \in Nat, NEW off \in Nat
  PROVE  m \in Int /\ off + (m - off) = m
OBVIOUS

LEMMA PlaceBetween ==
  ASSUME NEW L \in Nat, NEW i \in Nat, NEW j \in Nat, NEW k \in i..j, NEW off \in Nat,
         i - off \in 1..L, j - off \in 1..L
  PROVE  k - off \in 1..L
OBVIOUS

LEMMA PlacesOf ==
  ASSUME NEW S, NEW q \in Seq(S), NEW m \in DOMAIN q
  PROVE  m \in Nat
OBVIOUS

\* The non-bids of a seat name it.
LEMMA NonBidsOfSeat ==
  ASSUME NEW b, NEW code, NEW n \in AllImps(b, code)
  PROVE  n.seat = b
BY DEF AllImps

LEMMA BelowIsFinite ==
  ASSUME NEW I, IsFiniteSet(I), NEW R, NEW i
  PROVE  /\ IsFiniteSet(Below(R, I, i)) /\ Cardinality(Below(R, I, i)) \in Nat
         /\ Cardinality(I) \in Nat
<1>1. Below(R, I, i) \in SUBSET I
  BY DEF Below
<1> QED
  BY <1>1, FS_Subset, FS_CardinalityType

\* In a finite ordered set an element has fewer elements below it than those
\* above it have.
LEMMA BelowGrows ==
  ASSUME NEW I, IsFiniteSet(I), NEW R, Orders(R, I), NEW i \in I, NEW j \in I, <<i, j>> \in R
  PROVE  Cardinality(Below(R, I, i)) < Cardinality(Below(R, I, j))
<1>1. Below(R, I, i) \in SUBSET Below(R, I, j)
  BY DEF Below, Orders
<1>2. i \in Below(R, I, j) /\ i \notin Below(R, I, i)
  BY DEF Below, Orders
<1>3. Below(R, I, i) # Below(R, I, j)
  BY <1>2
<1> QED
  BY <1>1, <1>3, FS_Subset, FS_CardinalityType, BelowIsFinite

LEMMA BelowIsLess ==
  ASSUME NEW I, IsFiniteSet(I), NEW R, Orders(R, I), NEW i \in I
  PROVE  Cardinality(Below(R, I, i)) < Cardinality(I)
<1>1. Below(R, I, i) \in SUBSET I
  BY DEF Below
<1>2. Below(R, I, i) # I
  BY Zenon DEF Below, Orders
<1> QED
  BY <1>1, <1>2, FS_Subset, FS_CardinalityType, BelowIsFinite

\* A finite ordered set has an element at every position.
LEMMA EveryPosition ==
  ASSUME NEW I, IsFiniteSet(I), NEW R, Orders(R, I), NEW k \in Nat, k < Cardinality(I)
  PROVE  \E i \in I : Cardinality(Below(R, I, i)) = k
<1> DEFINE n == Cardinality(I)
           places == 0..(n - 1)
           f == [i \in I |-> Cardinality(Below(R, I, i))]
<1> SUFFICES ASSUME \A i \in I : f[i] # k PROVE FALSE
  OBVIOUS
<1>1. n \in Nat /\ k \in places
  BY BelowIsFinite
<1>2. f \in [I -> places \ {k}]
  <2>1. \A i \in I : f[i] \in Nat /\ f[i] < n
    BY BelowIsFinite, BelowIsLess
  <2> QED
    BY <1>1, <2>1
<1>3. IsFiniteSet(places) /\ Cardinality(places) = n
  BY <1>1, FS_Interval
<1>4. IsFiniteSet(places \ {k}) /\ Cardinality(places \ {k}) = n - 1
  <2> HIDE DEF places
  <2> QED
    BY <1>1, <1>3, FS_RemoveElement
<1>5. \E i, j \in I : i # j /\ f[i] = f[j]
  <2> HIDE DEF f, places
  <2> QED
    BY <1>1, <1>2, <1>4, FS_PigeonHole
<1>6. PICK i \in I, j \in I : i # j /\ f[i] = f[j]
  BY <1>5
<1>7. <<i, j>> \in R \/ <<j, i>> \in R
  BY <1>6 DEF Orders
<1>8. f[i] \in Nat /\ f[j] \in Nat
  BY BelowIsFinite
<1>9. f[i] < f[j] \/ f[j] < f[i]
  BY <1>7, BelowGrows
<1> QED
  BY <1>6, <1>8, <1>9

LEMMA LeastOne ==
  ASSUME NEW I, IsFiniteSet(I), I # {}, NEW R, Orders(R, I)
  PROVE  \E i \in I : \A j \in I : j # i => <<i, j>> \in R
<1>1. Cardinality(I) \in Nat /\ Cardinality(I) # 0
  BY FS_CardinalityType, FS_EmptySet
<1>2. PICK i \in I : Cardinality(Below(R, I, i)) = 0
  BY <1>1, EveryPosition
<1>3. Below(R, I, i) = {}
  BY <1>2, BelowIsFinite, FS_EmptySet
<1>4. \A j \in I : <<j, i>> \notin R
  BY <1>3 DEF Below
<1> QED
  BY <1>4, Zenon DEF Orders

LEMMA MinIsLeast ==
  ASSUME NEW I, IsFiniteSet(I), I # {}, I \subseteq Int
  PROVE  Min(I) \in I /\ \A j \in I : Min(I) <= j
<1> DEFINE R == {x \in I \X I : x[1] < x[2]}
<1>1. \A i, j \in I : <<i, j>> \in R <=> i < j
  OBVIOUS
<1>2. Orders(R, I)
  BY <1>1 DEF Orders
<1> HIDE DEF R
<1>3. PICK i \in I : \A j \in I : j # i => <<i, j>> \in R
  BY <1>2, LeastOne, Zenon
<1>4. ASSUME NEW j \in I PROVE i <= j
  <2>1. i \in Int /\ j \in Int
    OBVIOUS
  <2>2. j # i => i < j
    BY <1>1, <1>3, Zenon
  <2> QED
    BY <2>1, <2>2
<1> QED
  BY <1>4, Zenon DEF Min

LEMMA MaxIsGreatest ==
  ASSUME NEW I, IsFiniteSet(I), I # {}, I \subseteq Int
  PROVE  Max(I) \in I /\ \A j \in I : j <= Max(I)
<1> DEFINE R == {x \in I \X I : x[1] > x[2]}
<1>1. \A i, j \in I : <<i, j>> \in R <=> i > j
  OBVIOUS
<1>2. Orders(R, I)
  BY <1>1 DEF Orders
<1> HIDE DEF R
<1>3. PICK i \in I : \A j \in I : j # i => <<i, j>> \in R
  BY <1>2, LeastOne
<1>4. ASSUME NEW j \in I PROVE i >= j
  <2>1. i \in Int /\ j \in Int
    OBVIOUS
  <2>2. j # i => i > j
    BY <1>1, <1>3, Zenon
  <2> QED
    BY <2>1, <2>2
<1> QED
  BY <1>4, Zenon DEF Max

-----------------------------------------------------------------------------
\* The bids of one bidder: the places of a sequence and the bids there.
Places(bids, I) ==
    /\ I \subseteq Int /\ IsFiniteSet(I)
    /\ \A i \in I : bids[i] \in BidRecords

\* Descending prices, with a second key to tell equal ones apart, are an order.
LEMMA PricesOrder ==
  ASSUME NEW I, NEW p \in [I -> Int], NEW t \in [I -> Int], NEW R,
         \A i, j \in I : t[i] = t[j] => i = j,
         \A i, j \in I : <<i, j>> \in R <=> p[i] > p[j] \/ (p[i] = p[j] /\ t[i] < t[j])
  PROVE  Orders(R, I)
  BY DEF Orders

\* BestOf is the highest bid, and of equal ones the first.
LEMMA BestIsBest ==
  ASSUME NEW bids, NEW I, Places(bids, I), I # {}
  PROVE  /\ BestOf(bids, I) \in I
         /\ \A j \in I : \/ bids[j].price < bids[BestOf(bids, I)].price
                         \/ /\ bids[j].price = bids[BestOf(bids, I)].price
                            /\ BestOf(bids, I) <= j
<1> DEFINE p == [i \in I |-> bids[i].price]
           t == [i \in I |-> i]
           R == {x \in I \X I : p[x[1]] > p[x[2]] \/ (p[x[1]] = p[x[2]] /\ t[x[1]] < t[x[2]])}
<1>1. p \in [I -> Int] /\ t \in [I -> Int]
  BY DEF Places, BidRecords
<1>2. \A i, j \in I : <<i, j>> \in R <=> p[i] > p[j] \/ (p[i] = p[j] /\ t[i] < t[j])
  OBVIOUS
<1>3. \A i, j \in I : t[i] = t[j] => i = j
  OBVIOUS
<1>4. \A i \in I : p[i] = bids[i].price /\ t[i] = i
  OBVIOUS
<1> HIDE DEF p, t, R
<1>5. Orders(R, I)
  BY <1>1, <1>2, <1>3, PricesOrder
<1>6. PICK i \in I : \A j \in I : j # i => <<i, j>> \in R
  BY <1>5, LeastOne, Zenon DEF Places
<1>7. ASSUME NEW j \in I PROVE p[j] < p[i] \/ (p[j] = p[i] /\ t[i] <= t[j])
  <2>1. p[i] \in Int /\ p[j] \in Int /\ t[i] \in Int /\ t[j] \in Int
    BY <1>1
  <2>2. j # i => p[i] > p[j] \/ (p[i] = p[j] /\ t[i] < t[j])
    BY <1>2, <1>6
  <2> QED
    BY <2>1, <2>2
<1>8. \A j \in I : \/ bids[j].price < bids[i].price
                   \/ bids[j].price = bids[i].price /\ i <= j
  BY <1>4, <1>7
<1> QED
  BY <1>8 DEF BestOf

\* f enumerates I in the order R.
Enumerates(f, I, R) ==
    /\ Cardinality(I) \in Nat
    /\ f \in [1..Cardinality(I) -> I]
    /\ \A k, l \in 1..Cardinality(I) : k < l => <<f[k], f[l]>> \in R
    /\ \A i \in I : \E k \in 1..Cardinality(I) : f[k] = i

\* What Sorted does with a set of places, for any order on them.
ByOrder(I, R) == [k \in 1..Cardinality(I) |-> CHOOSE i \in I : Cardinality(Below(R, I, i)) = k - 1]

\* An enumeration in order is a list of all elements, each once, in order.
LEMMA ByOrderIsOrdered ==
  ASSUME NEW I, IsFiniteSet(I), NEW R, Orders(R, I)
  PROVE  Enumerates(ByOrder(I, R), I, R)
<1> DEFINE n == Cardinality(I)
           c(i) == Cardinality(Below(R, I, i))
           f == ByOrder(I, R)
<1>1. n \in Nat /\ \A i \in I : c(i) \in Nat /\ c(i) < n
  BY BelowIsFinite, BelowIsLess
<1>2. \A i, j \in I : <<i, j>> \in R => c(i) < c(j)
  BY BelowGrows
<1>3. ASSUME NEW i \in I, NEW j \in I, c(i) = c(j) PROVE i = j
  <2>1. c(i) \in Nat /\ c(j) \in Nat /\ ~ (c(i) < c(j)) /\ ~ (c(j) < c(i))
    BY <1>1, <1>3
  <2>2. <<i, j>> \notin R /\ <<j, i>> \notin R
    BY <1>2, <2>1
  <2> QED
    BY <2>2 DEF Orders
<1>4. \A k \in 1..n : f[k] \in I /\ c(f[k]) = k - 1
  <2> SUFFICES ASSUME NEW k \in 1..n PROVE f[k] \in I /\ c(f[k]) = k - 1
    OBVIOUS
  <2>1. \E i \in I : c(i) = k - 1
    BY <1>1, EveryPosition
  <2> QED
    BY <2>1 DEF ByOrder
<1>5. f \in [1..n -> I]
  BY <1>4 DEF ByOrder
<1>6. ASSUME NEW k \in 1..n, NEW l \in 1..n, k < l PROVE <<f[k], f[l]>> \in R
  <2>1. c(f[k]) < c(f[l]) /\ f[k] \in I /\ f[l] \in I
    BY <1>1, <1>4, <1>6
  <2>2. f[k] # f[l] /\ <<f[l], f[k]>> \notin R
    BY <1>1, <1>2, <2>1
  <2> QED
    BY <2>1, <2>2 DEF Orders
<1>7. ASSUME NEW i \in I PROVE \E k \in 1..n : f[k] = i
  <2>1. c(i) + 1 \in 1..n /\ c(f[c(i) + 1]) = c(i) /\ f[c(i) + 1] \in I
    BY <1>1, <1>4
  <2> QED
    BY <1>3, <2>1
<1> QED
  BY <1>1, <1>5, <1>6, <1>7 DEF Enumerates

-----------------------------------------------------------------------------
LEMMA TwinsArePlaces ==
  ASSUME NEW bids, NEW I, Places(bids, I), NEW i \in I
  PROVE  /\ Places(bids, Twins(bids, I, i)) /\ i \in Twins(bids, I, i)
         /\ Twins(bids, I, i) \subseteq I
<1>1. Twins(bids, I, i) \in SUBSET I
  BY DEF Twins
<1>2. IsFiniteSet(Twins(bids, I, i))
  BY <1>1, FS_Subset DEF Places
<1> QED
  BY <1>1, <1>2 DEF Places, Twins

\* Deduplication leaves one bid of each id, a highest one.
LEMMA DedupeKeepsBest ==
  ASSUME NEW bids, NEW I, Places(bids, I)
  PROVE  /\ Dedupe(bids, I) \subseteq I
         /\ \A i, j \in Dedupe(bids, I) : bids[i].id = bids[j].id => i = j
         /\ \A i \in I : \E j \in Dedupe(bids, I) :
                bids[j].id = bids[i].id /\ bids[j].price >= bids[i].price
<1> DEFINE best(i) == BestOf(bids, Twins(bids, I, i))
<1>1. ASSUME NEW i \in I
      PROVE  best(i) \in I /\ bids[best(i)].id = bids[i].id /\ bids[best(i)].price >= bids[i].price
  <2>1. best(i) \in Twins(bids, I, i)
    BY TwinsArePlaces, BestIsBest
  <2>2. best(i) \in I /\ bids[best(i)].id = bids[i].id
    BY <2>1 DEF Twins
  <2>3. bids[i].price \in Int /\ bids[best(i)].price \in Int
    BY <2>2 DEF Places, BidRecords
  <2>4. \/ bids[i].price < bids[best(i)].price
        \/ bids[i].price = bids[best(i)].price
    BY TwinsArePlaces, BestIsBest
  <2> QED
    BY <2>2, <2>3, <2>4
<1>2. ASSUME NEW i \in I, NEW j \in I, bids[best(i)].id = bids[best(j)].id
      PROVE  best(i) = best(j)
  <2>1. bids[i].id = bids[j].id
    BY <1>1, <1>2
  <2>2. Twins(bids, I, i) = Twins(bids, I, j)
    BY <2>1 DEF Twins
  <2> QED
    BY <2>2
<1> HIDE DEF best
<1>3. Dedupe(bids, I) = {best(i) : i \in I}
  BY DEF Dedupe, best
<1> QED
  BY <1>1, <1>2, <1>3

LEMMA PlaceOfId ==
  ASSUME NEW bids, NEW I, Places(bids, I), NEW i \in I
  PROVE  Place(bids, I, i) \in I /\ bids[Place(bids, I, i)].id = bids[i].id
<1>1. Min(Twins(bids, I, i)) \in Twins(bids, I, i)
  BY TwinsArePlaces, MinIsLeast, Zenon DEF Places
<1> QED
  BY <1>1 DEF Place, Twins

\* The order in which bids are sorted, as a set of pairs.
SortOrder(bids, I, S) == {x \in S \X S : Before(bids, I, x[1], x[2])}

\* Bids with different ids are ordered by price and, of equal price, by place.
LEMMA SortOrderOrders ==
  ASSUME NEW bids, NEW I, Places(bids, I), NEW S, S \subseteq Dedupe(bids, I)
  PROVE  Orders(SortOrder(bids, I, S), S)
<1> DEFINE p == [i \in S |-> bids[i].price]
           t == [i \in S |-> Place(bids, I, i)]
           R == SortOrder(bids, I, S)
<1>1. S \subseteq I
  BY DedupeKeepsBest
<1>2. p \in [S -> Int] /\ t \in [S -> Int]
  BY <1>1, PlaceOfId, Zenon DEF Places, BidRecords
<1>3. ASSUME NEW i \in S, NEW j \in S, t[i] = t[j] PROVE i = j
  <2>1. bids[i].id = bids[j].id
    BY <1>1, <1>3, PlaceOfId
  <2> QED
    BY <2>1, DedupeKeepsBest
<1>4. \A i, j \in S : <<i, j>> \in R <=> p[i] > p[j] \/ (p[i] = p[j] /\ t[i] < t[j])
  BY DEF SortOrder, Before
<1> HIDE DEF p, t, R
<1>5. Orders(R, S)
  BY <1>2, <1>3, <1>4, PricesOrder
<1> QED
  BY <1>5 DEF R

-----------------------------------------------------------------------------
\* In a finite ordered set, m elements have fewer than m below them.
LEMMA FirstOnes ==
  ASSUME NEW I, IsFiniteSet(I), NEW R, Orders(R, I), NEW m \in Nat, m <= Cardinality(I)
  PROVE  Cardinality({i \in I : Cardinality(Below(R, I, i)) < m}) = m
<1> DEFINE n == Cardinality(I)
           c(i) == Cardinality(Below(R, I, i))
           T == {i \in I : c(i) < m}
           f == [i \in T |-> c(i) + 1]
           ms == 1..m
<1>1. n \in Nat /\ \A i \in I : c(i) \in Nat
  BY BelowIsFinite
<1>2. f \in [T -> ms]
  BY <1>1
<1>3. ASSUME NEW i \in T, NEW j \in T, f[i] = f[j] PROVE i = j
  <2>1. c(i) \in Nat /\ c(j) \in Nat /\ ~ (c(i) < c(j)) /\ ~ (c(j) < c(i))
    BY <1>1, <1>3
  <2>2. <<i, j>> \notin R /\ <<j, i>> \notin R
    BY <2>1, BelowGrows
  <2> QED
    BY <2>2 DEF Orders
<1>4. ASSUME NEW k \in ms PROVE \E i \in T : f[i] = k
  <2>1. k - 1 \in Nat /\ k - 1 < n /\ k - 1 < m
    BY <1>1
  <2>2. PICK i \in I : c(i) = k - 1
    BY <2>1, EveryPosition
  <2> QED
    BY <2>1, <2>2
<1>5. T \in SUBSET I
  OBVIOUS
<1> HIDE DEF f, T, ms
<1>6. f \in Bijection(T, ms)
  BY <1>2, <1>3, <1>4 DEF Bijection, Injection, Surjection, IsInjective
<1>7. Cardinality(ms) = Cardinality(T)
  BY <1>5, <1>6, FS_Subset, FS_Bijection DEF ExistsBijection
<1>8. Cardinality(ms) = m
  <2>1. Cardinality(1..m) = m
    BY FS_Interval
  <2> QED
    BY <2>1 DEF ms
<1> QED
  BY <1>7, <1>8 DEF T

\* What the multi-bid limit leaves is enumerated by price.
LEMMA SortedEnumerates ==
  ASSUME NEW bids, NEW I, Places(bids, I), NEW limit
  PROVE  LET kept == EnforceMultiBid(bids, I, Dedupe(bids, I), limit)
         IN  /\ kept \subseteq Dedupe(bids, I) /\ IsFiniteSet(kept)
             /\ Enumerates(Sorted(bids, I, limit), kept, SortOrder(bids, I, kept))
<1> DEFINE kept == EnforceMultiBid(bids, I, Dedupe(bids, I), limit)
           R == SortOrder(bids, I, kept)
<1>1. kept \subseteq Dedupe(bids, I) /\ Dedupe(bids, I) \subseteq I
  BY DedupeKeepsBest DEF EnforceMultiBid
<1>2. IsFiniteSet(kept)
  BY <1>1, FS_Subset DEF Places
<1>3. Orders(R, kept)
  BY <1>1, SortOrderOrders
<1>4. \A i \in kept : {j \in kept : Before(bids, I, j, i)} = Below(R, kept, i)
  BY DEF Below, SortOrder
<1>5. Sorted(bids, I, limit) = ByOrder(kept, R)
  <2> HIDE DEF kept, R
  <2>1. Sorted(bids, I, limit) = [k \in 1..Cardinality(kept) |->
            CHOOSE i \in kept : Cardinality({j \in kept : Before(bids, I, j, i)}) = k - 1]
    BY DEF Sorted, kept
  <2>2. \A k \in 1..Cardinality(kept) :
           (CHOOSE i \in kept : Cardinality({j \in kept : Before(bids, I, j, i)}) = k - 1)
         = (CHOOSE i \in kept : Cardinality(Below(R, kept, i)) = k - 1)
    BY <1>4, Zenon
  <2> QED
    BY <2>1, <2>2, Zenon DEF ByOrder
<1>6. Enumerates(ByOrder(kept, R), kept, R)
  BY <1>2, <1>3, ByOrderIsOrdered
<1> QED
  BY <1>1, <1>2, <1>5, <1>6

\* The enumeration has one bid of an id, on an impression the higher ones
\* first, and with a limit of one it has one bid of an impression.
LEMMA SortedFacts ==
  ASSUME NEW bids, NEW I, Places(bids, I), NEW limit
  PROVE  LET s == Sorted(bids, I, limit)
         IN  /\ \E n \in Nat : s \in [1..n -> I]
             /\ \A k, l \in DOMAIN s : bids[s[k]].id = bids[s[l]].id => k = l
             /\ \A k, l \in DOMAIN s :
                   k < l /\ bids[s[k]].imp = bids[s[l]].imp => bids[s[k]].price >= bids[s[l]].price
             /\ limit = 1 => \A k, l \in DOMAIN s : bids[s[k]].imp = bids[s[l]].imp => k = l
<1> DEFINE D == Dedupe(bids, I)
           kept == EnforceMultiBid(bids, I, D, limit)
           R == SortOrder(bids, I, kept)
           s == Sorted(bids, I, limit)
           n == Cardinality(kept)
<1>1. kept \subseteq D /\ D \subseteq I /\ IsFiniteSet(D)
  BY SortedEnumerates, DedupeKeepsBest, FS_Subset, Zenon DEF Places
<1>2. Orders(R, kept)
  BY <1>1, SortOrderOrders
<1>3. n \in Nat /\ s \in [1..n -> kept] /\ \A k, l \in 1..n : k < l => <<s[k], s[l]>> \in R
  BY SortedEnumerates DEF Enumerates
<1>4. \A i, j \in kept : <<i, j>> \in R => Before(bids, I, i, j)
  BY DEF SortOrder
<1>5. ASSUME NEW i \in kept, NEW j \in kept, limit = 1, bids[i].imp = bids[j].imp
      PROVE  <<i, j>> \notin R
  <2> DEFINE A == Ahead(bids, I, D, j)
  <2>1. IsFiniteSet(A) /\ Cardinality(A) \in Nat
    <3>1. A \in SUBSET D
      BY DEF Ahead
    <3> QED
      BY <1>1, <3>1, FS_Subset, FS_CardinalityType
  <2>2. Cardinality(A) < 1
    BY <1>5 DEF EnforceMultiBid
  <2>3. A = {}
    <3> HIDE DEF A
    <3> QED
      BY <2>1, <2>2, FS_EmptySet
  <2>4. ~ Before(bids, I, i, j)
    BY <1>1, <1>5, <2>3 DEF Ahead
  <2> QED
    BY <1>4, <2>4
<1> HIDE DEF D, kept, R, s, n
<1>6. \A k, l \in 1..n : s[k] = s[l] => k = l
  <2> SUFFICES ASSUME NEW k \in 1..n, NEW l \in 1..n, s[k] = s[l], k # l PROVE FALSE
    OBVIOUS
  <2>1. k < l \/ l < k
    BY <1>3
  <2>2. s[k] \in kept /\ <<s[k], s[k]>> \in R
    BY <1>3, <2>1
  <2> QED
    BY <1>2, <2>2 DEF Orders
<1>7. ASSUME NEW k \in 1..n, NEW l \in 1..n, bids[s[k]].id = bids[s[l]].id PROVE k = l
  <2>1. s[k] \in D /\ s[l] \in D
    BY <1>1, <1>3
  <2>2. s[k] = s[l]
    BY <1>7, <2>1, DedupeKeepsBest DEF D
  <2> QED
    BY <1>6, <2>2
<1>8. ASSUME NEW k \in 1..n, NEW l \in 1..n, k < l PROVE bids[s[k]].price >= bids[s[l]].price
  <2>1. s[k] \in I /\ s[l] \in I /\ Before(bids, I, s[k], s[l])
    BY <1>1, <1>3, <1>4, <1>8, Zenon
  <2>2. bids[s[k]].price \in Int /\ bids[s[l]].price \in Int
    BY <2>1, Zenon DEF Places, BidRecords
  <2> QED
    BY <2>1, <2>2 DEF Before
<1>9. ASSUME NEW k \in 1..n, NEW l \in 1..n, limit = 1, bids[s[k]].imp = bids[s[l]].imp PROVE k = l
  <2>1. s[k] \in kept /\ s[l] \in kept
    BY <1>3
  <2>2. <<s[k], s[l]>> \notin R /\ <<s[l], s[k]>> \notin R
    BY <1>5, <1>9, <2>1
  <2>3. s[k] = s[l]
    BY <1>2, <2>1, <2>2 DEF Orders
  <2> QED
    BY <1>6, <2>3
<1>10. n \in Nat /\ s \in [1..n -> I] /\ DOMAIN s = 1..n
  BY <1>1, <1>3
<1> QED
  BY <1>7, <1>8, <1>9, <1>10 DEF s

\* A place that the multi-bid limit leaves out is beaten by a full quota of
\* places on its impression.
LEMMA QuotaIsFull ==
  ASSUME NEW bids, NEW I, Places(bids, I), NEW limit \in Nat,
         NEW j \in Dedupe(bids, I), j \notin EnforceMultiBid(bids, I, Dedupe(bids, I), limit)
  PROVE  LET T == {i \in EnforceMultiBid(bids, I, Dedupe(bids, I), limit) :
                      bids[i].imp = bids[j].imp}
         IN  /\ Cardinality(T) = limit /\ IsFiniteSet(T)
             /\ \A i \in T : bids[i].price >= bids[j].price
<1> DEFINE D == Dedupe(bids, I)
           A == {i \in D : bids[i].imp = bids[j].imp}
           R == SortOrder(bids, I, A)
           c(i) == Cardinality(Below(R, A, i))
           T == {i \in EnforceMultiBid(bids, I, D, limit) : bids[i].imp = bids[j].imp}
<1>1. D \subseteq I /\ A \subseteq D /\ j \in A
  BY DedupeKeepsBest
<1>2. IsFiniteSet(A)
  <2>1. A \in SUBSET I
    BY <1>1
  <2> QED
    BY <2>1, FS_Subset DEF Places
<1>3. Orders(R, A)
  BY <1>1, SortOrderOrders
<1>4. \A i \in A : Ahead(bids, I, D, i) = Below(R, A, i)
  BY DEF Ahead, Below, SortOrder
<1>5. T = {i \in A : c(i) < limit}
  BY <1>4 DEF EnforceMultiBid
<1>6. ~ (c(j) < limit)
  BY <1>1, <1>4 DEF EnforceMultiBid
<1>7. \A i, k \in A : <<i, k>> \in R => Before(bids, I, i, k)
  BY DEF SortOrder
<1> HIDE DEF D, A, R, T
<1>8. Cardinality(A) \in Nat /\ (\A i \in A : c(i) \in Nat) /\ c(j) < Cardinality(A)
  BY <1>1, <1>2, <1>3, BelowIsFinite, BelowIsLess
<1>9. Cardinality(T) = limit
  <2>1. limit <= Cardinality(A)
    BY <1>1, <1>6, <1>8
  <2> QED
    BY <1>2, <1>3, <1>5, <2>1, FirstOnes
<1>10. IsFiniteSet(T)
  <2>1. T \in SUBSET A
    BY <1>5
  <2> QED
    BY <1>2, <2>1, FS_Subset
<1>11. ASSUME NEW i \in T PROVE bids[i].price >= bids[j].price
  <2>1. i \in A /\ c(i) < c(j) /\ i # j
    BY <1>1, <1>5, <1>6, <1>8
  <2>2. <<j, i>> \notin R
    BY <1>1, <1>2, <1>3, <1>8, <2>1, BelowGrows
  <2>3. Before(bids, I, i, j)
    BY <1>1, <1>3, <1>7, <2>1, <2>2, Zenon DEF Orders
  <2>4. bids[i].price \in Int /\ bids[j].price \in Int
    BY <1>1, <2>1, Zenon DEF Places, BidRecords
  <2> QED
    BY <2>3, <2>4 DEF Before
<1> QED
  BY <1>9, <1>10, <1>11 DEF T, D

-----------------------------------------------------------------------------
\* The parts of a request that processing the bids of a bidder reads.
Numbers(q) ==
    /\ \A c \in DOMAIN q.rates : q.rates[c] \in Int
    /\ \A b \in DOMAIN q.factors : q.factors[b] \in Int
    /\ \A b \in DOMAIN q.multibid : q.multibid[b] \in Int

LEMMA LimitIsPositive ==
  ASSUME NEW q, Numbers(q), NEW b
  PROVE  MultiBidLimit(q.multibid, b) \in Nat /\ MultiBidLimit(q.multibid, b) >= 1
<1>1. ASSUME NEW l \in Int PROVE Max({l, 1}) \in Nat /\ Max({l, 1}) >= 1
  <2>1. \E x \in {l, 1} : \A y \in {l, 1} : x >= y
    <3>1. CASE l >= 1
      BY <3>1
    <3>2. CASE ~ (l >= 1)
      BY <3>2
    <3> QED
      BY <3>1, <3>2
  <2> QED
    BY <2>1 DEF Max
<1> QED
  BY <1>1 DEF MultiBidLimit, Numbers

LEMMA PricedIsBids ==
  ASSUME NEW q, Numbers(q), NEW b, NEW bids \in Seq(BidRecords), NEW cur
  PROVE  /\ Priced(q, b, bids, cur) \in Seq(BidRecords)
         /\ DOMAIN Priced(q, b, bids, cur) = DOMAIN bids
<1> DEFINE price(i) == ApplyFactor(ToUSD(bids[i].price, cur, q.rates), b, q.factors)
           P == Priced(q, b, bids, cur)
<1>1. Len(bids) \in Nat /\ DOMAIN bids = 1..Len(bids) /\ \A i \in DOMAIN bids : bids[i] \in BidRecords
  OBVIOUS
<1>2. ASSUME NEW i \in DOMAIN bids PROVE price(i) \in Int
  <2>1. bids[i].price \in Int
    BY <1>1 DEF BidRecords
  <2>2. ToUSD(bids[i].price, cur, q.rates) \in Int
    BY <2>1 DEF ToUSD, Numbers
  <2> QED
    BY <2>2 DEF ApplyFactor, Numbers
<1>3. P = [i \in DOMAIN bids |-> [bids[i] EXCEPT !.price = price(i)]]
  BY DEF Priced
<1> HIDE DEF P, price
<1>4. ASSUME NEW i \in DOMAIN bids PROVE [bids[i] EXCEPT !.price = price(i)] \in BidRecords
  BY <1>1, <1>2, Zenon DEF BidRecords
<1>5. P \in [1..Len(bids) -> BidRecords] /\ DOMAIN P = DOMAIN bids
  BY <1>1, <1>3, <1>4, Zenon
<1>6. P \in Seq(BidRecords)
  BY <1>1, <1>5
<1> QED
  BY <1>5, <1>6 DEF P

LEMMA AcceptedArePlaces ==
  ASSUME NEW q, NEW P \in Seq(BidRecords)
  PROVE  Places(P, Accepted(q, P)) /\ Accepted(q, P) \subseteq DOMAIN P
<1>1. Accepted(q, P) \in SUBSET (1..Len(P))
  BY DEF Accepted, ValidateBids, AboveFloor
<1>2. Len(P) \in Nat /\ IsFiniteSet(1..Len(P))
  BY FS_Interval
<1>3. IsFiniteSet(Accepted(q, P))
  BY <1>1, <1>2, FS_Subset
<1> QED
  BY <1>1, <1>3 DEF Places

\* The bids of a bidder as the response gets them: bids, one of an id, on an
\* impression the higher first, and one of an impression where the limit is one.
WellKept(kept, limit) ==
    /\ kept \in Seq(BidRecords)
    /\ \A k, l \in DOMAIN kept : kept[k].id = kept[l].id => k = l
    /\ \A k, l \in DOMAIN kept :
          k < l /\ kept[k].imp = kept[l].imp => kept[k].price >= kept[l].price
    /\ limit = 1 => \A k, l \in DOMAIN kept : kept[k].imp = kept[l].imp => k = l

LEMMA KeptIsWellKept ==
  ASSUME NEW q, Numbers(q), NEW b, NEW bids \in Seq(BidRecords), NEW cur
  PROVE  WellKept(KeptBids(q, b, bids, cur), MultiBidLimit(q.multibid, b))
<1> DEFINE P == Priced(q, b, bids, cur)
           I == Accepted(q, P)
           limit == MultiBidLimit(q.multibid, b)
           s == Sorted(P, I, limit)
           kept == [k \in DOMAIN s |-> P[s[k]]]
<1>1. P \in Seq(BidRecords)
  BY PricedIsBids
<1>2. Places(P, I)
  BY <1>1, AcceptedArePlaces
<1>3. CASE bids = <<>> \/ ~ ValidCurrency(cur)
  <2>1. KeptBids(q, b, bids, cur) = <<>>
    BY <1>3 DEF KeptBids
  <2> QED
    BY <2>1 DEF WellKept
<1>4. CASE ~ (bids = <<>> \/ ~ ValidCurrency(cur))
  <2>1. KeptBids(q, b, bids, cur) = kept
    BY <1>4 DEF KeptBids
  <2> HIDE DEF P, I, limit
  <2>2. PICK n \in Nat : s \in [1..n -> I]
    BY <1>2, SortedFacts
  <2>3. \A k \in 1..n : P[s[k]] \in BidRecords
    BY <1>2, <2>2, Zenon DEF Places
  <2>4. /\ \A k, l \in DOMAIN s : P[s[k]].id = P[s[l]].id => k = l
        /\ \A k, l \in DOMAIN s :
              k < l /\ P[s[k]].imp = P[s[l]].imp => P[s[k]].price >= P[s[l]].price
        /\ limit = 1 => \A k, l \in DOMAIN s : P[s[k]].imp = P[s[l]].imp => k = l
    BY <1>2, SortedFacts
  <2> HIDE DEF s
  <2>5. kept \in [1..n -> BidRecords] /\ DOMAIN kept = DOMAIN s /\ \A k \in DOMAIN s : kept[k] = P[s[k]]
    BY <2>2, <2>3
  <2> HIDE DEF kept
  <2>6. kept \in Seq(BidRecords)
    BY <2>5
  <2>7. \A k, l \in DOMAIN kept : kept[k].id = kept[l].id => k = l
    <3> SUFFICES ASSUME NEW k \in DOMAIN kept, NEW l \in DOMAIN kept, kept[k].id = kept[l].id
                 PROVE  k = l
      BY Zenon
    <3>1. k \in DOMAIN s /\ l \in DOMAIN s /\ kept[k] = P[s[k]] /\ kept[l] = P[s[l]]
      BY Zenon, <2>5
    <3>2. P[s[k]].id = P[s[l]].id
      BY Zenon, <3>1
    <3> QED
      BY Zenon, <2>4, <3>1, <3>2
  <2>8. \A k, l \in DOMAIN kept :
           k < l /\ kept[k].imp = kept[l].imp => kept[k].price >= kept[l].price
    <3> SUFFICES ASSUME NEW k \in DOMAIN kept, NEW l \in DOMAIN kept, k < l, kept[k].imp = kept[l].imp
                 PROVE  kept[k].price >= kept[l].price
      BY Zenon
    <3>1. k \in DOMAIN s /\ l \in DOMAIN s /\ kept[k] = P[s[k]] /\ kept[l] = P[s[l]]
      BY Zenon, <2>5
    <3>2. P[s[k]].imp = P[s[l]].imp
      BY Zenon, <3>1
    <3>3. P[s[k]].price >= P[s[l]].price
      BY Zenon, <2>4, <3>1, <3>2
    <3> QED
      BY Zenon, <3>1, <3>3
  <2>9. limit = 1 => \A k, l \in DOMAIN kept : kept[k].imp = kept[l].imp => k = l
    <3> SUFFICES ASSUME limit = 1, NEW k \in DOMAIN kept, NEW l \in DOMAIN kept, kept[k].imp = kept[l].imp
                 PROVE  k = l
      BY Zenon
    <3>1. k \in DOMAIN s /\ l \in DOMAIN s /\ kept[k] = P[s[k]] /\ kept[l] = P[s[l]]
      BY Zenon, <2>5
    <3>2. P[s[k]].imp = P[s[l]].imp
      BY Zenon, <3>1
    <3> QED
      BY Zenon, <2>4, <3>1, <3>2
  <2>10. WellKept(kept, limit)
    BY Zenon, <2>6, <2>7, <2>8, <2>9 DEF WellKept
  <2> QED
    BY <2>1, <2>10 DEF limit
<1> QED
  BY <1>3, <1>4

\* What is missing from the kept bids of a bidder was beaten.
LEMMA DroppedWasBeaten ==
  ASSUME NEW q, Numbers(q), NEW b, NEW bids \in Seq(BidRecords), NEW cur, ValidCurrency(cur),
         NEW x \in Range(Priced(q, b, bids, cur)),
         ~ BelowFloor(x, q.floors), ValidBid(x, DOMAIN q.imps),
         ~ \E y \in Range(Priced(q, b, bids, cur)) : y.id = x.id /\ y.price >= x.price /\ y # x,
         x \notin Range(KeptBids(q, b, bids, cur))
  PROVE  Cardinality({k \in Range(KeptBids(q, b, bids, cur)) : k.imp = x.imp /\ k.price >= x.price})
            = MultiBidLimit(q.multibid, b)
<1> DEFINE P == Priced(q, b, bids, cur)
           I == Accepted(q, P)
           D == Dedupe(P, I)
           limit == MultiBidLimit(q.multibid, b)
           E == EnforceMultiBid(P, I, D, limit)
           s == Sorted(P, I, limit)
           K == Range(KeptBids(q, b, bids, cur))
<1>1. P \in Seq(BidRecords) /\ DOMAIN P = DOMAIN bids
  BY PricedIsBids
<1>2. Places(P, I) /\ I \subseteq DOMAIN P
  BY <1>1, AcceptedArePlaces
<1>3. PICK i \in DOMAIN P : P[i] = x
  BY DEF Range
<1>4. i \in I
  BY <1>3 DEF Accepted, ValidateBids, AboveFloor
<1>5. PICK j \in D : P[j].id = P[i].id /\ P[j].price >= P[i].price
  BY <1>2, <1>4, DedupeKeepsBest
<1>6. D \subseteq I
  BY <1>2, DedupeKeepsBest
<1>7. P[j] = x
  <2>1. P[j] \in Range(P)
    BY <1>2, <1>5, <1>6 DEF Range
  <2> QED
    BY <1>3, <1>5, <2>1
<1>8. bids # <<>>
  BY Zenon, <1>1, <1>3, EmptyHasNoPlaces
<1>9. K = {P[e] : e \in E}
  <2>1. KeptBids(q, b, bids, cur) = [k \in DOMAIN s |-> P[s[k]]]
    BY <1>8 DEF KeptBids
  <2>2. s \in [1..Cardinality(E) -> E] /\ \A e \in E : \E k \in 1..Cardinality(E) : s[k] = e
    BY <1>2, SortedEnumerates DEF Enumerates
  <2> DEFINE l == KeptBids(q, b, bids, cur)
             N == 1..Cardinality(E)
  <2>3. l = [k \in DOMAIN s |-> P[s[k]]]
    BY Zenon, <2>1
  <2>4. s \in [N -> E] /\ \A e \in E : \E k \in N : s[k] = e
    BY Zenon, <2>2
  <2> HIDE DEF s, P, E, l, N
  <2>5. DOMAIN l = N /\ \A k \in N : s[k] \in E /\ l[k] = P[s[k]]
    BY <2>3, <2>4
  <2>6. \A e \in E : \E k \in N : l[k] = P[e]
    BY <2>4, <2>5
  <2>7. {l[k] : k \in N} = {P[e] : e \in E}
    <3>1. \A k \in N : l[k] \in {P[e] : e \in E}
      BY Zenon, <2>5
    <3>2. \A e \in E : P[e] \in {l[k] : k \in N}
      BY Zenon, <2>6
    <3> QED
      BY <3>1, <3>2
  <2>8. Range(l) = {P[e] : e \in E}
    BY Zenon, <2>5, <2>7 DEF Range
  <2> USE DEF s, P, E, l, N
  <2> QED
    BY Zenon, <2>8
<1> DEFINE T == {e \in E : P[e].imp = P[j].imp}
           Q == {k \in K : k.imp = x.imp /\ k.price >= x.price}
           f == [e \in T |-> P[e]]
<1>10. limit \in Nat
  BY LimitIsPositive
<1>11. Cardinality(T) = limit /\ IsFiniteSet(T) /\ \A e \in T : P[e].price >= P[j].price
  <2>1. j \notin E
    BY <1>7, <1>9
  <2> HIDE DEF P, I, limit
  <2> QED
    BY <1>2, <1>5, <1>10, <2>1, QuotaIsFull, ZenonT(40)
<1>12. E \subseteq D
  BY <1>2, SortedEnumerates
<1>13. \A e, g \in D : P[e].id = P[g].id => e = g
  BY <1>2, DedupeKeepsBest, Zenon
<1> HIDE DEF P, I, D, limit, E, s, K
<1>14. f \in [T -> Q]
  BY Zenon, <1>7, <1>9, <1>11
<1>15. \A e, g \in T : f[e] = f[g] => e = g
  BY <1>12, <1>13
<1>16. \A k \in Q : \E e \in T : f[e] = k
  BY <1>7, <1>9
<1> HIDE DEF T, Q, f
<1>17. f \in Bijection(T, Q)
  BY <1>14, <1>15, <1>16 DEF Bijection, Injection, Surjection, IsInjective
<1>18. Cardinality(Q) = Cardinality(T)
  BY <1>11, <1>17, FS_Bijection DEF ExistsBijection
<1> QED
  BY <1>11, <1>18 DEF Q, K, limit

\* Why a bid of a bidder is not among the kept ones, unless it is.
Loses(q, b, bids, cur, x) ==
    LET kept == Range(KeptBids(q, b, bids, cur))
    IN  \/ ~ ValidCurrency(cur)
        \/ BelowFloor(x, q.floors) \/ ~ ValidBid(x, DOMAIN q.imps)
        \/ \E y \in Range(Priced(q, b, bids, cur)) : y.id = x.id /\ y.price >= x.price /\ y # x
        \/ x \in kept
        \/ Cardinality({k \in kept : k.imp = x.imp /\ k.price >= x.price}) = MultiBidLimit(q.multibid, b)

LEMMA KeptOrLoses ==
  ASSUME NEW q, Numbers(q), NEW b, NEW bids \in Seq(BidRecords), NEW cur,
         NEW x \in Range(Priced(q, b, bids, cur))
  PROVE  Loses(q, b, bids, cur, x)
<1>1. SUFFICES ASSUME ValidCurrency(cur), ~ BelowFloor(x, q.floors), ValidBid(x, DOMAIN q.imps),
                      ~ \E y \in Range(Priced(q, b, bids, cur)) :
                            y.id = x.id /\ y.price >= x.price /\ y # x,
                      x \notin Range(KeptBids(q, b, bids, cur))
               PROVE  Cardinality({k \in Range(KeptBids(q, b, bids, cur)) :
                                      k.imp = x.imp /\ k.price >= x.price})
                         = MultiBidLimit(q.multibid, b)
  BY Zenon DEF Loses
<1> QED
  BY <1>1, DroppedWasBeaten

-----------------------------------------------------------------------------
\* The auction.
TaskStates == {"spawned", "calling", "finished", "failed", "panicked", "joined", "lost"}

\* The errors and the currencies that the adapters' answers can give a task.
TaskErrors ==
    UNION {{"Timeout"},
           UNION {UNION {c.errs : c \in Calls[b]} : b \in Bidders},
           UNION {{y.err : y \in {z \in Replies[b] : z.kind = "error"}} : b \in Bidders}}

TaskCurrencies ==
    {"USD"} \cup UNION {{y.cur : y \in {z \in Replies[b] : z.kind = "bids"}} : b \in Bidders}

TaskRecords ==
    [state : TaskStates, left : Int, errs : SUBSET TaskErrors, bids : Seq(BidRecords),
     cur : TaskCurrencies, late : BOOLEAN]

Results == [seat : Bidders, bid : BidRecords]

Typed ==
    /\ r \in Requests
    /\ pc \in {"validate", "entrypoint", "raw", "stored", "check", "processed",
               "fanout", "collect", "done", "refused", "answered"}
    /\ todo \subseteq ActiveBidders(r)
    /\ task \in [Bidders -> {Idle} \cup TaskRecords]
    /\ results \in Seq(Results)
    /\ errors \subseteq Bidders /\ timedOut \subseteq Bidders

\* A task is taken from the JoinSet by the collecting loop only, a bidder that
\* privacy blocks has none, and a request-level non-bid has a cause.
Phases ==
    /\ \A b \in Bidders :
          /\ task[b].state \in {"joined", "lost"} => pc \in {"collect", "done"}
          /\ task[b].state # "none" => ~ Blocked(b)
    /\ \A n \in nonBids : \/ n.code = 300 \/ Blocked(n.seat)
                          \/ n.seat \in Bidders /\ task[n.seat].state = "lost"

KeptOf(b) == KeptBids(r, b, task[b].bids, task[b].cur)

\* The kept bids of b stand in results after the first off ones, and b has no
\* other there.
Block(b, off) ==
    /\ \A n \in DOMAIN results : results[n].seat = b <=> n - off \in DOMAIN KeptOf(b)
    /\ \A k \in DOMAIN KeptOf(b) : off + k \in DOMAIN results /\ results[off + k].bid = KeptOf(b)[k]

Blocks ==
    \A b \in Bidders :
        \/ task[b].state = "joined" /\ \E off \in Nat : Block(b, off)
        \/ task[b].state # "joined" /\ \A n \in DOMAIN results : results[n].seat # b

\* The response is built from the collected bids, and not before.
Built ==
    \/ pc # "done" /\ targeting = <<>> /\ cached = <<>>
    \/ /\ pc = "done"
       /\ targeting = [i \in ImpsWithBids(results) |-> KeysOf(i)]
       /\ cached = IF r.cache
                   THEN [i \in ImpsWithBids(results) |->
                           CachedBid(AdjustResults(results, r.adjustments), i, Winner(results, i).seat)]
                   ELSE <<>>

Inv == Typed /\ Phases /\ Blocks /\ Built

LEMMA RequestNumbers ==
  ASSUME r \in Requests
  PROVE  Numbers(r)
  BY AuctionAssumption DEF Numbers

LEMMA TaskIsRecord ==
  ASSUME Typed, NEW b \in Bidders, task[b].state # "none"
  PROVE  task[b] \in TaskRecords /\ task[b].bids \in Seq(BidRecords)
<1>1. task[b] = Idle \/ task[b] \in TaskRecords
  BY DEF Typed
<1>2. Idle.state = "none"
  BY DEF Idle
<1>3. task[b] \in TaskRecords
  BY <1>1, <1>2
<1> QED
  BY <1>3 DEF TaskRecords

\* The response is a function of the request and of the collected bids.
LEMMA KeysUnchanged ==
  ASSUME UNCHANGED <<r, results>>, NEW i
  PROVE  KeysOf(i)' = KeysOf(i)
  BY DEF KeysOf, SeatKeysOf, OnRequest, TiersOf

LEMMA BuiltUnchanged ==
  ASSUME Built, UNCHANGED <<r, results, targeting, cached>>, pc' = pc \/ (pc # "done" /\ pc' # "done")
  PROVE  Built'
<1>1. \A i \in ImpsWithBids(results) : KeysOf(i)' = KeysOf(i)
  BY KeysUnchanged
<1>2. CASE pc # "done"
  BY <1>2 DEF Built
<1>3. CASE pc = "done"
  <2>1. targeting' = [i \in ImpsWithBids(results') |-> KeysOf(i)']
    BY <1>1, <1>3 DEF Built
  <2>2. cached' = IF r'.cache
                  THEN [i \in ImpsWithBids(results') |->
                          CachedBid(AdjustResults(results', r'.adjustments), i,
                                    Winner(results', i).seat)]
                  ELSE <<>>
    BY <1>3 DEF Built
  <2> QED
    BY <1>3, <2>1, <2>2 DEF Built
<1> QED
  BY <1>2, <1>3

\* A block stays where the task, the request and the results do.
LEMMA BlockUnchanged ==
  ASSUME NEW b \in Bidders, NEW off \in Nat, Block(b, off), task'[b] = task[b], UNCHANGED <<r, results>>
  PROVE  Block(b, off)'
<1>1. KeptOf(b)' = KeptOf(b)
  BY DEF KeptOf
<1> QED
  BY <1>1 DEF Block

\* A step of the driver that collects nothing.
LEMMA QuietStep ==
  ASSUME Inv, UNCHANGED <<r, task, results, nonBids, errors, timedOut, targeting, cached>>,
         todo' \subseteq ActiveBidders(r),
         pc' = pc \/ (pc \notin {"collect", "done"} /\ pc' # "done"),
         pc' \in {"validate", "entrypoint", "raw", "stored", "check", "processed",
                  "fanout", "collect", "done", "refused", "answered"}
  PROVE  Inv'
<1>1. Typed'
  BY DEF Inv, Typed, ActiveBidders
<1>2. Phases'
  BY DEF Inv, Phases, Blocked
<1>3. Blocks'
  BY BlockUnchanged DEF Inv, Blocks
<1>4. Built'
  BY BuiltUnchanged DEF Inv
<1> QED
  BY <1>1, <1>2, <1>3, <1>4 DEF Inv

\* A step that replaces the task of a bidder before it is collected.
LEMMA TaskStep ==
  ASSUME Inv, NEW b \in Bidders, NEW t \in TaskRecords, t.state \notin {"joined", "lost"},
         task[b].state \notin {"joined", "lost"}, ~ Blocked(b),
         task' = [task EXCEPT ![b] = t], todo' \subseteq todo,
         UNCHANGED <<r, pc, results, nonBids, errors, timedOut, targeting, cached>>
  PROVE  Inv'
<1>1. Typed'
  BY DEF Inv, Typed, ActiveBidders
<1>2. task'[b] = t /\ \A c \in Bidders : c # b => task'[c] = task[c]
  BY DEF Inv, Typed
<1>3. Phases'
  BY <1>2 DEF Inv, Phases, Blocked
<1>4. ASSUME NEW c \in Bidders
      PROVE  \/ task'[c].state = "joined" /\ \E off \in Nat : Block(c, off)'
             \/ task'[c].state # "joined" /\ \A n \in DOMAIN results' : results'[n].seat # c
  <2>1. CASE c = b
    BY <1>2, <2>1 DEF Inv, Blocks
  <2>2. CASE c # b
    BY <1>2, <2>2, BlockUnchanged DEF Inv, Blocks
  <2> QED
    BY <2>1, <2>2
<1>5. Blocks'
  BY <1>4 DEF Blocks
<1>6. Built'
  BY BuiltUnchanged DEF Inv
<1> QED
  BY <1>1, <1>3, <1>5, <1>6 DEF Inv

-----------------------------------------------------------------------------
\* What taking a task from the JoinSet changes.
LEMMA JoinChanges ==
  ASSUME Typed, NEW b \in Bidders, NEW from \in TaskStates, NEW to \in TaskStates, Join(b, from, to)
  PROVE  /\ pc = "collect" /\ pc' = "collect" /\ task[b] \in TaskRecords
         /\ task' \in [Bidders -> {Idle} \cup TaskRecords]
         /\ task'[b].state = to /\ task'[b].bids = task[b].bids /\ task'[b].cur = task[b].cur
         /\ \A c \in Bidders : c # b => task'[c] = task[c]
         /\ UNCHANGED <<r, todo, targeting, cached>>
         /\ timedOut' \subseteq Bidders
<1>1. pc = "collect" /\ pc' = "collect" /\ task[b].state = from /\ UNCHANGED <<r, todo, targeting, cached>>
      /\ task' = [task EXCEPT ![b].state = to]
  BY DEF Join, response
<1>2. task[b] \in TaskRecords
  BY <1>1, TaskIsRecord DEF TaskStates
<1>3. task \in [Bidders -> {Idle} \cup TaskRecords]
  BY DEF Typed
<1>4. [task[b] EXCEPT !.state = to] \in TaskRecords
  BY <1>2 DEF TaskRecords
<1>5. task'[b] = [task[b] EXCEPT !.state = to] /\ \A c \in Bidders : c # b => task'[c] = task[c]
  BY <1>1, <1>3
<1>6. task' \in [Bidders -> {Idle} \cup TaskRecords]
  BY <1>1, <1>3, <1>4
<1>7. task'[b].state = to /\ task'[b].bids = task[b].bids /\ task'[b].cur = task[b].cur
  BY <1>2, <1>5 DEF TaskRecords
<1>8. timedOut' \subseteq Bidders
  BY DEF Join, Typed
<1> QED
  BY <1>1, <1>2, <1>5, <1>6, <1>7, <1>8

\* A task that failed or panicked gives no bid.
LEMMA JoinLost ==
  ASSUME Inv, NEW b \in Bidders, JoinErr(b) \/ JoinPanicked(b)
  PROVE  Inv'
<1>1. PICK from \in {"failed", "panicked"} : Join(b, from, "lost")
  BY DEF JoinErr, JoinPanicked
<1>2. /\ pc = "collect" /\ pc' = "collect"
      /\ task' \in [Bidders -> {Idle} \cup TaskRecords]
      /\ task'[b].state = "lost"
      /\ \A c \in Bidders : c # b => task'[c] = task[c]
      /\ UNCHANGED <<r, todo, targeting, cached>>
      /\ timedOut' \subseteq Bidders
  BY <1>1, JoinChanges DEF Inv, TaskStates
<1>3. UNCHANGED results /\ errors' \subseteq Bidders
  BY DEF JoinErr, JoinPanicked, Inv, Typed
<1>4. \A n \in nonBids' : n \in nonBids \/ n.seat = b
  BY DEF JoinErr, JoinPanicked, AllImps
<1>5. task[b].state \in {"failed", "panicked"}
  BY <1>1 DEF Join
<1>6. Typed'
  BY <1>2, <1>3 DEF Inv, Typed, ActiveBidders
<1>7. Phases'
  <2>1. ~ Blocked(b)
    BY <1>5 DEF Inv, Phases
  <2>2. \A c \in Bidders : /\ task'[c].state \in {"joined", "lost"} => pc' \in {"collect", "done"}
                           /\ task'[c].state # "none" => c \notin DOMAIN r'.privacy
    BY <1>2, <2>1 DEF Inv, Phases, Blocked
  <2>3. \A n \in nonBids' : \/ n.code = 300 \/ n.seat \in DOMAIN r'.privacy
                            \/ n.seat \in Bidders /\ task'[n.seat].state = "lost"
    <3> SUFFICES ASSUME NEW n \in nonBids'
                 PROVE  \/ n.code = 300 \/ n.seat \in DOMAIN r'.privacy
                        \/ n.seat \in Bidders /\ task'[n.seat].state = "lost"
      BY Zenon
    <3>1. CASE n.seat = b
      BY Zenon, <1>2, <3>1
    <3>2. CASE n \in nonBids /\ n.seat # b
      <4>1. n.code = 300 \/ Blocked(n.seat) \/ (n.seat \in Bidders /\ task[n.seat].state = "lost")
        BY Zenon, <3>2 DEF Inv, Phases
      <4> QED
        BY Zenon, <1>2, <3>2, <4>1 DEF Blocked
    <3> QED
      BY Zenon, <1>4, <3>1, <3>2
  <2> QED
    BY <2>2, <2>3 DEF Phases, Blocked
<1>8. ASSUME NEW c \in Bidders
      PROVE  \/ task'[c].state = "joined" /\ \E off \in Nat : Block(c, off)'
             \/ task'[c].state # "joined" /\ \A n \in DOMAIN results' : results'[n].seat # c
  <2>1. CASE c = b
    BY <1>2, <1>3, <1>5, <2>1 DEF Inv, Blocks
  <2>2. CASE c # b
    BY <1>2, <1>3, <2>2, BlockUnchanged DEF Inv, Blocks
  <2> QED
    BY <2>1, <2>2
<1>9. Blocks'
  BY <1>8 DEF Blocks
<1>10. Built'
  BY <1>2, <1>3, BuiltUnchanged DEF Inv
<1> QED
  BY <1>6, <1>7, <1>9, <1>10 DEF Inv

\* Appending the bids of a bidder to the results.
LEMMA Appended ==
  ASSUME NEW res \in Seq(Results), NEW b \in Bidders, NEW kept \in Seq(BidRecords)
  PROVE  /\ res \o SeatOf(b, kept) \in Seq(Results)
         /\ DOMAIN (res \o SeatOf(b, kept)) = 1..(Len(res) + Len(kept))
         /\ \A n \in DOMAIN res : (res \o SeatOf(b, kept))[n] = res[n]
         /\ \A k \in DOMAIN kept : /\ (res \o SeatOf(b, kept))[Len(res) + k].seat = b
                                   /\ (res \o SeatOf(b, kept))[Len(res) + k].bid = kept[k]
<1> DEFINE s == SeatOf(b, kept)
<1>1. Len(kept) \in Nat /\ DOMAIN kept = 1..Len(kept) /\ \A k \in DOMAIN kept : kept[k] \in BidRecords
  OBVIOUS
<1>2. s \in [1..Len(kept) -> Results] /\ \A k \in DOMAIN kept : s[k].seat = b /\ s[k].bid = kept[k]
  BY <1>1 DEF SeatOf, Results
<1> HIDE DEF s
<1>3. s \in Seq(Results) /\ Len(s) = Len(kept)
  BY <1>1, <1>2
<1>4. /\ res \o s \in Seq(Results)
      /\ Len(res \o s) = Len(res) + Len(kept)
      /\ \A n \in DOMAIN res : (res \o s)[n] = res[n]
  BY <1>3
<1>5. \A k \in DOMAIN kept : (res \o s)[Len(res) + k] = s[k]
  BY <1>1, <1>3
<1> QED
  BY <1>2, <1>4, <1>5 DEF s

\* A task that finished adds its block at the end of the results.
LEMMA JoinCollects ==
  ASSUME Inv, NEW b \in Bidders, JoinOk(b)
  PROVE  Inv'
<1> DEFINE kept == KeptOf(b)
           len == Len(results)
<1>1. /\ pc = "collect" /\ pc' = "collect" /\ task[b] \in TaskRecords
      /\ task' \in [Bidders -> {Idle} \cup TaskRecords]
      /\ task'[b].state = "joined" /\ task'[b].bids = task[b].bids /\ task'[b].cur = task[b].cur
      /\ \A c \in Bidders : c # b => task'[c] = task[c]
      /\ UNCHANGED <<r, todo, targeting, cached>>
      /\ timedOut' \subseteq Bidders
  BY JoinChanges, Zenon DEF Inv, JoinOk, TaskStates
<1>2. task[b].state = "finished"
  BY DEF JoinOk, Join
<1>3. results' = results \o SeatOf(b, kept) /\ errors' \subseteq Bidders
  BY Zenon DEF JoinOk, KeptOf, Inv, Typed
<1>4. \A n \in nonBids' : n \in nonBids \/ n.code = 300
  BY DEF JoinOk
<1>5. kept \in Seq(BidRecords)
  <2>1. Numbers(r) /\ task[b].bids \in Seq(BidRecords)
    BY <1>2, RequestNumbers, TaskIsRecord DEF Inv, Typed
  <2> QED
    BY <2>1, KeptIsWellKept, Zenon DEF WellKept, KeptOf
<1>6. results \in Seq(Results)
  BY DEF Inv, Typed
<1>7. KeptOf(b)' = kept
  BY <1>1 DEF KeptOf
<1> HIDE DEF kept
<1>8. /\ results' \in Seq(Results)
      /\ DOMAIN results' = 1..(len + Len(kept))
      /\ \A n \in DOMAIN results : results'[n] = results[n]
      /\ \A k \in DOMAIN kept : results'[len + k].seat = b /\ results'[len + k].bid = kept[k]
  BY <1>3, <1>5, <1>6, Appended
<1>9. /\ len \in Nat /\ DOMAIN results = 1..len /\ Len(kept) \in Nat /\ DOMAIN kept = 1..Len(kept)
  BY <1>5, <1>6
<1>10. \A n \in DOMAIN results' : n \in DOMAIN results \/ (n - len \in DOMAIN kept /\ n = len + (n - len))
  BY <1>8, <1>9
<1>11. \A n \in DOMAIN results' : n \notin DOMAIN results => results'[n].seat = b
  BY <1>8, <1>10
<1>12. Typed'
  <2>1. r' = r /\ todo' = todo /\ r \in Requests /\ todo \subseteq ActiveBidders(r)
    BY Zenon, <1>1 DEF Inv, Typed
  <2>2. todo' \subseteq ActiveBidders(r)'
    BY Zenon, <2>1 DEF ActiveBidders
  <2> QED
    BY <1>1, <1>3, <1>8, <2>1, <2>2 DEF Typed
<1>13. Phases'
  <2>1. \A c \in Bidders : /\ task'[c].state \in {"joined", "lost"} => pc' \in {"collect", "done"}
                           /\ task'[c].state # "none" => ~ Blocked(c)'
    <3>1. \A c \in Bidders : task[c].state # "none" => ~ Blocked(c)
      BY Zenon DEF Inv, Phases
    <3> QED
      BY <1>1, <1>2, <3>1 DEF Blocked
  <2>2. ASSUME NEW n \in nonBids'
        PROVE  \/ n.code = 300 \/ Blocked(n.seat)'
               \/ n.seat \in Bidders /\ task'[n.seat].state = "lost"
    <3>1. \/ n.code = 300 \/ Blocked(n.seat)
          \/ n.seat \in Bidders /\ task[n.seat].state = "lost"
      BY <1>4 DEF Inv, Phases
    <3> QED
      BY <1>1, <1>2, <3>1 DEF Blocked
  <2> QED
    BY Zenon, <2>1, <2>2 DEF Phases
<1>14. \A n \in DOMAIN results : results[n].seat # b
  BY <1>2 DEF Inv, Blocks
<1>15. \E off \in Nat : Block(b, off)'
  <2>1. PICK off \in Nat : off = len
    BY <1>9, Zenon
  <2>2. ASSUME NEW n \in DOMAIN results' PROVE results'[n].seat = b <=> n - off \in DOMAIN kept
    <3>1. CASE n \in DOMAIN results
      <4>1. n - off \notin DOMAIN kept
        BY <1>9, <2>1, <3>1
      <4> QED
        BY <1>8, <1>14, <3>1, <4>1
    <3>2. CASE n \notin DOMAIN results
      BY <1>10, <1>11, <2>1, <3>2
    <3> QED
      BY <3>1, <3>2
  <2>3. \A k \in DOMAIN kept : off + k \in DOMAIN results' /\ results'[off + k].bid = kept[k]
    BY <1>8, <1>9, <2>1
  <2>4. Block(b, off)'
    BY <1>7, <2>2, <2>3 DEF Block
  <2> QED
    BY <2>4
<1>16. ASSUME NEW c \in Bidders, c # b, NEW off \in Nat, Block(c, off)
       PROVE  Block(c, off)'
  <2> DEFINE other == KeptOf(c)
  <2>1. KeptOf(c)' = other
    BY <1>1, <1>16 DEF KeptOf
  <2>2. /\ \A n \in DOMAIN results : results[n].seat = c <=> n - off \in DOMAIN other
        /\ \A k \in DOMAIN other : off + k \in DOMAIN results /\ results[off + k].bid = other[k]
    BY <1>16 DEF Block
  <2> HIDE DEF other
  <2>3. ASSUME NEW n \in DOMAIN results' PROVE results'[n].seat = c <=> n - off \in DOMAIN other
    <3>1. CASE n \in DOMAIN results
      BY <1>8, <2>2, <3>1
    <3>2. CASE n \notin DOMAIN results
      <4>1. n \in Nat /\ off + (n - off) = n
        BY <1>8, <1>9
      <4>2. n - off \notin DOMAIN other
        BY <2>2, <3>2, <4>1
      <4> QED
        BY <1>11, <1>16, <3>2, <4>2
    <3> QED
      BY <3>1, <3>2
  <2>4. \A k \in DOMAIN other : off + k \in DOMAIN results' /\ results'[off + k].bid = other[k]
    BY <1>8, <1>9, <2>2
  <2> QED
    BY <2>1, <2>3, <2>4 DEF Block
<1>17. ASSUME NEW c \in Bidders
       PROVE  \/ task'[c].state = "joined" /\ \E off \in Nat : Block(c, off)'
              \/ task'[c].state # "joined" /\ \A n \in DOMAIN results' : results'[n].seat # c
  <2>1. CASE c = b
    BY <1>1, <1>15, <2>1
  <2>2. CASE c # b /\ task[c].state = "joined"
    <3>1. PICK off \in Nat : Block(c, off)
      BY <2>2 DEF Inv, Blocks
    <3> QED
      BY <1>1, <1>16, <2>2, <3>1
  <2>3. CASE c # b /\ task[c].state # "joined"
    <3>1. \A n \in DOMAIN results : results[n].seat # c
      BY <2>3 DEF Inv, Blocks
    <3> QED
      BY <1>1, <1>8, <1>11, <2>3, <3>1
  <2> QED
    BY <2>1, <2>2, <2>3
<1>18. Blocks'
  BY <1>17 DEF Blocks
<1>19. Built'
  BY <1>1 DEF Inv, Built
<1> QED
  BY <1>12, <1>13, <1>18, <1>19 DEF Inv

-----------------------------------------------------------------------------
\* What request_bid makes of a task is a task that is not collected yet.
Uncollected == {t \in TaskRecords : t.state \notin {"joined", "lost"}}

LEMMA ErrorsAreTyped ==
  ASSUME NEW b \in Bidders
  PROVE  /\ \A c \in Calls[b] : c.errs \subseteq TaskErrors
         /\ \A y \in Replies[b] : y.kind = "error" => y.err \in TaskErrors
<1>1. ASSUME NEW c \in Calls[b], NEW e \in c.errs PROVE e \in TaskErrors
  <2>1. e \in UNION {d.errs : d \in Calls[b]}
    OBVIOUS
  <2>2. e \in UNION {UNION {d.errs : d \in Calls[a]} : a \in Bidders}
    BY <2>1
  <2> QED
    BY <2>2 DEF TaskErrors
<1>2. ASSUME NEW y \in Replies[b], y.kind = "error" PROVE y.err \in TaskErrors
  <2>1. y.err \in {x.err : x \in {z \in Replies[b] : z.kind = "error"}}
    BY <1>2
  <2>2. y.err \in UNION {{x.err : x \in {z \in Replies[a] : z.kind = "error"}} : a \in Bidders}
    BY <2>1
  <2> QED
    BY <2>2 DEF TaskErrors
<1> QED
  BY <1>1, <1>2

LEMMA ReplyKeepsTask ==
  ASSUME NEW b \in Bidders, NEW t \in Uncollected, NEW reply \in Replies[b],
         reply.kind \in {"timeout", "error", "bids", "nobid"}
  PROVE  Close(AddReply(t, reply)) \in Uncollected
<1> DEFINE u == AddReply(t, reply)
<1>1. t \in TaskRecords /\ t.state \notin {"joined", "lost"}
  BY DEF Uncollected
<1>2. u \in TaskRecords /\ u.state = t.state
  <2>1. CASE reply.kind = "timeout"
    <3>1. t.errs \cup {"Timeout"} \in SUBSET TaskErrors
      BY <1>1 DEF TaskRecords, TaskErrors
    <3>2. u = [t EXCEPT !.errs = t.errs \cup {"Timeout"}, !.late = TRUE]
      BY <2>1 DEF AddReply
    <3> QED
      BY <1>1, <3>1, <3>2, Zenon DEF TaskRecords
  <2>2. CASE reply.kind = "error"
    <3>1. reply.err \in TaskErrors
      BY <2>2, ErrorsAreTyped
    <3>2. t.errs \cup {reply.err} \in SUBSET TaskErrors
      BY <1>1, <3>1 DEF TaskRecords
    <3>3. u = [t EXCEPT !.errs = t.errs \cup {reply.err}]
      BY <2>2 DEF AddReply
    <3> QED
      BY <1>1, <3>2, <3>3 DEF TaskRecords
  <2>3. CASE reply.kind = "bids"
    <3>1. reply.bids \in Seq(BidRecords) /\ reply.cur \in TaskCurrencies
      BY <2>3, AuctionAssumption DEF TaskCurrencies
    <3>2. t.bids \in Seq(BidRecords) /\ t.cur \in TaskCurrencies
      BY <1>1 DEF TaskRecords
    <3>3. t.bids \o reply.bids \in Seq(BidRecords)
      BY <3>1, <3>2
    <3> QED
      BY Zenon, <1>1, <2>3, <3>1, <3>2, <3>3 DEF AddReply, TaskRecords
  <2>4. CASE reply.kind = "nobid"
    BY <1>1, <2>4 DEF AddReply
  <2> QED
    BY <2>1, <2>2, <2>3, <2>4
<1> HIDE DEF u
<1>3. Close(u) \in TaskRecords /\ Close(u).state \in {u.state, "failed", "finished"}
  BY <1>2 DEF Close, TaskRecords, TaskStates
<1> QED
  BY <1>1, <1>2, <1>3 DEF Uncollected, u

\* A step of request_bid replaces the task of its bidder.
LEMMA WorkKeepsTask ==
  ASSUME Typed, NEW b \in Bidders, Work(b)
  PROVE  /\ task[b].state \in {"spawned", "calling"}
         /\ \E t \in Uncollected : Alone(b, t)
<1>1. CASE MakeRequests(b)
  <2>1. task[b].state = "spawned" /\ task[b] \in TaskRecords
    BY <1>1, TaskIsRecord DEF MakeRequests
  <2>2. PICK c \in Calls[b] :
          Alone(b, LET t == [task[b] EXCEPT !.state = "calling", !.left = c.reqs, !.errs = c.errs]
                   IN  IF c.reqs > 0 THEN t
                       ELSE [t EXCEPT !.state = IF c.errs = {} THEN "finished" ELSE "failed"])
    BY <1>1, Zenon DEF MakeRequests
  <2>3. c.reqs \in Nat /\ c.errs \subseteq TaskErrors
    BY AuctionAssumption, ErrorsAreTyped
  <2> DEFINE t == [task[b] EXCEPT !.state = "calling", !.left = c.reqs, !.errs = c.errs]
             u == [t EXCEPT !.state = IF c.errs = {} THEN "finished" ELSE "failed"]
  <2>4. t \in TaskRecords /\ t.state = "calling"
    <3>1. c.reqs \in Int /\ c.errs \in SUBSET TaskErrors /\ "calling" \in TaskStates
      BY <2>3 DEF TaskStates
    <3> QED
      BY <2>1, <3>1, Zenon DEF TaskRecords
  <2>5. u \in TaskRecords /\ u.state \in {"finished", "failed"}
    <3> HIDE DEF t
    <3> QED
      BY <2>4 DEF TaskRecords, TaskStates
  <2>6. (IF c.reqs > 0 THEN t ELSE u) \in Uncollected
    <3> HIDE DEF t, u
    <3> QED
      BY <2>4, <2>5 DEF Uncollected
  <2> QED
    BY <2>1, <2>2, <2>6
<1>2. CASE ExecuteRequest(b)
  <2>1. task[b].state = "calling" /\ task[b] \in TaskRecords
    BY <1>2, TaskIsRecord DEF ExecuteRequest
  <2>2. PICK reply \in Replies[b] : Alone(b, Close(AddReply([task[b] EXCEPT !.left = @ - 1], reply)))
    BY <1>2 DEF ExecuteRequest
  <2>3. [task[b] EXCEPT !.left = @ - 1] \in Uncollected
    <3>1. task[b].left - 1 \in Int
      BY <2>1 DEF TaskRecords
    <3> QED
      BY <2>1, <3>1 DEF Uncollected, TaskRecords
  <2>4. Close(AddReply([task[b] EXCEPT !.left = @ - 1], reply)) \in Uncollected
    BY <2>3, ReplyKeepsTask, AuctionAssumption
  <2> QED
    BY <2>1, <2>2, <2>4
<1>3. CASE Panic(b)
  <2>1. task[b].state \in {"spawned", "calling"} /\ task[b] \in TaskRecords
    BY <1>3, TaskIsRecord DEF Panic
  <2>2. [task[b] EXCEPT !.state = "panicked"] \in Uncollected
    BY <2>1 DEF Uncollected, TaskRecords, TaskStates
  <2> QED
    BY <1>3, <2>1, <2>2 DEF Panic
<1> QED
  BY <1>1, <1>2, <1>3 DEF Work

LEMMA SkipKeepsInv ==
  ASSUME Inv, NEW b \in Bidders, SkipForPrivacy(b)
  PROVE  Inv'
<1>1. /\ UNCHANGED <<r, pc, task, results, errors, timedOut, targeting, cached>>
      /\ todo' \subseteq todo /\ Blocked(b)
      /\ \A n \in nonBids' : n \in nonBids \/ n.seat = b
  <2>1. \A n \in nonBids' : n \in nonBids \/ n.seat = b
    BY Zenon, NonBidsOfSeat DEF SkipForPrivacy
  <2> QED
    BY Zenon, <2>1 DEF SkipForPrivacy, Visit, response
<1>2. Typed'
  BY <1>1 DEF Inv, Typed, ActiveBidders
<1>3. Phases'
  BY <1>1 DEF Inv, Phases, Blocked
<1>4. Blocks'
  BY <1>1, BlockUnchanged DEF Inv, Blocks
<1>5. Built'
  BY <1>1, BuiltUnchanged DEF Inv
<1> QED
  BY <1>2, <1>3, <1>4, <1>5 DEF Inv

LEMMA BuildKeepsInv ==
  ASSUME Inv, BuildResponse
  PROVE  Inv'
<1>1. /\ UNCHANGED <<r, todo, task, results, nonBids, errors, timedOut>>
      /\ pc = "collect" /\ pc' = "done"
  BY DEF BuildResponse, Goto, outcome
<1>2. Typed'
  BY <1>1 DEF Inv, Typed, ActiveBidders
<1>3. Phases'
  BY <1>1 DEF Inv, Phases, Blocked
<1>4. Blocks'
  BY <1>1, BlockUnchanged DEF Inv, Blocks
<1>5. Built'
  <2>1. \A i \in ImpsWithBids(results) : KeysOf(i)' = KeysOf(i)
    BY <1>1, KeysUnchanged
  <2>2. targeting' = [i \in ImpsWithBids(results') |-> KeysOf(i)']
    BY <1>1, <2>1 DEF BuildResponse
  <2>3. cached' = IF r'.cache
                  THEN [i \in ImpsWithBids(results') |->
                          CachedBid(AdjustResults(results', r'.adjustments), i,
                                    Winner(results', i).seat)]
                  ELSE <<>>
    BY <1>1 DEF BuildResponse
  <2> QED
    BY <1>1, <2>2, <2>3 DEF Built
<1> QED
  BY <1>2, <1>3, <1>4, <1>5 DEF Inv

\* The steps of the driver that collect nothing.
Quiet ==
    \/ Validate \/ EntrypointHook \/ RawAuctionHook \/ StoredResponse \/ CheckImps
    \/ ProcessedHook \/ EndFanOut \/ \E b \in Bidders : PassOver(b)

LEMMA QuietKeepsInv ==
  ASSUME Inv, Quiet
  PROVE  /\ Inv'
         /\ UNCHANGED <<task, results, targeting>>
         /\ pc \notin {"collect", "done", "refused", "answered"} /\ pc' # "done"
<1> DEFINE Labels == {"validate", "entrypoint", "raw", "stored", "check", "processed",
                      "fanout", "collect", "done", "refused", "answered"}
<1>1. UNCHANGED <<r, task, results, nonBids, errors, timedOut, targeting, cached>>
  BY DEF Quiet, Validate, EntrypointHook, RawAuctionHook, StoredResponse, CheckImps, ProcessedHook,
         EndFanOut, PassOver, RequestHook, Keep, outcome, response
<1>2. todo' \subseteq ActiveBidders(r)
  <2>1. todo' \subseteq todo \/ todo' = ActiveBidders(r)
    BY DEF Quiet, Validate, EntrypointHook, RawAuctionHook, StoredResponse, CheckImps, ProcessedHook,
           EndFanOut, PassOver, RequestHook, Keep, Visit
  <2> QED
    BY <2>1 DEF Inv, Typed
<1>3. pc \notin {"collect", "done", "refused", "answered"} /\ pc' # "done" /\ pc' \in Labels
  BY DEF Quiet, Validate, EntrypointHook, RawAuctionHook, StoredResponse, CheckImps, ProcessedHook,
         EndFanOut, PassOver, RequestHook, Goto, Visit
<1>4. Inv'
  BY <1>1, <1>2, <1>3, QuietStep
<1> QED
  BY <1>1, <1>3, <1>4

\* The steps that replace a task.
LEMMA TaskKeepsInv ==
  ASSUME Inv, NEW b \in Bidders, UseStoredBids(b) \/ Spawn(b) \/ Work(b)
  PROVE  Inv' /\ UNCHANGED <<pc, results, targeting, r>>
<1>1. CASE Work(b)
  <2>1. PICK t \in Uncollected : Alone(b, t)
    BY <1>1, WorkKeepsTask DEF Inv
  <2>2. task[b].state \in {"spawned", "calling"}
    BY <1>1, WorkKeepsTask DEF Inv
  <2>3. ~ Blocked(b)
    BY <2>2 DEF Inv, Phases
  <2>4. /\ task' = [task EXCEPT ![b] = t] /\ todo' \subseteq todo
        /\ UNCHANGED <<r, pc, results, nonBids, errors, timedOut, targeting, cached>>
    BY <2>1 DEF Alone, outcome, response
  <2>5. t \in TaskRecords /\ t.state \notin {"joined", "lost"}
    BY DEF Uncollected
  <2> QED
    BY <2>2, <2>3, <2>4, <2>5, TaskStep, Zenon
<1>2. CASE UseStoredBids(b) \/ Spawn(b)
  <2>1. /\ pc = "fanout" /\ todo' \subseteq todo /\ ~ Blocked(b)
        /\ UNCHANGED <<r, pc, results, nonBids, errors, timedOut, targeting, cached>>
    BY <1>2 DEF UseStoredBids, Spawn, LiveCall, Visit, outcome, response
  <2>2. task[b].state \notin {"joined", "lost"}
    BY <2>1 DEF Inv, Phases
  <2>3. Spawned \in TaskRecords /\ Spawned.state = "spawned"
    <3>1. "USD" \in TaskCurrencies
      BY DEF TaskCurrencies
    <3>2. "spawned" \in TaskStates
      BY DEF TaskStates
    <3>3. PICK S : S = Seq(BidRecords)
      OBVIOUS
    <3>4. <<>> \in S
      BY <3>3
    <3>5. TaskRecords = [state : TaskStates, left : Int, errs : SUBSET TaskErrors, bids : S,
                         cur : TaskCurrencies, late : BOOLEAN]
      BY <3>3 DEF TaskRecords
    <3> QED
      BY <3>1, <3>2, <3>4, <3>5 DEF Spawned
  <2>4. CASE Spawn(b)
    BY <2>1, <2>2, <2>3, <2>4, TaskStep, Zenon DEF Spawn
  <2>5. CASE UseStoredBids(b)
    <3>1. r.storedBids[b] \in Seq(BidRecords)
      BY <2>5, AuctionAssumption DEF UseStoredBids, Inv, Typed
    <3>2. Ready(r.storedBids[b]) \in TaskRecords /\ Ready(r.storedBids[b]).state = "finished"
      <4> HIDE DEF Spawned
      <4> QED
        BY <2>3, <3>1, Zenon DEF Ready, TaskRecords, TaskStates
    <3>3. task' = [task EXCEPT ![b] = Ready(r.storedBids[b])]
      BY <2>5 DEF UseStoredBids
    <3> QED
      BY <2>1, <2>2, <3>2, <3>3, TaskStep, ZenonT(40)
  <2> QED
    BY <1>2, <2>4, <2>5
<1> QED
  BY <1>1, <1>2

-----------------------------------------------------------------------------
LEMMA InitInv == Init => Inv
<1> SUFFICES ASSUME Init PROVE Inv
  OBVIOUS
<1>1. results = <<>> /\ DOMAIN results = {} /\ results \in Seq(Results)
  BY DEF Init
<1>2. \A b \in Bidders : task[b] = Idle /\ task[b].state = "none"
  BY DEF Init, Idle
<1>3. Typed
  BY <1>1 DEF Init, Typed
<1>4. Phases
  BY <1>2 DEF Init, Phases
<1>5. Blocks
  BY <1>1, <1>2 DEF Blocks
<1>6. Built
  BY DEF Init, Built
<1> QED
  BY <1>3, <1>4, <1>5, <1>6 DEF Inv

LEMMA NextInv == Inv /\ [Next]_vars => Inv'
<1> SUFFICES ASSUME Inv, [Next]_vars PROVE Inv'
  OBVIOUS
<1>1. CASE Quiet
  BY <1>1, QuietKeepsInv
<1>2. CASE BuildResponse
  BY <1>2, BuildKeepsInv
<1>3. CASE \E b \in Bidders : UseStoredBids(b) \/ Spawn(b) \/ Work(b)
  BY <1>3, TaskKeepsInv
<1>4. CASE \E b \in Bidders : SkipForPrivacy(b)
  BY <1>4, SkipKeepsInv
<1>5. CASE \E b \in Bidders : JoinOk(b)
  BY <1>5, JoinCollects
<1>6. CASE \E b \in Bidders : JoinErr(b) \/ JoinPanicked(b)
  BY <1>6, JoinLost
<1>7. CASE UNCHANGED vars
  <2>1. UNCHANGED <<r, pc, todo, task, results, nonBids, errors, timedOut, targeting, cached>>
    BY <1>7 DEF vars
  <2>2. todo' \subseteq ActiveBidders(r)
    BY <2>1 DEF Inv, Typed
  <2> QED
    BY <2>1, <2>2, QuietStep DEF Inv, Typed
<1> QED
  BY <1>1, <1>2, <1>3, <1>4, <1>5, <1>6, <1>7 DEF Next, Driver, Quiet

\* Every state of an auction satisfies the inductive invariant: its types, who
\* has a task in which phase, the block of each joined bidder in the collected
\* bids, and the response being a function of them.
THEOREM AuctionInvariant == Spec => []Inv
  BY InitInv, NextInv, PTL DEF Spec

\* The auction's phases, its tasks and what it collects keep their types: the
\* fan-out visits only active bidders, and only bidders have seats and errors.
THEOREM AuctionTyped == Spec => []TypeOK
<1>1. Inv => TypeOK
  <2> SUFFICES ASSUME Inv PROVE TypeOK
    OBVIOUS
  <2>1. \A b \in Bidders : task[b].state \in {"none"} \cup TaskStates
    <3> SUFFICES ASSUME NEW b \in Bidders PROVE task[b].state \in {"none"} \cup TaskStates
      OBVIOUS
    <3>1. CASE task[b].state # "none"
      BY <3>1, TaskIsRecord DEF Inv, TaskRecords
    <3> QED
      BY <3>1
  <2>2. \A i \in DOMAIN results : results[i].seat \in Bidders
    <3>1. \A i \in DOMAIN results : results[i] \in Results
      BY DEF Inv, Typed
    <3> QED
      BY <3>1 DEF Results
  <2> QED
    BY <2>1, <2>2 DEF Inv, Typed, TypeOK, TaskStates
<1> QED
  BY <1>1, AuctionInvariant, PTL

LEMMA JoinedIsWellKept ==
  ASSUME Inv, NEW b \in Bidders, task[b].state = "joined"
  PROVE  /\ Numbers(r) /\ task[b].bids \in Seq(BidRecords)
         /\ WellKept(KeptOf(b), MultiBidLimit(r.multibid, b))
         /\ Len(KeptOf(b)) \in Nat /\ DOMAIN KeptOf(b) = 1..Len(KeptOf(b))
<1>1. Numbers(r) /\ task[b].bids \in Seq(BidRecords)
  BY RequestNumbers, TaskIsRecord DEF Inv, Typed
<1>2. WellKept(KeptOf(b), MultiBidLimit(r.multibid, b))
  BY <1>1, KeptIsWellKept DEF KeptOf
<1>3. KeptOf(b) \in Seq(BidRecords)
  BY <1>2 DEF WellKept
<1> QED
  BY <1>1, <1>2, <1>3

LEMMA SeatIsJoined ==
  ASSUME Inv, NEW i \in DOMAIN results
  PROVE  /\ results[i] \in Results /\ results[i].seat \in Bidders /\ results[i].bid \in BidRecords
         /\ task[results[i].seat].state = "joined"
         /\ \E off \in Nat : Block(results[i].seat, off)
<1>1. results[i] \in Results
  BY DEF Inv, Typed
<1>2. results[i].seat \in Bidders /\ results[i].bid \in BidRecords
  BY <1>1 DEF Results
<1> QED
  BY <1>1, <1>2 DEF Inv, Blocks

\* A seat of the response belongs to a bidder that privacy did not block and
\* that has no request-level non-bid, and its bids stand together: for every
\* order in which the tasks of the JoinSet end.
THEOREM AnswersOnly == Spec => []SeatsAreAnswers
<1>1. Inv => SeatsAreAnswers
  <2> SUFFICES ASSUME Inv, NEW i \in DOMAIN results
               PROVE  /\ ~ Blocked(results[i].seat)
                      /\ \A n \in nonBids : n.seat = results[i].seat => n.code = 300
                      /\ \A j \in i..Len(results) : results[j].seat = results[i].seat =>
                            \A k \in i..j : results[k].seat = results[i].seat
    BY DEF SeatsAreAnswers
  <2> DEFINE s == results[i].seat
  <2>1. s \in Bidders /\ task[s].state = "joined"
    BY SeatIsJoined
  <2>2. ~ Blocked(s)
    BY <2>1 DEF Inv, Phases
  <2>3. \A n \in nonBids : n.seat = s => n.code = 300
    BY <2>1, <2>2 DEF Inv, Phases
  <2>4. ASSUME NEW j \in i..Len(results), results[j].seat = s, NEW k \in i..j
        PROVE  results[k].seat = s
    <3>1. PICK off \in Nat : Block(s, off)
      BY SeatIsJoined
    <3>2. Len(results) \in Nat /\ DOMAIN results = 1..Len(results)
      BY DEF Inv, Typed
    <3>3. i \in Nat /\ j \in DOMAIN results /\ k \in DOMAIN results
      BY <3>2
    <3>4. i - off \in DOMAIN KeptOf(s) /\ j - off \in DOMAIN KeptOf(s)
      BY <2>4, <3>1, <3>3 DEF Block
    <3>5. k - off \in DOMAIN KeptOf(s)
      <4>1. Len(KeptOf(s)) \in Nat /\ DOMAIN KeptOf(s) = 1..Len(KeptOf(s))
        BY <2>1, JoinedIsWellKept
      <4>2. j \in Nat
        BY Zenon, <3>3, PlacesOf DEF Inv, Typed
      <4>3. i - off \in 1..Len(KeptOf(s)) /\ j - off \in 1..Len(KeptOf(s))
        BY Zenon, <3>4, <4>1
      <4>4. k - off \in 1..Len(KeptOf(s))
        BY Zenon, <3>3, <4>1, <4>2, <4>3, PlaceBetween
      <4> QED
        BY Zenon, <4>1, <4>4
    <3> QED
      BY <3>1, <3>3, <3>5 DEF Block
  <2> QED
    BY <2>2, <2>3, <2>4
<1> QED
  BY <1>1, AuctionInvariant, PTL

\* What a joined bidder has in the results is what was kept of its bids.
LEMMA SeatHoldsKept ==
  ASSUME Inv, NEW b \in Bidders, task[b].state = "joined"
  PROVE  {results[n].bid : n \in OfSeat(results, DOMAIN results, b)} = Range(KeptOf(b))
<1>1. PICK off \in Nat : Block(b, off)
  BY DEF Inv, Blocks
<1>2. Len(results) \in Nat /\ DOMAIN results = 1..Len(results)
  BY DEF Inv, Typed
<1>3. Len(KeptOf(b)) \in Nat /\ DOMAIN KeptOf(b) = 1..Len(KeptOf(b))
  BY JoinedIsWellKept
<1>4. ASSUME NEW n \in OfSeat(results, DOMAIN results, b) PROVE results[n].bid \in Range(KeptOf(b))
  <2>1. n \in DOMAIN results /\ results[n].seat = b /\ off + (n - off) = n
    BY <1>2 DEF OfSeat
  <2>2. n - off \in DOMAIN KeptOf(b)
    BY <1>1, <2>1 DEF Block
  <2>3. results[n].bid = KeptOf(b)[n - off]
    BY <1>1, <2>1, <2>2 DEF Block
  <2> QED
    BY <2>2, <2>3 DEF Range
<1>5. ASSUME NEW k \in DOMAIN KeptOf(b)
      PROVE  KeptOf(b)[k] \in {results[n].bid : n \in OfSeat(results, DOMAIN results, b)}
  <2>1. off + k \in DOMAIN results /\ results[off + k].bid = KeptOf(b)[k]
    BY <1>1 DEF Block
  <2>2. (off + k) - off = k
    BY <1>3
  <2>3. results[off + k].seat = b
    BY <1>1, <2>1, <2>2 DEF Block
  <2> QED
    BY <2>1, <2>3 DEF OfSeat
<1> QED
  BY <1>4, <1>5 DEF Range

\* Multi-bid drops only what is no better than what stays, for every list of
\* bids, price, rate, factor, floor and limit.
THEOREM DropsNothingBetter == Spec => []NoBetterBidDropped
<1>1. Inv => NoBetterBidDropped
  <2> SUFFICES ASSUME Inv, NEW b \in Bidders, task[b].state = "joined", NEW x \in Offered(b)
               PROVE  LET kept == {results[n].bid : n \in OfSeat(results, DOMAIN results, b)}
                      IN  \/ ~ ValidCurrency(task[b].cur)
                          \/ BelowFloor(x, r.floors) \/ ~ ValidBid(x, DOMAIN r.imps)
                          \/ \E y \in Offered(b) : y.id = x.id /\ y.price >= x.price /\ y # x
                          \/ x \in kept
                          \/ Cardinality({k \in kept : k.imp = x.imp /\ k.price >= x.price})
                                = MultiBidLimit(r.multibid, b)
    BY ZenonT(40) DEF NoBetterBidDropped
  <2>1. Numbers(r) /\ task[b].bids \in Seq(BidRecords)
    BY JoinedIsWellKept
  <2>2. {results[n].bid : n \in OfSeat(results, DOMAIN results, b)} = Range(KeptOf(b))
    BY SeatHoldsKept
  <2>3. Offered(b) = Range(Priced(r, b, task[b].bids, task[b].cur))
    BY DEF Offered
  <2>4. \/ ~ ValidCurrency(task[b].cur)
        \/ BelowFloor(x, r.floors) \/ ~ ValidBid(x, DOMAIN r.imps)
        \/ \E y \in Offered(b) : y.id = x.id /\ y.price >= x.price /\ y # x
        \/ x \in Range(KeptOf(b))
        \/ Cardinality({k \in Range(KeptOf(b)) : k.imp = x.imp /\ k.price >= x.price})
              = MultiBidLimit(r.multibid, b)
    <3>1. x \in Range(Priced(r, b, task[b].bids, task[b].cur))
      BY <2>3, Zenon
    <3>2. Loses(r, b, task[b].bids, task[b].cur, x)
      BY <2>1, <3>1, KeptOrLoses, Zenon
    <3> QED
      BY <2>3, <3>2, Zenon DEF Loses, KeptOf
  <2> QED
    BY <2>2, <2>4, Zenon
<1> QED
  BY <1>1, AuctionInvariant, PTL

-----------------------------------------------------------------------------
\* The place of the winner of an impression.
WinnerPlace(imp) == BestOf([i \in DOMAIN results |-> results[i].bid], On(results, imp))

LEMMA OnArePlaces ==
  ASSUME Inv, NEW imp, NEW I, I \subseteq On(results, imp)
  PROVE  /\ I \subseteq Int /\ IsFiniteSet(I) /\ I \subseteq DOMAIN results
         /\ Places([i \in DOMAIN results |-> results[i].bid], I)
<1>1. Len(results) \in Nat /\ DOMAIN results = 1..Len(results)
  BY DEF Inv, Typed
<1>2. I \in SUBSET (1..Len(results)) /\ I \subseteq Int
  BY <1>1 DEF On
<1>3. IsFiniteSet(I)
  <2>1. IsFiniteSet(1..Len(results))
    BY <1>1, FS_Interval
  <2> QED
    BY <1>2, <2>1, FS_Subset, Zenon
<1>4. \A i \in I : [j \in DOMAIN results |-> results[j].bid][i] \in BidRecords
  BY <1>1, <1>2, SeatIsJoined
<1> QED
  BY <1>1, <1>2, <1>3, <1>4 DEF Places

LEMMA WinnerIsBest ==
  ASSUME Inv, NEW imp \in ImpsWithBids(results)
  PROVE  /\ WinnerPlace(imp) \in On(results, imp) /\ WinnerPlace(imp) \in DOMAIN results
         /\ Winner(results, imp) = results[WinnerPlace(imp)]
         /\ \A j \in On(results, imp) :
               \/ results[j].bid.price < results[WinnerPlace(imp)].bid.price
               \/ /\ results[j].bid.price = results[WinnerPlace(imp)].bid.price
                  /\ WinnerPlace(imp) <= j
<1> DEFINE f == [i \in DOMAIN results |-> results[i].bid]
           I == On(results, imp)
           w == WinnerPlace(imp)
<1>1. I # {}
  BY DEF ImpsWithBids, On
<1>2. Places(f, I) /\ I \subseteq DOMAIN results
  BY OnArePlaces
<1>3. w = BestOf(f, I) /\ Winner(results, imp) = results[w]
  BY DEF WinnerPlace, Winner
<1>4. \A j \in I : f[j] = results[j].bid
  BY <1>2
<1> HIDE DEF f, I, w
<1>5. w \in I /\ \A j \in I : f[j].price < f[w].price \/ (f[j].price = f[w].price /\ w <= j)
  BY <1>1, <1>2, <1>3, BestIsBest
<1> QED
  BY <1>2, <1>3, <1>4, <1>5 DEF I, w

\* Two bids of a seat in the results are two of its kept bids.
LEMMA SeatOrder ==
  ASSUME Inv, NEW m \in DOMAIN results, NEW n \in DOMAIN results, results[m].seat = results[n].seat
  PROVE  /\ results[m].bid.id = results[n].bid.id => m = n
         /\ m < n /\ results[m].bid.imp = results[n].bid.imp =>
               results[m].bid.price >= results[n].bid.price
         /\ MultiBidLimit(r.multibid, results[n].seat) = 1 /\ results[m].bid.imp = results[n].bid.imp
               => m = n
<1> DEFINE s == results[n].seat
           kept == KeptOf(s)
<1>1. s \in Bidders /\ task[s].state = "joined"
  BY SeatIsJoined
<1>2. PICK off \in Nat : Block(s, off)
  BY SeatIsJoined
<1>3. m \in Int /\ n \in Int /\ off + (m - off) = m /\ off + (n - off) = n
  <2>1. m \in Nat /\ n \in Nat
    BY Zenon, PlacesOf DEF Inv, Typed
  <2> QED
    BY Zenon, <2>1, ShiftBack
<1>4. m - off \in DOMAIN kept /\ n - off \in DOMAIN kept
  BY <1>2 DEF Block
<1>5. results[m].bid = kept[m - off] /\ results[n].bid = kept[n - off]
  BY <1>2, <1>3, <1>4 DEF Block
<1>6. WellKept(kept, MultiBidLimit(r.multibid, s))
  BY <1>1, JoinedIsWellKept
<1> HIDE DEF s, kept
<1>7. m - off = n - off => m = n
  BY <1>3
<1>8. m < n => m - off < n - off
  BY <1>3
<1> QED
  BY <1>4, <1>5, <1>6, <1>7, <1>8 DEF WellKept, s

\* The winner is the first bid of its seat on the impression: a seat's bids on
\* an impression stand in descending order.
LEMMA WinnerIsFirst ==
  ASSUME Inv, NEW imp \in ImpsWithBids(results)
  PROVE  Min(OfSeat(results, On(results, imp), results[WinnerPlace(imp)].seat)) = WinnerPlace(imp)
<1> DEFINE w == WinnerPlace(imp)
           I == OfSeat(results, On(results, imp), results[w].seat)
           m == Min(I)
<1>1. w \in I /\ w \in DOMAIN results
  BY WinnerIsBest DEF OfSeat
<1>2. I \subseteq On(results, imp)
  BY DEF OfSeat
<1>3. I \subseteq Int /\ IsFiniteSet(I) /\ I \subseteq DOMAIN results
  BY <1>2, OnArePlaces, ZenonT(40)
<1>4. m \in I /\ m <= w
  BY <1>1, <1>3, MinIsLeast
<1>5. m \in Int /\ w \in Int /\ m \in DOMAIN results
  BY <1>1, <1>3, <1>4
<1>6. results[m].seat = results[w].seat /\ results[m].bid.imp = results[w].bid.imp
  BY <1>1, <1>4 DEF OfSeat, On
<1>7. \/ results[m].bid.price < results[w].bid.price
      \/ results[m].bid.price = results[w].bid.price /\ w <= m
  BY <1>2, <1>4, WinnerIsBest
<1> HIDE DEF m, I, w
<1>8. results[m].bid.price \in Int /\ results[w].bid.price \in Int
  <2>1. results[m].bid \in BidRecords /\ results[w].bid \in BidRecords
    BY <1>1, <1>5, SeatIsJoined, Zenon
  <2> QED
    BY <2>1 DEF BidRecords
<1>9. m < w => results[m].bid.price >= results[w].bid.price
  BY <1>1, <1>5, <1>6, SeatOrder, Zenon
<1>10. m = w
  BY <1>4, <1>5, <1>7, <1>8, <1>9
<1> QED
  BY <1>10 DEF m, I, w

\* The extended adjustments change prices only.
LEMMA AdjustedKeepsBids ==
  ASSUME Inv, NEW rules, NEW i \in DOMAIN results
  PROVE  /\ AdjustResults(results, rules)[i].seat = results[i].seat
         /\ AdjustResults(results, rules)[i].bid.id = results[i].bid.id
         /\ AdjustResults(results, rules)[i].bid.imp = results[i].bid.imp
<1> DEFINE b == results[i].bid
           sr == RulesFor(rules, results[i].seat)
           a == AdjustBid(b, sr)
<1>1. results[i] \in Results /\ b \in BidRecords
  BY SeatIsJoined
<1>2. \E p : a = [b EXCEPT !.price = p] \/ a = b
  BY Zenon DEF AdjustBid
<1>3. a.id = b.id /\ a.imp = b.imp
  BY <1>1, <1>2 DEF BidRecords
<1>4. AdjustResults(results, rules)[i] = [results[i] EXCEPT !.bid = a]
  BY DEF AdjustResults
<1> HIDE DEF a
<1>5. [results[i] EXCEPT !.bid = a].seat = results[i].seat /\ [results[i] EXCEPT !.bid = a].bid = a
  BY <1>1 DEF Results
<1> QED
  BY <1>3, <1>4, <1>5

LEMMA KeysAreTheWinners ==
  ASSUME Inv, NEW i \in ImpsWithBids(results)
  PROVE  /\ KeysOf(i).bidder = results[WinnerPlace(i)].seat
         /\ KeysOf(i).adid = results[WinnerPlace(i)].bid.id
         /\ KeysOf(i).pb = PriceBucket(results[WinnerPlace(i)].bid.price, r.ranges)
<1>1. Winner(results, i) = results[WinnerPlace(i)]
  BY WinnerIsBest
<1>2. /\ KeysOf(i).bidder = Winner(results, i).seat
      /\ KeysOf(i).adid = Winner(results, i).bid.id
      /\ KeysOf(i).pb = PriceBucket(Winner(results, i).bid.price, r.ranges)
  BY DEF KeysOf, WinnerKeys
<1> QED
  BY <1>1, <1>2

LEMMA TargetingIsBuilt ==
  ASSUME Inv, NEW i \in DOMAIN targeting
  PROVE  /\ pc = "done" /\ i \in ImpsWithBids(results) /\ targeting[i] = KeysOf(i)
         /\ targeting[i].bidder = results[WinnerPlace(i)].seat
         /\ targeting[i].adid = results[WinnerPlace(i)].bid.id
         /\ targeting[i].pb = PriceBucket(results[WinnerPlace(i)].bid.price, r.ranges)
<1>1. pc = "done" /\ i \in ImpsWithBids(results) /\ targeting[i] = KeysOf(i)
  BY DEF Inv, Built
<1> QED
  BY <1>1, KeysAreTheWinners, Zenon

\* The bid written to the cache is the winner that the targeting announces,
\* whatever the extended adjustments do to the prices in between.
THEOREM CacheHoldsWinner == Spec => []CachedBidIsWinner
<1>1. Inv => CachedBidIsWinner
  <2> SUFFICES ASSUME Inv, NEW i \in DOMAIN cached PROVE cached[i].id = targeting[i].adid
    BY DEF CachedBidIsWinner
  <2> DEFINE adj == AdjustResults(results, r.adjustments)
             w == WinnerPlace(i)
             s == results[w].seat
  <2>1. pc = "done" /\ i \in ImpsWithBids(results) /\ i \in DOMAIN targeting
        /\ cached[i] = CachedBid(adj, i, Winner(results, i).seat)
    <3>1. pc = "done" /\ cached # <<>>
      BY Zenon, EmptyHasNoPlaces DEF Inv, Built
    <3>2. /\ targeting = [j \in ImpsWithBids(results) |-> KeysOf(j)]
          /\ cached = [j \in ImpsWithBids(results) |-> CachedBid(adj, j, Winner(results, j).seat)]
      BY Zenon, <3>1 DEF Inv, Built
    <3> HIDE DEF adj
    <3> QED
      BY <3>1, <3>2
  <2>2. Winner(results, i) = results[w] /\ w \in DOMAIN results
    BY <2>1, WinnerIsBest
  <2>3. DOMAIN adj = DOMAIN results
    BY DEF AdjustResults
  <2>4. \A n \in DOMAIN results : /\ adj[n].seat = results[n].seat /\ adj[n].bid.id = results[n].bid.id
                                  /\ adj[n].bid.imp = results[n].bid.imp
    BY AdjustedKeepsBids
  <2> HIDE DEF adj, w
  <2>5. OfSeat(adj, On(adj, i), s) = OfSeat(results, On(results, i), s)
    BY <2>3, <2>4 DEF OfSeat, On
  <2>6. Min(OfSeat(adj, On(adj, i), s)) = w
    BY <2>1, <2>5, WinnerIsFirst DEF w
  <2>7. cached[i] = adj[w].bid
    BY <2>1, <2>2, <2>6 DEF CachedBid
  <2>8. targeting[i].adid = results[w].bid.id
    BY <2>1, TargetingIsBuilt DEF w
  <2> QED
    BY <2>2, <2>4, <2>7, <2>8
<1> QED
  BY <1>1, AuctionInvariant, PTL

LEMMA SeatsOfKeys ==
  ASSUME NEW i
  PROVE  KeysOf(i).seats = [x \in SeatsOn(results, i) |-> SeatKeysOf(i, x)]
  BY DEF KeysOf

\* The keys of every seat describe bids of that seat: those of the winning seat
\* repeat the winner's when it may send one bid an impression, and a deal tier's
\* prefix is there only for a bid that meets the tier.
THEOREM SeatKeysAreTheSeats == Spec => []SeatKeysDescribeSeat
<1>1. ASSUME Inv, NEW i \in DOMAIN targeting, NEW s \in DOMAIN targeting[i].seats
      PROVE  LET key  == targeting[i].seats[s]
                 bids == {results[n].bid : n \in OfSeat(results, On(results, i), s)}
             IN  /\ \E b \in bids : b.id = key.adid /\ key.pb = PriceBucket(b.price, r.ranges)
                 /\ s = targeting[i].bidder /\ MultiBidLimit(r.multibid, s) = 1 =>
                       key.adid = targeting[i].adid /\ key.pb = targeting[i].pb
                 /\ key.catDur # <<>> => \E b \in bids :
                       key.catDur[1] = IF \E d \in bids : MeetsTier(d, TiersOf(i))
                                       THEN <<TiersOf(i)[b.deal].prefix, b.prio>>
                                       ELSE PriceBucket(b.price, r.ranges)
  <2> DEFINE I == OfSeat(results, On(results, i), s)
             last == Max(I)
             key == targeting[i].seats[s]
             bids == {results[n].bid : n \in I}
             w == WinnerPlace(i)
             tiers == TiersOf(i)
             catDur == SeatCatDur(results, i, s, r.ranges, tiers)
  <2>1. targeting[i] = KeysOf(i)
    BY <1>1, TargetingIsBuilt
  <2>2. s \in SeatsOn(results, i) /\ key = SeatKeysOf(i, s)
    <3>1. targeting[i].seats = [x \in SeatsOn(results, i) |-> SeatKeysOf(i, x)]
      BY <2>1, SeatsOfKeys, Zenon
    <3> QED
      BY <1>1, <3>1, Zenon
  <2>3. I # {} /\ I \subseteq On(results, i)
    BY <2>2 DEF SeatsOn, OfSeat
  <2>4. I \subseteq Int /\ IsFiniteSet(I) /\ I \subseteq DOMAIN results
    BY <1>1, <2>3, OnArePlaces, Zenon
  <2>5. \A S : S \subseteq I /\ S # {} => Max(S) \in S
    <3> SUFFICES ASSUME NEW S, S \subseteq I, S # {} PROVE Max(S) \in S
      OBVIOUS
    <3>1. S \subseteq Int /\ IsFiniteSet(S)
      <4>1. S \in SUBSET I
        OBVIOUS
      <4> QED
        BY <2>4, <4>1, FS_Subset
    <3> QED
      BY <3>1, MaxIsGreatest, Zenon
  <2>6. /\ key.adid = results[last].bid.id
        /\ key.pb = PriceBucket(results[last].bid.price, r.ranges)
        /\ key.catDur = OnRequest(catDur)
    <3>1. SeatKeys(results, i, s, r.ranges)
            = [adid |-> results[last].bid.id, pb |-> PriceBucket(results[last].bid.price, r.ranges)]
      BY Zenon DEF SeatKeys
    <3>2. key = [adid |-> SeatKeys(results, i, s, r.ranges).adid,
                 pb |-> SeatKeys(results, i, s, r.ranges).pb, catDur |-> OnRequest(catDur)]
      BY <2>2, Zenon DEF SeatKeysOf
    <3> HIDE DEF key, last, catDur
    <3> QED
      BY <3>1, <3>2
  <2>7. last \in I /\ last \in DOMAIN results
    BY <2>3, <2>4, <2>5
  <2>8. \E b \in bids : b.id = key.adid /\ key.pb = PriceBucket(b.price, r.ranges)
    BY <2>6, <2>7, Zenon
  <2>9. ASSUME s = targeting[i].bidder, MultiBidLimit(r.multibid, s) = 1
        PROVE  key.adid = targeting[i].adid /\ key.pb = targeting[i].pb
    <3>1. /\ targeting[i].adid = results[w].bid.id /\ s = results[w].seat
          /\ targeting[i].pb = PriceBucket(results[w].bid.price, r.ranges)
          /\ i \in ImpsWithBids(results)
      BY <1>1, <2>9, TargetingIsBuilt
    <3>2. w \in DOMAIN results /\ results[w].bid.imp = i
      BY <1>1, <3>1, WinnerIsBest DEF On
    <3>3. results[last].seat = s /\ results[last].bid.imp = i
      BY <2>7 DEF OfSeat, On
    <3> HIDE DEF last, w
    <3>4. last = w
      BY <1>1, <2>7, <2>9, <3>1, <3>2, <3>3, SeatOrder
    <3> QED
      BY <2>6, <3>1, <3>4, ZenonT(40)
  <2>10. ASSUME key.catDur # <<>>
         PROVE  \E b \in bids :
                   key.catDur[1] = IF \E d \in bids : MeetsTier(d, tiers)
                                   THEN <<tiers[b.deal].prefix, b.prio>>
                                   ELSE PriceBucket(b.price, r.ranges)
    <3> DEFINE dur == I \cap WithDuration(results, i)
               met == {n \in I : MeetsTier(results[n].bid, tiers)}
               base == CatDur(results[Max(dur)].bid, r.ranges)
               best == results[Max(met)].bid
    <3>1. key.catDur = catDur /\ catDur # <<>>
      BY <2>6, <2>10 DEF OnRequest
    <3>2. catDur = IF dur = {} THEN <<>>
                   ELSE IF met = {} THEN base
                   ELSE << <<tiers[best.deal].prefix, best.prio>>, base[2], base[3] >>
      BY Zenon DEF SeatCatDur
    <3>3. (\E d \in bids : MeetsTier(d, tiers)) <=> met # {}
      BY Zenon
    <3>4. base[1] = PriceBucket(results[Max(dur)].bid.price, r.ranges)
      BY DEF CatDur
    <3> HIDE DEF I, key, tiers, catDur, base
    <3>5. CASE met = {}
      <4>1. dur # {} /\ catDur = base
        BY <3>1, <3>2, <3>5
      <4>2. Max(dur) \in I
        BY <2>5, <4>1
      <4> HIDE DEF met, dur
      <4> QED
        BY <3>1, <3>3, <3>4, <3>5, <4>1, <4>2, ZenonT(40)
    <3>6. CASE met # {}
      <4>1. catDur[1] = <<tiers[best.deal].prefix, best.prio>>
        <5> HIDE DEF met, dur, best
        <5>1. catDur = << <<tiers[best.deal].prefix, best.prio>>, base[2], base[3] >>
          BY <3>1, <3>2, <3>6
        <5> QED
          BY <5>1
      <4>2. Max(met) \in I
        BY <2>5, <3>6
      <4> HIDE DEF met, dur
      <4> QED
        BY <3>1, <3>3, <3>6, <4>1, <4>2, Zenon
    <3> QED
      BY <3>5, <3>6, ZenonT(40)
  <2> QED
    BY <2>8, <2>9, <2>10, ZenonT(40)
<1>2. Inv => SeatKeysDescribeSeat
  BY <1>1, Zenon DEF SeatKeysDescribeSeat
<1> QED
  BY <1>2, AuctionInvariant, PTL

-----------------------------------------------------------------------------
\* AuctionPromise.  Its steps: a joined task is a Collect, the response is the
\* Announce, a refusal or a stored answer is the Refuse, the rest is hidden.
Over == pc \in {"done", "refused", "answered"}

LEMMA HiddenStep ==
  ASSUME UNCHANGED <<r, results, targeting>>, Over' = Over
  PROVE  UNCHANGED Promise!vars
<1>1. Announced' = Announced
  BY DEF Announced, OffersOf, OfferOf
<1>2. OffersOf(results)' = OffersOf(results)
  BY DEF OffersOf, OfferOf
<1> QED
  BY <1>1, <1>2 DEF Promise!vars, Over

\* Before the response nothing is announced.
LEMMA NothingAnnounced ==
  ASSUME targeting = <<>>
  PROVE  Announced = {}
<1>1. DOMAIN targeting = {}
  BY Zenon, EmptyHasNoPlaces
<1> QED
  BY <1>1 DEF Announced

LEMMA NothingAnnouncedNext ==
  ASSUME targeting' = <<>>
  PROVE  Announced' = {}
<1>1. DOMAIN targeting' = {}
  BY Zenon, EmptyHasNoPlaces
<1> QED
  BY <1>1 DEF Announced

LEMMA CollectStep ==
  ASSUME Inv, NEW b \in Bidders, JoinOk(b)
  PROVE  Promise!Collect(b)
<1> DEFINE kept == KeptOf(b)
           new == results \o SeatOf(b, kept)
<1>1. pc = "collect" /\ pc' = "collect" /\ UNCHANGED <<r, targeting>> /\ task[b].state = "finished"
  BY JoinChanges, ZenonT(40) DEF Inv, JoinOk, TaskStates, Join
<1>2. results' = new
  BY DEF JoinOk, KeptOf
<1>3. results \in Seq(Results) /\ kept \in Seq(BidRecords)
  <2>1. Numbers(r) /\ task[b].bids \in Seq(BidRecords) /\ results \in Seq(Results)
    BY <1>1, RequestNumbers, TaskIsRecord DEF Inv, Typed
  <2> QED
    BY <2>1, KeptIsWellKept, Zenon DEF WellKept, KeptOf
<1> HIDE DEF kept
<1>4. /\ DOMAIN new = 1..(Len(results) + Len(kept))
      /\ \A n \in DOMAIN results : new[n] = results[n]
      /\ \A k \in DOMAIN kept : new[Len(results) + k].seat = b
  BY <1>3, Appended
<1>5. /\ Len(results) \in Nat /\ Len(kept) \in Nat
      /\ DOMAIN results = 1..Len(results) /\ DOMAIN kept = 1..Len(kept)
  BY <1>3
<1> HIDE DEF new
<1>6. ASSUME NEW n \in DOMAIN new, n \notin DOMAIN results PROVE new[n].seat = b
  <2>1. n - Len(results) \in DOMAIN kept /\ n = Len(results) + (n - Len(results))
    BY <1>4, <1>5, <1>6
  <2> QED
    BY <1>4, <2>1
<1>7. DOMAIN results \subseteq DOMAIN new
  BY <1>4, <1>5
<1>8. \A o \in OffersOf(results) : o.seat # b
  <2>1. \A n \in DOMAIN results : results[n].seat # b
    BY <1>1 DEF Inv, Blocks
  <2> QED
    BY <2>1 DEF OffersOf, OfferOf
<1>9. OffersOf(results) \subseteq OffersOf(new)
  BY <1>4, <1>7 DEF OffersOf
<1>10. \A o \in OffersOf(new) \ OffersOf(results) : o.seat = b
  <2> SUFFICES ASSUME NEW o \in OffersOf(new), o \notin OffersOf(results) PROVE o.seat = b
    OBVIOUS
  <2>1. PICK n \in DOMAIN new : o = OfferOf(new[n])
    BY DEF OffersOf
  <2>2. n \notin DOMAIN results
    BY <1>4, <2>1 DEF OffersOf
  <2> QED
    BY <1>6, <2>1, <2>2 DEF OfferOf
<1>11. Announced = {} /\ Announced' = {}
  BY <1>1, NothingAnnounced, NothingAnnouncedNext DEF Inv, Built
<1>12. OffersOf(results)' = OffersOf(new)
  BY <1>2 DEF OffersOf
<1> QED
  BY <1>1, <1>8, <1>9, <1>10, <1>11, <1>12 DEF Promise!Collect

\* The announced offers are those of the winners: the seat and the bid id in
\* the targeting keys name one bid, as a seat has one bid of an id.
LEMMA AnnouncesWinners ==
  ASSUME Inv, BuildResponse
  PROVE  Announced' = {OfferOf(results[WinnerPlace(i)]) : i \in ImpsWithBids(results)}
<1> DEFINE Imps == ImpsWithBids(results)
           W == {OfferOf(results[WinnerPlace(i)]) : i \in Imps}
<1>1. UNCHANGED <<r, results>> /\ targeting' = [i \in Imps |-> KeysOf(i)]
  BY DEF BuildResponse, outcome
<1>2. Announced' = {o \in OffersOf(results) :
            /\ o.imp \in Imps /\ KeysOf(o.imp).bidder = o.seat
            /\ KeysOf(o.imp).adid = o.id
            /\ KeysOf(o.imp).pb = PriceBucket(o.price, r.ranges)}
  <2>1. \A i \in Imps : targeting'[i] = KeysOf(i)
    BY <1>1
  <2>2. DOMAIN targeting' = Imps /\ OffersOf(results') = OffersOf(results)
    BY <1>1
  <2> HIDE DEF Imps
  <2> QED
    BY <1>1, <2>1, <2>2 DEF Announced
<1>3. ASSUME NEW i \in Imps PROVE OfferOf(results[WinnerPlace(i)]) \in Announced'
  <2> DEFINE w == WinnerPlace(i)
             o == OfferOf(results[w])
  <2>1. w \in DOMAIN results /\ results[w].bid.imp = i
    BY WinnerIsBest DEF On
  <2>2. o.seat = results[w].seat /\ o.imp = i /\ o.id = results[w].bid.id
        /\ o.price = results[w].bid.price /\ o \in OffersOf(results)
    BY <2>1 DEF OfferOf, OffersOf
  <2> HIDE DEF w, o
  <2>3. /\ KeysOf(i).bidder = results[w].seat /\ KeysOf(i).adid = results[w].bid.id
        /\ KeysOf(i).pb = PriceBucket(results[w].bid.price, r.ranges)
    BY KeysAreTheWinners DEF w
  <2>4. o \in Announced'
    BY <1>2, <2>2, <2>3
  <2> QED
    BY <2>4 DEF o, w
<1>4. ASSUME NEW o \in Announced' PROVE o \in W
  <2>1. PICK n \in DOMAIN results : o = OfferOf(results[n])
    BY <1>2 DEF OffersOf
  <2>2. o.seat = results[n].seat /\ o.imp = results[n].bid.imp /\ o.id = results[n].bid.id
    BY <2>1 DEF OfferOf
  <2> DEFINE i == o.imp
             w == WinnerPlace(i)
  <2>3. i \in Imps /\ KeysOf(i).bidder = results[n].seat /\ KeysOf(i).adid = results[n].bid.id
    BY <1>2, <2>2
  <2>4. results[w].seat = results[n].seat /\ results[w].bid.id = results[n].bid.id
    BY <2>3, KeysAreTheWinners
  <2>5. w \in DOMAIN results
    BY <2>3, WinnerIsBest
  <2> HIDE DEF w
  <2>6. n = w
    BY <2>4, <2>5, SeatOrder
  <2> QED
    BY <2>1, <2>3, <2>6 DEF w
<1> QED
  BY <1>3, <1>4

LEMMA AnnounceStep ==
  ASSUME Inv, BuildResponse
  PROVE  Promise!Announce
<1> DEFINE C == OffersOf(results)
           Imps == ImpsWithBids(results)
           W == {OfferOf(results[WinnerPlace(i)]) : i \in Imps}
<1>1. UNCHANGED <<r, results>> /\ pc = "collect" /\ pc' = "done"
  BY DEF BuildResponse, Goto, outcome
<1>2. Announced' = W
  BY AnnouncesWinners
<1>3. ASSUME NEW i \in Imps
      PROVE  /\ OfferOf(results[WinnerPlace(i)]) \in C
             /\ OfferOf(results[WinnerPlace(i)]).imp = i
             /\ \A p \in C : p.imp = i => p.price <= OfferOf(results[WinnerPlace(i)]).price
  <2> DEFINE w == WinnerPlace(i)
  <2>1. w \in DOMAIN results /\ results[w].bid.imp = i
    BY WinnerIsBest DEF On
  <2>2. OfferOf(results[w]) \in C /\ OfferOf(results[w]).imp = i
        /\ OfferOf(results[w]).price = results[w].bid.price
    BY <2>1 DEF OfferOf, OffersOf
  <2>3. ASSUME NEW p \in C, p.imp = i PROVE p.price <= results[w].bid.price
    <3>1. PICK n \in DOMAIN results : p = OfferOf(results[n])
      BY DEF OffersOf
    <3>2. p.price = results[n].bid.price /\ results[n].bid.imp = i
      BY <2>3, <3>1 DEF OfferOf
    <3>3. n \in On(results, i)
      BY <3>2 DEF On
    <3>4. \/ results[n].bid.price < results[w].bid.price
          \/ results[n].bid.price = results[w].bid.price
      BY <3>3, WinnerIsBest
    <3>5. results[n].bid.price \in Int /\ results[w].bid.price \in Int
      BY <2>1, SeatIsJoined DEF BidRecords
    <3> QED
      BY <3>2, <3>4, <3>5
  <2> QED
    BY <2>2, <2>3
<1>4. ASSUME NEW o \in C PROVE o.imp \in Imps
  <2>1. PICK n \in DOMAIN results : o = OfferOf(results[n])
    BY DEF OffersOf
  <2>2. o.imp = results[n].bid.imp
    BY <2>1 DEF OfferOf
  <2> QED
    BY <2>2 DEF ImpsWithBids
<1>5. OffersOf(results)' = C
  BY <1>1 DEF OffersOf
<1> HIDE DEF C, Imps
<1>6. W \subseteq C
  BY <1>3
<1>7. \A o \in W : Promise!IsBest(o, C)
  BY <1>3 DEF Promise!IsBest
<1>8. \A o \in C : \E v \in W : v.imp = o.imp
  BY <1>3, <1>4
<1>9. \A v, u \in W : v.imp = u.imp => v = u
  BY <1>3
<1> HIDE DEF W
<1>10. (pc \in {"done", "refused", "answered"}) = FALSE
       /\ (pc \in {"done", "refused", "answered"})' = TRUE
  BY <1>1
<1> QED
  BY <1>2, <1>5, <1>6, <1>7, <1>8, <1>9, <1>10 DEF Promise!Announce, C

LEMMA RefuseStep ==
  ASSUME Inv, Quiet
  PROVE  Promise!Refuse \/ UNCHANGED Promise!vars
<1>1. /\ UNCHANGED <<task, results, targeting>> /\ pc' # "done"
      /\ pc \notin {"collect", "done", "refused", "answered"}
  BY QuietKeepsInv
<1>2. UNCHANGED r
  BY DEF Quiet, Validate, EntrypointHook, RawAuctionHook, StoredResponse, CheckImps, ProcessedHook,
         EndFanOut, PassOver, RequestHook, Keep
<1>3. results = <<>>
  <2>1. ASSUME NEW n \in DOMAIN results PROVE FALSE
    <3>1. results[n].seat \in Bidders /\ task[results[n].seat].state = "joined"
      BY SeatIsJoined
    <3> QED
      BY <1>1, <3>1 DEF Inv, Phases
  <2> QED
    BY <2>1 DEF Inv, Typed
<1>4. OffersOf(results) = {} /\ OffersOf(results)' = {}
  BY <1>1, <1>3 DEF OffersOf
<1>5. Announced = {} /\ Announced' = {}
  BY <1>1, NothingAnnounced, NothingAnnouncedNext DEF Inv, Built
<1>6. CASE pc' \in {"refused", "answered"}
  <2>1. (pc \in {"done", "refused", "answered"}) = FALSE
        /\ (pc \in {"done", "refused", "answered"})' = TRUE
    BY <1>1, <1>6
  <2> QED
    BY <1>4, <1>5, <2>1 DEF Promise!Refuse
<1>7. CASE pc' \notin {"refused", "answered"}
  BY <1>1, <1>2, <1>7, HiddenStep DEF Over
<1> QED
  BY <1>6, <1>7

\* The auction implements AuctionPromise for every set of bidders, requests and
\* replies: bids are collected a bidder at a time, one highest bid is announced
\* for every impression that has bids, and nothing changes afterwards.
THEOREM AuctionKeepsPromise == Spec => KeepsPromise
<1>1. Init => Promise!Init
  <2> SUFFICES ASSUME Init PROVE Promise!Init
    OBVIOUS
  <2>1. OffersOf(results) = {}
    BY DEF Init, OffersOf
  <2>2. Announced = {}
    BY <2>1 DEF Announced
  <2> QED
    BY <2>1, <2>2 DEF Init, Promise!Init
<1>2. Inv /\ [Next]_vars => [Promise!Next]_Promise!vars
  <2> SUFFICES ASSUME Inv, [Next]_vars PROVE Promise!Next \/ UNCHANGED Promise!vars
    OBVIOUS
  <2>1. CASE Quiet
    BY <2>1, RefuseStep DEF Promise!Next
  <2>2. CASE BuildResponse
    BY <2>2, AnnounceStep DEF Promise!Next
  <2>3. CASE \E b \in Bidders : UseStoredBids(b) \/ Spawn(b) \/ Work(b)
    <3>1. UNCHANGED <<pc, results, targeting, r>>
      BY <2>3, TaskKeepsInv
    <3> QED
      BY <3>1, HiddenStep DEF Over
  <2>4. CASE \E b \in Bidders : SkipForPrivacy(b) \/ JoinErr(b) \/ JoinPanicked(b)
    <3>1. UNCHANGED <<pc, results, targeting, r>>
      BY <2>4 DEF SkipForPrivacy, JoinErr, JoinPanicked, Join, response
    <3> QED
      BY <3>1, HiddenStep DEF Over
  <2>5. CASE \E b \in Bidders : JoinOk(b)
    BY <2>5, CollectStep DEF Promise!Next
  <2>6. CASE UNCHANGED vars
    <3>1. UNCHANGED <<pc, results, targeting, r>>
      BY <2>6 DEF vars
    <3> QED
      BY <3>1, HiddenStep DEF Over
  <2> QED
    BY <2>1, <2>2, <2>3, <2>4, <2>5, <2>6 DEF Next, Driver, Quiet
<1> QED
  BY <1>1, <1>2, AuctionInvariant, PTL DEF Spec, KeepsPromise, Promise!Spec
=============================================================================
