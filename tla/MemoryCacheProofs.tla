-------------------------- MODULE MemoryCacheProofs --------------------------
(***************************************************************************)
(* Proofs about the memory cache, for any keys, any bound on its size and  *)
(* any configuration, with every call between the two locks of Exists.     *)
(***************************************************************************)
EXTENDS MemoryCache, FiniteSetTheorems, TLAPS

-----------------------------------------------------------------------------
(* Sizes of sets of keys *)

(* delete(mc.items, key) (memory.go:417) takes at most one key away. *)
LEMMA OneKeyLess ==
  ASSUME NEW S, IsFiniteSet(S), NEW x
  PROVE  IsFiniteSet(S \ {x}) /\ Cardinality(S \ {x}) >= Cardinality(S) - 1
<1>1. PICK n \in Nat : n = Cardinality(S)
  BY FS_CardinalityType
<1>2. IsFiniteSet(S \ {x}) /\ Cardinality(S \ {x}) = IF x \in S THEN n - 1 ELSE n
  BY <1>1, FS_RemoveElement
<1>3. PICK m \in Int : m = Cardinality(S \ {x}) /\ (m = n - 1 \/ m = n)
  BY <1>1, <1>2
<1> QED
  BY <1>1, <1>2, <1>3

(* The cleanup (memory.go:484-486) takes away what has expired, which was  *)
(* there.                                                                  *)
LEMMA PartLess ==
  ASSUME NEW S, IsFiniteSet(S), NEW T \in SUBSET S
  PROVE  /\ IsFiniteSet(S \ T) /\ IsFiniteSet(T)
         /\ Cardinality(S \ T) = Cardinality(S) - Cardinality(T)
<1>1. IsFiniteSet(S \ T) /\ Cardinality(S \ T) = Cardinality(S) - Cardinality(S \cap T)
  BY FS_Difference
<1>2. S \cap T = T
  OBVIOUS
<1>3. IsFiniteSet(T)
  BY FS_Subset
<1> QED
  BY <1>1, <1>2, <1>3

-----------------------------------------------------------------------------
(* Lists without duplicates *)

Distinct(s) == \A i, j \in DOMAIN s : s[i] = s[j] => i = j

(* What is left of a list at each position, and how long it is, when       *)
(* list.Remove (memory.go:418) has taken out the element at one position.  *)
LEMMA RemoveAtFacts ==
  ASSUME NEW S, NEW s \in Seq(S), NEW i \in DOMAIN s
  PROVE  /\ RemoveAt(s, i) \in Seq(S)
         /\ Len(RemoveAt(s, i)) = Len(s) - 1
         /\ \A n \in 1..(Len(s) - 1) :
              RemoveAt(s, i)[n] = IF n < i THEN s[n] ELSE s[n + 1]
<1> DEFINE a == SubSeq(s, 1, i - 1)
           b == SubSeq(s, i + 1, Len(s))
<1>1. i \in 1..Len(s) /\ Len(s) \in Nat
  OBVIOUS
<1>2. a \in Seq(S) /\ Len(a) = i - 1 /\ \A n \in 1..(i - 1) : a[n] = s[n]
  BY <1>1
<1>3. b \in Seq(S) /\ Len(b) = Len(s) - i /\ \A n \in 1..(Len(s) - i) : b[n] = s[n + i]
  BY <1>1
<1> HIDE DEF a, b
<1>4. /\ a \o b \in Seq(S) /\ Len(a \o b) = Len(s) - 1
      /\ \A n \in 1..(Len(s) - 1) : (a \o b)[n] = IF n < i THEN s[n] ELSE s[n + 1]
  BY <1>1, <1>2, <1>3
<1> QED
  BY <1>4 DEF RemoveAt, a, b

(* list.Remove on a list without duplicates: the element is gone, the      *)
(* others are there in their order.                                        *)
LEMMA WithoutFacts ==
  ASSUME NEW S, NEW s \in Seq(S), NEW e, Distinct(s)
  PROVE  /\ Without(s, e) \in Seq(S)
         /\ Distinct(Without(s, e))
         /\ ToSet(Without(s, e)) = ToSet(s) \ {e}
         /\ Len(Without(s, e)) = IF e \in ToSet(s) THEN Len(s) - 1 ELSE Len(s)
         /\ \A x, y : Before(Without(s, e), x, y) <=> Before(s, x, y) /\ x # e /\ y # e
<1>1. CASE e \notin ToSet(s)
  <2>1. Without(s, e) = s
    BY <1>1 DEF Without
  <2> QED
    BY <1>1, <2>1 DEF ToSet, Before
<1>2. CASE e \in ToSet(s)
  <2>1. PICK i \in DOMAIN s : s[i] = e /\ Without(s, e) = RemoveAt(s, i)
    BY <1>2 DEF Without, ToSet
  <2>2. PICK r : r = Without(s, e)
    OBVIOUS
  <2>3. /\ r \in Seq(S) /\ Len(r) = Len(s) - 1
        /\ \A n \in 1..(Len(s) - 1) : r[n] = IF n < i THEN s[n] ELSE s[n + 1]
    BY <2>1, <2>2, RemoveAtFacts
  <2>4. DOMAIN s = 1..Len(s) /\ DOMAIN r = 1..(Len(s) - 1) /\ Len(s) \in Nat
    BY <2>3
  <2>5. ASSUME NEW n \in DOMAIN r
        PROVE  \E m \in DOMAIN s : m # i /\ s[m] = r[n] /\ m = IF n < i THEN n ELSE n + 1
    BY <2>3, <2>4
  <2>6. ASSUME NEW m \in DOMAIN s, m # i
        PROVE  \E n \in DOMAIN r : s[m] = r[n] /\ n = IF m < i THEN m ELSE m - 1
    <3>1. CASE m < i   BY <3>1, <2>1, <2>3, <2>4
    <3>2. CASE m > i   
      <4>1. m - 1 \in 1..(Len(s) - 1) /\ ~(m - 1 < i) /\ (m - 1) + 1 = m
        BY <3>2, <2>1, <2>4
      <4> QED  BY <4>1, <3>2, <2>3, <2>4
    <3> QED  BY <3>1, <3>2, <2>6, <2>1, <2>4
  <2>7. Distinct(r)
    <3> SUFFICES ASSUME NEW a \in DOMAIN r, NEW b \in DOMAIN r, r[a] = r[b] PROVE a = b
      BY DEF Distinct
    <3>1. PICK c \in DOMAIN s : s[c] = r[a] /\ c = IF a < i THEN a ELSE a + 1
      BY <2>5
    <3>2. PICK d \in DOMAIN s : s[d] = r[b] /\ d = IF b < i THEN b ELSE b + 1
      BY <2>5
    <3>3. c = d
      BY <3>1, <3>2 DEF Distinct
    <3> QED
      BY <3>1, <3>2, <3>3, <2>4
  <2>8. ToSet(r) = ToSet(s) \ {e}
    BY <2>1, <2>5, <2>6 DEF ToSet, Distinct
  <2>9. ASSUME NEW x, NEW y
        PROVE  Before(r, x, y) <=> Before(s, x, y) /\ x # e /\ y # e
    <3>1. ASSUME Before(r, x, y) PROVE Before(s, x, y) /\ x # e /\ y # e
      <4>1. PICK a \in DOMAIN r, b \in DOMAIN r : a < b /\ r[a] = x /\ r[b] = y
        BY <3>1 DEF Before
      <4>2. PICK c \in DOMAIN s : c # i /\ s[c] = x /\ c = IF a < i THEN a ELSE a + 1
        BY <4>1, <2>5
      <4>3. PICK d \in DOMAIN s : d # i /\ s[d] = y /\ d = IF b < i THEN b ELSE b + 1
        BY <4>1, <2>5
      <4>4. c < d
        BY <4>1, <4>2, <4>3, <2>4, <2>1
      <4> QED
        BY <4>2, <4>3, <4>4, <2>1 DEF Before, Distinct
    <3>2. ASSUME Before(s, x, y), x # e, y # e PROVE Before(r, x, y)
      <4>1. PICK c \in DOMAIN s, d \in DOMAIN s : c < d /\ s[c] = x /\ s[d] = y
        BY <3>2 DEF Before
      <4>2. c # i /\ d # i
        BY <3>2, <4>1, <2>1
      <4>3. PICK a \in DOMAIN r : s[c] = r[a] /\ a = IF c < i THEN c ELSE c - 1
        BY <4>2, <2>6
      <4>4. PICK b \in DOMAIN r : s[d] = r[b] /\ b = IF d < i THEN d ELSE d - 1
        BY <4>2, <2>6
      <4>5. a < b
        BY <4>1, <4>2, <4>3, <4>4, <2>4, <2>1
      <4> QED
        BY <4>1, <4>3, <4>4, <4>5 DEF Before
    <3> QED
      BY <3>1, <3>2
  <2> QED
    BY <1>2, <2>2, <2>3, <2>7, <2>8, <2>9
<1> QED
  BY <1>1, <1>2

(* PushFront and MoveToFront: the new front is before all the others.      *)
LEMMA FrontFacts ==
  ASSUME NEW S, NEW s \in Seq(S), NEW e \in S, Distinct(s), e \notin ToSet(s)
  PROVE  /\ <<e>> \o s \in Seq(S)
         /\ Distinct(<<e>> \o s)
         /\ ToSet(<<e>> \o s) = ToSet(s) \cup {e}
         /\ Len(<<e>> \o s) = Len(s) + 1
         /\ \A x, y : Before(<<e>> \o s, x, y)
                        <=> (x = e /\ y \in ToSet(s)) \/ Before(s, x, y)
<1>1. PICK r : r = <<e>> \o s
  OBVIOUS
<1>2. /\ r \in Seq(S) /\ Len(r) = Len(s) + 1 /\ r[1] = e
      /\ \A n \in 1..Len(s) : r[n + 1] = s[n]
  BY <1>1
<1>3. DOMAIN s = 1..Len(s) /\ DOMAIN r = 1..(Len(s) + 1) /\ Len(s) \in Nat
  BY <1>2
<1>4. \A n \in DOMAIN r : n = 1 \/ \E m \in DOMAIN s : n = m + 1 /\ r[n] = s[m]
  <2> SUFFICES ASSUME NEW n \in DOMAIN r, n # 1
               PROVE  \E m \in DOMAIN s : n = m + 1 /\ r[n] = s[m]
    OBVIOUS
  <2>1. n - 1 \in 1..Len(s) /\ n = (n - 1) + 1
    BY <1>3
  <2> QED
    BY <2>1, <1>2, <1>3
<1>5. \A m \in DOMAIN s : m + 1 \in DOMAIN r /\ r[m + 1] = s[m]
  BY <1>2, <1>3
<1>6. ToSet(r) = ToSet(s) \cup {e}
  <2>1. 1 \in DOMAIN r  BY <1>3
  <2> QED  BY <2>1, <1>2, <1>4, <1>5 DEF ToSet
<1>7. Distinct(r)
  BY <1>2, <1>3, <1>4 DEF Distinct, ToSet
<1>8. ASSUME NEW x, NEW y
      PROVE  Before(r, x, y) <=> (x = e /\ y \in ToSet(s)) \/ Before(s, x, y)
  <2>1. ASSUME Before(r, x, y) PROVE (x = e /\ y \in ToSet(s)) \/ Before(s, x, y)
    <3>1. PICK a \in DOMAIN r, b \in DOMAIN r : a < b /\ r[a] = x /\ r[b] = y
      BY <2>1 DEF Before
    <3>2. b # 1
      BY <3>1, <1>3
    <3>3. PICK d \in DOMAIN s : b = d + 1 /\ y = s[d]
      BY <3>1, <3>2, <1>4
    <3>4. CASE a = 1
      BY <3>4, <3>1, <3>3, <1>2 DEF ToSet
    <3>5. CASE a # 1
      <4>1. PICK c \in DOMAIN s : a = c + 1 /\ x = s[c]
        BY <3>1, <3>5, <1>4
      <4>2. c < d
        BY <4>1, <3>1, <3>3, <1>3
      <4> QED
        BY <4>1, <4>2, <3>3 DEF Before
    <3> QED
      BY <3>4, <3>5
  <2>2. ASSUME x = e, y \in ToSet(s) PROVE Before(r, x, y)
    <3>1. PICK d \in DOMAIN s : y = s[d]
      BY <2>2 DEF ToSet
    <3>2. 1 \in DOMAIN r /\ d + 1 \in DOMAIN r /\ 1 < d + 1
      BY <1>3
    <3> QED
      BY <3>1, <3>2, <2>2, <1>2, <1>5 DEF Before
  <2>3. ASSUME Before(s, x, y) PROVE Before(r, x, y)
    <3>1. PICK c \in DOMAIN s, d \in DOMAIN s : c < d /\ s[c] = x /\ s[d] = y
      BY <2>3 DEF Before
    <3>2. c + 1 \in DOMAIN r /\ d + 1 \in DOMAIN r /\ c + 1 < d + 1
      BY <3>1, <1>3
    <3> QED
      BY <3>1, <3>2, <1>5 DEF Before
  <2> QED
    BY <2>1, <2>2, <2>3
<1> QED
  BY <1>1, <1>2, <1>6, <1>7, <1>8

(* cleanupExpired takes elements out one by one: those at the positions    *)
(* that stay are there in their order.                                     *)
LEMMA PartFacts ==
  ASSUME NEW S, NEW s \in Seq(S), Distinct(s), NEW K \in SUBSET DOMAIN s,
         NEW at \in InOrder(K), NEW r, r = [i \in DOMAIN at |-> s[at[i]]]
  PROVE  /\ r \in Seq(S)
         /\ Distinct(r)
         /\ ToSet(r) = {s[i] : i \in K}
         /\ IsFiniteSet(K) /\ Len(r) = Cardinality(K)
         /\ \A x, y : Before(r, x, y) => Before(s, x, y)
<1>1. IsFiniteSet(K)
  <2>1. DOMAIN s = 1..Len(s) /\ Len(s) \in Nat
    OBVIOUS
  <2>2. IsFiniteSet(1..Len(s))
    BY <2>1, FS_Interval
  <2> QED
    BY <2>1, <2>2, FS_Subset
<1>2. PICK n \in Nat : n = Cardinality(K)
  BY <1>1, FS_CardinalityType
<1>3. /\ at \in [1..n -> K]
      /\ \A i, j \in 1..n : i < j => at[i] < at[j]
  BY <1>2 DEF InOrder
<1>4. \A i \in K : i \in Nat /\ i \in DOMAIN s /\ s[i] \in S
  OBVIOUS
<1>5. r \in [1..n -> S] /\ \A i \in 1..n : r[i] = s[at[i]]
  BY <1>3, <1>4
<1>6. r \in Seq(S) /\ DOMAIN r = 1..n /\ Len(r) = n
  BY <1>5
<1>7. \A i, j \in 1..n : at[i] = at[j] => i = j
  BY <1>3, <1>4
<1>8. \A k \in K : \E i \in 1..n : at[i] = k
  <2>1. at \in Injection(1..n, K)
    BY <1>3, <1>7 DEF Injection, IsInjective
  <2>2. IsFiniteSet(1..n) /\ Cardinality(1..n) = n
    BY FS_Interval
  <2>3. at \in Surjection(1..n, K)
    BY <2>1, <2>2, <1>1, <1>2, FS_Injection
  <2> QED
    BY <2>3 DEF Surjection
<1>9. Distinct(r)
  BY <1>3, <1>4, <1>5, <1>6, <1>7 DEF Distinct
<1>10. ToSet(r) = {s[i] : i \in K}
  <2>1. \A i \in 1..n : at[i] \in K
    BY <1>3
  <2>2. ToSet(r) = {r[i] : i \in 1..n}
    BY <1>6 DEF ToSet
  <2>3. \A x \in ToSet(r) : x \in {s[i] : i \in K}
    BY <2>1, <2>2, <1>5
  <2>4. ASSUME NEW k \in K PROVE s[k] \in ToSet(r)
    <3>1. PICK i \in 1..n : at[i] = k
      BY <1>8
    <3>2. r[i] = s[k]
      BY <3>1, <1>5
    <3> QED
      BY <3>2, <2>2
  <2> QED
    BY <2>3, <2>4
<1>11. ASSUME NEW x, NEW y, Before(r, x, y) PROVE Before(s, x, y)
  <2>1. PICK a \in 1..n, b \in 1..n : a < b /\ r[a] = x /\ r[b] = y
    BY <1>11, <1>6 DEF Before
  <2>2. at[a] \in DOMAIN s /\ at[b] \in DOMAIN s /\ at[a] < at[b]
    BY <2>1, <1>3, <1>4
  <2> QED
    BY <2>1, <2>2, <1>5 DEF Before
<1> QED
  BY <1>1, <1>2, <1>6, <1>9, <1>10, <1>11

-----------------------------------------------------------------------------
(* The inductive invariant *)

(* The map names elements of the list under their own keys. *)
MapInv == \A k \in Present : items[k] \in ToSet(lruList) /\ KeyOf(items[k]) = k

(* The statistics, when they are kept, never count too many; they lag      *)
(* behind the list by the stray removals, and Set keeps them bounded.      *)
SizeInv ==
  /\ IsFiniteSet(Present)
  /\ EnableStats => size <= Cardinality(Present) /\ Len(lruList) = size + strays
  /\ ~EnableStats => size = 0

BoundInv == MaxSize > 0 /\ EnableLRU /\ EnableStats => size <= MaxSize

(* What is in the cache was used once. *)
UseInv == Distinct(uses) /\ Present \subseteq ToSet(uses)

Inv == /\ TypeOK
       /\ MapInv
       /\ Distinct(lruList)
       /\ SizeInv
       /\ BoundInv
       /\ UseInv
       /\ LeastRecentLast

(* An element has a key. *)
LEMMA ElementKey ==
  ASSUME NEW e \in Elements
  PROVE  KeyOf(e) \in Keys
BY DEF Elements, KeyOf

-----------------------------------------------------------------------------
(* What the steps do to it *)

(* removeElement (memory.go:412-424) on an element, whatever the map has   *)
(* for its key and whether or not the list has it.                         *)
LEMMA RemoveInv ==
  ASSUME Inv, NEW e \in Elements, RemoveElement(e),
         seen' \in [Callers -> Elements \cup {NoElement}],
         strays' \in 0 .. MaxStrays,
         strays' = IF e \in ToSet(lruList) THEN strays ELSE strays + 1,
         UNCHANGED <<stopped, uses>>
  PROVE  Inv'
<1>1. PICK k \in Keys : k = KeyOf(e)
  BY ElementKey
<1>2. lruList \in Seq(Elements) /\ Distinct(lruList)
  BY DEF Inv, TypeOK
<1>3. /\ lruList' \in Seq(Elements) /\ Distinct(lruList')
      /\ ToSet(lruList') = ToSet(lruList) \ {e}
      /\ Len(lruList') = IF e \in ToSet(lruList) THEN Len(lruList) - 1 ELSE Len(lruList)
      /\ \A x, y : Before(lruList', x, y) => Before(lruList, x, y)
  BY <1>2, WithoutFacts DEF RemoveElement
<1>4. /\ items' = [items EXCEPT ![k] = NoElement]
      /\ expired' = expired \ {k}
      /\ size' = NewSize(size - 1)
  BY <1>1 DEF RemoveElement
<1>5. Present' = Present \ {k}
  BY <1>4 DEF Inv, TypeOK, Present
<1>6. \A l \in Present' : l # k /\ l \in Present /\ items'[l] = items[l]
  BY <1>4, <1>5 DEF Inv, TypeOK, Present
<1>7. TypeOK'
  <2>1. size' \in Int
    BY <1>4 DEF NewSize, Inv, TypeOK
  <2>2. expired' \subseteq Present'
    BY <1>4, <1>5 DEF Inv, TypeOK
  <2> QED
    BY <1>3, <1>4, <2>1, <2>2 DEF Inv, TypeOK
<1>8. MapInv'
  <2> SUFFICES ASSUME NEW l \in Present'
               PROVE  items'[l] \in ToSet(lruList') /\ KeyOf(items'[l]) = l
    BY DEF MapInv
  <2>1. l # k /\ items'[l] = items[l] /\ items[l] \in ToSet(lruList) /\ KeyOf(items[l]) = l
    BY <1>6 DEF Inv, MapInv
  <2> QED
    BY <1>1, <1>3, <2>1
<1>9. SizeInv' /\ BoundInv'
  <2>1. IsFiniteSet(Present) /\ Cardinality(Present) \in Nat
    BY FS_CardinalityType DEF Inv, SizeInv
  <2>2. IsFiniteSet(Present \ {k}) /\ Cardinality(Present \ {k}) >= Cardinality(Present) - 1
    BY <2>1, OneKeyLess
  <2>3. PICK m \in Nat, n \in Nat : m = Cardinality(Present) /\ n = Cardinality(Present \ {k})
    BY <2>1, <2>2, FS_CardinalityType
  <2>4. Len(lruList) \in Nat /\ size \in Int /\ strays \in Nat
    BY CacheAssumption DEF Inv, TypeOK
  <2>5. EnableStats => size' <= Cardinality(Present') /\ Len(lruList') = size' + strays'
    BY <1>3, <1>4, <1>5, <2>2, <2>3, <2>4 DEF Inv, SizeInv, NewSize
  <2>6. ~EnableStats => size' = 0
    BY <1>4 DEF Inv, SizeInv, NewSize
  <2>7. EnableStats => size' <= size
    BY <1>4, <2>4 DEF NewSize
  <2>8. BoundInv'
    <3> SUFFICES ASSUME MaxSize > 0, EnableLRU, EnableStats PROVE size' <= MaxSize
      BY DEF BoundInv
    <3>1. size <= MaxSize /\ size' \in Int
      BY <1>7 DEF Inv, BoundInv, TypeOK
    <3> QED
      BY <2>4, <2>7, <3>1, CacheAssumption
  <2> QED
    BY <1>5, <2>2, <2>5, <2>6, <2>8 DEF SizeInv
<1>10. UseInv'
  BY <1>5 DEF Inv, UseInv
<1>11. LeastRecentLast'
  BY <1>3, <1>6 DEF Inv, LeastRecentLast
<1> QED
  BY <1>3, <1>7, <1>8, <1>9, <1>10, <1>11 DEF Inv

(* The use of a key puts it before the others, in a list that has each     *)
(* key once (item.AccessAt of Get and Set, memory.go:114, 158).            *)
LEMMA UseFacts ==
  ASSUME TypeOK, Distinct(uses), NEW k \in Keys, Use(k)
  PROVE  /\ uses' \in Seq(Keys) /\ Distinct(uses')
         /\ ToSet(uses') = ToSet(uses) \cup {k}
         /\ \A x \in ToSet(uses) : x # k => Before(uses', k, x)
         /\ \A x, y : Before(uses, x, y) /\ x # k /\ y # k => Before(uses', x, y)
<1>1. PICK r : r = Without(uses, k)
  OBVIOUS
<1>2. /\ r \in Seq(Keys) /\ Distinct(r) /\ ToSet(r) = ToSet(uses) \ {k}
      /\ \A x, y : Before(r, x, y) <=> Before(uses, x, y) /\ x # k /\ y # k
  BY <1>1, WithoutFacts DEF TypeOK
<1>3. uses' = <<k>> \o r
  BY <1>1 DEF Use
<1>4. k \notin ToSet(r)
  BY <1>2
<1>5. /\ uses' \in Seq(Keys) /\ Distinct(uses')
      /\ ToSet(uses') = ToSet(r) \cup {k}
      /\ \A x, y : Before(uses', x, y) <=> (x = k /\ y \in ToSet(r)) \/ Before(r, x, y)
  BY <1>2, <1>3, <1>4, FrontFacts
<1> QED
  BY <1>2, <1>5

(* An access (Get, memory.go:114-117; Set of a key that is there,          *)
(* memory.go:184-187) moves the element and its key to the front of both.  *)
LEMMA TouchInv ==
  ASSUME Inv, NEW k \in Present, lruList' = MoveToFront(items[k]), Use(k),
         expired' \subseteq expired,
         UNCHANGED <<items, size, seen, strays, stopped>>
  PROVE  Inv'
<1>1. PICK e : e = items[k]
  OBVIOUS
<1>2. /\ k \in Keys /\ e \in Elements /\ e \in ToSet(lruList)
      /\ lruList \in Seq(Elements) /\ Distinct(lruList) /\ TypeOK /\ Distinct(uses)
  BY <1>1 DEF Inv, TypeOK, MapInv, Present, UseInv
<1>3. /\ uses' \in Seq(Keys) /\ Distinct(uses')
      /\ ToSet(uses') = ToSet(uses) \cup {k}
      /\ \A x \in ToSet(uses) : x # k => Before(uses', k, x)
      /\ \A x, y : Before(uses, x, y) /\ x # k /\ y # k => Before(uses', x, y)
  BY <1>2, UseFacts
<1>4. /\ lruList' \in Seq(Elements) /\ Distinct(lruList')
      /\ ToSet(lruList') = ToSet(lruList) /\ Len(lruList') = Len(lruList)
      /\ EnableLRU => \A x, y : Before(lruList', x, y) =>
           \/ x = e /\ y \in ToSet(lruList) /\ y # e
           \/ Before(lruList, x, y) /\ x # e /\ y # e
  <2>1. CASE ~EnableLRU
    BY <2>1, <1>2 DEF MoveToFront
  <2>2. CASE EnableLRU
    <3>1. PICK r : r = Without(lruList, e)
      OBVIOUS
    <3>2. /\ r \in Seq(Elements) /\ Distinct(r) /\ ToSet(r) = ToSet(lruList) \ {e}
          /\ Len(r) = Len(lruList) - 1
          /\ \A x, y : Before(r, x, y) <=> Before(lruList, x, y) /\ x # e /\ y # e
      BY <3>1, <1>2, WithoutFacts
    <3>3. lruList' = <<e>> \o r
      BY <2>2, <3>1, <1>1, <1>2 DEF MoveToFront
    <3>4. e \notin ToSet(r)
      BY <3>2
    <3>5. /\ lruList' \in Seq(Elements) /\ Distinct(lruList')
          /\ ToSet(lruList') = ToSet(r) \cup {e} /\ Len(lruList') = Len(r) + 1
          /\ \A x, y : Before(lruList', x, y) <=> (x = e /\ y \in ToSet(r)) \/ Before(r, x, y)
      BY <3>2, <3>3, <3>4, <1>2, FrontFacts
    <3>6. Len(lruList') = Len(lruList)
      BY <3>2, <3>5, <1>2
    <3> QED
      BY <3>2, <3>5, <3>6, <1>2
  <2> QED
    BY <2>1, <2>2
<1>5. Present' = Present
  BY DEF Present
<1>6. TypeOK' /\ SizeInv' /\ BoundInv' /\ MapInv' /\ UseInv'
  BY <1>3, <1>4, <1>5 DEF Inv, TypeOK, SizeInv, BoundInv, MapInv, UseInv
<1>7. LeastRecentLast'
  <2> SUFFICES ASSUME EnableLRU, NEW l \in Present, NEW m \in Present,
                      Before(lruList', items[l], items[m])
               PROVE  Before(uses', l, m)
    BY <1>5 DEF LeastRecentLast
  <2>1. \A z \in Present : z \in ToSet(uses) /\ (items[z] # e => z # k) /\ (items[z] = e => z = k)
    BY <1>1 DEF Inv, UseInv, MapInv
  <2>2. CASE items[l] = e /\ items[m] # e
    BY <2>2, <2>1, <1>3
  <2>3. CASE Before(lruList, items[l], items[m]) /\ items[l] # e /\ items[m] # e
    <3>1. Before(uses, l, m)
      BY <2>3 DEF Inv, LeastRecentLast
    <3> QED
      BY <3>1, <2>1, <2>3, <1>3
  <2> QED
    BY <2>2, <2>3, <1>4
<1> QED
  BY <1>4, <1>6, <1>7 DEF Inv

(* Set of a new key (memory.go:197-208): the element is in the map and at  *)
(* the front; when that makes one item too many, the back of the list goes *)
(* (evictLRU, memory.go:427-444), and with it what its key has in the map. *)
LEMMA SetNewInv ==
  ASSUME Inv, NEW k \in Keys, NEW e \in Elements, SetNew(k, e)
  PROVE  Inv'
<1>1. /\ k \notin Present /\ KeyOf(e) = k /\ e \notin ToSet(lruList) /\ e # NoElement
      /\ lruList \in Seq(Elements) /\ Distinct(lruList) /\ TypeOK /\ Distinct(uses)
  BY CacheAssumption DEF SetNew, InUse, Inv, TypeOK, UseInv
<1>2. Use(k) /\ seen' = seen /\ strays' = strays /\ stopped' = stopped
  BY DEF SetNew
<1>3. /\ uses' \in Seq(Keys) /\ Distinct(uses')
      /\ ToSet(uses') = ToSet(uses) \cup {k}
      /\ \A x \in ToSet(uses) : x # k => Before(uses', k, x)
      /\ \A x, y : Before(uses, x, y) /\ x # k /\ y # k => Before(uses', x, y)
  BY <1>1, <1>2, UseFacts
<1>4. PICK list : list = <<e>> \o lruList
  OBVIOUS
<1>5. /\ list \in Seq(Elements) /\ Distinct(list)
      /\ ToSet(list) = ToSet(lruList) \cup {e} /\ Len(list) = Len(lruList) + 1
      /\ \A x, y : Before(list, x, y) <=> (x = e /\ y \in ToSet(lruList)) \/ Before(lruList, x, y)
  BY <1>1, <1>4, FrontFacts
<1>6. ASSUME NEW l \in Present
      PROVE  /\ l # k /\ items[l] \in ToSet(lruList) /\ items[l] # e /\ KeyOf(items[l]) = l
             /\ l \in ToSet(uses)
  BY <1>1 DEF Inv, MapInv, UseInv
<1>7. ASSUME EnableLRU, NEW l \in Present \cup {k}, NEW m \in Present \cup {k},
             Before(list, IF l = k THEN e ELSE items[l], IF m = k THEN e ELSE items[m])
      PROVE  Before(uses', l, m)
  <2>1. m # k
    <3>1. \A x : ~Before(lruList, x, e)
      BY <1>1 DEF Before, ToSet
    <3>2. \A x : ~Before(list, x, e)
      BY <1>1, <1>5, <3>1
    <3> QED
      BY <1>7, <3>2
  <2>2. CASE l = k
    BY <1>3, <1>6, <2>1, <2>2
  <2>3. CASE l # k
    <3>1. Before(lruList, items[l], items[m])
      BY <1>5, <1>6, <1>7, <2>1, <2>3
    <3>2. Before(uses, l, m)
      BY <1>7, <2>1, <2>3, <3>1 DEF Inv, LeastRecentLast
    <3> QED
      BY <1>3, <2>1, <2>3, <3>2
  <2> QED
    BY <2>2, <2>3
<1>8. /\ IsFiniteSet(Present) /\ Cardinality(Present) \in Nat
      /\ IsFiniteSet(Present \cup {k})
      /\ Cardinality(Present \cup {k}) = Cardinality(Present) + 1
      /\ size \in Int /\ strays \in Nat /\ Len(lruList) \in Nat
  BY <1>1, CacheAssumption, FS_CardinalityType, FS_AddElement DEF Inv, SizeInv, TypeOK
<1>9. CASE ~MustEvict(NewSize(size + 1))
  <2>1. /\ items' = [items EXCEPT ![k] = e] /\ lruList' = list /\ size' = NewSize(size + 1)
        /\ expired' = expired
    BY <1>9, <1>4 DEF SetNew
  <2>2. /\ Present' = Present \cup {k} /\ items'[k] = e
        /\ \A l \in Present : items'[l] = items[l]
    BY <2>1, <1>1 DEF TypeOK, Present
  <2>3. SizeInv'
    BY <2>1, <2>2, <1>2, <1>5, <1>8 DEF Inv, SizeInv, NewSize
  <2>4. TypeOK'
    <3>1. size' \in Int
      BY <2>1, <1>8 DEF NewSize
    <3>2. expired' \subseteq Present'
      BY <2>1, <2>2, <1>1 DEF TypeOK
    <3> QED
      BY <3>1, <3>2, <2>1, <1>1, <1>2, <1>3, <1>5 DEF TypeOK
  <2>5. BoundInv'
    <3> SUFFICES ASSUME MaxSize > 0, EnableLRU, EnableStats PROVE size' <= MaxSize
      BY DEF BoundInv
    <3>1. NewSize(size + 1) = size + 1 /\ size' = size + 1
      BY <2>1 DEF NewSize
    <3>2. ~(size + 1 > MaxSize)
      BY <1>9, <3>1 DEF MustEvict
    <3> QED
      BY <3>1, <3>2, <1>8, CacheAssumption
  <2>6. MapInv'
    BY <2>1, <2>2, <1>1, <1>5, <1>6 DEF MapInv
  <2>7. UseInv'
    BY <2>2, <1>3 DEF Inv, UseInv
  <2>8. LeastRecentLast'
    BY <2>1, <2>2, <1>6, <1>7 DEF LeastRecentLast
  <2> QED
    BY <2>1, <2>3, <2>4, <2>5, <2>6, <2>7, <2>8, <1>5 DEF Inv
<1>10. CASE MustEvict(NewSize(size + 1))
  <2>1. PICK v : v = Last(list)
    OBVIOUS
  <2>2. v \in ToSet(list) /\ v \in Elements
    <3>1. Len(list) \in DOMAIN list /\ v = list[Len(list)]
      BY <2>1, <1>5, <1>8 DEF Last
    <3> QED
      BY <3>1, <1>5 DEF ToSet
  <2>3. PICK m \in Keys : m = KeyOf(v)
    BY <2>2, ElementKey
  <2>4. /\ items' = [items EXCEPT ![k] = e, ![m] = NoElement]
        /\ expired' = expired \ {m}
        /\ lruList' = Without(list, v)
        /\ size' = size
    BY <2>1, <2>3, <1>4, <1>10 DEF SetNew
  <2>5. /\ lruList' \in Seq(Elements) /\ Distinct(lruList')
        /\ ToSet(lruList') = ToSet(list) \ {v} /\ Len(lruList') = Len(list) - 1
        /\ \A x, y : Before(lruList', x, y) => Before(list, x, y)
    BY <2>2, <2>4, <1>5, WithoutFacts
  <2>6. /\ Present' = (Present \cup {k}) \ {m}
        /\ \A l \in Present' : items'[l] = IF l = k THEN e ELSE items[l]
    BY <2>4, <1>1 DEF TypeOK, Present
  <2>7. IsFiniteSet(Present') /\ Cardinality(Present') >= Cardinality(Present)
    <3>1. PICK P : P = Present \cup {k}
      OBVIOUS
    <3>2. IsFiniteSet(P) /\ Cardinality(P) = Cardinality(Present) + 1
      BY <3>1, <1>8
    <3>3. IsFiniteSet(P \ {m}) /\ Cardinality(P \ {m}) >= Cardinality(P) - 1
      BY <3>2, OneKeyLess
    <3> QED
      BY <3>1, <3>2, <3>3, <2>6, <1>8
  <2>8. SizeInv' /\ BoundInv'
    <3>1. Cardinality(Present') \in Nat
      BY <2>7, FS_CardinalityType
    <3>2. Len(lruList') = Len(lruList)
      BY <2>5, <1>5, <1>8
    <3>3. EnableStats => size' <= Cardinality(Present')
      BY <3>1, <2>4, <2>7, <1>8 DEF Inv, SizeInv
    <3> QED
      BY <3>2, <3>3, <2>4, <2>7, <1>2 DEF Inv, SizeInv, BoundInv
  <2>9. TypeOK'
    <3>1. expired' \subseteq Present'
      BY <2>4, <2>6, <1>1 DEF TypeOK
    <3> QED
      BY <3>1, <2>4, <2>5, <1>1, <1>2, <1>3 DEF TypeOK
  <2>10. MapInv'
    <3> SUFFICES ASSUME NEW n \in Present'
                 PROVE  items'[n] \in ToSet(lruList') /\ KeyOf(items'[n]) = n
      BY DEF MapInv
    <3>1. n # m /\ items'[n] \in ToSet(list) /\ KeyOf(items'[n]) = n
      BY <2>6, <1>1, <1>5, <1>6
    <3> QED
      BY <3>1, <2>3, <2>5
  <2>11. UseInv'
    BY <2>6, <1>3 DEF Inv, UseInv
  <2>12. LeastRecentLast'
    <3> SUFFICES ASSUME EnableLRU, NEW l \in Present', NEW n \in Present',
                        Before(lruList', items'[l], items'[n])
                 PROVE  Before(uses', l, n)
      BY DEF LeastRecentLast
    <3> QED
      BY <2>5, <2>6, <1>7
  <2> QED
    BY <2>5, <2>8, <2>9, <2>10, <2>11, <2>12 DEF Inv
<1> QED
  BY <1>9, <1>10

(* Clear (memory.go:267-281) makes new, empty structures. *)
LEMMA ClearInv ==
  ASSUME Inv, Clear
  PROVE  Inv'
<1>1. /\ items' = [k \in Keys |-> NoElement] /\ lruList' = <<>> /\ size' = NewSize(0)
      /\ expired' = {} /\ seen' = seen /\ strays' = 0 /\ stopped' = stopped /\ uses' = uses
  BY DEF Clear
<1>2. Present' = {}
  BY <1>1 DEF Present
<1>3. size' = 0
  BY <1>1 DEF NewSize, Inv, SizeInv
<1>4. TypeOK' /\ Distinct(lruList')
  BY <1>1, <1>3, CacheAssumption DEF Inv, TypeOK, Distinct
<1>5. SizeInv' /\ BoundInv'
  BY <1>1, <1>2, <1>3, FS_EmptySet, CacheAssumption DEF SizeInv, BoundInv
<1> QED
  BY <1>1, <1>2, <1>4, <1>5 DEF Inv, MapInv, UseInv, LeastRecentLast

(* cleanupExpired (memory.go:466-493): the expired items are gone from all *)
(* three structures, the others are as they were.                          *)
LEMMA CleanupInv ==
  ASSUME Inv, Cleanup
  PROVE  Inv'
<1>1. PICK stay : stay = {i \in DOMAIN lruList : \A k \in expired : lruList[i] # items[k]}
  OBVIOUS
<1>2. /\ items' = [k \in Keys |-> IF k \in expired THEN NoElement ELSE items[k]]
      /\ expired' = {}
      /\ size' = NewSize(size - Cardinality(expired))
      /\ \E at \in InOrder(stay) : lruList' = [i \in DOMAIN at |-> lruList[at[i]]]
      /\ seen' = seen /\ strays' = strays /\ stopped' = stopped /\ uses' = uses
  BY <1>1 DEF Cleanup
<1>3. /\ lruList \in Seq(Elements) /\ Distinct(lruList) /\ stay \in SUBSET DOMAIN lruList
      /\ expired \subseteq Present
  BY <1>1 DEF Inv, TypeOK
<1>4. /\ lruList' \in Seq(Elements) /\ Distinct(lruList')
      /\ ToSet(lruList') = {lruList[i] : i \in stay}
      /\ IsFiniteSet(stay) /\ Len(lruList') = Cardinality(stay)
      /\ \A x, y : Before(lruList', x, y) => Before(lruList, x, y)
  <2>1. PICK at \in InOrder(stay) : lruList' = [i \in DOMAIN at |-> lruList[at[i]]]
    BY <1>2
  <2> QED
    BY <1>3, <2>1, PartFacts
<1>5. ToSet(lruList') = {x \in ToSet(lruList) : \A k \in expired : x # items[k]}
  BY <1>1, <1>4 DEF ToSet
<1>6. Present' = Present \ expired /\ \A k \in Present' : items'[k] = items[k]
  BY <1>2, <1>3 DEF Present
<1>7. IsFiniteSet(Present) /\ IsFiniteSet(expired) /\ Cardinality(expired) \in Nat
  BY <1>3, FS_Subset, FS_CardinalityType DEF Inv, SizeInv
<1>8. Len(lruList') = Len(lruList) - Cardinality(expired)
  <2>1. PICK n \in Nat : n = Len(lruList) /\ DOMAIN lruList = 1..n
    BY <1>3
  <2>2. PICK G : G = (1..n) \ stay
    OBVIOUS
  <2>3. \A i \in G : i \in 1..n /\ \E k \in expired : lruList[i] = items[k]
    BY <1>1, <2>1, <2>2
  <2>4. \A k \in expired : items[k] \in ToSet(lruList) /\ KeyOf(items[k]) = k
    BY <1>3 DEF Inv, MapInv
  <2>5. PICK f : f = [i \in G |-> KeyOf(lruList[i])]
    OBVIOUS
  <2>6. \A i \in G : f[i] \in expired /\ lruList[i] = items[f[i]]
    BY <2>3, <2>4, <2>5
  <2>7. f \in [G -> expired]
    BY <2>5, <2>6
  <2>8. ASSUME NEW i \in G, NEW j \in G, f[i] = f[j] PROVE i = j
    BY <1>3, <2>1, <2>3, <2>6, <2>8 DEF Distinct
  <2>9. ASSUME NEW k \in expired PROVE \E i \in G : f[i] = k
    <3>1. PICK i \in 1..n : lruList[i] = items[k]
      BY <2>1, <2>4 DEF ToSet
    <3>2. i \in G
      BY <1>1, <2>2, <3>1
    <3> QED
      BY <2>4, <2>5, <3>1, <3>2
  <2>10. f \in Injection(G, expired) /\ f \in Surjection(G, expired)
    BY <2>7, <2>8, <2>9 DEF Injection, Surjection, IsInjective
  <2>11. Cardinality(G) = Cardinality(expired)
    BY <1>7, <2>10, FS_Injection
  <2>12. IsFiniteSet(1..n) /\ Cardinality(1..n) = n
    BY FS_Interval
  <2>13. stay = (1..n) \ G /\ (1..n) \cap G = G
    BY <1>3, <2>1, <2>2
  <2>14. Cardinality(stay) = n - Cardinality(G)
    BY <2>2, <2>12, <2>13, PartLess
  <2> QED
    BY <1>4, <2>1, <2>11, <2>14
<1>9. SizeInv' /\ BoundInv'
  <2>1. IsFiniteSet(Present \ expired) /\ Cardinality(Present \ expired) = Cardinality(Present) - Cardinality(expired)
    BY <1>3, <1>7, PartLess
  <2>2. PICK p \in Nat, q \in Nat : p = Cardinality(Present) /\ q = Cardinality(expired)
    BY <1>7, FS_CardinalityType
  <2>3. Len(lruList) \in Nat /\ size \in Int /\ strays \in Nat
    BY CacheAssumption DEF Inv, TypeOK
  <2>4. EnableStats => size' = size - q
    BY <1>2, <2>2 DEF NewSize
  <2>5. EnableStats => size' <= Cardinality(Present') /\ Len(lruList') = size' + strays'
    <3> SUFFICES ASSUME EnableStats
                 PROVE  size' <= Cardinality(Present') /\ Len(lruList') = size' + strays'
      OBVIOUS
    <3>1. size <= p /\ Len(lruList) = size + strays
      BY <2>2 DEF Inv, SizeInv
    <3>2. Cardinality(Present') = p - q
      BY <1>6, <2>1, <2>2
    <3>3. Len(lruList') = Len(lruList) - q /\ strays' = strays
      BY <1>2, <1>8, <2>2
    <3> QED
      BY <2>2, <2>3, <2>4, <3>1, <3>2, <3>3
  <2>6. ~EnableStats => size' = 0
    BY <1>2 DEF Inv, SizeInv, NewSize
  <2>7. BoundInv'
    BY <2>2, <2>3, <2>4, CacheAssumption DEF Inv, BoundInv
  <2> QED
    BY <1>6, <2>1, <2>5, <2>6, <2>7 DEF SizeInv
<1>10. TypeOK'
  <2>1. size' \in Int
    BY <1>2, <1>7 DEF NewSize, Inv, TypeOK
  <2> QED
    BY <2>1, <1>2, <1>4 DEF Inv, TypeOK
<1>11. MapInv'
  <2> SUFFICES ASSUME NEW k \in Present'
               PROVE  items'[k] \in ToSet(lruList') /\ KeyOf(items'[k]) = k
    BY DEF MapInv
  <2>1. k \in Present /\ k \notin expired /\ items'[k] = items[k]
    BY <1>6
  <2>2. items[k] \in ToSet(lruList) /\ KeyOf(items[k]) = k
    BY <2>1 DEF Inv, MapInv
  <2>3. \A m \in expired : KeyOf(items[m]) = m
    BY <1>3 DEF Inv, MapInv
  <2> QED
    BY <2>1, <2>2, <2>3, <1>5
<1>12. UseInv' /\ LeastRecentLast'
  BY <1>2, <1>4, <1>6 DEF Inv, UseInv, LeastRecentLast
<1> QED
  BY <1>4, <1>9, <1>10, <1>11, <1>12 DEF Inv

(* A new cache (memory.go:35-50) is empty. *)
LEMMA InitInv == Init => Inv
<1> SUFFICES ASSUME Init PROVE Inv
  OBVIOUS
<1>1. Present = {} /\ size = 0 /\ strays = 0 /\ lruList = <<>> /\ uses = <<>>
  BY DEF Init, Present
<1>2. TypeOK
  <2>1. strays \in 0 .. MaxStrays /\ size \in Int
    BY <1>1, CacheAssumption
  <2>2. lruList \in Seq(Elements) /\ uses \in Seq(Keys)
    BY <1>1
  <2> QED
    BY <2>1, <2>2 DEF Init, TypeOK
<1>3. Distinct(lruList) /\ Distinct(uses)
  BY <1>1 DEF Distinct
<1>4. SizeInv /\ BoundInv
  BY <1>1, FS_EmptySet, CacheAssumption DEF SizeInv, BoundInv
<1> QED
  BY <1>1, <1>2, <1>3, <1>4 DEF Inv, MapInv, UseInv, LeastRecentLast

(* Every step keeps the invariant, in whatever order calls, cleanup and    *)
(* the two halves of Exists come.                                          *)
LEMMA NextInv ==
  ASSUME Inv, [Next]_vars
  PROVE  Inv'
<1>1. ASSUME NEW k \in Keys, GetExpired(k) \/ Delete(k) PROVE Inv'
  <2>1. k \in Present
    BY <1>1 DEF GetExpired, Delete, Inv, TypeOK
  <2>2. items[k] \in Elements /\ items[k] \in ToSet(lruList)
    BY <2>1 DEF Inv, TypeOK, MapInv, Present
  <2>3. /\ RemoveElement(items[k]) /\ UNCHANGED <<stopped, uses>>
        /\ strays' = strays /\ seen' = seen
    BY <1>1 DEF GetExpired, Delete
  <2> QED
    BY <2>2, <2>3, RemoveInv DEF Inv, TypeOK
<1>2. ASSUME NEW c \in Callers, ExistsRemoves(c) PROVE Inv'
  <2>1. seen[c] \in Elements
    BY <1>2 DEF ExistsRemoves, Inv, TypeOK
  <2>2. /\ RemoveElement(seen[c]) /\ UNCHANGED <<stopped, uses>>
        /\ strays' = IF seen[c] \in ToSet(lruList) THEN strays ELSE strays + 1
        /\ seen' \in [Callers -> Elements \cup {NoElement}]
    BY <1>2 DEF ExistsRemoves, Inv, TypeOK
  <2>3. strays' \in 0 .. MaxStrays
    BY <1>2, CacheAssumption DEF ExistsRemoves, Inv, TypeOK
  <2> QED
    BY <2>1, <2>2, <2>3, RemoveInv
<1>3. ASSUME NEW k \in Keys, GetHit(k) \/ SetExisting(k) PROVE Inv'
  <2>1. /\ k \in Present /\ lruList' = MoveToFront(items[k]) /\ Use(k)
        /\ expired' \subseteq expired /\ UNCHANGED <<items, size, seen, strays, stopped>>
    BY <1>3 DEF GetHit, SetExisting
  <2> QED
    BY <2>1, TouchInv
<1>4. ASSUME NEW k \in Keys, NEW e \in Elements, SetNew(k, e) PROVE Inv'
  BY <1>4, SetNewInv
<1>5. CASE Clear
  BY <1>5, ClearInv
<1>6. CASE Cleanup
  BY <1>6, CleanupInv
<1>7. ASSUME UNCHANGED <<items, lruList, size, strays, uses>>, expired' \subseteq Present,
             stopped' \in BOOLEAN, seen' \in [Callers -> Elements \cup {NoElement}]
      PROVE  Inv'
  <2>1. Present' = Present
    BY <1>7 DEF Present
  <2>2. TypeOK'
    BY <1>7, <2>1 DEF Inv, TypeOK
  <2> QED
    BY <1>7, <2>1, <2>2 DEF Inv, MapInv, SizeInv, BoundInv, UseInv, LeastRecentLast
<1>8. ASSUME NEW k \in Keys, SetTTL(k) \/ TimePasses(k) PROVE Inv'
  <2>1. expired' \subseteq Present
    BY <1>8 DEF SetTTL, TimePasses, Inv, TypeOK
  <2> QED
    BY <1>7, <1>8, <2>1 DEF SetTTL, TimePasses, Inv, TypeOK
<1>9. ASSUME NEW k \in Keys, NEW c \in Callers, ExistsLooks(c, k) PROVE Inv'
  <2>1. seen' \in [Callers -> Elements \cup {NoElement}]
    BY <1>9 DEF ExistsLooks, Inv, TypeOK
  <2> QED
    BY <1>7, <1>9, <2>1 DEF ExistsLooks, Inv, TypeOK
<1>10. CASE Close
  BY <1>7, <1>10 DEF Close, Inv, TypeOK
<1>11. CASE UNCHANGED vars
  BY <1>7, <1>11 DEF vars, Inv, TypeOK
<1> QED
  BY <1>1, <1>2, <1>3, <1>4, <1>5, <1>6, <1>8, <1>9, <1>10, <1>11 DEF Next

(* The invariant holds of every behaviour of the methods of memory.go. *)
LEMMA Invariance == Spec => []Inv
<1>1. Inv /\ [Next]_vars => Inv'
  BY NextInv
<1> QED
  BY <1>1, InitInv, PTL DEF Spec

-----------------------------------------------------------------------------
(* The map, the list and the size describe the same items, up to the stray *)
(* removals of an overlapped Exists, each of which takes one off the size  *)
(* and nothing off the list (memory.go:186-208, 254-257, 412-424).         *)
THEOREM StructuresAgree == Spec => []Consistent
<1>1. Inv => Consistent
  BY DEF Inv, MapInv, SizeInv, Consistent, Distinct, IsInjective
<1> QED
  BY <1>1, Invariance, PTL

(* The cache never holds more than MaxSize items and one for each stray    *)
(* removal since the last Clear (memory.go:206, 427-444), whatever calls,  *)
(* ticks of the cleanup and halves of Exists come in whatever order.       *)
THEOREM GrowsOnlyByStrays == Spec => []CapacityBound
<1>1. Inv => CapacityBound
  <2> SUFFICES ASSUME Inv, MaxSize > 0, EnableLRU, EnableStats
               PROVE  Cardinality(Present) <= MaxSize + strays
    BY DEF CapacityBound
  <2>1. PICK n \in Nat : n = Len(lruList) /\ DOMAIN lruList = 1..n
    BY DEF Inv, TypeOK
  <2>2. PICK f : f = [k \in Present |-> CHOOSE i \in 1..n : lruList[i] = items[k]]
    OBVIOUS
  <2>3. \A k \in Present : f[k] \in 1..n /\ lruList[f[k]] = items[k] /\ KeyOf(items[k]) = k
    BY <2>1, <2>2 DEF Inv, MapInv, ToSet
  <2>4. f \in [Present -> 1..n] /\ \A k, l \in Present : f[k] = f[l] => k = l
    BY <2>2, <2>3
  <2>5. f \in Injection(Present, 1..n)
    BY <2>4 DEF Injection, IsInjective
  <2>6. IsFiniteSet(1..n) /\ Cardinality(1..n) = n
    BY FS_Interval
  <2>7. Cardinality(Present) <= n /\ Cardinality(Present) \in Nat
    BY <2>5, <2>6, FS_Injection, FS_CardinalityType
  <2>8. n = size + strays /\ size <= MaxSize /\ size \in Int /\ strays \in Nat
    BY <2>1, CacheAssumption DEF Inv, SizeInv, BoundInv, TypeOK
  <2> QED
    BY <2>7, <2>8, CacheAssumption
<1> QED
  BY <1>1, Invariance, PTL

(* The items are in the list in the order of their last uses, so that      *)
(* evictLRU (memory.go:427-444) takes the least recently used one.         *)
THEOREM ListIsInOrderOfUse == Spec => []LeastRecentLast
<1>1. Inv => LeastRecentLast
  BY DEF Inv
<1> QED
  BY <1>1, Invariance, PTL
=============================================================================
