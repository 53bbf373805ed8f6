---------------------------- MODULE MemoryCache ----------------------------
(***************************************************************************)
(* The in-memory cache of cache/memory.go: the map from keys to list       *)
(* elements, the LRU list, and the size that cache/cache.go keeps in its   *)
(* statistics and that decides about eviction.                             *)
(*                                                                         *)
(* Every method runs under mc.mutex and is one step, except Exists, which  *)
(* gives the read lock up before it takes the write lock to remove an      *)
(* expired element: any call, and the cleanup, may come in between.  When  *)
(* the element is not in the list any more, its removal is called stray.   *)
(* An item is expired or not: one that never expires is one whose time has *)
(* not come.  Values are left out.                                         *)
(***************************************************************************)
EXTENDS Integers, Sequences, SequencesExt

CONSTANTS
  Keys,        \* the formatted keys
  Copies,      \* bound: the *list.Element values of a key in use at one time
  NoElement,
  Callers,     \* the goroutines that call Exists
  MaxSize,     \* config.MaxSize
  EnableLRU,   \* config.EnableLRU
  EnableStats, \* config.EnableStats
  MaxStrays    \* bound: the stray removals between two calls of Clear

(* A *list.Element keeps its key: memoryItem.item.Key. *)
Elements == Keys \X Copies
KeyOf(e) == e[1]

ASSUME CacheAssumption ==
  /\ NoElement \notin Elements
  /\ MaxSize \in Nat /\ MaxStrays \in Nat
  /\ EnableLRU \in BOOLEAN /\ EnableStats \in BOOLEAN

VARIABLES
  items,    \* mc.items, NoElement for an absent key
  expired,  \* the keys whose item is past its ExpiresAt
  lruList,  \* mc.lruList, front first
  size,     \* mc.stats.Size
  seen,     \* the expired element each call of Exists is about to remove
  strays,   \* history: the stray removals since the last Clear
  stopped,  \* mc.stopChan is closed and the cleanup goroutine gone
  uses      \* history: the keys in the order of their last use, latest first

vars == <<items, expired, lruList, size, seen, strays, stopped, uses>>

Present == {k \in Keys : items[k] # NoElement}

InUse == ToSet(lruList) \cup {items[k] : k \in Present} \cup {seen[c] : c \in Callers}

Init ==
  /\ items = [k \in Keys |-> NoElement]
  /\ expired = {}
  /\ lruList = <<>>
  /\ size = 0
  /\ seen = [c \in Callers |-> NoElement]
  /\ strays = 0
  /\ stopped = FALSE
  /\ uses = <<>>

-----------------------------------------------------------------------------
(* Helpers *)

(* updateStats with a change of Size *)
NewSize(n) == IF EnableStats THEN n ELSE size

(* list.Remove, which ignores an element that is not in the list. *)
Without(s, e) ==
  IF e \in ToSet(s) THEN RemoveAt(s, CHOOSE i \in DOMAIN s : s[i] = e) ELSE s

MoveToFront(e) ==
  IF EnableLRU /\ e \in ToSet(lruList) THEN <<e>> \o Without(lruList, e) ELSE lruList

Use(k) == uses' = <<k>> \o Without(uses, k)

(* Mutant of RemoveElement: the list is forgotten. *)
RemoveElementFromMap(e) ==
  /\ items' = [items EXCEPT ![KeyOf(e)] = NoElement]
  /\ expired' = expired \ {KeyOf(e)}
  /\ size' = NewSize(size - 1)
  /\ UNCHANGED lruList

(* removeElement, under the element's key *)
RemoveElement(e) ==
  /\ items' = [items EXCEPT ![KeyOf(e)] = NoElement]
  /\ expired' = expired \ {KeyOf(e)}
  /\ lruList' = Without(lruList, e)
  /\ size' = NewSize(size - 1)

-----------------------------------------------------------------------------
(* The methods.  A Get, Delete, SetTTL or Exists that finds nothing to do  *)
(* changes nothing.                                                        *)

GetExpired(k) ==
  /\ k \in expired
  /\ RemoveElement(items[k])
  /\ UNCHANGED <<seen, strays, stopped, uses>>

(* Mutant of GetHit: the access is not recorded. *)
GetHitQuietly(k) ==
  /\ k \in Present \ expired
  /\ Use(k)
  /\ UNCHANGED <<items, expired, lruList, size, seen, strays, stopped>>

GetHit(k) ==
  /\ k \in Present \ expired
  /\ lruList' = MoveToFront(items[k])
  /\ Use(k)
  /\ UNCHANGED <<items, expired, size, seen, strays, stopped>>

SetExisting(k) ==
  /\ k \in Present
  /\ expired' = expired \ {k}
  /\ lruList' = MoveToFront(items[k])
  /\ Use(k)
  /\ UNCHANGED <<items, size, seen, strays, stopped>>

(* Mutant of MustEvict: one item too many. *)
MustEvictLate(n) == MaxSize > 0 /\ n > MaxSize + 1 /\ EnableLRU

(* The check of Set and the first check of evictLRU. *)
MustEvict(n) == MaxSize > 0 /\ n > MaxSize /\ EnableLRU

(* A new element at the front, and perhaps an eviction, which takes the    *)
(* back of the list and whatever its key has in the map.                   *)
SetNew(k, e) ==
  /\ k \notin Present
  /\ KeyOf(e) = k /\ e \notin InUse
  /\ Use(k)
  /\ LET list   == <<e>> \o lruList
         victim == Last(list)
     IN IF MustEvict(NewSize(size + 1))
          THEN /\ items' = [items EXCEPT ![k] = e, ![KeyOf(victim)] = NoElement]
               /\ expired' = expired \ {KeyOf(victim)}
               /\ lruList' = Without(list, victim)
               /\ UNCHANGED size
          ELSE /\ items' = [items EXCEPT ![k] = e]
               /\ lruList' = list
               /\ size' = NewSize(size + 1)
               /\ UNCHANGED expired
  /\ UNCHANGED <<seen, strays, stopped>>

Delete(k) ==
  /\ k \in Present
  /\ RemoveElement(items[k])
  /\ UNCHANGED <<seen, strays, stopped, uses>>

Clear ==
  /\ items' = [k \in Keys |-> NoElement]
  /\ expired' = {}
  /\ lruList' = <<>>
  /\ size' = NewSize(0)
  /\ strays' = 0
  /\ UNCHANGED <<seen, stopped, uses>>

(* An expired item that was not removed yet gets a new life. *)
SetTTL(k) ==
  /\ k \in Present
  /\ expired' = expired \ {k}
  /\ UNCHANGED <<items, lruList, size, seen, strays, stopped, uses>>

(* Under the read lock *)
ExistsLooks(c, k) ==
  /\ seen[c] = NoElement
  /\ k \in expired
  /\ seen' = [seen EXCEPT ![c] = items[k]]
  /\ UNCHANGED <<items, expired, lruList, size, strays, stopped, uses>>

(* Under the write lock: the element is removed without another look, with *)
(* whatever its key now has in the map.                                    *)
ExistsRemoves(c) ==
  /\ seen[c] # NoElement
  /\ RemoveElement(seen[c])
  /\ seen' = [seen EXCEPT ![c] = NoElement]
  /\ IF seen[c] \in ToSet(lruList)
       THEN UNCHANGED strays
       ELSE strays < MaxStrays /\ strays' = strays + 1
  /\ UNCHANGED <<stopped, uses>>

(* Mutant of Cleanup: nothing goes. *)
CleanupNothing ==
  /\ ~stopped
  /\ UNCHANGED vars

(* The numbers of a finite set, in increasing order *)
InOrder(S) ==
  {f \in [1..Cardinality(S) -> S] : \A i, j \in 1..Cardinality(S) : i < j => f[i] < f[j]}

(* One tick of the cleanup goroutine: all expired items are removed, the   *)
(* rest of the list keeps its order.                                       *)
Cleanup ==
  /\ ~stopped /\ expired # {}
  /\ items' = [k \in Keys |-> IF k \in expired THEN NoElement ELSE items[k]]
  /\ expired' = {}
  /\ LET stay == {i \in DOMAIN lruList : \A k \in expired : lruList[i] # items[k]}
     IN \E at \in InOrder(stay) : lruList' = [i \in DOMAIN at |-> lruList[at[i]]]
  /\ size' = NewSize(size - Cardinality(expired))
  /\ UNCHANGED <<seen, strays, stopped, uses>>

(* Close.  A second Close closes the closed channel: the program ends. *)
Close ==
  /\ ~stopped
  /\ stopped' = TRUE
  /\ UNCHANGED <<items, expired, lruList, size, seen, strays, uses>>

(* The clock passes the ExpiresAt of an item. *)
TimePasses(k) ==
  /\ k \in Present \ expired
  /\ expired' = expired \cup {k}
  /\ UNCHANGED <<items, lruList, size, seen, strays, stopped, uses>>

-----------------------------------------------------------------------------
Next ==
  \/ \E k \in Keys :
       \/ GetExpired(k) \/ GetHit(k) \/ SetExisting(k) \/ Delete(k) \/ SetTTL(k) \/ TimePasses(k)
       \/ \E e \in Elements : SetNew(k, e)
       \/ \E c \in Callers : ExistsLooks(c, k)
  \/ \E c \in Callers : ExistsRemoves(c)
  \/ Clear \/ Cleanup \/ Close

Spec == Init /\ [][Next]_vars

(* The cleanup goroutine gets its ticks and the mutex. *)
FairSpec == Spec /\ WF_vars(Cleanup)

-----------------------------------------------------------------------------
TypeOK ==
  /\ items \in [Keys -> Elements \cup {NoElement}]
  /\ expired \subseteq Present
  /\ lruList \in Seq(Elements)
  /\ size \in Int /\ strays \in 0 .. MaxStrays
  /\ seen \in [Callers -> Elements \cup {NoElement}]
  /\ stopped \in BOOLEAN
  /\ uses \in Seq(Keys)

(* The map, the list and the size describe the same items after any        *)
(* sequence of calls (memory.go:186-208, 412-424), up to the stray         *)
(* removals of an overlapped Exists (memory.go:254-257): a mapped key has  *)
(* an element of its own in the list, Size is never too large, and the     *)
(* list is longer than Size by exactly the stray removals.  Without any,   *)
(* the three agree.                                                        *)
Consistent ==
  /\ \A k \in Present : items[k] \in ToSet(lruList) /\ KeyOf(items[k]) = k
  /\ IsInjective(lruList)
  /\ EnableStats => size <= Cardinality(Present) /\ Len(lruList) = size + strays

(* Eviction (memory.go:206, 427-444) goes by Size: the cache never holds   *)
(* more than MaxSize items, and one for each stray removal since the last  *)
(* Clear; nothing else makes it grow.                                      *)
CapacityBound ==
  MaxSize > 0 /\ EnableLRU /\ EnableStats => Cardinality(Present) <= MaxSize + strays

Before(s, x, y) == \E a, b \in DOMAIN s : a < b /\ s[a] = x /\ s[b] = y

(* The items are in the list in the order of their last uses by Get and    *)
(* Set, so evictLRU (memory.go:427-444), which takes the back of it, takes *)
(* the least recently used one; an element that a stray removal left in    *)
(* the list without its item is not in question.                           *)
LeastRecentLast ==
  EnableLRU => \A k, l \in Present :
                 Before(lruList, items[k], items[l]) => Before(uses, k, l)

(* While the cleanup goroutine runs (memory.go:447-463), an expired item   *)
(* does not stay, even if nobody asks for it.                              *)
ExpiredIsRemoved ==
  \A k \in Keys : k \in expired ~> k \notin expired \/ stopped
=============================================================================
