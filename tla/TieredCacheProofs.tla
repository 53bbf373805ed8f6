-------------------------- MODULE TieredCacheProofs --------------------------
(***************************************************************************)
(* Proofs about TieredCache, for any keys, values, callers and operations, *)
(* with and without a namespace, default TTLs, errors of Redis and of the  *)
(* encoding, and whatever reading makes of a value.                        *)
(***************************************************************************)
EXTENDS TieredCache, TLAPS

TypeInv ==
  /\ l1 \in [Keys -> [val : Values, life : Lives] \cup {Absent}]
  /\ l2 \in [Keys -> Values \cup {Absent, Expired}]
  /\ call \in [Callers -> Calls \cup {NoCall}]
  /\ stored \in [Keys -> SUBSET Values]
  /\ disturbed \subseteq Keys

(* What a call is about to do follows from its operation. *)
GoodCall(r) ==
  /\ r \in Calls
  /\ r.todo \subseteq r.keys /\ r.miss \subseteq r.keys
  /\ r.op \in {"get", "warmup"} <=> r.at \in {"look1", "look2", "fill"}
  /\ r.op = "set" <=> r.at \in {"write2", "write1"}
  /\ r.op = "set" => r.val \in Values
  /\ r.op = "delete" <=> r.at \in {"drop1", "drop2"}
  /\ r.at = "drop2" => r.todo = r.keys
  /\ r.op = "clear" => r.keys = Keys
  /\ r.at = "fill" => \A k \in r.todo : r.got[k] \in Values

CallInv == \A c \in Callers : call[c] # NoCall => GoodCall(call[c])

(* A value that is in L2, or that a call is about to put into L1, is one   *)
(* that L2 has held, or a copy of one.                                     *)
Backed(r) ==
  /\ r.at = "fill" => \A k \in r.todo : r.got[k] \in Copies(stored[k])
  /\ r.at = "write2" => \A k \in r.keys \ r.todo : k \in r.miss \/ r.val \in stored[k]
  /\ r.at = "write1" => \A k \in r.keys : k \in r.miss \/ r.val \in stored[k]

StoredInv ==
  /\ L1FromL2
  /\ \A k \in Keys : Missing(l2[k]) \/ l2[k] \in stored[k]
  /\ \A c \in Callers : call[c] # NoCall => Backed(call[c])

(* How far call r has come with key k, and what the levels then hold. *)
Progress(r, k) ==
  /\ r.at = "fill" /\ k \in r.todo =>
       l2[k] = Expired \/ (l2[k] # Absent /\ r.got[k] \in Copies({l2[k]}))
  /\ r.at = "write2" /\ k \in r.todo => Agrees(k)
  /\ r.at = "write2" /\ k \notin r.todo => l2[k] \in {r.val, Expired}
  /\ r.at = "write1" => l2[k] \in {r.val, Expired}
  /\ r.at = "write1" /\ k \notin r.todo => l1[k] = Absent \/ l1[k].val = r.val
  /\ r.at = "drop1" /\ k \in r.todo => Agrees(k)
  /\ r.at = "drop1" /\ k \notin r.todo => l1[k] = Absent
  /\ r.at = "clear1" => Agrees(k)
  /\ r.at \in {"drop2", "keys", "del"} => l1[k] = Absent

(* A writer is alone with the keys that are not disturbed; while there is  *)
(* no writer the levels agree.                                             *)
Alone(k) == \A c, d \in Active(k) : c # d => call[c].op \notin Writes
Settled(k) == (\A c \in Active(k) : call[c].op \notin Writes) => Agrees(k)

QuietInv ==
  \A k \in Keys \ disturbed :
    Alone(k) /\ Settled(k) /\ \A c \in Active(k) : Progress(call[c], k)

Inv == TypeInv /\ CallInv /\ StoredInv /\ QuietInv

(* What call c becomes by a step: it returns, or goes on with the same     *)
(* operation on the same keys.                                             *)
GoesOn(c, n) ==
  /\ \/ n = NoCall
     \/ GoodCall(n) /\ n.keys = call[c].keys /\ n.op = call[c].op
  /\ call' = [call EXCEPT ![c] = n]

(* A value is a copy of itself, what reading makes of it is one, and a     *)
(* larger set has all the copies of a smaller one (tiered.go:70, 104).     *)
LEMMA CopyFacts ==
  ASSUME NEW S, NEW T, S \subseteq T
  PROVE  /\ S \subseteq Copies(T) /\ Copies(S) \subseteq Copies(T)
         /\ \A v \in S : Copies({v}) \subseteq Copies(S) /\ Recoded[v] \subseteq Copies({v})
BY DEF Copies

(* Before the first call both levels are empty. *)
LEMMA InitInv == Init => Inv
BY TieredAssumption DEF Init, Inv, TypeInv, CallInv, StoredInv, QuietInv, L1FromL2,
     Alone, Settled, Active, Agrees, Missing

-----------------------------------------------------------------------------
(* A step of one call keeps what is known of every call. *)
LEMMA CallsGoOn ==
  ASSUME TypeInv, CallInv, NEW c \in Callers, call[c] # NoCall, NEW n, GoesOn(c, n)
  PROVE  call' \in [Callers -> Calls \cup {NoCall}] /\ CallInv'
BY DEF TypeInv, CallInv, GoesOn, GoodCall

(* A step keeps L1 within what L2 has held when the history only grows,    *)
(* and when what the call says of it holds after the step.                 *)
LEMMA StoredGoOn ==
  ASSUME TypeInv, CallInv, StoredInv, NEW c \in Callers, call[c] # NoCall, NEW n, GoesOn(c, n),
         \A k \in Keys : stored[k] \subseteq stored'[k],
         \A k \in Keys : l1'[k] = l1[k] \/ l1'[k] = Absent \/ l1'[k].val \in Copies(stored'[k]),
         \A k \in Keys : l2'[k] = l2[k] \/ l2'[k] = Absent \/ l2'[k] \in stored'[k],
         n # NoCall => Backed(n)'
  PROVE  StoredInv'
<1>0. \A k \in Keys : Copies(stored[k]) \subseteq Copies(stored'[k])
  BY CopyFacts
<1>1. L1FromL2'
  BY <1>0 DEF StoredInv, L1FromL2
<1>2. \A k \in Keys : (Missing(l2[k]) \/ l2[k] \in stored[k])'
  BY DEF StoredInv, Missing
<1>3. ASSUME NEW d \in Callers, call'[d] # NoCall
      PROVE  Backed(call[d])'
  <2>1. CASE d = c
    <3>1. call'[d] = n
      BY <2>1 DEF GoesOn, TypeInv
    <3> QED BY <1>3, <3>1 DEF Backed
  <2>2. CASE d # c
    <3>1. call'[d] = call[d]
      BY <2>2 DEF GoesOn, TypeInv
    <3>2. Backed(call[d]) /\ GoodCall(call[d])
      BY <1>3, <3>1 DEF StoredInv, CallInv
    <3>3. call[d].keys \subseteq Keys /\ call[d].todo \subseteq Keys
      BY <3>2 DEF GoodCall, Calls
    <3> QED BY <3>1, <3>2, <3>3, <1>0 DEF Backed
  <2> QED BY <2>1, <2>2
<1> QED BY <1>1, <1>2, <1>3 DEF StoredInv

(* A step keeps an undisturbed key as it should be when it leaves the      *)
(* levels alone there, or is a writer's, or makes them agree without       *)
(* touching L2, and when what the call says of them holds after the step.  *)
LEMMA QuietGoOn ==
  ASSUME TypeInv, CallInv, QuietInv, NEW c \in Callers, call[c] # NoCall, NEW n, GoesOn(c, n),
         NEW k \in Keys \ disturbed,
         \/ l1'[k] = l1[k] /\ l2'[k] = l2[k]
         \/ k \in call[c].keys /\ call[c].op \in Writes
         \/ k \in call[c].keys /\ l2'[k] = l2[k] /\ Agrees(k)',
         n # NoCall /\ k \in n.keys => Progress(n, k)',
         n = NoCall /\ k \in call[c].keys => Agrees(k)'
  PROVE  Alone(k)' /\ Settled(k)' /\ \A d \in Active(k)' : Progress(call[d], k)'
<1>1. \A d \in Callers : call'[d] = IF d = c THEN n ELSE call[d]
  BY DEF GoesOn, TypeInv
<1>2. Active(k)' \subseteq Active(k)
  BY <1>1 DEF Active, GoesOn
<1>3. Alone(k) /\ Settled(k) /\ \A d \in Active(k) : Progress(call[d], k)
  BY DEF QuietInv
<1>4. \A d \in Active(k)' : call'[d].op = call[d].op
  BY <1>1 DEF Active, GoesOn
<1>5. Alone(k)'
  BY <1>2, <1>3, <1>4 DEF Alone
<1>6. Settled(k)'
  <2> SUFFICES ASSUME \A d \in Active(k)' : call'[d].op \notin Writes
               PROVE  Agrees(k)'
    BY DEF Settled
  <2>1. CASE c \in Active(k) /\ n = NoCall
    BY <2>1 DEF Active
  <2>2. CASE c \in Active(k) /\ n # NoCall
    <3>1. c \in Active(k)'
      BY <1>1, <2>2 DEF Active, GoesOn
    <3>2. Active(k)' = Active(k)
      BY <1>1, <1>2, <2>2 DEF Active, GoesOn
    <3>3. Agrees(k) /\ call[c].op \notin Writes
      BY <3>1, <3>2, <1>3, <1>4 DEF Settled
    <3> QED BY <3>3, <2>2 DEF Active, Agrees
  <2>3. CASE c \notin Active(k)
    <3>1. Active(k)' = Active(k) /\ l1'[k] = l1[k] /\ l2'[k] = l2[k]
      BY <1>1, <1>2, <2>3 DEF Active, GoesOn
    <3>2. Agrees(k)
      BY <3>1, <1>3, <1>4 DEF Settled
    <3> QED BY <3>1, <3>2 DEF Agrees
  <2> QED BY <2>1, <2>2, <2>3
<1>7. ASSUME NEW d \in Active(k)'
      PROVE  Progress(call[d], k)'
  <2> d \in Callers /\ call'[d] # NoCall /\ k \in call'[d].keys
    BY DEF Active
  <2>1. CASE d = c
    <3>1. call'[d] = n
      BY <1>1, <2>1
    <3> QED BY <3>1 DEF Progress
  <2>2. CASE d # c
    <3>1. call'[d] = call[d] /\ d \in Active(k)
      BY <1>1, <1>2, <2>2
    <3>2. Progress(call[d], k)
      BY <3>1, <1>3
    <3>3. CASE l1'[k] = l1[k] /\ l2'[k] = l2[k]
      BY <3>1, <3>2, <3>3 DEF Progress, Agrees
    <3>4. CASE k \in call[c].keys /\ l2'[k] = l2[k] /\ call[c].op \notin Writes
      <4>1. call[d].op \notin Writes
        BY <3>1, <3>4, <1>3, <2>2 DEF Alone, Active
      <4>2. call[d].at \in {"look1", "look2", "fill"}
        BY <4>1, <3>1 DEF CallInv, GoodCall, Calls, Active
      <4> QED BY <4>2, <3>1, <3>2, <3>4 DEF Progress
    <3>5. CASE k \in call[c].keys /\ call[c].op \in Writes
      BY <3>1, <3>5, <1>3, <2>2 DEF Alone, Active
    <3> QED BY <3>3, <3>4, <3>5
  <2> QED BY <2>1, <2>2
<1> QED BY <1>5, <1>6, <1>7

(* The conditions of the lemmas above, for the step that makes n of call c. *)
Lawful(c, n) ==
  /\ GoesOn(c, n)
  /\ l1' \in [Keys -> [val : Values, life : Lives] \cup {Absent}]
  /\ l2' \in [Keys -> Values \cup {Absent, Expired}]
  /\ stored' \in [Keys -> SUBSET Values]
  /\ disturbed \subseteq disturbed' /\ disturbed' \subseteq Keys
  /\ \A k \in Keys : /\ stored[k] \subseteq stored'[k]
                     /\ l1'[k] = l1[k] \/ l1'[k] = Absent \/ l1'[k].val \in Copies(stored'[k])
                     /\ l2'[k] = l2[k] \/ l2'[k] = Absent \/ l2'[k] \in stored'[k]
  /\ n # NoCall => Backed(n)'
  /\ \A k \in Keys \ disturbed' :
       /\ \/ l1'[k] = l1[k] /\ l2'[k] = l2[k]
          \/ k \in call[c].keys /\ call[c].op \in Writes
          \/ k \in call[c].keys /\ l2'[k] = l2[k] /\ Agrees(k)'
       /\ n # NoCall /\ k \in n.keys => Progress(n, k)'
       /\ n = NoCall /\ k \in call[c].keys => Agrees(k)'

(* A lawful step keeps the invariant. *)
LEMMA LawfulStep ==
  ASSUME Inv, NEW c \in Callers, call[c] # NoCall, NEW n, Lawful(c, n)
  PROVE  Inv'
<1>1. TypeInv' /\ CallInv'
  BY CallsGoOn DEF Inv, Lawful, TypeInv
<1>2. StoredInv'
  BY StoredGoOn DEF Inv, Lawful
<1>3. QuietInv'
  <2> SUFFICES ASSUME NEW k \in Keys \ disturbed'
               PROVE  Alone(k)' /\ Settled(k)' /\ \A d \in Active(k)' : Progress(call[d], k)'
    BY DEF QuietInv
  <2> k \in Keys \ disturbed
    BY DEF Lawful
  <2> QED BY QuietGoOn DEF Inv, Lawful
<1> QED BY <1>1, <1>2, <1>3 DEF Inv

(* What is known of a call, and of the levels at an undisturbed key of it. *)
LEMMA CallFacts ==
  ASSUME Inv, NEW c \in Callers, call[c] # NoCall
  PROVE  /\ GoodCall(call[c]) /\ Backed(call[c])
         /\ call[c].keys \subseteq Keys /\ call[c].todo \subseteq Keys
         /\ \A k \in call[c].keys \ disturbed :
              /\ Progress(call[c], k)
              /\ call[c].op \notin Writes => Agrees(k)
<1>1. GoodCall(call[c]) /\ Backed(call[c])
  BY DEF Inv, CallInv, StoredInv
<1>2. call[c].keys \subseteq Keys /\ call[c].todo \subseteq Keys
  BY <1>1 DEF GoodCall, Calls
<1>3. ASSUME NEW k \in call[c].keys \ disturbed
      PROVE  Progress(call[c], k) /\ (call[c].op \notin Writes => Agrees(k))
  <2>1. k \in Keys \ disturbed /\ c \in Active(k)
    BY <1>2, <1>3 DEF Active
  <2> QED BY <2>1 DEF Inv, QuietInv, Alone, Settled
<1> QED BY <1>1, <1>2, <1>3

-----------------------------------------------------------------------------
(* Get and GetMulti look at a key in L1. *)
LEMMA LookL1Inv ==
  ASSUME Inv, NEW c \in Callers, LookL1(c)
  PROVE  Inv'
<1> call[c] # NoCall /\ call[c].at = "look1" /\ UNCHANGED <<l1, l2, stored, disturbed>>
  BY DEF LookL1
<1> TypeInv
  BY DEF Inv
<1> GoodCall(call[c]) /\ call[c] \in Calls
  BY CallFacts DEF GoodCall
<1>0. PICK k \in call[c].todo :
       LET miss == call[c].miss \cup {x \in {k} : l1[x] = Absent} IN
       IF call[c].todo = {k} /\ miss = {} THEN Returns(c)
       ELSE IF call[c].todo = {k}
       THEN call' = [call EXCEPT ![c].at = "look2", ![c].todo = miss, ![c].miss = {}]
       ELSE call' = [call EXCEPT ![c].todo = @ \ {k}, ![c].miss = miss]
  BY DEF LookL1
<1>1. PICK miss : miss = call[c].miss \cup {x \in {k} : l1[x] = Absent}
  OBVIOUS
<1>2. miss \subseteq call[c].keys /\ call[c].todo \ {k} \subseteq call[c].keys
  BY <1>1 DEF GoodCall
<1>3. PICK n : n = IF call[c].todo = {k} /\ miss = {} THEN NoCall
                   ELSE IF call[c].todo = {k}
                   THEN [call[c] EXCEPT !.at = "look2", !.todo = miss, !.miss = {}]
                   ELSE [call[c] EXCEPT !.todo = @ \ {k}, !.miss = miss]
  OBVIOUS
<1>4. n # NoCall => /\ n \in Calls /\ n.keys = call[c].keys /\ n.op = call[c].op /\ n.at \in {"look1", "look2"}
                    /\ n.todo \subseteq call[c].keys /\ n.miss \subseteq call[c].keys
  <2> miss \subseteq Keys /\ call[c].todo \ {k} \subseteq Keys
    BY <1>2 DEF Calls
  <2>1. CASE call[c].todo = {k}
    BY <1>2, <1>3, <2>1 DEF Calls
  <2>2. CASE call[c].todo # {k}
    BY <1>2, <1>3, <2>2 DEF Calls
  <2> QED BY <2>1, <2>2
<1>5. n # NoCall => GoodCall(n)
  BY <1>4 DEF GoodCall, Calls
<1>6. call' = [call EXCEPT ![c] = n]
  BY <1>0, <1>1, <1>3 DEF Returns, TypeInv
<1>7. GoesOn(c, n)
  BY <1>4, <1>5, <1>6 DEF GoesOn
<1>8. \A x \in call[c].keys \ disturbed : Agrees(x)
  BY CallFacts DEF GoodCall, Writes
<1>9. Lawful(c, n)
  BY <1>4, <1>7, <1>8 DEF Lawful, Backed, Progress, Agrees, TypeInv
<1> QED BY <1>9, LawfulStep

(* A read returns, with the levels as they were: what it looked for could  *)
(* not be read (tiered.go:57-61, 203-206), or not be copied (71-74).       *)
LEMMA ReadReturns ==
  ASSUME Inv, NEW c \in Callers, call[c] # NoCall, call[c].at \in {"look1", "look2", "fill"},
         Returns(c), UNCHANGED <<l1, l2, stored, disturbed>>
  PROVE  Inv'
<1> TypeInv /\ GoodCall(call[c])
  BY CallFacts DEF Inv
<1>1. GoesOn(c, NoCall)
  BY DEF GoesOn, Returns
<1>2. \A x \in call[c].keys \ disturbed : Agrees(x)
  BY CallFacts DEF GoodCall, Writes
<1>3. \A x \in Keys : Agrees(x) => Agrees(x)'
  BY DEF Agrees
<1>4. Lawful(c, NoCall)
  BY <1>1, <1>2, <1>3, TieredAssumption DEF Lawful, TypeInv
<1> QED BY <1>4, LawfulStep

(* L1 has an entry that cannot be decoded: Get returns, GetMulti asks L2.  *)
LEMMA LookL1FailsInv ==
  ASSUME Inv, NEW c \in Callers, LookL1Fails(c)
  PROVE  Inv'
<1> call[c] # NoCall /\ call[c].at = "look1" /\ UNCHANGED <<l1, l2, stored, disturbed>>
  BY DEF LookL1Fails
<1> TypeInv
  BY DEF Inv
<1> GoodCall(call[c]) /\ call[c] \in Calls
  BY CallFacts DEF GoodCall
<1>1. CASE Returns(c)
  BY <1>1, ReadReturns
<1>2. CASE call' = [call EXCEPT ![c].at = "look2", ![c].todo = call[c].keys, ![c].miss = {}]
  <2>1. PICK n : n = [call[c] EXCEPT !.at = "look2", !.todo = call[c].keys, !.miss = {}]
    OBVIOUS
  <2>2. /\ n \in Calls /\ n.keys = call[c].keys /\ n.op = call[c].op /\ n.at = "look2"
        /\ n.todo = call[c].keys /\ n.miss = {} /\ call' = [call EXCEPT ![c] = n]
    BY <1>2, <2>1 DEF Calls, TypeInv
  <2>3. GoodCall(n)
    BY <2>2 DEF GoodCall, Calls
  <2>4. GoesOn(c, n)
    BY <2>2, <2>3 DEF GoesOn
  <2>5. n # NoCall
    BY <2>2, TieredAssumption
  <2>6. Lawful(c, n)
    BY <2>2, <2>4, <2>5 DEF Lawful, Backed, Progress, TypeInv
  <2> QED BY <2>6, LawfulStep
<1> QED BY <1>1, <1>2 DEF LookL1Fails

(* Get and WarmupL1 ask L2, and get what decoding makes of its values. *)
LEMMA LookL2Inv ==
  ASSUME Inv, NEW c \in Callers, LookL2(c)
  PROVE  Inv'
<1> call[c] # NoCall /\ call[c].at = "look2" /\ UNCHANGED <<l1, l2, stored, disturbed>>
  BY DEF LookL2
<1> TypeInv
  BY DEF Inv
<1> GoodCall(call[c]) /\ call[c] \in Calls
  BY CallFacts DEF GoodCall
<1>1. PICK found \in SUBSET {k \in call[c].todo : ~Missing(l2[k])} :
        IF found = {} THEN Returns(c)
        ELSE \E got \in [found -> Values] :
               /\ \A k \in found : got[k] \in Recoded[l2[k]]
               /\ call' = [call EXCEPT ![c].at = "fill", ![c].todo = found, ![c].got = got]
  BY DEF LookL2
<1>2. CASE Returns(c)
  BY <1>2, ReadReturns
<1>3. CASE ~Returns(c)
  <2>1. PICK got \in [found -> Values] :
          /\ \A k \in found : got[k] \in Recoded[l2[k]]
          /\ call' = [call EXCEPT ![c].at = "fill", ![c].todo = found, ![c].got = got]
    BY <1>1, <1>3
  <2>2. found \subseteq call[c].keys /\ found \subseteq Keys
    BY DEF GoodCall, Calls
  <2>3. got \in Answers
    BY <2>1, <2>2 DEF Answers
  <2>4. PICK n : n = [call[c] EXCEPT !.at = "fill", !.todo = found, !.got = got]
    OBVIOUS
  <2>5. /\ n \in Calls /\ n.keys = call[c].keys /\ n.op = call[c].op /\ n.at = "fill"
        /\ n.todo = found /\ n.miss = call[c].miss /\ n.got = got
        /\ call' = [call EXCEPT ![c] = n]
    BY <2>1, <2>2, <2>3, <2>4 DEF Calls, TypeInv
  <2>6. GoodCall(n)
    BY <2>1, <2>2, <2>5 DEF GoodCall, Calls
  <2>7. GoesOn(c, n)
    BY <2>5, <2>6 DEF GoesOn
  <2>8. \A x \in found : l2[x] \in stored[x] /\ l2[x] # Absent
    BY <2>2 DEF Inv, StoredInv, Missing
  <2>9. \A x \in found : got[x] \in Copies({l2[x]}) /\ got[x] \in Copies(stored[x])
    <3> SUFFICES ASSUME NEW x \in found
                 PROVE  got[x] \in Copies({l2[x]}) /\ got[x] \in Copies(stored[x])
      OBVIOUS
    <3>1. got[x] \in Recoded[l2[x]] /\ l2[x] \in stored[x] /\ stored[x] \subseteq stored[x]
      BY <2>1, <2>8
    <3>2. Copies({l2[x]}) \subseteq Copies(stored[x]) /\ Recoded[l2[x]] \subseteq Copies({l2[x]})
      BY <3>1, CopyFacts
    <3> QED BY <3>1, <3>2
  <2>10. n # NoCall
    BY <2>5, TieredAssumption
  <2>11. Backed(n)'
    BY <2>5, <2>9 DEF Backed
  <2>12. \A x \in Keys : Progress(n, x)'
    BY <2>5, <2>8, <2>9 DEF Progress
  <2>13. Lawful(c, n)
    BY <2>7, <2>10, <2>11, <2>12 DEF Lawful, TypeInv
  <2> QED BY <2>13, LawfulStep
<1> QED BY <1>2, <1>3

(* A step on one key of several: the call goes on with the others. *)
OneLess(c, k, n) ==
  /\ call' = [call EXCEPT ![c] = n] /\ n \in Calls
  /\ n.keys = call[c].keys /\ n.op = call[c].op /\ n.at = call[c].at /\ n.val = call[c].val
  /\ n.got = call[c].got /\ n.miss = call[c].miss /\ n.todo = call[c].todo \ {k}

(* A call that has keys left after this one goes on (tiered.go:179-231). *)
LEMMA DidOne ==
  ASSUME TypeInv, NEW c \in Callers, call[c] # NoCall, GoodCall(call[c]), NEW k \in call[c].todo,
         NEW nx, NEW left, Did(c, {k}, nx, left), call[c].todo # {k}
  PROVE  \E n : n # NoCall /\ OneLess(c, k, n)
<1> DEFINE n == [call[c] EXCEPT !.todo = call[c].todo \ {k}]
<1>1. call' = [call EXCEPT ![c] = n]
  BY DEF Did, TypeInv
<1>2. n \in Calls
  BY DEF GoodCall, Calls
<1>3. OneLess(c, k, n)
  BY <1>1, <1>2 DEF OneLess, GoodCall, Calls
<1> QED BY <1>2, <1>3, TieredAssumption

(* The backfill of a key. *)
LEMMA FillInv ==
  ASSUME Inv, NEW c \in Callers, Fill(c)
  PROVE  Inv'
<1> call[c] # NoCall /\ call[c].at = "fill" /\ UNCHANGED <<l2, stored, disturbed>>
  BY DEF Fill
<1> TypeInv
  BY DEF Inv
<1> GoodCall(call[c]) /\ call[c].op \notin Writes
  BY CallFacts DEF GoodCall, Writes
<1>1. PICK k \in call[c].todo :
       /\ l1' = [l1 EXCEPT ![k] = Entry(call[c].got[k], LifeInL1(DefaultLife))]
       /\ Did(c, {k}, "return", {})
  BY DEF Fill
<1>2. PICK n : \/ n = NoCall /\ call' = [call EXCEPT ![c] = n]
               \/ n # NoCall /\ OneLess(c, k, n)
  <2>1. CASE call[c].todo = {k}
    BY <1>1, <2>1 DEF Did
  <2>2. CASE call[c].todo # {k}
    BY <1>1, <2>2, DidOne
  <2> QED BY <2>1, <2>2
<1>3. n # NoCall => /\ n.keys = call[c].keys /\ n.at = "fill" /\ n.got = call[c].got
                    /\ n.todo \subseteq call[c].todo
  BY <1>2 DEF OneLess
<1>4. n # NoCall => GoodCall(n)
  BY <1>2 DEF GoodCall, Calls, OneLess
<1>5. GoesOn(c, n)
  BY <1>2, <1>4 DEF GoesOn, OneLess
<1>6. /\ k \in Keys /\ call[c].got[k] \in Values /\ call[c].got[k] \in Copies(stored[k])
      /\ k \in call[c].keys
  BY CallFacts DEF GoodCall, Backed
<1>7. LifeInL1(DefaultLife) \in Lives
  BY TieredAssumption DEF LifeInL1, Lives
<1>8. /\ l1' \in [Keys -> [val : Values, life : Lives] \cup {Absent}]
      /\ l1'[k].val = call[c].got[k] /\ \A x \in Keys : x # k => l1'[x] = l1[x]
  BY <1>1, <1>6, <1>7 DEF TypeInv, Entry
<1>9. \A x \in call[c].keys \ disturbed :
         /\ Agrees(x)
         /\ x \in call[c].todo => l2[x] = Expired \/ (l2[x] # Absent /\ call[c].got[x] \in Copies({l2[x]}))
  BY CallFacts DEF Progress
<1>10. \A x \in call[c].keys \ disturbed : Agrees(x)'
  BY <1>6, <1>8, <1>9, CallFacts DEF Agrees
<1>11. n # NoCall => Backed(n)'
  BY <1>3, CallFacts DEF Backed
<1>12. \A x \in Keys \ disturbed : n # NoCall /\ x \in n.keys => Progress(n, x)'
  BY <1>3, <1>9 DEF Progress
<1>13. Lawful(c, n)
  BY <1>3, <1>5, <1>6, <1>8, <1>10, <1>11, <1>12 DEF Lawful, TypeInv
<1> QED BY <1>13, LawfulStep

(* A step that takes the call on to the step nx, with the keys ks to do. *)
Moves(c, nx, ks, n) ==
  /\ call' = [call EXCEPT ![c] = n] /\ n \in Calls
  /\ n.keys = call[c].keys /\ n.op = call[c].op /\ n.at = nx /\ n.val = call[c].val
  /\ n.got = call[c].got /\ n.miss = call[c].miss /\ n.todo = ks

(* A call that has done its last key goes to the other level. *)
LEMMA DidLast ==
  ASSUME TypeInv, NEW c \in Callers, call[c] # NoCall, GoodCall(call[c]), NEW k, call[c].todo = {k},
         NEW nx \in {"write1", "drop2"}, Did(c, {k}, nx, call[c].keys)
  PROVE  \E n : n # NoCall /\ Moves(c, nx, call[c].keys, n)
<1> DEFINE n == [call[c] EXCEPT !.at = nx, !.todo = call[c].keys]
<1>1. call' = [call EXCEPT ![c] = n]
  BY DEF Did, TypeInv
<1>2. n \in Calls
  BY DEF GoodCall, Calls
<1>3. Moves(c, nx, call[c].keys, n)
  BY <1>1, <1>2 DEF Moves, GoodCall, Calls
<1> QED BY <1>2, <1>3, TieredAssumption

-----------------------------------------------------------------------------
(* Set and SetMulti write a key to L2. *)
LEMMA WriteL2Inv ==
  ASSUME Inv, NEW c \in Callers, WriteL2(c)
  PROVE  Inv'
<1> call[c] # NoCall /\ call[c].at = "write2" /\ UNCHANGED <<l1, disturbed>>
  BY DEF WriteL2
<1> TypeInv
  BY DEF Inv
<1> GoodCall(call[c]) /\ call[c] \in Calls
  BY CallFacts DEF GoodCall
<1>0. call[c].op = "set" /\ call[c].val \in Values
  BY DEF GoodCall
<1>1. PICK k \in call[c].todo :
       /\ l2' = [l2 EXCEPT ![k] = call[c].val]
       /\ stored' = [stored EXCEPT ![k] = @ \cup {call[c].val}]
       /\ Did(c, {k}, "write1", call[c].keys)
  BY DEF WriteL2
<1>2. PICK n : n # NoCall /\ (\/ Moves(c, "write1", call[c].keys, n) /\ call[c].todo = {k}
                             \/ OneLess(c, k, n))
  <2>1. CASE call[c].todo = {k}
    BY <1>1, <2>1, DidLast
  <2>2. CASE call[c].todo # {k}
    BY <1>1, <2>2, DidOne
  <2> QED BY <2>1, <2>2
<1>3. /\ n \in Calls /\ n.keys = call[c].keys /\ n.op = "set" /\ n.val = call[c].val /\ n.miss = call[c].miss
      /\ \/ n.at = "write1" /\ n.todo = n.keys /\ call[c].todo = {k}
         \/ n.at = "write2" /\ n.todo = call[c].todo \ {k}
      /\ call' = [call EXCEPT ![c] = n]
  BY <1>0, <1>2 DEF OneLess, Moves
<1>4. GoodCall(n)
  BY <1>0, <1>3 DEF GoodCall, Calls
<1>5. GoesOn(c, n)
  BY <1>0, <1>3, <1>4 DEF GoesOn
<1>6. k \in Keys /\ call[c].keys \subseteq Keys /\ k \in call[c].keys
  BY CallFacts DEF GoodCall
<1>7. /\ l2' \in [Keys -> Values \cup {Absent, Expired}]
      /\ stored' \in [Keys -> SUBSET Values]
      /\ l2'[k] = call[c].val /\ stored'[k] = stored[k] \cup {call[c].val}
      /\ \A x \in Keys : x # k => l2'[x] = l2[x] /\ stored'[x] = stored[x]
  BY <1>0, <1>1, <1>6 DEF TypeInv
<1>8. \A x \in call[c].keys :
        x # k /\ x \notin call[c].todo /\ x \notin call[c].miss => call[c].val \in stored[x]
  BY CallFacts DEF Backed
<1>9. Backed(n)'
  BY <1>3, <1>6, <1>7, <1>8 DEF Backed
<1>10. ASSUME NEW x \in call[c].keys \ disturbed
       PROVE  Progress(n, x)'
  <2>1. Progress(call[c], x)
    BY <1>10, CallFacts
  <2> QED BY <1>3, <1>6, <1>7, <2>1 DEF Progress, Agrees
<1>11. Lawful(c, n)
  BY <1>0, <1>2, <1>3, <1>5, <1>6, <1>7, <1>9, <1>10 DEF Lawful, TypeInv, Writes
<1> QED BY <1>11, LawfulStep

(* SetMulti leaves out a value it cannot encode, which disturbs its keys. *)
LEMMA WriteL2SkipsInv ==
  ASSUME Inv, NEW c \in Callers, WriteL2Skips(c)
  PROVE  Inv'
<1> /\ call[c] # NoCall /\ call[c].at = "write2" /\ UNCHANGED <<l1, l2, stored>>
    /\ disturbed' = disturbed \cup call[c].keys
  BY DEF WriteL2Skips
<1> TypeInv
  BY DEF Inv
<1> GoodCall(call[c]) /\ call[c] \in Calls
  BY CallFacts DEF GoodCall
<1>1. PICK k \in call[c].todo :
        call' = [call EXCEPT ![c].miss = @ \cup {k},
                             ![c].at = IF call[c].todo = {k} THEN "write1" ELSE @,
                             ![c].todo = IF @ = {k} THEN call[c].keys ELSE @ \ {k}]
  BY DEF WriteL2Skips
<1>2. PICK n : n = [call[c] EXCEPT !.miss = @ \cup {k},
                                   !.at = IF call[c].todo = {k} THEN "write1" ELSE @,
                                   !.todo = IF @ = {k} THEN call[c].keys ELSE @ \ {k}]
  OBVIOUS
<1>3. call' = [call EXCEPT ![c] = n]
  BY <1>1, <1>2 DEF TypeInv
<1>4. k \in call[c].keys /\ call[c].keys \subseteq Keys /\ call[c].op = "set" /\ call[c].val \in Values
  BY CallFacts DEF GoodCall
<1>5. /\ n.keys = call[c].keys /\ n.op = "set" /\ n.val = call[c].val
      /\ n.miss = call[c].miss \cup {k} /\ n.at \in {"write2", "write1"}
      /\ n.at = "write2" => n.todo = call[c].todo \ {k}
      /\ n.at = "write1" => n.todo = call[c].keys /\ call[c].todo = {k}
  BY <1>2, <1>4 DEF Calls
<1>6. n \in Calls
  BY <1>2, <1>4, <1>5 DEF Calls, GoodCall
<1>7. GoodCall(n)
  BY <1>4, <1>5, <1>6 DEF GoodCall
<1>8. GoesOn(c, n)
  BY <1>3, <1>4, <1>5, <1>7 DEF GoesOn
<1>9. Backed(n)'
  BY <1>4, <1>5, CallFacts DEF Backed
<1>10. n # NoCall
  BY <1>6, TieredAssumption
<1>11. Lawful(c, n)
  BY <1>4, <1>5, <1>8, <1>9, <1>10 DEF Lawful, TypeInv
<1> QED BY <1>11, LawfulStep

(* The write of L2 fails: the call returns, and its keys are disturbed. *)
LEMMA WriteL2FailsInv ==
  ASSUME Inv, NEW c \in Callers, WriteL2Fails(c)
  PROVE  Inv'
<1> call[c] # NoCall /\ call[c].at = "write2" /\ UNCHANGED l1 /\ Returns(c) /\ disturbed' = disturbed \cup call[c].keys
  BY DEF WriteL2Fails, FailedKeys
<1> TypeInv
  BY DEF Inv
<1> GoodCall(call[c]) /\ call[c] \in Calls
  BY CallFacts DEF GoodCall
<1>1. call[c].val \in Values /\ call[c].keys \subseteq Keys /\ call[c].todo \subseteq call[c].keys
  BY CallFacts DEF GoodCall
<1>2. /\ l2' \in [Keys -> Values \cup {Absent, Expired}]
      /\ stored' \in [Keys -> SUBSET Values]
      /\ \A x \in Keys : /\ stored[x] \subseteq stored'[x]
                         /\ l2'[x] = l2[x] \/ l2'[x] \in stored'[x]
                         /\ x \notin call[c].keys => l2'[x] = l2[x]
  <2>1. CASE UNCHANGED <<l2, stored>>
    BY <2>1 DEF TypeInv
  <2>2. CASE \E k \in call[c].todo : /\ l2' = [l2 EXCEPT ![k] = call[c].val]
                                    /\ stored' = [stored EXCEPT ![k] = @ \cup {call[c].val}]
    BY <1>1, <2>2 DEF TypeInv
  <2> QED BY <2>1, <2>2 DEF WriteL2Fails
<1>3. GoesOn(c, NoCall)
  BY DEF GoesOn, Returns
<1>4. Lawful(c, NoCall)
  BY <1>1, <1>2, <1>3 DEF Lawful, TypeInv
<1> QED BY <1>4, LawfulStep

(* Set and SetMulti write a key to L1. *)
LEMMA WriteL1Inv ==
  ASSUME Inv, NEW c \in Callers, WriteL1(c)
  PROVE  Inv'
<1> call[c] # NoCall /\ call[c].at = "write1" /\ UNCHANGED <<l2, stored, disturbed>>
  BY DEF WriteL1
<1> TypeInv
  BY DEF Inv
<1> GoodCall(call[c]) /\ call[c] \in Calls
  BY CallFacts DEF GoodCall
<1>0. call[c].op = "set" /\ call[c].val \in Values
  BY DEF GoodCall
<1>1. PICK k \in call[c].todo \ call[c].miss :
       /\ l1' = [l1 EXCEPT ![k] = Entry(call[c].val, LifeInL1(call[c].life))]
       /\ Did(c, {k}, "return", {})
  BY DEF WriteL1
<1>2. PICK n : \/ n = NoCall /\ call' = [call EXCEPT ![c] = n] /\ call[c].todo = {k}
               \/ n # NoCall /\ OneLess(c, k, n)
  <2>1. CASE call[c].todo = {k}
    BY <1>1, <2>1 DEF Did
  <2>2. CASE call[c].todo # {k}
    BY <1>1, <2>2, DidOne
  <2> QED BY <2>1, <2>2
<1>3. n # NoCall => /\ n.keys = call[c].keys /\ n.at = "write1" /\ n.val = call[c].val
                    /\ n.miss = call[c].miss /\ n.todo = call[c].todo \ {k}
  BY <1>2 DEF OneLess
<1>4. n # NoCall => GoodCall(n)
  BY <1>2 DEF GoodCall, Calls, OneLess
<1>5. GoesOn(c, n)
  BY <1>2, <1>4 DEF GoesOn, OneLess
<1>6. /\ k \in Keys /\ call[c].keys \subseteq Keys /\ k \in call[c].keys /\ k \notin call[c].miss
      /\ \A x \in call[c].keys : x \in call[c].miss \/ call[c].val \in stored[x]
  BY CallFacts DEF GoodCall, Backed
<1>7. LifeInL1(call[c].life) \in Lives
  BY TieredAssumption DEF LifeInL1, Lives
<1>8. /\ l1' \in [Keys -> [val : Values, life : Lives] \cup {Absent}]
      /\ l1'[k].val = call[c].val /\ \A x \in Keys : x # k => l1'[x] = l1[x]
  BY <1>0, <1>1, <1>6, <1>7 DEF TypeInv, Entry
<1>9. n # NoCall => Backed(n)'
  BY <1>3, <1>6 DEF Backed
<1>10. ASSUME NEW x \in call[c].keys \ disturbed
       PROVE  /\ n # NoCall => Progress(n, x)'
              /\ n = NoCall => Agrees(x)'
  <2>1. /\ l2[x] \in {call[c].val, Expired}
        /\ x \notin call[c].todo => l1[x] = Absent \/ l1[x].val = call[c].val
    BY <1>10, CallFacts DEF Progress
  <2>2. call[c].val # Absent /\ call[c].val \in Copies({call[c].val})
    BY <1>0, TieredAssumption, CopyFacts
  <2>3. n # NoCall => Progress(n, x)'
    BY <1>3, <1>6, <1>8, <2>1 DEF Progress
  <2>4. n = NoCall => Agrees(x)'
    BY <1>2, <1>6, <1>8, <2>1, <2>2 DEF Agrees
  <2> QED BY <2>3, <2>4
<1>11. call[c].val \in Copies(stored[k])
  BY <1>6, CopyFacts
<1>12. Lawful(c, n)
  BY <1>0, <1>3, <1>5, <1>6, <1>8, <1>9, <1>10, <1>11 DEF Lawful, TypeInv, Writes
<1> QED BY <1>12, LawfulStep

(* The write of L1 fails after that of L2: the keys are disturbed. *)
LEMMA WriteL1FailsInv ==
  ASSUME Inv, NEW c \in Callers, WriteL1Fails(c)
  PROVE  Inv'
<1> /\ call[c] # NoCall /\ UNCHANGED <<l1, l2, stored>> /\ Returns(c)
    /\ disturbed' = disturbed \cup call[c].keys
  BY DEF WriteL1Fails
<1> TypeInv
  BY DEF Inv
<1>1. call[c].keys \subseteq Keys
  BY CallFacts
<1>2. GoesOn(c, NoCall)
  BY DEF GoesOn, Returns
<1>3. Lawful(c, NoCall)
  BY <1>1, <1>2 DEF Lawful, TypeInv
<1> QED BY <1>3, LawfulStep

-----------------------------------------------------------------------------
(* Delete and DeleteMulti drop a key from L1. *)
LEMMA DropL1Inv ==
  ASSUME Inv, NEW c \in Callers, DropL1(c)
  PROVE  Inv'
<1> call[c] # NoCall /\ call[c].at = "drop1" /\ UNCHANGED <<l2, stored, disturbed>>
  BY DEF DropL1
<1> TypeInv
  BY DEF Inv
<1> GoodCall(call[c]) /\ call[c] \in Calls
  BY CallFacts DEF GoodCall
<1>0. call[c].op = "delete"
  BY DEF GoodCall
<1>1. PICK k \in call[c].todo :
       /\ l1' = [l1 EXCEPT ![k] = Absent]
       /\ Did(c, {k}, "drop2", call[c].keys)
  BY DEF DropL1
<1>2. PICK n : n # NoCall /\ (\/ Moves(c, "drop2", call[c].keys, n) /\ call[c].todo = {k}
                             \/ OneLess(c, k, n))
  <2>1. CASE call[c].todo = {k}
    BY <1>1, <2>1, DidLast
  <2>2. CASE call[c].todo # {k}
    BY <1>1, <2>2, DidOne
  <2> QED BY <2>1, <2>2
<1>3. /\ n \in Calls /\ n.keys = call[c].keys /\ n.op = "delete" /\ n.miss = call[c].miss
      /\ \/ n.at = "drop2" /\ n.todo = n.keys /\ call[c].todo = {k}
         \/ n.at = "drop1" /\ n.todo = call[c].todo \ {k}
      /\ call' = [call EXCEPT ![c] = n]
  BY <1>0, <1>2 DEF OneLess, Moves
<1>4. GoodCall(n)
  BY <1>3 DEF GoodCall, Calls
<1>5. GoesOn(c, n)
  BY <1>0, <1>3, <1>4 DEF GoesOn
<1>6. k \in Keys /\ call[c].keys \subseteq Keys /\ k \in call[c].keys
  BY CallFacts DEF GoodCall
<1>7. /\ l1' \in [Keys -> [val : Values, life : Lives] \cup {Absent}]
      /\ l1'[k] = Absent /\ \A x \in Keys : x # k => l1'[x] = l1[x]
  BY <1>1, <1>6 DEF TypeInv
<1>8. Backed(n)'
  BY <1>3 DEF Backed
<1>9. ASSUME NEW x \in call[c].keys \ disturbed
      PROVE  Progress(n, x)'
  <2>1. Progress(call[c], x)
    BY <1>9, CallFacts
  <2> QED BY <1>3, <1>6, <1>7, <2>1 DEF Progress, Agrees
<1>10. Lawful(c, n)
  BY <1>0, <1>2, <1>3, <1>5, <1>6, <1>7, <1>8, <1>9 DEF Lawful, TypeInv, Writes
<1> QED BY <1>10, LawfulStep

(* Delete and Clear delete their keys in L2, which L1 does not have. *)
LEMMA DropL2Inv ==
  ASSUME Inv, NEW c \in Callers, DropL2(c) \/ ClearDel(c)
  PROVE  Inv'
<1> /\ call[c] # NoCall /\ call[c].at \in {"drop2", "del"} /\ UNCHANGED <<l1, stored, disturbed>>
    /\ Returns(c) /\ l2' = [k \in Keys |-> IF k \in call[c].todo THEN Absent ELSE l2[k]]
  BY DEF DropL2, ClearDel
<1> TypeInv
  BY DEF Inv
<1> GoodCall(call[c]) /\ call[c] \in Calls
  BY CallFacts DEF GoodCall
<1>1. call[c].op \in Writes /\ call[c].keys \subseteq Keys /\ call[c].todo \subseteq call[c].keys
  BY CallFacts DEF GoodCall, Calls, Writes
<1>2. /\ l2' \in [Keys -> Values \cup {Absent, Expired}]
      /\ \A x \in Keys : l2'[x] = IF x \in call[c].todo THEN Absent ELSE l2[x]
  BY DEF TypeInv
<1>3. GoesOn(c, NoCall)
  BY DEF GoesOn, Returns
<1>4. \A x \in call[c].keys \ disturbed : l1[x] = Absent
  BY CallFacts DEF Progress
<1>5. Lawful(c, NoCall)
  BY <1>1, <1>2, <1>3, <1>4 DEF Lawful, TypeInv, Agrees
<1> QED BY <1>5, LawfulStep

(* The deletion in L2 fails: the call returns, and its keys are disturbed. *)
LEMMA DropL2FailsInv ==
  ASSUME Inv, NEW c \in Callers, DropL2Fails(c)
  PROVE  Inv'
<1> /\ call[c] # NoCall /\ UNCHANGED <<l1, stored>> /\ Returns(c)
    /\ disturbed' = disturbed \cup call[c].keys
  BY DEF DropL2Fails, FailedKeys
<1> TypeInv
  BY DEF Inv
<1> GoodCall(call[c]) /\ call[c] \in Calls
  BY CallFacts DEF GoodCall
<1>1. call[c].keys \subseteq Keys /\ call[c].todo \subseteq call[c].keys
  BY CallFacts DEF GoodCall
<1>2. /\ l2' \in [Keys -> Values \cup {Absent, Expired}]
      /\ \A x \in Keys : /\ l2'[x] = l2[x] \/ l2'[x] = Absent
                         /\ x \notin call[c].keys => l2'[x] = l2[x]
  BY <1>1 DEF TypeInv, DropL2Fails
<1>3. GoesOn(c, NoCall)
  BY DEF GoesOn, Returns
<1>4. Lawful(c, NoCall)
  BY <1>1, <1>2, <1>3 DEF Lawful, TypeInv
<1> QED BY <1>4, LawfulStep

-----------------------------------------------------------------------------
(* Clear empties L1. *)
LEMMA ClearL1Inv ==
  ASSUME Inv, NEW c \in Callers, ClearL1(c)
  PROVE  Inv'
<1> /\ call[c] # NoCall /\ call[c].at = "clear1" /\ UNCHANGED <<l2, stored, disturbed>>
    /\ l1' = [k \in Keys |-> Absent]
  BY DEF ClearL1
<1> TypeInv
  BY DEF Inv
<1> GoodCall(call[c]) /\ call[c] \in Calls
  BY CallFacts DEF GoodCall
<1>0. call[c].op = "clear" /\ call[c].keys = Keys
  BY DEF GoodCall, Calls, Writes
<1>1. PICK n : /\ n = NoCall \/ n = [call[c] EXCEPT !.at = "keys"]
               /\ call' = [call EXCEPT ![c] = n]
  BY DEF ClearL1, Returns, TypeInv
<1>2. n # NoCall => /\ n \in Calls /\ n.keys = Keys /\ n.op = "clear" /\ n.at = "keys"
                    /\ n.todo = call[c].todo /\ n.miss = call[c].miss
  BY <1>0, <1>1 DEF Calls
<1>3. n # NoCall => GoodCall(n)
  BY <1>0, <1>2 DEF GoodCall, Calls
<1>4. GoesOn(c, n)
  BY <1>0, <1>1, <1>2, <1>3 DEF GoesOn
<1>5. Lawful(c, n)
  BY <1>0, <1>2, <1>4 DEF Lawful, TypeInv, Agrees, Progress, Backed, Writes
<1> QED BY <1>5, LawfulStep

(* Clear lists the keys of the namespace in L2. *)
LEMMA ClearKeysInv ==
  ASSUME Inv, NEW c \in Callers, ClearKeys(c)
  PROVE  Inv'
<1> call[c] # NoCall /\ call[c].at = "keys" /\ UNCHANGED <<l1, l2, stored, disturbed>>
  BY DEF ClearKeys
<1> TypeInv
  BY DEF Inv
<1> GoodCall(call[c]) /\ call[c] \in Calls
  BY CallFacts DEF GoodCall
<1>0. call[c].op = "clear" /\ call[c].keys = Keys
  BY DEF GoodCall, Calls, Writes
<1>1. PICK list \in SUBSET Keys : IF list = {} THEN Returns(c)
                                 ELSE call' = [call EXCEPT ![c].at = "del", ![c].todo = list]
  BY DEF ClearKeys
<1>2. PICK n : /\ n = NoCall \/ n = [call[c] EXCEPT !.at = "del", !.todo = list]
               /\ call' = [call EXCEPT ![c] = n]
  BY <1>1 DEF Returns, TypeInv
<1>3. n # NoCall => /\ n \in Calls /\ n.keys = Keys /\ n.op = "clear" /\ n.at = "del"
                    /\ n.todo = list /\ n.miss = call[c].miss
  BY <1>0, <1>2 DEF Calls
<1>4. n # NoCall => GoodCall(n)
  BY <1>0, <1>3 DEF GoodCall, Calls
<1>5. GoesOn(c, n)
  BY <1>0, <1>2, <1>3, <1>4 DEF GoesOn
<1>6. \A x \in call[c].keys \ disturbed : l1[x] = Absent
  BY CallFacts DEF Progress
<1>7. Lawful(c, n)
  BY <1>0, <1>3, <1>5, <1>6 DEF Lawful, TypeInv, Agrees, Progress, Backed, Writes
<1> QED BY <1>7, LawfulStep

-----------------------------------------------------------------------------
(* A call begins. *)
LEMMA BeginInv ==
  ASSUME Inv, NEW c \in Callers, NEW op \in Ops \ {"direct", "persist"},
         NEW ks \in SUBSET Keys, NEW v \in Values, NEW t \in Lives, Begin(c, op, ks, v, t)
  PROVE  Inv'
<1> /\ call[c] = NoCall /\ UNCHANGED <<l1, l2, stored>> /\ (op = "clear" => ks = Keys)
    /\ disturbed' = disturbed \cup {k \in ks : \E d \in Active(k) : op \in Writes \/ call[d].op \in Writes}
  BY DEF Begin
<1> TypeInv
  BY DEF Inv
<1>1. PICK n : /\ n = [op |-> op, at |-> FirstStep(op), keys |-> ks, todo |-> ks,
                       val |-> IF op = "set" THEN v ELSE Absent,
                       life |-> IF t = "never" THEN DefaultLife ELSE t,
                       miss |-> {}, got |-> [k \in {} |-> Absent]]
               /\ call' = [call EXCEPT ![c] = n]
  BY DEF Begin
<1>2. op \in {"get", "warmup"} \cup Writes
  BY TieredAssumption
<1>3. [k \in {} |-> Absent] \in Answers
  <2>1. [k \in {} |-> Absent] \in [{} -> Values] /\ {} \in SUBSET Keys
    OBVIOUS
  <2> QED BY <2>1 DEF Answers
<1>4. n.op = op /\ n.at = FirstStep(op) /\ n.keys = ks /\ n.todo = ks /\ n.miss = {} /\ (op = "set" => n.val = v)
  BY <1>1
<1>5. n \in Calls
  <2>1. FirstStep(op) \in {"look1", "look2", "fill", "write2", "write1", "drop1", "drop2", "clear1", "keys", "del"}
    BY <1>2 DEF FirstStep, Writes
  <2>2. (IF t = "never" THEN DefaultLife ELSE t) \in Lives
    BY TieredAssumption
  <2> QED BY <1>1, <1>2, <1>3, <2>1, <2>2 DEF Calls
<1>6. GoodCall(n) /\ n # NoCall
  BY <1>2, <1>4, <1>5, TieredAssumption DEF GoodCall, FirstStep, Writes
<1>7. \A d \in Callers : call'[d] = IF d = c THEN n ELSE call[d]
  BY <1>1 DEF TypeInv
<1>8. TypeInv' /\ CallInv'
  BY <1>1, <1>5, <1>6, <1>7 DEF Inv, TypeInv, CallInv
<1>9. n.at = FirstStep(op) /\ n.at \notin {"fill", "write1"}
  BY <1>2, <1>4 DEF FirstStep, Writes
<1>10. StoredInv'
  <2>1. Backed(n)
    BY <1>4, <1>9 DEF Backed
  <2>2. ASSUME NEW d \in Callers, call'[d] # NoCall PROVE Backed(call[d])'
    <3>1. Backed(call'[d])
      BY <1>7, <2>1, <2>2 DEF Inv, StoredInv
    <3> QED BY <3>1 DEF Backed
  <2> QED BY <2>2 DEF Inv, StoredInv, L1FromL2
<1>11. ASSUME NEW k \in Keys \ disturbed'
       PROVE  Alone(k)' /\ Settled(k)' /\ \A d \in Active(k)' : Progress(call[d], k)'
  <2>1. Alone(k) /\ Settled(k) /\ \A d \in Active(k) : Progress(call[d], k)
    BY DEF Inv, QuietInv
  <2>2. \A d \in Active(k)' : d = c \/ (d \in Active(k) /\ call'[d] = call[d])
    BY <1>7 DEF Active
  <2>3. Active(k) \subseteq Active(k)' /\ \A d \in Active(k) : call'[d] = call[d]
    BY <1>7 DEF Active
  <2>4. k \in ks => \A d \in Active(k) : op \notin Writes /\ call[d].op \notin Writes
    OBVIOUS
  <2>5. c \in Active(k)' => k \in ks /\ call'[c] = n
    BY <1>4, <1>7 DEF Active
  <2>6. Alone(k)'
    BY <2>1, <2>2, <2>4, <2>5, <1>4 DEF Alone
  <2>7. (\A d \in Active(k)' : call'[d].op \notin Writes) => Agrees(k)
    BY <2>1, <2>3 DEF Settled
  <2>8. k \in ks => Agrees(k)
    BY <2>1, <2>4 DEF Settled
  <2>9. ASSUME NEW d \in Active(k)' PROVE Progress(call[d], k)'
    <3>1. CASE d = c
      <4>1. Progress(n, k)
        BY <3>1, <2>5, <2>8, <1>2, <1>4 DEF Progress, FirstStep, Writes
      <4> QED BY <4>1, <3>1, <2>5 DEF Progress, Agrees
    <3>2. CASE d # c
      BY <3>2, <2>1, <2>2 DEF Progress, Agrees
    <3> QED BY <3>1, <3>2
  <2> QED BY <2>6, <2>7, <2>9 DEF Settled, Agrees
<1> QED BY <1>8, <1>10, <1>11 DEF Inv, QuietInv

(* A step of a level on its own: L1 loses an entry or changes its expiry   *)
(* time, L2 loses one, or another program writes L2 and disturbs the key.  *)
LEMMA LevelStep ==
  ASSUME Inv, UNCHANGED call,
         l1' \in [Keys -> [val : Values, life : Lives] \cup {Absent}],
         l2' \in [Keys -> Values \cup {Absent, Expired}],
         stored' \in [Keys -> SUBSET Values],
         disturbed \subseteq disturbed', disturbed' \subseteq Keys,
         \A k \in Keys : /\ stored[k] \subseteq stored'[k]
                         /\ l1'[k] = Absent \/ (l1[k] # Absent /\ l1'[k].val = l1[k].val)
                         /\ l2'[k] = l2[k] \/ l2'[k] \in {Absent, Expired} \/ l2'[k] \in stored'[k],
         \A k \in Keys \ disturbed' : l2'[k] \in {l2[k], Expired}
  PROVE  Inv'
<1> TypeInv /\ CallInv
  BY DEF Inv
<1>1. TypeInv' /\ CallInv'
  BY DEF TypeInv, CallInv
<1>2. StoredInv'
  <2>0. \A k \in Keys : Copies(stored[k]) \subseteq Copies(stored'[k])
    BY CopyFacts
  <2>1. L1FromL2' /\ \A k \in Keys : (Missing(l2[k]) \/ l2[k] \in stored[k])'
    BY <2>0 DEF Inv, StoredInv, L1FromL2, Missing
  <2>2. ASSUME NEW d \in Callers, call[d] # NoCall PROVE Backed(call[d])'
    <3>1. call[d].keys \subseteq Keys /\ call[d].todo \subseteq Keys /\ Backed(call[d])
      BY <2>2, CallFacts
    <3> QED BY <3>1, <2>0 DEF Backed
  <2> QED BY <2>1, <2>2 DEF StoredInv
<1>3. ASSUME NEW k \in Keys \ disturbed'
      PROVE  Alone(k)' /\ Settled(k)' /\ \A d \in Active(k)' : Progress(call[d], k)'
  <2>1. Alone(k) /\ Settled(k) /\ \A d \in Active(k) : Progress(call[d], k)
    BY DEF Inv, QuietInv
  <2>2. Active(k)' = Active(k)
    BY DEF Active
  <2>3. Agrees(k) => Agrees(k)'
    BY DEF Agrees
  <2>4. \A d \in Active(k) : Progress(call[d], k)'
    BY <2>1, <2>3 DEF Progress
  <2> QED BY <2>1, <2>2, <2>3, <2>4 DEF Alone, Settled
<1> QED BY <1>1, <1>2, <1>3 DEF Inv, QuietInv

(* SetTTL, and expiry and eviction in the two levels. *)
LEMMA LevelsInv ==
  ASSUME Inv, NEW k \in Keys, NEW t \in Lives,
         ExpireL1(k) \/ EvictL1(k) \/ ExpireL2(k) \/ SetTTL(k, t)
  PROVE  Inv'
<1> TypeInv
  BY DEF Inv
<1>1. CASE ExpireL1(k) \/ EvictL1(k)
  <2> UNCHANGED <<l2, call, stored, disturbed>> /\ l1' = [l1 EXCEPT ![k] = Absent]
    BY <1>1 DEF ExpireL1, EvictL1
  <2> QED BY LevelStep DEF TypeInv
<1>2. CASE ExpireL2(k)
  <2> UNCHANGED <<l1, call, stored, disturbed>> /\ l2' = [l2 EXCEPT ![k] = Expired]
    BY <1>2 DEF ExpireL2
  <2> QED BY LevelStep DEF TypeInv
<1>3. CASE SetTTL(k, t)
  <2> UNCHANGED <<l2, call, stored, disturbed>> /\ l1[k] # Absent /\ l1' = [l1 EXCEPT ![k].life = t]
    BY <1>3 DEF SetTTL
  <2>1. l1'[k] \in [val : Values, life : Lives] /\ l1'[k].val = l1[k].val
    BY DEF TypeInv
  <2> QED BY <2>1, LevelStep DEF TypeInv
<1> QED BY <1>1, <1>2, <1>3

(* A write of L2 from outside. *)
LEMMA DirectWriteInv ==
  ASSUME Inv, NEW k \in Keys, NEW v \in Values \cup {Absent}, DirectWrite(k, v)
  PROVE  Inv'
<1> /\ UNCHANGED <<l1, call>> /\ l2' = [l2 EXCEPT ![k] = v]
    /\ stored' = [stored EXCEPT ![k] = IF v = Absent THEN @ ELSE @ \cup {v}]
    /\ disturbed' = disturbed \cup {k}
  BY DEF DirectWrite
<1> TypeInv
  BY DEF Inv
<1>1. stored' \in [Keys -> SUBSET Values] /\ l2' \in [Keys -> Values \cup {Absent, Expired}]
  BY DEF TypeInv
<1>2. \A x \in Keys : stored[x] \subseteq stored'[x] /\ (l2'[x] = l2[x] \/ l2'[x] = Absent \/ l2'[x] \in stored'[x])
  BY DEF TypeInv
<1> QED BY <1>1, <1>2, LevelStep DEF TypeInv

-----------------------------------------------------------------------------
(* Every step of calls, expiry and eviction keeps the invariant. *)
LEMMA NextInv == Inv /\ [Next]_vars => Inv'
<1> SUFFICES ASSUME Inv, [Next]_vars PROVE Inv'
  OBVIOUS
<1>1. ASSUME NEW c \in Callers, Step(c) PROVE Inv'
  <2>1. CASE LookL2Fails(c) \/ FillFails(c)
    BY <2>1, ReadReturns DEF LookL2Fails, FillFails
  <2> QED
    BY <1>1, <2>1, LookL1Inv, LookL1FailsInv, LookL2Inv, FillInv, WriteL2Inv, WriteL2SkipsInv,
       WriteL2FailsInv, WriteL1Inv, WriteL1FailsInv, DropL1Inv, DropL2Inv, DropL2FailsInv,
       ClearL1Inv, ClearKeysInv DEF Step
<1>2. CASE UNCHANGED vars
  <2> UNCHANGED <<l1, l2, call, stored, disturbed>> /\ TypeInv
    BY <1>2 DEF vars, Inv
  <2> QED BY LevelStep DEF TypeInv
<1>3. "timed" \in Lives
  BY DEF Lives
<1> QED BY <1>1, <1>2, <1>3, BeginInv, LevelsInv, DirectWriteInv DEF Next

(* The inductive invariant holds in every state of the cache. *)
LEMMA Invariance == Spec => []Inv
BY InitInv, NextInv, PTL DEF Spec

(* The variables of the cache have their types whatever is called. *)
THEOREM Typed == Spec => []TypeInv
<1>1. Inv => TypeInv
  BY DEF Inv
<1> QED BY <1>1, Invariance, PTL

(* L1 holds nothing but values that L2 has had and what one reading makes  *)
(* of those (tiered.go:70, 91-96, 220; redis.go:270-273), whatever fails,  *)
(* and whichever calls and programs write at the same time.                *)
THEOREM L1HasNoValueOfItsOwn == Spec => []L1FromL2
<1>1. Inv => L1FromL2
  BY DEF Inv, StoredInv
<1> QED BY <1>1, Invariance, PTL

(* Between calls the levels agree, up to what a reading makes of a value,  *)
(* about every key that was not disturbed: a write during another call,    *)
(* another program, an error of Redis or an encoding error (tiered.go:70,  *)
(* 91, 105-108, 251-253) is behind every other disagreement.               *)
THEOREM OnlyDisturbedKeysDisagree == Spec => []QuietCoherent
<1>1. Inv => QuietCoherent
  BY DEF Inv, QuietInv, Settled, QuietCoherent
<1> QED BY <1>1, Invariance, PTL
=============================================================================
