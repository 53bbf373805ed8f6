---------------------------- MODULE TieredCache ----------------------------
(***************************************************************************)
(* The two-level cache of cache/tiered.go over a memory cache (L1) and a   *)
(* Redis cache (L2, cache/redis.go), which other programs write as well.   *)
(*                                                                         *)
(* A call is a sequence of steps on the levels, and other calls come in    *)
(* between: no lock spans the two levels.  call[c].at is the next step:    *)
(*   "look1" "look2" "fill"   Get, GetMulti and WarmupL1                   *)
(*   "write2" "write1"        Set and SetMulti, L2 first                   *)
(*   "drop1" "drop2"          Delete and DeleteMulti, L1 first             *)
(*   "clear1" "keys" "del"    Clear                                        *)
(* todo holds the keys the step is still to do; miss those L1 does not     *)
(* have, or, in SetMulti, those whose value cannot be encoded; got what L2 *)
(* answered.  A value stands for its encoding: the levels keep bytes, and  *)
(* what a backfill stores was decoded and encoded again on the way.        *)
(***************************************************************************)
EXTENDS Naturals, FiniteSets

CONSTANTS
  Keys, Values, Callers,
  Inputs,       \* bound: the pairs of a set of keys and a value calls are made with
  Absent,       \* no entry
  Expired,      \* no entry: the last one reached its TTL (same to every reader)
  NoCall,
  Ops,          \* the operations that are called; "persist": SetTTL with 0
  DefaultLife,  \* config.DefaultTTL of the tiered cache: "timed", or "never" for 0
  L1Life,       \* config.DefaultTTL of L1, used where L1 is handed 0
  Namespaced,   \* has L2 a namespace?  Without one its Clear refuses
  L2Fails,      \* may calls of Redis fail?
  CodecFails,   \* may a value not be encoded, or not be decoded?
  Recoded       \* what a value may become when it is decoded, into the caller's
                \* destination or into an interface{}, and encoded again

Lives == {"timed", "never"}

Writes == {"set", "delete", "clear"}

(* What L2 may answer. *)
Answers == UNION {[ks -> Values] : ks \in SUBSET Keys}

(* The calls: the operation, its next step, and its arguments and results. *)
Calls ==
  [op : {"get", "warmup"} \cup Writes,
   at : {"look1", "look2", "fill", "write2", "write1", "drop1", "drop2", "clear1", "keys", "del"},
   keys : SUBSET Keys, todo : SUBSET Keys, val : Values \cup {Absent}, life : Lives,
   miss : SUBSET Keys, got : Answers]

ASSUME TieredAssumption ==
  /\ Inputs \subseteq (SUBSET Keys) \X Values
  /\ Ops \subseteq {"get", "warmup", "direct", "persist"} \cup Writes
  /\ DefaultLife \in Lives /\ L1Life \in Lives
  /\ Namespaced \in BOOLEAN /\ L2Fails \in BOOLEAN /\ CodecFails \in BOOLEAN
  /\ Recoded \in [Values -> SUBSET Values]
  /\ Absent \notin Values /\ Expired \notin Values /\ Absent # Expired
  /\ NoCall \notin Calls /\ Absent \notin [val : Values, life : Lives]

VARIABLES
  l1,         \* the entries of L1: a value, and whether it has an expiry time
  l2,         \* the values in L2
  call,       \* the call a caller is in
  stored,     \* history: the values L2 has held, by key
  disturbed   \* history: keys with a write during another call, from another
              \*          program, or with an error

vars == <<l1, l2, call, stored, disturbed>>

Entry(v, life) == [val |-> v, life |-> life]

Missing(x) == x \in {Absent, Expired}

Init ==
  /\ l1 = [k \in Keys |-> Absent] /\ l2 = [k \in Keys |-> Absent]
  /\ call = [c \in Callers |-> NoCall]
  /\ stored = [k \in Keys |-> {}]
  /\ disturbed = {}

-----------------------------------------------------------------------------
FirstStep(op) ==
  CASE op = "get" -> "look1"
    [] op = "warmup" -> "look2"
    [] op = "set" -> "write2"
    [] op = "delete" -> "drop1"
    [] op = "clear" -> "clear1"

Active(k) == {c \in Callers : call[c] # NoCall /\ k \in call[c].keys}

(* A call on a set of keys; Get, Set and Delete have one key.  The TTL     *)
(* argument of Set is positive ("timed") or 0 ("never"), which stands for  *)
(* the default.                                                            *)
Begin(c, op, ks, v, ttl) ==
  /\ call[c] = NoCall
  /\ <<ks, v>> \in Inputs
  /\ op = "clear" => ks = Keys
  /\ op # "set" => ttl = "timed"
  /\ call' = [call EXCEPT ![c] =
       [op |-> op, at |-> FirstStep(op), keys |-> ks, todo |-> ks,
        val |-> IF op = "set" THEN v ELSE Absent,
        life |-> IF ttl = "never" THEN DefaultLife ELSE ttl,
        miss |-> {}, got |-> [k \in {} |-> Absent]]]
  /\ disturbed' = disturbed \cup
       {k \in ks : \E d \in Active(k) : op \in Writes \/ call[d].op \in Writes}
  /\ UNCHANGED <<l1, l2, stored>>

(* The step of caller c on the keys ks is done; when it was the last key,  *)
(* the call goes on at "next" with the keys "left", or returns.            *)
Did(c, ks, next, left) ==
  LET more == call[c].todo \ ks IN
  call' = [call EXCEPT ![c] =
    IF more # {} THEN [@ EXCEPT !.todo = more]
    ELSE IF next = "return" THEN NoCall
    ELSE [@ EXCEPT !.at = next, !.todo = left]]

Returns(c) == call' = [call EXCEPT ![c] = NoCall]

(* An error of Redis: the command may have been executed nevertheless. *)
FailedKeys(c) ==
  /\ L2Fails
  /\ disturbed' = disturbed \cup call[c].keys

-----------------------------------------------------------------------------
(* Get, GetMulti, WarmupL1 *)

LookL1(c) ==
  /\ call[c] # NoCall /\ call[c].at = "look1"
  /\ \E k \in call[c].todo :
       LET miss == call[c].miss \cup {x \in {k} : l1[x] = Absent} IN
       IF call[c].todo = {k} /\ miss = {} THEN Returns(c)
       ELSE IF call[c].todo = {k}
       THEN call' = [call EXCEPT ![c].at = "look2", ![c].todo = miss, ![c].miss = {}]
       ELSE call' = [call EXCEPT ![c].todo = @ \ {k}, ![c].miss = miss]
  /\ UNCHANGED <<l1, l2, stored, disturbed>>

(* An entry of L1 cannot be decoded into the destination: Get returns the  *)
(* error, GetMulti asks L2 for all its keys.                               *)
LookL1Fails(c) ==
  /\ call[c] # NoCall /\ call[c].at = "look1"
  /\ CodecFails
  /\ \E k \in call[c].todo : l1[k] # Absent
  /\ \/ Cardinality(call[c].keys) = 1 /\ Returns(c)
     \/ call' = [call EXCEPT ![c].at = "look2", ![c].todo = call[c].keys, ![c].miss = {}]
  /\ UNCHANGED <<l1, l2, stored, disturbed>>

(* What cannot be decoded is skipped by GetMulti; Get returns the error. *)
LookL2(c) ==
  /\ call[c] # NoCall /\ call[c].at = "look2"
  /\ LET there == {k \in call[c].todo : ~Missing(l2[k])} IN
     \E found \in SUBSET there :
       /\ CodecFails \/ found = there
       /\ IF found = {} THEN Returns(c)
          ELSE \E got \in [found -> Values] :
                 /\ \A k \in found : got[k] \in Recoded[l2[k]]
                 /\ call' = [call EXCEPT ![c].at = "fill", ![c].todo = found, ![c].got = got]
  /\ UNCHANGED <<l1, l2, stored, disturbed>>

LookL2Fails(c) ==
  /\ call[c] # NoCall /\ call[c].at = "look2"
  /\ L2Fails
  /\ Returns(c)
  /\ UNCHANGED <<l1, l2, stored, disturbed>>

(* What L1 makes of a TTL: 0 stands for its own default. *)
LifeInL1(life) == IF life = "never" THEN L1Life ELSE "timed"

(* Mutant of Fill: the copy gets no expiry time. *)
FillForEver(c) ==
  /\ call[c] # NoCall /\ call[c].at = "fill"
  /\ \E k \in call[c].todo :
       /\ l1' = [l1 EXCEPT ![k] = Entry(call[c].got[k], "never")]
       /\ Did(c, {k}, "return", {})
  /\ UNCHANGED <<l2, stored, disturbed>>

(* The backfill takes the default TTL, not what is left of the TTL in L2. *)
Fill(c) ==
  /\ call[c] # NoCall /\ call[c].at = "fill"
  /\ \E k \in call[c].todo :
       /\ l1' = [l1 EXCEPT ![k] = Entry(call[c].got[k], LifeInL1(DefaultLife))]
       /\ Did(c, {k}, "return", {})
  /\ UNCHANGED <<l2, stored, disturbed>>

(* The backfill of a key fails; the error is recorded, or returned by      *)
(* WarmupL1, and the keys after it are not copied either.                  *)
FillFails(c) ==
  /\ call[c] # NoCall /\ call[c].at = "fill"
  /\ CodecFails
  /\ Returns(c)
  /\ UNCHANGED <<l1, l2, stored, disturbed>>

-----------------------------------------------------------------------------
(* Set, SetMulti *)

WriteL2(c) ==
  /\ call[c] # NoCall /\ call[c].at = "write2"
  /\ \E k \in call[c].todo :
       /\ l2' = [l2 EXCEPT ![k] = call[c].val]
       /\ stored' = [stored EXCEPT ![k] = @ \cup {call[c].val}]
       /\ Did(c, {k}, "write1", call[c].keys)
  /\ UNCHANGED <<l1, disturbed>>

(* SetMulti leaves a value that it cannot encode out and goes on.  Set     *)
(* returns the error, which is as if it had not been called.               *)
WriteL2Skips(c) ==
  /\ call[c] # NoCall /\ call[c].at = "write2"
  /\ CodecFails
  /\ \E k \in call[c].todo :
       call' = [call EXCEPT ![c].miss = @ \cup {k},
                            ![c].at = IF call[c].todo = {k} THEN "write1" ELSE @,
                            ![c].todo = IF @ = {k} THEN call[c].keys ELSE @ \ {k}]
  /\ disturbed' = disturbed \cup call[c].keys
  /\ UNCHANGED <<l1, l2, stored>>

(* Mutant of WriteL2Fails: the error is recorded and L1 is written.        *)
WriteL2FailsOn(c) ==
  /\ call[c] # NoCall /\ call[c].at = "write2"
  /\ FailedKeys(c)
  /\ call' = [call EXCEPT ![c].at = "write1", ![c].todo = call[c].keys]
  /\ UNCHANGED <<l1, l2, stored>>

WriteL2Fails(c) ==
  /\ call[c] # NoCall /\ call[c].at = "write2"
  /\ FailedKeys(c)
  /\ Returns(c)
  /\ \/ UNCHANGED <<l2, stored>>
     \/ \E k \in call[c].todo : /\ l2' = [l2 EXCEPT ![k] = call[c].val]
                                /\ stored' = [stored EXCEPT ![k] = @ \cup {call[c].val}]
  /\ UNCHANGED l1

(* Mutant of WriteL1: an entry that L1 has already is kept. *)
WriteL1IfAbsent(c) ==
  /\ call[c] # NoCall /\ call[c].at = "write1"
  /\ \E k \in call[c].todo :
       /\ l1' = [l1 EXCEPT ![k] = IF @ # Absent THEN @ ELSE Entry(call[c].val, LifeInL1(call[c].life))]
       /\ Did(c, {k}, "return", {})
  /\ UNCHANGED <<l2, stored, disturbed>>

WriteL1(c) ==
  /\ call[c] # NoCall /\ call[c].at = "write1"
  /\ \E k \in call[c].todo \ call[c].miss :
       /\ l1' = [l1 EXCEPT ![k] = Entry(call[c].val, LifeInL1(call[c].life))]
       /\ Did(c, {k}, "return", {})
  /\ UNCHANGED <<l2, stored, disturbed>>

(* The encoding for L1 fails, though L2 has been written: the error is     *)
(* recorded only, and L1 keeps what it had, for the keys after it too.     *)
WriteL1Fails(c) ==
  /\ call[c] # NoCall /\ call[c].at = "write1"
  /\ CodecFails
  /\ disturbed' = disturbed \cup call[c].keys
  /\ Returns(c)
  /\ UNCHANGED <<l1, l2, stored>>

-----------------------------------------------------------------------------
(* Delete, DeleteMulti *)

DropL1(c) ==
  /\ call[c] # NoCall /\ call[c].at = "drop1"
  /\ \E k \in call[c].todo :
       /\ l1' = [l1 EXCEPT ![k] = Absent]
       /\ Did(c, {k}, "drop2", call[c].keys)
  /\ UNCHANGED <<l2, stored, disturbed>>

DropL2(c) ==
  /\ call[c] # NoCall /\ call[c].at = "drop2"
  /\ l2' = [k \in Keys |-> IF k \in call[c].todo THEN Absent ELSE l2[k]]
  /\ Returns(c)
  /\ UNCHANGED <<l1, stored, disturbed>>

(* Delete reports an error only if both levels fail: this one succeeds. *)
DropL2Fails(c) ==
  /\ call[c] # NoCall /\ call[c].at \in {"drop2", "keys", "del"}
  /\ FailedKeys(c)
  /\ Returns(c)
  /\ \/ UNCHANGED l2
     \/ call[c].at # "keys" /\ l2' = [k \in Keys |-> IF k \in call[c].todo THEN Absent ELSE l2[k]]
  /\ UNCHANGED <<l1, stored>>

-----------------------------------------------------------------------------
(* Clear: L1 at once, L2 by listing the namespace and deleting the list *)

ClearL1(c) ==
  /\ call[c] # NoCall /\ call[c].at = "clear1"
  /\ l1' = [k \in Keys |-> Absent]
  /\ IF Namespaced THEN call' = [call EXCEPT ![c].at = "keys"] ELSE Returns(c)
  /\ UNCHANGED <<l2, stored, disturbed>>

ClearKeys(c) ==
  /\ call[c] # NoCall /\ call[c].at = "keys"
  /\ LET list == {k \in Keys : ~Missing(l2[k])} IN
     IF list = {} THEN Returns(c)
     ELSE call' = [call EXCEPT ![c].at = "del", ![c].todo = list]
  /\ UNCHANGED <<l1, l2, stored, disturbed>>

ClearDel(c) ==
  /\ call[c] # NoCall /\ call[c].at = "del"
  /\ l2' = [k \in Keys |-> IF k \in call[c].todo THEN Absent ELSE l2[k]]
  /\ Returns(c)
  /\ UNCHANGED <<l1, stored, disturbed>>

-----------------------------------------------------------------------------
(* SetTTL: Expire or Persist of the key in L2, where entries may go at any *)
(* time anyhow, then the new expiry time of an existing entry in L1.       *)
SetTTL(k, life) ==
  /\ life = "timed" \/ "persist" \in Ops
  /\ l1[k] # Absent
  /\ l1' = [l1 EXCEPT ![k].life = life]
  /\ UNCHANGED <<l2, call, stored, disturbed>>

-----------------------------------------------------------------------------
(* The levels on their own *)

(* L1 removes an entry whose time has come, or gives one up for its size   *)
(* or because of InvalidateL1.                                             *)
ExpireL1(k) ==
  /\ l1[k] # Absent /\ l1[k].life = "timed"
  /\ l1' = [l1 EXCEPT ![k] = Absent]
  /\ UNCHANGED <<l2, call, stored, disturbed>>

EvictL1(k) ==
  /\ l1[k] # Absent
  /\ l1' = [l1 EXCEPT ![k] = Absent]
  /\ UNCHANGED <<l2, call, stored, disturbed>>

(* Redis drops an entry whose TTL has passed, or evicts it. *)
ExpireL2(k) ==
  /\ ~Missing(l2[k])
  /\ l2' = [l2 EXCEPT ![k] = Expired]
  /\ UNCHANGED <<l1, call, stored, disturbed>>

(* Another program, or a caller of L2's own SetNX, GetSet, Increment,      *)
(* Decrement or FlushDB.                                                   *)
DirectWrite(k, v) ==
  /\ "direct" \in Ops
  /\ v = Absent \/ <<{k}, v>> \in Inputs
  /\ l2' = [l2 EXCEPT ![k] = v]
  /\ stored' = [stored EXCEPT ![k] = IF v = Absent THEN @ ELSE @ \cup {v}]
  /\ disturbed' = disturbed \cup {k}
  /\ UNCHANGED <<l1, call>>

-----------------------------------------------------------------------------
Step(c) ==
  \/ LookL1(c) \/ LookL1Fails(c) \/ LookL2(c) \/ LookL2Fails(c) \/ Fill(c) \/ FillFails(c)
  \/ WriteL2(c) \/ WriteL2Skips(c) \/ WriteL2Fails(c) \/ WriteL1(c) \/ WriteL1Fails(c)
  \/ DropL1(c) \/ DropL2(c) \/ DropL2Fails(c)
  \/ ClearL1(c) \/ ClearKeys(c) \/ ClearDel(c)

Next ==
  \/ \E c \in Callers, op \in Ops \ {"direct", "persist"}, ks \in SUBSET Keys, v \in Values, t \in Lives :
       Begin(c, op, ks, v, t)
  \/ \E c \in Callers : Step(c)
  \/ \E k \in Keys : ExpireL1(k) \/ EvictL1(k) \/ ExpireL2(k) \/ \E t \in Lives : SetTTL(k, t)
  \/ \E k \in Keys, v \in Values \cup {Absent} : DirectWrite(k, v)

Spec == Init /\ [][Next]_vars

(* Time passes: an entry of L1 with an expiry time is removed, by the next *)
(* Get or by the cleanup loop.                                             *)
FairSpec == Spec /\ \A k \in Keys : WF_vars(ExpireL1(k))

-----------------------------------------------------------------------------
Coherent(k) == l1[k] = Absent \/ l2[k] = Expired \/ l1[k].val = l2[k]

(* A value of S, or what a read makes of one *)
Copies(S) == S \cup UNION {Recoded[v] : v \in S}

(* L1 has a copy of what L2 has. *)
Agrees(k) ==
  l1[k] = Absent \/ l2[k] = Expired \/ (l2[k] # Absent /\ l1[k].val \in Copies({l2[k]}))

(* L1 holds nothing but copies of values that L2, "source of truth"        *)
(* (tiered.go:90), has had: Set writes L2 first and gives up when that     *)
(* fails (tiered.go:91-96), what SetMulti could not write to L2            *)
(* (redis.go:270-273) does not get into L1 either, and a backfill stores   *)
(* what a read of L2 made of its value (tiered.go:70, 220, 389), not what  *)
(* a read of that would make.                                              *)
L1FromL2 == \A k \in Keys : l1[k] = Absent \/ l1[k].val \in Copies(stored[k])

(* Between calls L1 has a copy of what L2 has, or L2's entry has expired,  *)
(* for every key whose writes met no other call (tiered.go:70, 91, 104,    *)
(* 120, 121), no other program and no error, an error of L1 after L2 was   *)
(* written included (tiered.go:105-108, 251-253): these, and nothing else, *)
(* make the levels disagree by more than a decoding.                       *)
QuietCoherent == \A k \in Keys \ disturbed : Active(k) = {} => Agrees(k)

(* However the levels came to disagree, L1 loses its entry when its TTL    *)
(* has passed, since a backfill (tiered.go:64-70) and a Set                *)
(* (tiered.go:99-104) never store an entry that lives for ever.            *)
StaleNotForEver == \A k \in Keys : []<>Coherent(k)
=============================================================================
