-------------------------- MODULE RabbitQueueProofs --------------------------
(***************************************************************************)
(* Proofs about RabbitQueue, for any jobs, workers and priorities, and any *)
(* number of deliveries, crashes, broken connections and purges.           *)
(***************************************************************************)
EXTENDS RabbitQueue, FiniteSetTheorems, TLAPS

-----------------------------------------------------------------------------
(* The invariant *)

Messages == [id : Jobs, attempts : Nat]
Taken == [id : Jobs, attempts : Nat, tag : Nat, epoch : Nat]

(* Bags of messages: every member has a copy. *)
IsBag(q) == q \in [DOMAIN q -> Nat \ {0}] /\ DOMAIN q \subseteq Messages

(* The messages not acknowledged have tags that the channel has given out. *)
IsUnacked(un) ==
  /\ un \in [DOMAIN un -> Messages]
  /\ DOMAIN un \subseteq Nat /\ IsFiniteSet(DOMAIN un)

TypeInv ==
  /\ IsBag(queue) /\ IsUnacked(unacked)
  /\ tags \in Nat /\ channel \in {"open", "broken", "closed"}
  /\ waiting \subseteq Jobs /\ scan \subseteq Jobs
  /\ job \in [Workers -> Taken \cup {NoJob}] /\ IsBag(retries)
  /\ accepted \subseteq Jobs
  /\ added \in [Jobs -> Nat] /\ runs \in [Jobs -> Nat]
  /\ epoch \in Nat

(* Until a worker's job is settled on the channel it came from, its tag is *)
(* the tag of its message there, or of none.                               *)
TagInv ==
  /\ \A t \in DOMAIN unacked : t <= tags
  /\ \A w \in Workers : job[w] # NoJob =>
       /\ job[w].epoch <= epoch
       /\ job[w].epoch = epoch =>
            /\ job[w].tag <= tags
            /\ job[w].tag \in DOMAIN unacked => unacked[job[w].tag].id = job[w].id

Inv == TypeInv /\ TagInv /\ NoJobLost

-----------------------------------------------------------------------------
(* Bags *)

(* A publication adds a message and takes none away. *)
LEMMA BagAdd ==
  ASSUME NEW q, IsBag(q), NEW m \in Messages
  PROVE  IsBag(q (+) SetToBag({m})) /\ DOMAIN (q (+) SetToBag({m})) = DOMAIN q \cup {m}
<1>1. PICK r : r = q (+) SetToBag({m})
  OBVIOUS
<1>2. DOMAIN r = DOMAIN q \cup {m} /\ r = [e \in DOMAIN r |-> r[e]]
  BY <1>1 DEF SetToBag, (+)
<1>3. \A e \in DOMAIN r : r[e] \in Nat \ {0}
  BY <1>1 DEF SetToBag, (+), IsBag
<1>4. r \in [DOMAIN r -> Nat \ {0}]
  BY <1>2, <1>3
<1> QED BY <1>1, <1>2, <1>4 DEF IsBag

(* A delivery takes one copy of one message. *)
LEMMA BagTake ==
  ASSUME NEW q, IsBag(q), NEW m
  PROVE  /\ IsBag(q (-) SetToBag({m}))
         /\ DOMAIN (q (-) SetToBag({m})) \subseteq DOMAIN q
         /\ DOMAIN q \ {m} \subseteq DOMAIN (q (-) SetToBag({m}))
<1>1. PICK b : b = [e \in DOMAIN q |-> IF e \in {m} THEN q[e] - 1 ELSE q[e]]
  OBVIOUS
<1>2. PICK r : r = [e \in {d \in DOMAIN b : b[d] > 0} |-> b[e]]
  OBVIOUS
<1>3. q (-) SetToBag({m}) = r
  <2>1. \A e \in {m} : SetToBag({m})[e] = 1
    BY DEF SetToBag
  <2>2. DOMAIN SetToBag({m}) = {m}
    BY DEF SetToBag
  <2>3. [e \in DOMAIN q |-> IF e \in DOMAIN SetToBag({m}) THEN q[e] - SetToBag({m})[e] ELSE q[e]] = b
    BY <1>1, <2>1, <2>2
  <2> QED BY <1>2, <2>3 DEF (-)
<1>4. DOMAIN b = DOMAIN q /\ \A e \in DOMAIN q : b[e] \in Int /\ (e # m => b[e] = q[e] /\ b[e] > 0)
  BY <1>1 DEF IsBag
<1>5. DOMAIN r \subseteq DOMAIN q /\ DOMAIN q \ {m} \subseteq DOMAIN r /\ r \in [DOMAIN r -> Nat \ {0}]
  BY <1>2, <1>4
<1> QED BY <1>3, <1>5 DEF IsBag

(* When a channel goes, its messages are back in the queue. *)
LEMMA BagReturned ==
  ASSUME NEW q, IsBag(q), NEW un, IsUnacked(un)
  PROVE  /\ IsBag(Returned(q, un))
         /\ DOMAIN Returned(q, un) = DOMAIN q \cup {un[t] : t \in DOMAIN un}
<1>1. PICK ms : ms = {un[t] : t \in DOMAIN un}
  OBVIOUS
<1>2. PICK b : b = [m \in ms |-> Cardinality({t \in DOMAIN un : un[t] = m})]
  OBVIOUS
<1>3. PICK r : r = q (+) b
  OBVIOUS
<1>4. Returned(q, un) = r
  BY <1>1, <1>2, <1>3 DEF Returned
<1>5. ms \subseteq Messages /\ DOMAIN b = ms
  BY <1>1, <1>2 DEF IsUnacked
<1>6. ASSUME NEW m \in ms PROVE b[m] \in Nat \ {0}
  <2>1. PICK S : S = {t \in DOMAIN un : un[t] = m}
    OBVIOUS
  <2>2. S \subseteq DOMAIN un /\ S # {}
    BY <1>1, <2>1
  <2>3. IsFiniteSet(S)
    BY <2>2, FS_Subset DEF IsUnacked
  <2>4. Cardinality(S) \in Nat /\ Cardinality(S) # 0
    BY <2>2, <2>3, FS_CardinalityType, FS_EmptySet
  <2> QED BY <1>2, <2>1, <2>4
<1>7. DOMAIN r = DOMAIN q \cup ms /\ r = [e \in DOMAIN r |-> r[e]]
  BY <1>3, <1>5 DEF (+)
<1>8. \A e \in DOMAIN r : r[e] \in Nat \ {0}
  <2>1. \A e \in DOMAIN r :
          r[e] = (IF e \in DOMAIN q THEN q[e] ELSE 0) + (IF e \in DOMAIN b THEN b[e] ELSE 0)
    BY <1>3 DEF (+)
  <2>2. \A e \in DOMAIN q : q[e] \in Nat \ {0}
    BY DEF IsBag
  <2> QED BY <1>5, <1>6, <1>7, <2>1, <2>2
<1>9. r \in [DOMAIN r -> Nat \ {0}]
  BY <1>7, <1>8
<1> QED BY <1>1, <1>4, <1>5, <1>7, <1>9 DEF IsBag

-----------------------------------------------------------------------------
(* The broker: what each operation does with the messages. *)

(* A publication takes nothing away. *)
LEMMA PublishFacts ==
  ASSUME TypeInv, NEW m \in Messages, Publish(m)
  PROVE  /\ IsBag(queue') /\ DOMAIN queue \subseteq DOMAIN queue'
         /\ channel = "open" => m \in DOMAIN queue'
<1>1. IsBag(queue)
  BY DEF TypeInv
<1>2. CASE channel = "open"
  <2>1. queue' = queue (+) SetToBag({m})
    BY <1>2 DEF Publish
  <2>2. IsBag(queue') /\ DOMAIN queue' = DOMAIN queue \cup {m}
    BY <1>1, <2>1, BagAdd
  <2> QED BY <2>2
<1>3. CASE channel # "open"
  BY <1>1, <1>3 DEF Publish
<1> QED BY <1>2, <1>3

(* The history counts the publications of retries and releases. *)
LEMMA RepublishedFacts ==
  ASSUME TypeInv, NEW j \in Jobs, Republished(j)
  PROVE  added' \in [Jobs -> Nat]
BY DEF Republished, TypeInv

(* The messages of a channel that goes stay at the broker. *)
LEMMA ChannelGoesFacts ==
  ASSUME TypeInv, NEW v \in {"open", "broken", "closed"}, ChannelGoes(v)
  PROVE  /\ IsBag(queue') /\ IsUnacked(unacked') /\ channel' \in {"open", "broken", "closed"}
         /\ DOMAIN unacked' = {} /\ \A j : AtBroker(j) => AtBroker(j)'
<1>1. /\ IsBag(queue') /\ DOMAIN queue' = DOMAIN queue \cup {unacked[t] : t \in DOMAIN unacked}
  BY BagReturned DEF ChannelGoes, TypeInv
<1>2. IsUnacked(unacked') /\ DOMAIN unacked' = {}
  <2>1. unacked' = NoMessages /\ DOMAIN NoMessages = {}
    BY DEF ChannelGoes, NoMessages
  <2>2. NoMessages \in [{} -> Messages]
    BY DEF NoMessages
  <2> QED BY <2>1, <2>2, FS_EmptySet DEF IsUnacked
<1>3. \A j : AtBroker(j) => AtBroker(j)'
  BY <1>1 DEF AtBroker
<1> QED BY <1>1, <1>2, <1>3 DEF ChannelGoes

(* Ack and Nack lose at most the message of their tag, and Nack not even   *)
(* that.                                                                   *)
LEMMA SettleFacts ==
  ASSUME TypeInv, NEW tag, NEW r \in BOOLEAN, Settle(tag, r)
  PROVE  /\ IsBag(queue') /\ IsUnacked(unacked') /\ channel' \in {"open", "broken", "closed"}
         /\ DOMAIN unacked' \subseteq DOMAIN unacked
         /\ \A t \in DOMAIN unacked' : unacked'[t] = unacked[t]
         /\ \A j : AtBroker(j) => \/ AtBroker(j)'
                                  \/ /\ channel = "open" /\ tag \in DOMAIN unacked
                                     /\ ~r /\ unacked[tag].id = j
<1>1. CASE channel # "open"
  BY <1>1 DEF Settle, TypeInv, AtBroker
<1>2. CASE channel = "open" /\ tag \notin DOMAIN unacked
  <2>1. ChannelGoes("broken")
    BY <1>2 DEF Settle
  <2> QED BY <2>1, ChannelGoesFacts
<1>3. CASE channel = "open" /\ tag \in DOMAIN unacked
  <2>1. /\ unacked' = [t \in DOMAIN unacked \ {tag} |-> unacked[t]]
        /\ queue' = IF r THEN queue (+) SetToBag({unacked[tag]}) ELSE queue
        /\ channel' = channel
    BY <1>3 DEF Settle
  <2>2. /\ DOMAIN unacked' = DOMAIN unacked \ {tag}
        /\ \A t \in DOMAIN unacked' : unacked'[t] = unacked[t]
    BY <2>1
  <2>3. IsUnacked(unacked')
    <3>1. IsFiniteSet(DOMAIN unacked \ {tag})
      BY FS_Subset DEF TypeInv, IsUnacked
    <3>2. unacked' \in [DOMAIN unacked' -> Messages]
      BY <2>1 DEF TypeInv, IsUnacked
    <3> QED BY <2>2, <3>1, <3>2 DEF TypeInv, IsUnacked
  <2>4. unacked[tag] \in Messages
    BY <1>3 DEF TypeInv, IsUnacked
  <2>5. CASE r
    <3>1. IsBag(queue') /\ DOMAIN queue' = DOMAIN queue \cup {unacked[tag]}
      BY <2>1, <2>4, <2>5, BagAdd DEF TypeInv
    <3>2. \A j : AtBroker(j) => AtBroker(j)'
      BY <2>2, <3>1 DEF AtBroker
    <3> QED BY <2>1, <2>2, <2>3, <3>1, <3>2 DEF TypeInv
  <2>6. CASE ~r
    <3>1. queue' = queue
      BY <2>1, <2>6
    <3>2. \A j : AtBroker(j) => AtBroker(j)' \/ unacked[tag].id = j
      BY <2>2, <3>1 DEF AtBroker
    <3> QED BY <1>3, <2>1, <2>2, <2>3, <2>6, <3>1, <3>2 DEF TypeInv
  <2> QED BY <2>5, <2>6
<1> QED BY <1>1, <1>2, <1>3

(* A step that leaves the channel alone and publishes at most. *)
LEMMA KeepsInv ==
  ASSUME Inv, TypeInv', DOMAIN queue \subseteq DOMAIN queue', UNCHANGED <<unacked, tags, epoch, job>>,
         ended' = ended, excused' = excused,
         \A j \in accepted' : j \in accepted \/ \E m \in DOMAIN queue' : m.id = j
  PROVE  Inv'
<1>1. TagInv'
  BY DEF Inv, TagInv
<1>2. \A j : AtBroker(j) => AtBroker(j)'
  BY DEF AtBroker
<1>3. NoJobLost'
  <2> SUFFICES ASSUME NEW j \in accepted' \ (ended \cup excused) PROVE AtBroker(j)'
    BY DEF NoJobLost
  <2>1. CASE j \in accepted
    BY <1>2, <2>1 DEF Inv, NoJobLost
  <2>2. CASE j \notin accepted
    BY <2>2 DEF AtBroker
  <2> QED BY <2>1, <2>2
<1> QED BY <1>1, <1>3 DEF Inv

-----------------------------------------------------------------------------
(* Enqueue, Schedule, DeleteJob, PurgeQueue *)

(* Enqueue (rabbitmq.go:187-239) leaves a message of the job it accepts. *)
LEMMA EnqueueInv ==
  ASSUME Inv, NEW j \in Jobs, Enqueue(j)
  PROVE  Inv'
<1>1. Message(j, 0) \in Messages /\ Message(j, 0).id = j
  BY DEF Message, Messages
<1>2. /\ IsBag(queue') /\ DOMAIN queue \subseteq DOMAIN queue'
      /\ channel = "open" => Message(j, 0) \in DOMAIN queue'
  BY <1>1, PublishFacts DEF Inv, Enqueue
<1>3. TypeInv'
  BY <1>2 DEF Inv, TypeInv, Enqueue
<1>4. \A i \in accepted' : i \in accepted \/ \E m \in DOMAIN queue' : m.id = i
  BY <1>1, <1>2 DEF Enqueue
<1> QED BY <1>2, <1>3, <1>4, KeepsInv DEF Enqueue

(* DeleteJob (rabbitmq.go:426-436) leaves the message where it is. *)
LEMMA DeleteJobInv ==
  ASSUME Inv, NEW j \in Jobs, DeleteJob(j)
  PROVE  Inv'
<1>1. TypeInv'
  BY DEF Inv, TypeInv, DeleteJob, brokerVars, historyVars
<1> QED BY <1>1, KeepsInv DEF DeleteJob, brokerVars, historyVars

(* PurgeQueue (rabbitmq.go:499-517) loses the queued messages only. *)
LEMMA PurgeQueueInv ==
  ASSUME Inv, PurgeQueue
  PROVE  Inv'
<1>1. IsBag(EmptyBag)
  BY DEF EmptyBag, SetToBag, IsBag
<1>2. TypeInv'
  BY <1>1 DEF Inv, TypeInv, PurgeQueue
<1>3. TagInv'
  BY DEF Inv, TagInv, PurgeQueue
<1>4. NoJobLost'
  <2> SUFFICES ASSUME NEW j \in accepted \ (ended \cup excused') PROVE AtBroker(j)'
    BY DEF NoJobLost, PurgeQueue
  <2>1. AtBroker(j) /\ \A m \in DOMAIN queue : m.id # j
    BY DEF Inv, NoJobLost, PurgeQueue
  <2> QED BY <2>1 DEF AtBroker, PurgeQueue
<1> QED BY <1>2, <1>3, <1>4 DEF Inv

-----------------------------------------------------------------------------
(* The worker *)

(* Dequeue (rabbitmq.go:254-305) gives the message a tag of its own. *)
LEMMA DequeueInv ==
  ASSUME Inv, NEW w \in Workers, Dequeue(w)
  PROVE  Inv'
<1>1. PICK m \in DOMAIN queue :
        /\ queue' = queue (-) SetToBag({m})
        /\ tags' = tags + 1
        /\ unacked' = [t \in DOMAIN unacked \cup {tags + 1} |-> IF t = tags + 1 THEN m ELSE unacked[t]]
        /\ job' = [job EXCEPT ![w] =
             [id |-> m.id, attempts |-> m.attempts + 1, tag |-> tags + 1, epoch |-> epoch]]
        /\ waiting' = waiting \ {m.id}
        /\ runs' = [runs EXCEPT ![m.id] = @ + 1]
  BY DEF Dequeue
<1>2. /\ UNCHANGED <<channel, scan, retries, accepted, ended, excused, added, epoch>>
  BY DEF Dequeue
<1>3. m \in Messages /\ m.id \in Jobs /\ m.attempts \in Nat
  BY DEF Inv, TypeInv, IsBag, Messages
<1>4. IsBag(queue') /\ DOMAIN queue \ {m} \subseteq DOMAIN queue'
  BY <1>1, BagTake DEF Inv, TypeInv
<1>5. tags \in Nat /\ tags + 1 \in Nat /\ tags + 1 \notin DOMAIN unacked /\ epoch \in Nat
  BY DEF Inv, TypeInv, TagInv, IsUnacked
<1>6. /\ DOMAIN unacked' = DOMAIN unacked \cup {tags + 1} /\ unacked'[tags + 1] = m
      /\ \A t \in DOMAIN unacked : unacked'[t] = unacked[t]
  BY <1>1, <1>5
<1>7. IsUnacked(unacked')
  <2>1. IsFiniteSet(DOMAIN unacked \cup {tags + 1})
    BY FS_AddElement DEF Inv, TypeInv, IsUnacked
  <2>2. unacked' \in [DOMAIN unacked' -> Messages]
    BY <1>1, <1>3 DEF Inv, TypeInv, IsUnacked
  <2> QED BY <1>5, <1>6, <2>1, <2>2 DEF Inv, TypeInv, IsUnacked
<1>8. PICK e : e = [id |-> m.id, attempts |-> m.attempts + 1, tag |-> tags + 1, epoch |-> epoch]
  OBVIOUS
<1>9. e \in Taken /\ e.id = m.id /\ e.tag = tags + 1 /\ e.epoch = epoch
  BY <1>3, <1>5, <1>8 DEF Taken
<1>10. job' \in [Workers -> Taken \cup {NoJob}] /\ job'[w] = e /\ \A u \in Workers : u # w => job'[u] = job[u]
  BY <1>1, <1>8, <1>9 DEF Inv, TypeInv
<1>11. runs' \in [Jobs -> Nat]
  BY <1>1, <1>3 DEF Inv, TypeInv
<1>12. TypeInv'
  BY <1>1, <1>2, <1>4, <1>5, <1>7, <1>10, <1>11 DEF Inv, TypeInv
<1>13. TagInv'
  <2>1. \A t \in DOMAIN unacked' : t <= tags'
    BY <1>1, <1>5, <1>6 DEF Inv, TypeInv, TagInv, IsUnacked
  <2>2. ASSUME NEW u \in Workers, job'[u] # NoJob
        PROVE  /\ job'[u].epoch <= epoch
               /\ job'[u].epoch = epoch =>
                    /\ job'[u].tag <= tags'
                    /\ job'[u].tag \in DOMAIN unacked' => unacked'[job'[u].tag].id = job'[u].id
    <3>1. CASE u = w
      BY <1>1, <1>5, <1>6, <1>9, <1>10, <3>1
    <3>2. CASE u # w
      <4>1. job'[u] = job[u] /\ job[u] \in Taken /\ job[u].tag \in Nat
        BY <1>10, <2>2, <3>2 DEF Inv, TypeInv, Taken
      <4>2. /\ job[u].epoch <= epoch
            /\ job[u].epoch = epoch =>
                 /\ job[u].tag <= tags
                 /\ job[u].tag \in DOMAIN unacked => unacked[job[u].tag].id = job[u].id
        BY <2>2, <4>1 DEF Inv, TagInv
      <4> QED BY <1>1, <1>5, <1>6, <4>1, <4>2
    <3> QED BY <3>1, <3>2
  <2> QED BY <1>2, <2>1, <2>2 DEF TagInv
<1>14. NoJobLost'
  <2> SUFFICES ASSUME NEW j \in accepted \ (ended \cup excused) PROVE AtBroker(j)'
    BY <1>2 DEF NoJobLost
  <2>1. AtBroker(j)
    BY DEF Inv, NoJobLost
  <2> QED BY <1>4, <1>6, <2>1 DEF AtBroker
<1> QED BY <1>12, <1>13, <1>14 DEF Inv

(* A message is acknowledged only for the job it is about, which is ended, *)
(* or under a tag of an older channel, and then its job is excused.        *)
LEMMA UpdateJobInv ==
  ASSUME Inv, NEW w \in Workers, job[w] # NoJob, NEW v \in {"completed", "failed", "retrying"}, UpdateJob(w, v),
         IsBag(retries')
  PROVE  Inv'
<1>1. PICK j : j = job[w]
  OBVIOUS
<1>2. j \in Taken /\ j.id \in Jobs /\ j.attempts \in Nat /\ j.tag \in Nat
  BY <1>1 DEF Inv, TypeInv, Taken
<1>3. /\ Settle(j.tag, Requeues(j, v))
      /\ waiting' = (IF channel = "closed" THEN waiting ELSE waiting \ {j.id})
      /\ ended' = IF /\ channel = "open" /\ j.epoch = epoch
                     /\ v = "completed" \/ (v = "failed" /\ j.attempts >= MaxAttempts)
                    THEN ended \cup {j.id} ELSE ended
      /\ excused' = IF channel = "open" /\ j.epoch # epoch /\ j.tag \in DOMAIN unacked
                      THEN excused \cup {unacked[j.tag].id} ELSE excused
      /\ job' = [job EXCEPT ![w] = NoJob]
      /\ UNCHANGED <<tags, scan, accepted, added, runs, epoch>>
  BY <1>1 DEF UpdateJob
<1>4. Requeues(j, v) \in BOOLEAN
  BY DEF Requeues
<1>5. /\ IsBag(queue') /\ IsUnacked(unacked') /\ channel' \in {"open", "broken", "closed"}
      /\ DOMAIN unacked' \subseteq DOMAIN unacked
      /\ \A t \in DOMAIN unacked' : unacked'[t] = unacked[t]
      /\ \A i : AtBroker(i) => \/ AtBroker(i)'
                               \/ /\ channel = "open" /\ j.tag \in DOMAIN unacked
                                  /\ ~Requeues(j, v) /\ unacked[j.tag].id = i
  BY <1>3, <1>4, SettleFacts DEF Inv
<1>6. job' \in [Workers -> Taken \cup {NoJob}] /\ \A u \in Workers : job'[u] = NoJob \/ job'[u] = job[u]
  BY <1>3 DEF Inv, TypeInv
<1>7. TypeInv'
  BY <1>3, <1>5, <1>6 DEF Inv, TypeInv
<1>8. TagInv'
  BY <1>3, <1>5, <1>6 DEF Inv, TagInv
<1>9. NoJobLost'
  <2> SUFFICES ASSUME NEW i \in accepted \ (ended' \cup excused'), ~AtBroker(i)' PROVE FALSE
    BY <1>3 DEF NoJobLost
  <2>1. AtBroker(i)
    BY <1>3 DEF Inv, NoJobLost
  <2>2. channel = "open" /\ j.tag \in DOMAIN unacked /\ ~Requeues(j, v) /\ unacked[j.tag].id = i
    BY <1>5, <2>1
  <2>3. j.epoch = epoch
    BY <1>3, <2>2
  <2>4. unacked[j.tag].id = j.id
    BY <1>1, <2>2, <2>3 DEF Inv, TagInv
  <2>5. v = "completed" \/ (v = "failed" /\ j.attempts >= MaxAttempts)
    BY <1>2, <2>2, RabbitAssumption DEF Requeues
  <2> QED BY <1>3, <2>2, <2>3, <2>4, <2>5
<1> QED BY <1>7, <1>8, <1>9 DEF Inv

(* The end of a handler (queue.go:487-546) settles by UpdateJob. *)
LEMMA HandlerInv ==
  ASSUME Inv, NEW w \in Workers, HandlerRetries(w) \/ \E s \in {"completed", "failed"} : HandlerEnds(w, s)
  PROVE  Inv'
<1>1. CASE HandlerRetries(w)
  <2>1. job[w] # NoJob /\ UpdateJob(w, "retrying")
    BY <1>1 DEF HandlerRetries
  <2>2. job[w] \in Taken
    BY <2>1 DEF Inv, TypeInv
  <2>3. Message(job[w].id, job[w].attempts) \in Messages
    BY <2>2 DEF Message, Messages, Taken
  <2>4. IsBag(retries')
    BY <1>1, <2>3, BagAdd DEF HandlerRetries, Inv, TypeInv
  <2> QED BY <2>1, <2>4, UpdateJobInv
<1>2. ASSUME NEW s \in {"completed", "failed"}, HandlerEnds(w, s) PROVE Inv'
  BY <1>2, UpdateJobInv DEF HandlerEnds, Inv, TypeInv
<1> QED BY <1>1, <1>2

(* The goroutine of a retry (queue.go:505-512) publishes at most. *)
LEMMA RetryWakesInv ==
  ASSUME Inv, NEW m \in DOMAIN retries, RetryWakes(m)
  PROVE  Inv'
<1>1. m \in Messages /\ m.id \in Jobs
  BY DEF Inv, TypeInv, IsBag, Messages
<1>2. IsBag(retries')
  BY BagTake DEF RetryWakes, Inv, TypeInv
<1>3. IsBag(queue') /\ DOMAIN queue \subseteq DOMAIN queue' /\ waiting' \subseteq Jobs
  <2>1. CASE channel = "closed"
    BY <2>1 DEF RetryWakes, Inv, TypeInv
  <2>2. CASE channel # "closed"
    <3>1. Publish(m) /\ waiting' = waiting \ {m.id}
      BY <2>2 DEF RetryWakes
    <3> QED BY <1>1, <3>1, PublishFacts DEF Inv, TypeInv
  <2> QED BY <2>1, <2>2
<1>4. added' \in [Jobs -> Nat]
  BY <1>1, RepublishedFacts DEF RetryWakes, Inv
<1>5. TypeInv'
  BY <1>2, <1>3, <1>4 DEF Inv, TypeInv, RetryWakes
<1> QED BY <1>3, <1>5, KeepsInv DEF RetryWakes

-----------------------------------------------------------------------------
(* scheduleProcessor *)

(* GetJobs (rabbitmq.go:363-385) leaves the broker alone. *)
LEMMA ScanListInv ==
  ASSUME Inv, ScanList
  PROVE  Inv'
<1>1. TypeInv'
  BY DEF Inv, TypeInv, ScanList, brokerVars, historyVars
<1> QED BY <1>1, KeepsInv DEF ScanList, brokerVars, historyVars

(* scheduleProcessor (queue.go:574-583) publishes at most. *)
LEMMA ScanJobInv ==
  ASSUME Inv, NEW j \in Jobs, ScanJob(j)
  PROVE  Inv'
<1>1. Message(j, 0) \in Messages /\ Message(j, 0).id = j
  BY DEF Message, Messages
<1>2. CASE j \notin due \/ channel = "closed"
  <2>1. TypeInv'
    BY <1>2 DEF Inv, TypeInv, ScanJob
  <2> QED BY <1>2, <2>1, KeepsInv DEF ScanJob
<1>3. CASE ~(j \notin due \/ channel = "closed")
  <2>1. /\ Publish(Message(j, 0)) /\ waiting' = waiting \ {j} /\ Republished(j)
        /\ accepted' = IF channel = "open" THEN accepted \cup {j} ELSE accepted
    BY <1>3 DEF ScanJob
  <2>2. /\ IsBag(queue') /\ DOMAIN queue \subseteq DOMAIN queue'
        /\ channel = "open" => Message(j, 0) \in DOMAIN queue'
    BY <1>1, <2>1, PublishFacts DEF Inv
  <2>3. added' \in [Jobs -> Nat]
    BY <2>1, RepublishedFacts DEF Inv
  <2>4. TypeInv'
    BY <2>1, <2>2, <2>3 DEF Inv, TypeInv, ScanJob
  <2>5. \A i \in accepted' : i \in accepted \/ \E m \in DOMAIN queue' : m.id = i
    BY <1>1, <2>1, <2>2
  <2> QED BY <2>2, <2>4, <2>5, KeepsInv DEF ScanJob
<1> QED BY <1>2, <1>3

(* A schedule time that comes leaves the broker alone. *)
LEMMA TimePassesInv ==
  ASSUME Inv, NEW j \in Jobs, TimePasses(j)
  PROVE  Inv'
<1>1. TypeInv'
  BY DEF Inv, TypeInv, TimePasses, brokerVars, historyVars
<1> QED BY <1>1, KeepsInv DEF TimePasses, brokerVars, historyVars

-----------------------------------------------------------------------------
(* Faults *)

(* A channel goes, and a new one may take its place: a job of the old one  *)
(* is never taken for a job of the new one.                                *)
LEMMA FaultInv ==
  ASSUME Inv, ConnectionLost \/ Close \/ Reconnect \/ Crash
  PROVE  Inv'
<1>1. PICK v \in {"open", "broken", "closed"} : ChannelGoes(v)
  BY DEF ConnectionLost, Close, Reconnect, Crash
<1>2. /\ IsBag(queue') /\ IsUnacked(unacked') /\ channel' \in {"open", "broken", "closed"}
      /\ DOMAIN unacked' = {} /\ \A j : AtBroker(j) => AtBroker(j)'
  BY <1>1, ChannelGoesFacts DEF Inv
<1>3. accepted' = accepted /\ ended' = ended /\ excused' = excused /\ added' = added /\ runs' = runs
  BY DEF ConnectionLost, Close, Reconnect, Crash, historyVars
<1>4. NoJobLost'
  BY <1>2, <1>3 DEF Inv, NoJobLost
<1>5. CASE ConnectionLost \/ Close
  <2>1. UNCHANGED <<tags, waiting, scan, job, retries, epoch>>
    BY <1>5 DEF ConnectionLost, Close, programVars, historyVars
  <2>2. TypeInv' /\ TagInv'
    BY <1>2, <1>3, <2>1 DEF Inv, TypeInv, TagInv
  <2> QED BY <1>4, <2>2 DEF Inv
<1>6. CASE Reconnect
  <2>1. UNCHANGED <<waiting, scan, job, retries>> /\ tags' = 0 /\ epoch' = epoch + 1
    BY <1>6 DEF Reconnect, programVars
  <2>2. TypeInv'
    BY <1>2, <1>3, <2>1 DEF Inv, TypeInv
  <2>3. TagInv'
    <3> SUFFICES ASSUME NEW w \in Workers, job[w] # NoJob
                 PROVE  job[w].epoch <= epoch + 1 /\ job[w].epoch # epoch + 1
      BY <1>2, <2>1 DEF TagInv
    <3>1. job[w] \in Taken /\ job[w].epoch \in Nat /\ job[w].epoch <= epoch /\ epoch \in Nat
      BY DEF Inv, TypeInv, TagInv, Taken
    <3> QED BY <3>1
  <2> QED BY <1>4, <2>2, <2>3 DEF Inv
<1>7. CASE Crash
  <2>1. /\ waiting' = {} /\ scan' = {} /\ retries' = EmptyBag /\ job' = [w \in Workers |-> NoJob]
        /\ tags' = 0 /\ epoch' = epoch + 1
    BY <1>7 DEF Crash
  <2>2. IsBag(EmptyBag)
    BY DEF EmptyBag, SetToBag, IsBag
  <2>3. TypeInv'
    BY <1>2, <1>3, <2>1, <2>2 DEF Inv, TypeInv
  <2>4. TagInv'
    BY <1>2, <2>1 DEF TagInv
  <2> QED BY <1>4, <2>3, <2>4 DEF Inv
<1> QED BY <1>5, <1>6, <1>7

(* A publication that is lost with its connection (rabbitmq.go:231). *)
LEMMA EnqueueLostInv ==
  ASSUME Inv, NEW j \in Jobs, EnqueueLost(j)
  PROVE  Inv'
<1>1. /\ ChannelGoes("broken") /\ accepted' = accepted \cup {j} /\ excused' = excused \cup {j}
      /\ UNCHANGED <<tags, scan, job, retries, ended, added, runs, epoch>>
      /\ waiting' \subseteq waiting \cup {j}
  BY DEF EnqueueLost
<1>2. /\ IsBag(queue') /\ IsUnacked(unacked') /\ channel' \in {"open", "broken", "closed"}
      /\ DOMAIN unacked' = {} /\ \A i : AtBroker(i) => AtBroker(i)'
  BY <1>1, ChannelGoesFacts DEF Inv
<1>3. TypeInv' /\ TagInv'
  BY <1>1, <1>2 DEF Inv, TypeInv, TagInv
<1>4. NoJobLost'
  BY <1>1, <1>2 DEF Inv, NoJobLost
<1> QED BY <1>3, <1>4 DEF Inv

-----------------------------------------------------------------------------
(* The theorems *)

(* NewRabbitMQ (rabbitmq.go:65-184) starts with nothing accepted. *)
LEMMA InitInv == Init => Inv
<1> SUFFICES ASSUME Init PROVE Inv
  OBVIOUS
<1>1. IsBag(EmptyBag)
  BY DEF EmptyBag, SetToBag, IsBag
<1>2. IsUnacked(NoMessages) /\ DOMAIN NoMessages = {}
  <2>1. DOMAIN NoMessages = {} /\ NoMessages \in [{} -> Messages]
    BY DEF NoMessages
  <2> QED BY <2>1, FS_EmptySet DEF IsUnacked
<1>3. TypeInv
  BY <1>1, <1>2 DEF Init, TypeInv
<1>4. TagInv
  BY <1>2 DEF Init, TagInv
<1> QED BY <1>3, <1>4 DEF Inv, Init, NoJobLost

(* Every step of the program, its connection and the broker keeps the invariant. *)
LEMMA NextInv == Inv /\ [Next]_vars => Inv'
<1> SUFFICES ASSUME Inv, [Next]_vars PROVE Inv'
  OBVIOUS
<1>1. CASE UNCHANGED vars
  <2>1. TypeInv'
    BY <1>1 DEF Inv, TypeInv, vars, brokerVars, programVars, historyVars
  <2> QED BY <1>1, <2>1, KeepsInv DEF vars, brokerVars, programVars, historyVars
<1>2. ASSUME NEW j \in Jobs,
             Enqueue(j) \/ EnqueueLost(j) \/ DeleteJob(j) \/ ScanJob(j) \/ TimePasses(j)
      PROVE  Inv'
  BY <1>2, EnqueueInv, EnqueueLostInv, DeleteJobInv, ScanJobInv, TimePassesInv
<1>3. ASSUME NEW w \in Workers, Dequeue(w) PROVE Inv'
  BY <1>3, DequeueInv
<1>4. ASSUME NEW w \in Workers, HandlerRetries(w) \/ \E s \in {"completed", "failed"} : HandlerEnds(w, s)
      PROVE  Inv'
  BY <1>4, HandlerInv
<1>5. ASSUME NEW m \in DOMAIN retries, RetryWakes(m) PROVE Inv'
  BY <1>5, RetryWakesInv
<1>6. CASE ScanList \/ PurgeQueue \/ ConnectionLost \/ Close \/ Reconnect \/ Crash
  BY <1>6, ScanListInv, PurgeQueueInv, FaultInv
<1> QED BY <1>1, <1>2, <1>3, <1>4, <1>5, <1>6 DEF Next

(* The types, and the tags: a job got on the channel in use carries the    *)
(* tag of its own message or of none, however often Reconnect              *)
(* (rabbitmq.go:491-492) has started the tags from 1 again.                *)
THEOREM TagsNameTheirMessages == Spec => [](TypeInv /\ TagInv)
<1>1. Inv => TypeInv /\ TagInv
  BY DEF Inv
<1> QED BY <1>1, InitInv, NextInv, PTL DEF Spec

(* The broker has a message of every accepted job until the worker that    *)
(* got it has completed it or used up its attempts, whatever crashes,      *)
(* broken connections, retries and reconnections come in between.          *)
THEOREM AcceptedJobsStay == Spec => []NoJobLost
<1>1. Inv => NoJobLost
  BY DEF Inv
<1> QED BY <1>1, InitInv, NextInv, PTL DEF Spec

-----------------------------------------------------------------------------
(* The number of messages of a job *)

Amount(q, m) == IF m \in DOMAIN q THEN q[m] ELSE 0

(* What the publications of a job account for. *)
Published(j) == added[j] + (IF j \in accepted THEN 1 ELSE 0)

CopyInv == \A j \in Jobs : IsFiniteSet(Queued(queue, j)) /\ Copies(j) <= Published(j)

(* The copies of a message are numbered up to its amount. *)
LEMMA QueuedMembers ==
  ASSUME NEW q, IsBag(q), NEW j
  PROVE  /\ \A m, n : <<m, n>> \in Queued(q, j) <=> m.id = j /\ n \in 1 .. Amount(q, m)
         /\ \A p \in Queued(q, j) : \E m, n : p = <<m, n>>
         /\ \A m : Amount(q, m) \in Nat
<1>1. \A m : Amount(q, m) \in Nat
  BY DEF Amount, IsBag
<1>2. ASSUME NEW p \in Queued(q, j)
      PROVE  \E m \in DOMAIN q : m.id = j /\ \E n \in 1 .. q[m] : p = <<m, n>>
  <2>1. PICK m \in {x \in DOMAIN q : x.id = j} : p \in {m} \X (1 .. q[m])
    BY <1>2 DEF Queued
  <2> QED BY <2>1
<1>3. ASSUME NEW m, NEW n PROVE <<m, n>> \in Queued(q, j) <=> m.id = j /\ n \in 1 .. Amount(q, m)
  <2>1. ASSUME <<m, n>> \in Queued(q, j) PROVE m.id = j /\ n \in 1 .. Amount(q, m)
    BY <2>1, <1>2 DEF Amount
  <2>2. ASSUME m.id = j, n \in 1 .. Amount(q, m) PROVE <<m, n>> \in Queued(q, j)
    <3>1. m \in DOMAIN q /\ n \in 1 .. q[m]
      BY <2>2 DEF Amount
    <3>2. <<m, n>> \in {m} \X (1 .. q[m]) /\ m \in {x \in DOMAIN q : x.id = j}
      BY <3>1, <2>2
    <3> QED BY <3>2 DEF Queued
  <2> QED BY <2>1, <2>2
<1> QED BY <1>1, <1>2, <1>3

(* A publication (rabbitmq.go:231) adds one copy. *)
LEMMA QueuedAdd ==
  ASSUME NEW q, IsBag(q), NEW m \in Messages, NEW j, IsFiniteSet(Queued(q, j))
  PROVE  /\ IsFiniteSet(Queued(q (+) SetToBag({m}), j))
         /\ Cardinality(Queued(q (+) SetToBag({m}), j))
              = Cardinality(Queued(q, j)) + (IF m.id = j THEN 1 ELSE 0)
<1>1. PICK r : r = q (+) SetToBag({m})
  OBVIOUS
<1>2. IsBag(r)
  BY <1>1, BagAdd
<1>3. PICK a \in Nat : a = Amount(q, m)
  BY QueuedMembers
<1>4. Amount(r, m) = a + 1 /\ \A e : e # m => Amount(r, e) = Amount(q, e)
  BY <1>1, <1>3 DEF SetToBag, (+), IsBag, Amount
<1>5. CASE m.id = j
  <2>1. Queued(r, j) = Queued(q, j) \cup {<<m, a + 1>>}
    <3>1. ASSUME NEW p \in Queued(r, j) PROVE p \in Queued(q, j) \cup {<<m, a + 1>>}
      <4>1. PICK e, n : p = <<e, n>>
        BY <3>1, <1>2, QueuedMembers
      <4>2. e.id = j /\ n \in 1 .. Amount(r, e)
        BY <3>1, <4>1, <1>2, QueuedMembers
      <4>3. CASE e = m /\ n = a + 1
        BY <4>1, <4>3
      <4>4. CASE ~(e = m /\ n = a + 1)
        <5>1. n \in 1 .. Amount(q, e)
          BY <4>2, <4>4, <1>3, <1>4
        <5> QED BY <4>1, <4>2, <5>1, QueuedMembers
      <4> QED BY <4>3, <4>4
    <3>2. ASSUME NEW p \in Queued(q, j) PROVE p \in Queued(r, j)
      <4>1. PICK e, n : p = <<e, n>>
        BY <3>2, QueuedMembers
      <4>2. e.id = j /\ n \in 1 .. Amount(q, e)
        BY <3>2, <4>1, QueuedMembers
      <4>3. n \in 1 .. Amount(r, e)
        BY <4>2, <1>3, <1>4
      <4> QED BY <4>1, <4>2, <4>3, <1>2, QueuedMembers
    <3>3. <<m, a + 1>> \in Queued(r, j)
      <4>1. a + 1 \in 1 .. Amount(r, m)
        BY <1>4
      <4> QED BY <4>1, <1>2, <1>5, QueuedMembers
    <3> QED BY <3>1, <3>2, <3>3
  <2>2. <<m, a + 1>> \notin Queued(q, j)
    <3>1. a + 1 \notin 1 .. Amount(q, m)
      BY <1>3
    <3> QED BY <3>1, QueuedMembers
  <2>3. /\ IsFiniteSet(Queued(q, j) \cup {<<m, a + 1>>})
        /\ Cardinality(Queued(q, j) \cup {<<m, a + 1>>}) = Cardinality(Queued(q, j)) + 1
    BY <2>2, FS_AddElement
  <2> QED BY <2>1, <2>3, <1>1, <1>5
<1>6. CASE m.id # j
  <2>1. \A p : p \in Queued(r, j) <=> p \in Queued(q, j)
    <3>1. ASSUME NEW e, NEW n PROVE <<e, n>> \in Queued(r, j) <=> <<e, n>> \in Queued(q, j)
      <4>1. <<e, n>> \in Queued(r, j) <=> e.id = j /\ n \in 1 .. Amount(r, e)
        BY <1>2, QueuedMembers
      <4>2. <<e, n>> \in Queued(q, j) <=> e.id = j /\ n \in 1 .. Amount(q, e)
        BY QueuedMembers
      <4>3. e.id = j => Amount(r, e) = Amount(q, e)
        BY <1>4, <1>6
      <4> QED BY <4>1, <4>2, <4>3
    <3> QED BY <3>1, <1>2, QueuedMembers
  <2>2. Queued(r, j) = Queued(q, j)
    BY <2>1
  <2>3. Cardinality(Queued(q, j)) \in Nat
    BY FS_CardinalityType
  <2> QED BY <2>2, <2>3, <1>1, <1>6
<1> QED BY <1>5, <1>6

(* A delivery (rabbitmq.go:265) takes one copy. *)
LEMMA QueuedTake ==
  ASSUME NEW q, IsBag(q), NEW m \in DOMAIN q, NEW j, IsFiniteSet(Queued(q, j))
  PROVE  /\ IsFiniteSet(Queued(q (-) SetToBag({m}), j))
         /\ Cardinality(Queued(q (-) SetToBag({m}), j))
              = Cardinality(Queued(q, j)) - (IF m.id = j THEN 1 ELSE 0)
<1>1. PICK r : r = q (-) SetToBag({m})
  OBVIOUS
<1>2. IsBag(r)
  BY <1>1, BagTake
<1>3. PICK a \in Nat : a = Amount(q, m) /\ a > 0
  BY DEF Amount, IsBag
<1>4. Amount(r, m) = a - 1 /\ \A e : e # m => Amount(r, e) = Amount(q, e)
  <2>1. PICK b : b = [e \in DOMAIN q |-> IF e = m THEN q[e] - 1 ELSE q[e]]
    OBVIOUS
  <2>2. r = [e \in {d \in DOMAIN b : b[d] > 0} |-> b[e]]
    BY <1>1, <2>1 DEF (-), SetToBag
  <2>3. \A e \in DOMAIN q : q[e] \in Nat /\ q[e] > 0
    BY DEF IsBag
  <2>4. DOMAIN b = DOMAIN q /\ \A e \in DOMAIN q : b[e] = IF e = m THEN q[e] - 1 ELSE q[e]
    BY <2>1
  <2>5. DOMAIN r = {d \in DOMAIN q : b[d] > 0} /\ \A e \in DOMAIN r : r[e] = b[e]
    BY <2>2, <2>4
  <2> QED BY <2>3, <2>4, <2>5, <1>3 DEF Amount
<1>5. CASE m.id = j
  <2>1. Queued(r, j) = Queued(q, j) \ {<<m, a>>}
    <3>1. ASSUME NEW p \in Queued(r, j) PROVE p \in Queued(q, j) /\ p # <<m, a>>
      <4>1. PICK e, n : p = <<e, n>>
        BY <3>1, <1>2, QueuedMembers
      <4>2. e.id = j /\ n \in 1 .. Amount(r, e)
        BY <3>1, <4>1, <1>2, QueuedMembers
      <4>3. n \in 1 .. Amount(q, e) /\ ~(e = m /\ n = a)
        BY <4>2, <1>3, <1>4
      <4> QED BY <4>1, <4>2, <4>3, QueuedMembers
    <3>2. ASSUME NEW p \in Queued(q, j), p # <<m, a>> PROVE p \in Queued(r, j)
      <4>1. PICK e, n : p = <<e, n>>
        BY <3>2, QueuedMembers
      <4>2. e.id = j /\ n \in 1 .. Amount(q, e) /\ ~(e = m /\ n = a)
        BY <3>2, <4>1, QueuedMembers
      <4>3. n \in 1 .. Amount(r, e)
        BY <4>2, <1>3, <1>4
      <4> QED BY <4>1, <4>2, <4>3, <1>2, QueuedMembers
    <3> QED BY <3>1, <3>2
  <2>2. <<m, a>> \in Queued(q, j)
    <3>1. a \in 1 .. Amount(q, m)
      BY <1>3
    <3> QED BY <3>1, <1>5, QueuedMembers
  <2> QED BY <2>1, <2>2, <1>1, <1>5, FS_RemoveElement
<1>6. CASE m.id # j
  <2>1. \A p : p \in Queued(r, j) <=> p \in Queued(q, j)
    <3>1. ASSUME NEW e, NEW n PROVE <<e, n>> \in Queued(r, j) <=> <<e, n>> \in Queued(q, j)
      <4>1. <<e, n>> \in Queued(r, j) <=> e.id = j /\ n \in 1 .. Amount(r, e)
        BY <1>2, QueuedMembers
      <4>2. <<e, n>> \in Queued(q, j) <=> e.id = j /\ n \in 1 .. Amount(q, e)
        BY QueuedMembers
      <4>3. e.id = j => Amount(r, e) = Amount(q, e)
        BY <1>4, <1>6
      <4> QED BY <4>1, <4>2, <4>3
    <3> QED BY <3>1, <1>2, QueuedMembers
  <2>2. Queued(r, j) = Queued(q, j)
    BY <2>1
  <2>3. Cardinality(Queued(q, j)) \in Nat
    BY FS_CardinalityType
  <2> QED BY <2>2, <2>3, <1>1, <1>6
<1> QED BY <1>5, <1>6

(* The messages of a channel that goes come back once each: the copies     *)
(* they add to the queue can be numbered by their tags.                    *)
LEMMA QueuedReturned ==
  ASSUME NEW q, IsBag(q), NEW un, IsUnacked(un), NEW j, IsFiniteSet(Queued(q, j))
  PROVE  /\ IsFiniteSet(Queued(Returned(q, un), j))
         /\ Cardinality(Queued(Returned(q, un), j))
              <= Cardinality(Queued(q, j)) + Cardinality(Held(un, j))
<1> DEFINE Of(m) == {t \in DOMAIN un : un[t] = m}
           Sent == {un[t] : t \in DOMAIN un}
<1>1. PICK r : r = Returned(q, un)
  OBVIOUS
<1>2. IsBag(r)
  BY <1>1, BagReturned
<1>3. ASSUME NEW m PROVE IsFiniteSet(Of(m)) /\ Cardinality(Of(m)) \in Nat
  <2>1. Of(m) \subseteq DOMAIN un
    OBVIOUS
  <2>2. IsFiniteSet(Of(m))
    BY <2>1, FS_Subset DEF IsUnacked
  <2> QED BY <2>2, FS_CardinalityType
<1>4. ASSUME NEW m PROVE Amount(r, m) = Amount(q, m) + Cardinality(Of(m))
  <2>1. PICK b : b = [e \in Sent |-> Cardinality(Of(e))]
    OBVIOUS
  <2>2. r = q (+) b
    BY <1>1, <2>1 DEF Returned
  <2>3. /\ DOMAIN b = Sent /\ DOMAIN r = DOMAIN q \cup Sent
        /\ \A e \in DOMAIN r :
             r[e] = (IF e \in DOMAIN q THEN q[e] ELSE 0) + (IF e \in Sent THEN b[e] ELSE 0)
    BY <2>1, <2>2 DEF (+)
  <2>4. \A e : Amount(q, e) \in Nat
    BY QueuedMembers
  <2>5. CASE m \in Sent
    <3>1. b[m] = Cardinality(Of(m))
      BY <2>1, <2>5
    <3>2. r[m] = (IF m \in DOMAIN q THEN q[m] ELSE 0) + b[m]
      BY <2>3, <2>5
    <3> QED BY <3>1, <3>2, <2>3, <2>5 DEF Amount
  <2>6. CASE m \notin Sent
    <3>1. Of(m) = {}
      BY <2>6
    <3>2. Cardinality(Of(m)) = 0
      BY <3>1, FS_EmptySet
    <3>3. Amount(r, m) = Amount(q, m)
      <4>1. CASE m \in DOMAIN q
        <5>1. q[m] \in Nat
          BY <4>1 DEF IsBag
        <5> QED BY <4>1, <5>1, <2>3, <2>6 DEF Amount
      <4>2. CASE m \notin DOMAIN q
        BY <4>2, <2>3, <2>6 DEF Amount
      <4> QED BY <4>1, <4>2
    <3> QED BY <3>2, <3>3, <2>4
  <2> QED BY <2>5, <2>6
<1> HIDE DEF Of
<1>5. PICK new : new = Queued(r, j) \ Queued(q, j)
  OBVIOUS
<1>6. ASSUME NEW m PROVE ExistsBijection(1 .. Cardinality(Of(m)), Of(m))
  BY <1>3, FS_CardinalityType
<1>7. PICK g : g = [m \in Sent |-> CHOOSE f : f \in Bijection(1 .. Cardinality(Of(m)), Of(m))]
  OBVIOUS
<1>8. ASSUME NEW m \in Sent
      PROVE  /\ g[m] \in [1 .. Cardinality(Of(m)) -> Of(m)]
             /\ \A x, y \in 1 .. Cardinality(Of(m)) : g[m][x] = g[m][y] => x = y
  <2>1. PICK f : f \in Bijection(1 .. Cardinality(Of(m)), Of(m))
    BY <1>6 DEF ExistsBijection
  <2>2. g[m] \in Bijection(1 .. Cardinality(Of(m)), Of(m))
    BY <2>1, <1>7
  <2> QED BY <2>2 DEF Bijection, Injection, IsInjective
<1>9. ASSUME NEW p \in new
      PROVE  /\ p = <<p[1], p[2]>> /\ p[1].id = j /\ p[1] \in Sent
             /\ p[2] \in Int /\ p[2] - Amount(q, p[1]) \in 1 .. Cardinality(Of(p[1]))
  <2>1. PICK m, n : p = <<m, n>>
    BY <1>2, <1>5, <1>9, QueuedMembers
  <2>2. m.id = j /\ n \in 1 .. Amount(r, m) /\ n \notin 1 .. Amount(q, m)
    BY <1>2, <1>5, <1>9, <2>1, QueuedMembers
  <2>3. Amount(r, m) = Amount(q, m) + Cardinality(Of(m)) /\ Amount(q, m) \in Nat /\ Cardinality(Of(m)) \in Nat
    BY <1>3, <1>4, QueuedMembers
  <2>4. n \in Int /\ n - Amount(q, m) \in 1 .. Cardinality(Of(m))
    BY <2>2, <2>3
  <2>5. Of(m) # {}
    BY <2>4, FS_EmptySet, <2>3
  <2>6. m \in Sent
    BY <2>5 DEF Of
  <2> QED BY <2>1, <2>2, <2>4, <2>6
<1>10. PICK h : h = [p \in new |-> g[p[1]][p[2] - Amount(q, p[1])]]
  OBVIOUS
<1>11. h \in Injection(new, Held(un, j))
  <2>1. ASSUME NEW p \in new PROVE h[p] \in Of(p[1]) /\ h[p] \in Held(un, j)
    <3>1. PICK m, k : m = p[1] /\ k = p[2] - Amount(q, p[1])
      OBVIOUS
    <3>2. m \in Sent /\ k \in 1 .. Cardinality(Of(m))
      BY <3>1, <1>9
    <3>3. g[m] \in [1 .. Cardinality(Of(m)) -> Of(m)]
      BY <3>2, <1>8
    <3>4. h[p] = g[m][k]
      BY <3>1, <1>10
    <3>5. h[p] \in Of(p[1])
      BY <3>1, <3>2, <3>3, <3>4
    <3> QED BY <3>5, <1>9 DEF Of, Held
  <2>2. ASSUME NEW p \in new, NEW s \in new, h[p] = h[s] PROVE p = s
    <3>1. p[1] = s[1]
      BY <2>1, <2>2 DEF Of
    <3>2. p[2] - Amount(q, p[1]) = s[2] - Amount(q, p[1])
      <4>1. PICK m, k, l : m = p[1] /\ k = p[2] - Amount(q, m) /\ l = s[2] - Amount(q, m)
        OBVIOUS
      <4>2. m \in Sent /\ k \in 1 .. Cardinality(Of(m)) /\ l \in 1 .. Cardinality(Of(m))
        BY <3>1, <4>1, <1>9
      <4>3. h[p] = g[m][k] /\ h[s] = g[m][l]
        BY <3>1, <4>1, <1>10
      <4>4. g[m][k] = g[m][l] => k = l
        BY <4>2, <1>8
      <4> QED BY <2>2, <4>1, <4>3, <4>4
    <3>3. p[2] = s[2]
      <4>1. Amount(q, p[1]) \in Nat /\ p[2] \in Int /\ s[2] \in Int
        BY <1>9, QueuedMembers
      <4> QED BY <3>2, <4>1
    <3>4. p = <<p[1], p[2]>> /\ s = <<s[1], s[2]>>
      BY <1>9
    <3> QED BY <3>1, <3>3, <3>4
  <2>3. h \in [new -> Held(un, j)]
    BY <2>1, <1>10
  <2> QED BY <2>2, <2>3 DEF Injection, IsInjective
<1>12. IsFiniteSet(Held(un, j))
  BY FS_Subset DEF IsUnacked, Held
<1>13. IsFiniteSet(new) /\ Cardinality(new) <= Cardinality(Held(un, j))
  BY <1>11, <1>12, FS_Injection
<1>14. Queued(r, j) \subseteq Queued(q, j) \cup new
  BY <1>5
<1>15. /\ IsFiniteSet(Queued(q, j) \cup new)
       /\ Cardinality(Queued(q, j) \cup new)
            = Cardinality(Queued(q, j)) + Cardinality(new) - Cardinality(Queued(q, j) \cap new)
  BY <1>13, FS_Union
<1>16. IsFiniteSet(Queued(r, j)) /\ Cardinality(Queued(r, j)) <= Cardinality(Queued(q, j) \cup new)
  BY <1>14, <1>15, FS_Subset
<1>17. Queued(q, j) \cap new = {} /\ Cardinality({}) = 0
  BY <1>5, FS_EmptySet
<1>18. /\ Cardinality(Queued(q, j)) \in Nat /\ Cardinality(new) \in Nat
       /\ Cardinality(Held(un, j)) \in Nat /\ Cardinality(Queued(r, j)) \in Nat
  BY <1>12, <1>13, <1>16, FS_CardinalityType
<1>19. Cardinality(Queued(q, j) \cup new) = Cardinality(Queued(q, j)) + Cardinality(new)
  <2>1. Cardinality(Queued(q, j) \cap new) = 0
    BY <1>17
  <2>2. Cardinality(Queued(q, j) \cup new) = Cardinality(Queued(q, j)) + Cardinality(new) - 0
    BY <1>15, <2>1
  <2> QED BY <1>18, <2>2
<1>20. Cardinality(Queued(r, j)) <= Cardinality(Queued(q, j)) + Cardinality(Held(un, j))
  BY <1>13, <1>16, <1>18, <1>19
<1> QED BY <1>1, <1>16, <1>20

(* The copies can be counted. *)
LEMMA CopiesType ==
  ASSUME IsUnacked(unacked), NEW j, IsFiniteSet(Queued(queue, j))
  PROVE  /\ IsFiniteSet(Held(unacked, j)) /\ Cardinality(Held(unacked, j)) \in Nat
         /\ Cardinality(Queued(queue, j)) \in Nat /\ Copies(j) \in Nat
<1>1. IsFiniteSet(Held(unacked, j))
  BY FS_Subset DEF IsUnacked, Held
<1>2. Cardinality(Held(unacked, j)) \in Nat /\ Cardinality(Queued(queue, j)) \in Nat
  BY <1>1, FS_CardinalityType
<1> QED BY <1>1, <1>2 DEF Copies

(* A step that makes neither a copy nor a publication.                      *)
LEMMA NoMoreCopies ==
  ASSUME Inv, CopyInv, Inv', added' = added, accepted' = accepted,
         \A j \in Jobs : IsFiniteSet(Queued(queue', j)) /\ Copies(j)' <= Copies(j)
  PROVE  CopyInv'
<1> SUFFICES ASSUME NEW j \in Jobs PROVE IsFiniteSet(Queued(queue', j)) /\ Copies(j)' <= Published(j)'
  BY DEF CopyInv
<1>1. Copies(j) \in Nat
  BY CopiesType DEF CopyInv, Inv, TypeInv
<1>2. Copies(j)' \in Nat
  <2>1. IsUnacked(unacked') /\ IsFiniteSet(Queued(queue', j))
    BY DEF Inv, TypeInv
  <2>2. IsFiniteSet(Held(unacked', j))
    BY <2>1, FS_Subset DEF IsUnacked, Held
  <2>3. Cardinality(Held(unacked', j)) \in Nat /\ Cardinality(Queued(queue', j)) \in Nat
    BY <2>1, <2>2, FS_CardinalityType
  <2> QED BY <2>3 DEF Copies
<1>3. Published(j)' = Published(j) /\ Published(j) \in Nat
  BY DEF Published, Inv, TypeInv
<1>4. Copies(j) <= Published(j) /\ Copies(j)' <= Copies(j)
  BY DEF CopyInv
<1> QED BY <1>1, <1>2, <1>3, <1>4

(* A channel that goes makes no copy: what it held is queued once. *)
LEMMA ChannelGoesCopies ==
  ASSUME Inv, CopyInv, NEW v, ChannelGoes(v), NEW j \in Jobs
  PROVE  IsFiniteSet(Queued(queue', j)) /\ Copies(j)' <= Copies(j)
<1>1. queue' = Returned(queue, unacked) /\ Held(unacked', j) = {}
  BY DEF ChannelGoes, NoMessages, Held
<1>2. /\ IsFiniteSet(Queued(queue', j))
      /\ Cardinality(Queued(queue', j)) <= Copies(j)
  BY <1>1, QueuedReturned DEF CopyInv, Inv, TypeInv, Copies
<1>3. Cardinality(Queued(queue', j)) \in Nat /\ Cardinality(Held(unacked', j)) = 0
  BY <1>1, <1>2, FS_CardinalityType, FS_EmptySet
<1>4. Copies(j)' = Cardinality(Queued(queue', j))
  BY <1>3 DEF Copies
<1> QED BY <1>2, <1>4

(* Ack (rabbitmq.go:329) takes a copy, Nack (rabbitmq.go:334, 336) only    *)
(* moves it.                                                               *)
LEMMA SettleCopies ==
  ASSUME Inv, CopyInv, NEW tag, NEW r \in BOOLEAN, Settle(tag, r), NEW j \in Jobs
  PROVE  IsFiniteSet(Queued(queue', j)) /\ Copies(j)' <= Copies(j)
<1>1. /\ IsFiniteSet(Queued(queue, j)) /\ IsFiniteSet(Held(unacked, j))
      /\ Cardinality(Held(unacked, j)) \in Nat /\ Cardinality(Queued(queue, j)) \in Nat
  BY CopiesType DEF CopyInv, Inv, TypeInv
<1>2. CASE channel # "open"
  <2>1. queue' = queue /\ unacked' = unacked
    BY <1>2 DEF Settle
  <2> QED BY <1>1, <2>1 DEF Copies
<1>3. CASE channel = "open" /\ tag \notin DOMAIN unacked
  <2>1. ChannelGoes("broken")
    BY <1>3 DEF Settle
  <2> QED BY <2>1, ChannelGoesCopies
<1>4. CASE channel = "open" /\ tag \in DOMAIN unacked
  <2>1. PICK m : m = unacked[tag]
    OBVIOUS
  <2>2. /\ unacked' = [t \in DOMAIN unacked \ {tag} |-> unacked[t]]
        /\ queue' = IF r THEN queue (+) SetToBag({m}) ELSE queue
    BY <1>4, <2>1 DEF Settle
  <2>3. m \in Messages /\ IsBag(queue)
    BY <1>4, <2>1 DEF Inv, TypeInv, IsUnacked
  <2>4. /\ IsFiniteSet(Queued(queue', j)) /\ Cardinality(Queued(queue', j)) \in Nat
        /\ Cardinality(Queued(queue', j)) <= Cardinality(Queued(queue, j)) + (IF m.id = j THEN 1 ELSE 0)
    <3>1. CASE r
      <4>1. queue' = queue (+) SetToBag({m})
        BY <2>2, <3>1
      <4>2. /\ IsFiniteSet(Queued(queue', j))
            /\ Cardinality(Queued(queue', j)) = Cardinality(Queued(queue, j)) + (IF m.id = j THEN 1 ELSE 0)
        BY <1>1, <2>3, <4>1, QueuedAdd
      <4> QED BY <1>1, <4>2
    <3>2. CASE ~r
      BY <1>1, <2>2, <3>2
    <3> QED BY <3>1, <3>2
  <2>5. Held(unacked', j) = Held(unacked, j) \ {tag}
    BY <2>2 DEF Held
  <2>6. tag \in Held(unacked, j) <=> m.id = j
    BY <1>4, <2>1 DEF Held
  <2>7. Cardinality(Held(unacked', j)) = Cardinality(Held(unacked, j)) - (IF m.id = j THEN 1 ELSE 0)
    <3>1. Cardinality(Held(unacked, j) \ {tag})
            = IF tag \in Held(unacked, j) THEN Cardinality(Held(unacked, j)) - 1 ELSE Cardinality(Held(unacked, j))
      BY <1>1, FS_RemoveElement
    <3> QED BY <1>1, <2>5, <2>6, <3>1
  <2>8. CASE m.id = j
    BY <1>1, <2>4, <2>7, <2>8 DEF Copies
  <2>9. CASE m.id # j
    BY <1>1, <2>4, <2>7, <2>9 DEF Copies
  <2> QED BY <2>8, <2>9
<1> QED BY <1>2, <1>3, <1>4

(* Every publication is accounted for. *)
LEMMA PublishCopies ==
  ASSUME Inv, CopyInv, Inv', NEW m \in Messages, Publish(m), unacked' = unacked,
         \A j \in Jobs : Published(j)' >= Published(j) + (IF channel = "open" /\ m.id = j THEN 1 ELSE 0)
  PROVE  CopyInv'
<1> SUFFICES ASSUME NEW j \in Jobs PROVE IsFiniteSet(Queued(queue', j)) /\ Copies(j)' <= Published(j)'
  BY DEF CopyInv
<1>1. /\ IsFiniteSet(Queued(queue, j)) /\ Copies(j) \in Nat
      /\ Cardinality(Held(unacked, j)) \in Nat /\ Cardinality(Queued(queue, j)) \in Nat
  BY CopiesType DEF CopyInv, Inv, TypeInv
<1>2. Published(j) \in Nat /\ Published(j)' \in Nat
  BY DEF Published, Inv, TypeInv
<1>3. Copies(j) <= Published(j)
  BY DEF CopyInv
<1>4. /\ IsFiniteSet(Queued(queue', j))
      /\ Cardinality(Queued(queue', j))
           = Cardinality(Queued(queue, j)) + (IF channel = "open" /\ m.id = j THEN 1 ELSE 0)
  <2>1. CASE channel = "open"
    <3>1. queue' = queue (+) SetToBag({m}) /\ IsBag(queue)
      BY <2>1 DEF Publish, Inv, TypeInv
    <3>2. /\ IsFiniteSet(Queued(queue', j))
          /\ Cardinality(Queued(queue', j)) = Cardinality(Queued(queue, j)) + (IF m.id = j THEN 1 ELSE 0)
      BY <1>1, <3>1, QueuedAdd
    <3> QED BY <2>1, <3>2
  <2>2. CASE channel # "open"
    BY <1>1, <2>2 DEF Publish
  <2> QED BY <2>1, <2>2
<1>5. Copies(j)' = Copies(j) + (IF channel = "open" /\ m.id = j THEN 1 ELSE 0)
  BY <1>1, <1>4 DEF Copies
<1>6. Published(j)' >= Published(j) + (IF channel = "open" /\ m.id = j THEN 1 ELSE 0)
  OBVIOUS
<1> QED BY <1>1, <1>2, <1>3, <1>4, <1>5, <1>6

(* A delivery moves a copy from the queue to the channel, whose tag is new. *)
LEMMA DequeueCopies ==
  ASSUME Inv, CopyInv, Inv', NEW w \in Workers, Dequeue(w)
  PROVE  CopyInv'
<1>1. PICK m \in DOMAIN queue :
        /\ queue' = queue (-) SetToBag({m})
        /\ unacked' = [t \in DOMAIN unacked \cup {tags + 1} |-> IF t = tags + 1 THEN m ELSE unacked[t]]
  BY DEF Dequeue
<1>2. accepted' = accepted /\ added' = added
  BY DEF Dequeue
<1>3. tags + 1 \notin DOMAIN unacked
  BY DEF Inv, TypeInv, TagInv, IsUnacked
<1>4. ASSUME NEW j \in Jobs PROVE IsFiniteSet(Queued(queue', j)) /\ Copies(j)' <= Copies(j)
  <2>1. /\ IsFiniteSet(Queued(queue, j)) /\ IsFiniteSet(Held(unacked, j))
        /\ Cardinality(Held(unacked, j)) \in Nat /\ Cardinality(Queued(queue, j)) \in Nat
    BY CopiesType DEF CopyInv, Inv, TypeInv
  <2>2. /\ IsFiniteSet(Queued(queue', j))
        /\ Cardinality(Queued(queue', j)) = Cardinality(Queued(queue, j)) - (IF m.id = j THEN 1 ELSE 0)
    BY <1>1, <2>1, QueuedTake DEF Inv, TypeInv
  <2>3. Held(unacked', j) = Held(unacked, j) \cup (IF m.id = j THEN {tags + 1} ELSE {})
    BY <1>1, <1>3 DEF Held
  <2>4. CASE m.id = j
    <3>1. tags + 1 \notin Held(unacked, j)
      BY <1>3 DEF Held
    <3>2. Cardinality(Held(unacked, j) \cup {tags + 1}) = Cardinality(Held(unacked, j)) + 1
      BY <2>1, <3>1, FS_AddElement
    <3>3. Cardinality(Held(unacked', j)) = Cardinality(Held(unacked, j)) + 1
      BY <2>3, <2>4, <3>2
    <3>4. Cardinality(Queued(queue', j)) = Cardinality(Queued(queue, j)) - 1
      BY <2>2, <2>4
    <3> QED BY <2>1, <2>2, <3>3, <3>4 DEF Copies
  <2>5. CASE m.id # j
    <3>1. Held(unacked', j) = Held(unacked, j)
      BY <2>3, <2>5
    <3>2. Cardinality(Queued(queue', j)) = Cardinality(Queued(queue, j))
      BY <2>1, <2>2, <2>5
    <3> QED BY <2>1, <2>2, <3>1, <3>2 DEF Copies
  <2> QED BY <2>4, <2>5
<1> QED BY <1>2, <1>4, NoMoreCopies

(* A purge (rabbitmq.go:507) leaves the copies that are taken. *)
LEMMA PurgeQueueCopies ==
  ASSUME Inv, CopyInv, Inv', PurgeQueue
  PROVE  CopyInv'
<1>1. queue' = EmptyBag /\ unacked' = unacked /\ accepted' = accepted /\ added' = added
  BY DEF PurgeQueue
<1>2. ASSUME NEW j \in Jobs PROVE IsFiniteSet(Queued(queue', j)) /\ Copies(j)' <= Copies(j)
  <2>1. Cardinality(Held(unacked, j)) \in Nat /\ Cardinality(Queued(queue, j)) \in Nat
    BY CopiesType DEF CopyInv, Inv, TypeInv
  <2>2. Queued(queue', j) = {}
    BY <1>1 DEF EmptyBag, SetToBag, Queued
  <2>3. IsFiniteSet(Queued(queue', j)) /\ Cardinality(Queued(queue', j)) = 0
    BY <2>2, FS_EmptySet
  <2> QED BY <1>1, <2>1, <2>3 DEF Copies
<1> QED BY <1>1, <1>2, NoMoreCopies

(* A step that leaves the broker alone. *)
LEMMA QuietCopies ==
  ASSUME Inv, CopyInv, Inv', queue' = queue, unacked' = unacked, added' = added, accepted' = accepted
  PROVE  CopyInv'
<1>1. ASSUME NEW j \in Jobs PROVE IsFiniteSet(Queued(queue', j)) /\ Copies(j)' <= Copies(j)
  <2>1. IsFiniteSet(Queued(queue, j)) /\ Copies(j) \in Nat
    BY CopiesType DEF CopyInv, Inv, TypeInv
  <2> QED BY <2>1 DEF Copies
<1> QED BY <1>1, NoMoreCopies

(* Enqueue (rabbitmq.go:231), a retry (queue.go:505-512) and the release of *)
(* a schedule (queue.go:573-580) publish one copy each.                    *)
LEMMA PublisherCopies ==
  ASSUME Inv, CopyInv, Inv', (\E j \in Jobs : Enqueue(j) \/ ScanJob(j)) \/ \E m \in DOMAIN retries : RetryWakes(m)
  PROVE  CopyInv'
<1>1. ASSUME NEW j \in Jobs, Enqueue(j) PROVE CopyInv'
  <2>1. Message(j, 0) \in Messages /\ Message(j, 0).id = j
    BY DEF Message, Messages
  <2>2. /\ Publish(Message(j, 0)) /\ unacked' = unacked /\ added' = added /\ j \notin accepted
        /\ accepted' = IF channel = "open" THEN accepted \cup {j} ELSE accepted
    BY <1>1 DEF Enqueue
  <2>3. \A i \in Jobs : Published(i)' >= Published(i) + (IF channel = "open" /\ j = i THEN 1 ELSE 0)
    BY <2>2 DEF Published, Inv, TypeInv
  <2> QED BY <2>1, <2>2, <2>3, PublishCopies
<1>2. ASSUME NEW j \in Jobs, ScanJob(j) PROVE CopyInv'
  <2>1. Message(j, 0) \in Messages /\ Message(j, 0).id = j
    BY DEF Message, Messages
  <2>2. CASE j \notin due \/ channel = "closed"
    BY <1>2, <2>2, QuietCopies DEF ScanJob
  <2>3. CASE ~(j \notin due \/ channel = "closed")
    <3>1. /\ Publish(Message(j, 0)) /\ unacked' = unacked
          /\ added' = IF channel = "open" THEN [added EXCEPT ![j] = @ + 1] ELSE added
          /\ accepted' = IF channel = "open" THEN accepted \cup {j} ELSE accepted
      BY <1>2, <2>3 DEF ScanJob, Republished
    <3>2. \A i \in Jobs : Published(i)' >= Published(i) + (IF channel = "open" /\ j = i THEN 1 ELSE 0)
      BY <3>1 DEF Published, Inv, TypeInv
    <3> QED BY <2>1, <3>1, <3>2, PublishCopies
  <2> QED BY <2>2, <2>3
<1>3. ASSUME NEW m \in DOMAIN retries, RetryWakes(m) PROVE CopyInv'
  <2>1. m \in Messages /\ m.id \in Jobs
    BY DEF Inv, TypeInv, IsBag, Messages
  <2>2. /\ unacked' = unacked /\ accepted' = accepted
        /\ added' = IF channel = "open" THEN [added EXCEPT ![m.id] = @ + 1] ELSE added
    BY <1>3 DEF RetryWakes, Republished
  <2>3. Publish(m)
    BY <1>3 DEF RetryWakes, Publish
  <2>4. \A i \in Jobs : Published(i)' >= Published(i) + (IF channel = "open" /\ m.id = i THEN 1 ELSE 0)
    BY <2>1, <2>2 DEF Published, Inv, TypeInv
  <2> QED BY <2>1, <2>2, <2>3, <2>4, PublishCopies
<1> QED BY <1>1, <1>2, <1>3

(* A lost publication leaves no copy. *)
LEMMA EnqueueLostCopies ==
  ASSUME Inv, CopyInv, Inv', NEW i \in Jobs, EnqueueLost(i)
  PROVE  CopyInv'
<1>1. ChannelGoes("broken") /\ accepted' = accepted \cup {i} /\ added' = added
  BY DEF EnqueueLost
<1> SUFFICES ASSUME NEW j \in Jobs PROVE IsFiniteSet(Queued(queue', j)) /\ Copies(j)' <= Published(j)'
  BY DEF CopyInv
<1>2. IsFiniteSet(Queued(queue', j)) /\ Copies(j)' <= Copies(j)
  BY <1>1, ChannelGoesCopies
<1>3. Copies(j) \in Nat /\ Copies(j) <= Published(j)
  BY CopiesType DEF CopyInv, Inv, TypeInv
<1>4. Published(j) \in Nat /\ Published(j)' \in Nat /\ Published(j) <= Published(j)'
  BY <1>1 DEF Published, Inv, TypeInv
<1>5. Copies(j)' \in Nat
  <2>1. IsUnacked(unacked')
    BY DEF Inv, TypeInv
  <2>2. IsFiniteSet(Held(unacked', j))
    BY <2>1, FS_Subset DEF IsUnacked, Held
  <2>3. Cardinality(Held(unacked', j)) \in Nat /\ Cardinality(Queued(queue', j)) \in Nat
    BY <1>2, <2>2, FS_CardinalityType
  <2> QED BY <2>3 DEF Copies
<1> QED BY <1>2, <1>3, <1>4, <1>5

(* Every step keeps the count. *)
LEMMA NextCopies == Inv /\ CopyInv /\ Inv' /\ [Next]_vars => CopyInv'
<1> SUFFICES ASSUME Inv, CopyInv, Inv', [Next]_vars PROVE CopyInv'
  OBVIOUS
<1>1. CASE UNCHANGED vars
  BY <1>1, QuietCopies DEF vars, brokerVars, historyVars
<1>2. ASSUME NEW j \in Jobs,
             Enqueue(j) \/ EnqueueLost(j) \/ DeleteJob(j) \/ ScanJob(j) \/ TimePasses(j)
      PROVE  CopyInv'
  <2>1. CASE Enqueue(j) \/ ScanJob(j)
    BY <2>1, PublisherCopies
  <2>2. CASE DeleteJob(j) \/ TimePasses(j)
    BY <2>2, QuietCopies DEF DeleteJob, TimePasses, brokerVars, historyVars
  <2>3. CASE EnqueueLost(j)
    BY <2>3, EnqueueLostCopies
  <2> QED BY <1>2, <2>1, <2>2, <2>3
<1>3. ASSUME NEW w \in Workers, Dequeue(w) PROVE CopyInv'
  BY <1>3, DequeueCopies
<1>4. ASSUME NEW w \in Workers, HandlerRetries(w) \/ \E s \in {"completed", "failed"} : HandlerEnds(w, s)
      PROVE  CopyInv'
  <2>1. PICK v : UpdateJob(w, v)
    BY <1>4 DEF HandlerRetries, HandlerEnds
  <2>2. Settle(job[w].tag, Requeues(job[w], v)) /\ accepted' = accepted /\ added' = added
    BY <2>1 DEF UpdateJob
  <2>3. Requeues(job[w], v) \in BOOLEAN
    BY DEF Requeues
  <2>4. PICK r \in BOOLEAN : Settle(job[w].tag, r)
    BY <2>2, <2>3
  <2>5. \A j \in Jobs : IsFiniteSet(Queued(queue', j)) /\ Copies(j)' <= Copies(j)
    BY <2>4, SettleCopies
  <2> QED BY <2>2, <2>5, NoMoreCopies
<1>5. ASSUME NEW m \in DOMAIN retries, RetryWakes(m) PROVE CopyInv'
  BY <1>5, PublisherCopies
<1>6. CASE ScanList
  BY <1>6, QuietCopies DEF ScanList, brokerVars, historyVars
<1>7. CASE PurgeQueue
  BY <1>7, PurgeQueueCopies
<1>8. CASE ConnectionLost \/ Close \/ Reconnect \/ Crash
  <2>1. PICK v : ChannelGoes(v)
    BY <1>8 DEF ConnectionLost, Close, Reconnect, Crash
  <2>2. accepted' = accepted /\ added' = added
    BY <1>8 DEF ConnectionLost, Close, Reconnect, Crash, historyVars
  <2>3. \A j \in Jobs : IsFiniteSet(Queued(queue', j)) /\ Copies(j)' <= Copies(j)
    BY <2>1, ChannelGoesCopies
  <2> QED BY <2>2, <2>3, NoMoreCopies
<1> QED BY <1>1, <1>2, <1>3, <1>4, <1>5, <1>6, <1>7, <1>8 DEF Next

(* Nothing makes a message but a publication: a job has at most one for    *)
(* its Enqueue, one for each retry (queue.go:505-512) and one for each     *)
(* release of its schedule (queue.go:573-580).  A message that UpdateJob   *)
(* returns (rabbitmq.go:334, 336) and those of a broken channel stay the   *)
(* ones they were.                                                         *)
THEOREM CopiesAreCounted == Spec => []CopiesCounted
<1>1. Init => CopyInv
  <2> SUFFICES ASSUME Init, NEW j \in Jobs PROVE IsFiniteSet(Queued(queue, j)) /\ Copies(j) <= Published(j)
    BY DEF CopyInv
  <2>1. Queued(queue, j) = {} /\ Held(unacked, j) = {}
    BY DEF Init, EmptyBag, SetToBag, Queued, NoMessages, Held
  <2>2. Cardinality(Queued(queue, j)) = 0 /\ Cardinality(Held(unacked, j)) = 0
    BY <2>1, FS_EmptySet
  <2>3. Published(j) = 0
    BY DEF Init, Published
  <2> QED BY <2>1, <2>2, <2>3, FS_EmptySet DEF Copies
<1>2. Inv /\ CopyInv => CopiesCounted
  <2> SUFFICES ASSUME Inv, CopyInv, NEW j \in accepted PROVE Copies(j) <= 1 + added[j]
    BY DEF CopiesCounted
  <2>1. j \in Jobs /\ added[j] \in Nat
    BY DEF Inv, TypeInv
  <2>2. Published(j) = added[j] + 1 /\ Copies(j) <= Published(j)
    BY <2>1 DEF Published, CopyInv
  <2> QED BY <2>1, <2>2
<1> QED BY <1>1, <1>2, InitInv, NextInv, NextCopies, PTL DEF Spec
=============================================================================
