---------------------------- MODULE WorkerProofs ----------------------------
(* Proofs about Worker, for every partition, set of drivers and bound: its  *)
(* invariants, and at the end that it implements Delivery.                  *)
EXTENDS Worker, FiniteSetTheorems, SequenceTheorems, TLAPS

(* What makes TypeOK inductive: every goroutine has a message of the        *)
(* partition.                                                               *)
Goroutines == \A g \in Goroutine : reads[g] <= Len(log)

TypeInv == TypeOK /\ Goroutines

-----------------------------------------------------------------------------
(* What every step of a goroutine has in common.                           *)
LEMMA HasMessage ==
    ASSUME TypeInv, NEW g \in Goroutine
    PROVE  /\ reads[g] \in Offsets /\ reads[g] \in 1..Len(log)
           /\ Msg(g) \in Message /\ Msg(g) = log[reads[g]]
<1>1. reads[g] \in Offsets /\ reads[g] \in 1..Len(log)
  BY BoundsAssumption
     DEF TypeInv, TypeOK, BrokerType, ProcessType, Goroutines, Goroutine, Offsets
<1>2. log[reads[g]] \in Message
  BY <1>1, InputsAssumption DEF TypeInv, TypeOK, BrokerType
<1> QED BY <1>1, <1>2 DEF Msg

LEMMA AtWork ==
    ASSUME TypeInv, NEW g \in Goroutine, processMessage(g)
    PROVE  /\ UNCHANGED <<broker, process, abandoned>> /\ Goroutine' = Goroutine
           /\ pc \in [Goroutine -> PC] /\ pc' \in [Goroutine -> PC]
           /\ pc[g] # "done"
           /\ \A h \in Goroutine \ {g} : pc'[h] = pc[h]
<1>1. pc \in [Goroutine -> PC]
  BY DEF TypeInv, TypeOK, GoroutineType
<1>2. /\ UNCHANGED <<broker, process, abandoned>> /\ pc[g] # "done"
      /\ \E p \in PC : pc' = [pc EXCEPT ![g] = p]
  <2>1. CASE DecodeFails(g) \/ Decode(g) \/ DeadLetter(g)
    BY <2>1 DEF DecodeFails, Decode, DeadLetter, PC
  <2>2. CASE InsertSucceeds(g) \/ InsertFails(g)
    BY <1>1, <2>2 DEF InsertSucceeds, InsertFails, InsertLocation, PC
  <2>3. CASE SetLatest(g) \/ GeoAdd(g) \/ PublishLocationToStream(g)
    BY <2>3 DEF SetLatest, GeoAdd, PublishLocationToStream, PC
  <2> QED BY <2>1, <2>2, <2>3 DEF processMessage
<1>3. Goroutine' = Goroutine
  BY <1>2 DEF process, Goroutine
<1> QED BY <1>1, <1>2, <1>3

-----------------------------------------------------------------------------
(* Type correctness, one lemma per part of the state.                      *)

LEMMA TypeInvInit == Init => TypeInv
<1> SUFFICES ASSUME Init PROVE TypeInv
  OBVIOUS
<1>1. Len(reads) = 0 /\ Goroutine = {}
  BY DEF Init, Goroutine
<1>2. pc \in [Goroutine -> PC] /\ attempt \in [Goroutine -> 0..(maxRetries - 1)]
  BY <1>1 DEF Init
<1> QED
  BY <1>1, <1>2, BoundsAssumption
     DEF Init, TypeInv, TypeOK, BrokerType, ProcessType, GoroutineType,
         StoreType, RedisType, Goroutines, NoEvent

LEMMA BrokerStep ==
    ASSUME TypeInv, [Next]_vars
    PROVE  BrokerType' /\ Len(log) <= Len(log') /\ (log' = log \/ committed' = committed)
           /\ \A i \in 1..Len(log) : log'[i] = log[i]
<1> USE DEF TypeInv, TypeOK, BrokerType, ProcessType
<1>1. CASE Produce
  <2>1. PICK m \in Inputs : log' = Append(log, m)
    BY <1>1 DEF Produce
  <2>2. log' \in Seq(Inputs) /\ Len(log') = Len(log) + 1
        /\ \A i \in 1..Len(log) : log'[i] = log[i]
    BY <2>1
  <2> QED BY <1>1, <2>2, BoundsAssumption DEF Produce
<1>2. CASE CommitQueued
  BY <1>2 DEF CommitQueued
<1>3. CASE Exit
  BY <1>3 DEF Exit, EndProcess
<1>4. CASE Crash
  BY <1>4 DEF Crash, EndProcess
<1>5. CASE UNCHANGED broker
  BY <1>5 DEF broker
<1>6. ASSUME NEW g \in Goroutine, processMessage(g) PROVE UNCHANGED broker
  BY <1>6, AtWork
<1> QED
  BY <1>1, <1>2, <1>3, <1>4, <1>5, <1>6
     DEF Next, vars, ReadMessage, NewGeneration, Shutdown, Restart, StartAgain, Boot,
         Expire, RedisRestarts

LEMMA ProcessStep ==
    ASSUME TypeInv, [Next]_vars
    PROVE  ProcessType' /\ Goroutines'
<1> USE DEF TypeInv, TypeOK, BrokerType, ProcessType, Goroutines, Goroutine, process
<1>1. ASSUME NEW g \in Goroutine, processMessage(g)
      PROVE UNCHANGED process /\ UNCHANGED broker
  BY <1>1, AtWork
<1>2. CASE UNCHANGED process /\ UNCHANGED broker
  BY <1>2 DEF broker
<1>3. CASE Produce
  <2>1. UNCHANGED <<process, committed>> /\ Len(log) <= Len(log') /\ Len(log') \in Nat
    BY <1>3, BrokerStep DEF Produce, Next
  <2> QED BY <2>1, BoundsAssumption DEF Offsets
<1>4. CASE ReadMessage
  <2>1. position + 1 \in Offsets /\ position + 1 <= Len(log)
    BY <1>4, BoundsAssumption DEF ReadMessage, Offsets
  <2>2. returned' \in [Offsets -> Nat]
    BY <1>4, <2>1 DEF ReadMessage
  <2>3. /\ reads' \in Seq(Offsets) /\ Len(reads') = Len(reads) + 1
        /\ \A g \in 1..Len(reads) : reads'[g] = reads[g]
        /\ reads'[Len(reads) + 1] = position + 1
    BY <1>4, <2>1 DEF ReadMessage
  <2>4. /\ position' = position + 1
        /\ UNCHANGED <<log, committed, phase, interruptions>>
    BY <1>4 DEF ReadMessage, broker
  <2>5. \A g \in 1..Len(reads') : reads'[g] <= Len(log')
    <3>1. ASSUME NEW g \in 1..Len(reads') PROVE reads'[g] <= Len(log)
      <4>1. CASE g \in 1..Len(reads)
        BY <2>3, <4>1
      <4>2. CASE g = Len(reads) + 1
        BY <2>1, <2>3, <4>2
      <4> QED BY <2>3, <4>1, <4>2
    <3> QED BY <2>4, <3>1
  <2>6. ProcessType'
    BY <2>1, <2>2, <2>3, <2>4
  <2> QED BY <2>5, <2>6
<1>5. CASE CommitQueued
  BY <1>5 DEF CommitQueued
<1>6. CASE NewGeneration \/ Shutdown
  BY <1>6, BoundsAssumption DEF NewGeneration, Shutdown, broker
<1>7. CASE Exit \/ Crash
  <2>1. /\ reads' = <<>> /\ UNCHANGED <<log, position, returned>>
        /\ phase' \in {"stopped", "down"}
        /\ interruptions' \in 0..MaxInterruptions
        /\ committed' \in {committed, position}
    BY <1>7, BoundsAssumption DEF Exit, Crash, EndProcess
  <2>2. reads' \in Seq(Offsets) /\ Len(reads') = 0
    BY <2>1
  <2> QED BY <2>1, <2>2
<1>8. CASE Restart \/ StartAgain
  BY <1>8 DEF Restart, StartAgain, Boot, broker
<1> QED
  BY <1>1, <1>2, <1>3, <1>4, <1>5, <1>6, <1>7, <1>8
     DEF Next, vars, Expire, RedisRestarts

LEMMA GoroutineStep ==
    ASSUME TypeInv, [Next]_vars
    PROVE  GoroutineType'
<1> USE DEF TypeInv, TypeOK, GoroutineType
<1>1. ASSUME NEW g \in Goroutine, processMessage(g) PROVE GoroutineType'
  <2>1. Goroutine' = Goroutine /\ pc' \in [Goroutine' -> PC]
    BY <1>1, AtWork
  <2>2. attempt' \in [Goroutine -> 0..(maxRetries - 1)]
    <3>1. CASE InsertFails(g)
      BY <3>1, BoundsAssumption DEF InsertFails, GivesUp
    <3>2. CASE InsertSucceeds(g)
      BY <3>2, BoundsAssumption DEF InsertSucceeds, InsertLocation
    <3>3. CASE UNCHANGED attempt
      BY <3>3
    <3> QED
      BY <1>1, <3>1, <3>2, <3>3
         DEF processMessage, DecodeFails, Decode, DeadLetter, SetLatest, GeoAdd,
             PublishLocationToStream
  <2>3. metrics' \in [processed : Nat, failed : Nat, dlqSent : Nat]
    <3>1. /\ metrics.processed + 1 \in Nat /\ metrics.failed + 1 \in Nat
          /\ metrics.dlqSent + 1 \in Nat
      OBVIOUS
    <3>2. CASE InsertSucceeds(g)
      BY <3>1, <3>2 DEF InsertSucceeds
    <3>3. CASE DecodeFails(g) \/ DeadLetter(g)
      BY <3>1, <3>3 DEF DecodeFails, DeadLetter
    <3>4. CASE UNCHANGED metrics
      BY <3>4
    <3> QED
      BY <1>1, <3>2, <3>3, <3>4
         DEF processMessage, Decode, InsertFails, SetLatest, GeoAdd,
             PublishLocationToStream
  <2> QED BY <2>1, <2>2, <2>3
<1>2. CASE ReadMessage
  BY <1>2, BoundsAssumption DEF ReadMessage, PC
<1>3. CASE Exit \/ Crash
  <2>1. /\ reads' = <<>> /\ pc' = <<>> /\ attempt' = <<>>
        /\ metrics' = [processed |-> 0, failed |-> 0, dlqSent |-> 0]
    BY <1>3 DEF Exit, Crash, EndProcess
  <2>2. Goroutine' = {}
    BY <2>1 DEF Goroutine
  <2> QED BY <2>1, <2>2
<1>4. CASE UNCHANGED <<reads, pc, attempt, metrics>>
  BY <1>4 DEF Goroutine
<1> QED
  BY <1>1, <1>2, <1>3, <1>4
     DEF Next, vars, process, Produce, CommitQueued, NewGeneration, Shutdown, Restart,
         StartAgain, Boot, Expire, RedisRestarts

LEMMA StoreStep ==
    ASSUME TypeInv, [Next]_vars
    PROVE  StoreType'
<1> USE DEF StoreType
<1>1. StoreType
  BY DEF TypeInv, TypeOK
<1>2. ASSUME NEW g \in Goroutine, processMessage(g) PROVE StoreType'
  <2>1. reads[g] \in Offsets /\ Row(Msg(g)) \in Driver \X Time \X EventId
    BY <1>2, HasMessage DEF Row, Message
  <2>2. UNCHANGED abandoned
    BY <1>2, AtWork
  <2>3. CASE DecodeFails(g) \/ DeadLetter(g)
    <3>1. dlq' \in [Offsets -> Nat] /\ unsent' \subseteq Offsets
      BY <1>1, <2>1, <2>3 DEF DecodeFails, DeadLetter, Send
    <3> QED BY <1>1, <2>2, <2>3, <3>1 DEF DecodeFails, DeadLetter
  <2>4. CASE InsertSucceeds(g) \/ InsertFails(g)
    BY <1>1, <2>1, <2>2, <2>4 DEF InsertSucceeds, InsertFails, InsertLocation
  <2>5. CASE Decode(g) \/ SetLatest(g) \/ GeoAdd(g) \/ PublishLocationToStream(g)
    BY <1>1, <2>5 DEF Decode, SetLatest, GeoAdd, PublishLocationToStream
  <2> QED BY <1>2, <2>3, <2>4, <2>5 DEF processMessage
<1>3. CASE Exit \/ Crash
  <2>1. InFlight \subseteq Offsets
    BY HasMessage DEF InFlight
  <2> QED BY <1>1, <1>3, <2>1 DEF Exit, Crash, EndProcess
<1>4. CASE UNCHANGED <<rows, dlq, abandoned, unsent>>
  BY <1>1, <1>4
<1> QED
  BY <1>2, <1>3, <1>4
     DEF Next, vars, Produce, ReadMessage, CommitQueued, NewGeneration, Shutdown,
         Restart, StartAgain, Boot, Expire, RedisRestarts

LEMMA RedisStep ==
    ASSUME TypeInv, [Next]_vars
    PROVE  RedisType'
<1> USE DEF RedisType
<1>1. RedisType
  BY DEF TypeInv, TypeOK
<1>2. ASSUME NEW g \in Goroutine, processMessage(g) PROVE RedisType'
  <2>1. Msg(g).driver \in Driver /\ reads[g] \in Offsets
    BY <1>2, HasMessage DEF Message
  <2>2. CASE SetLatest(g) \/ GeoAdd(g)
    BY <1>1, <2>1, <2>2 DEF SetLatest, GeoAdd
  <2>3. CASE PublishLocationToStream(g)
    BY <1>1, <2>1, <2>3 DEF PublishLocationToStream
  <2>4. CASE DecodeFails(g) \/ Decode(g) \/ InsertSucceeds(g) \/ InsertFails(g)
                \/ DeadLetter(g)
    BY <1>1, <2>4
       DEF DecodeFails, Decode, InsertSucceeds, InsertFails, DeadLetter, redis
  <2> QED BY <1>2, <2>2, <2>3, <2>4 DEF processMessage
<1>3. CASE \E d \in Driver : Expire(d)
  BY <1>1, <1>3 DEF Expire
<1>4. CASE RedisRestarts
  BY <1>4 DEF RedisRestarts
<1>5. CASE UNCHANGED redis
  BY <1>1, <1>5 DEF redis
<1> QED
  BY <1>2, <1>3, <1>4, <1>5
     DEF Next, vars, Produce, ReadMessage, CommitQueued, NewGeneration, Shutdown,
         Exit, Crash, EndProcess, Restart, StartAgain, Boot

LEMMA TypeInvStep == TypeInv /\ [Next]_vars => TypeInv'
<1> SUFFICES ASSUME TypeInv, [Next]_vars PROVE TypeInv'
  OBVIOUS
<1>1. BrokerType' /\ ProcessType' /\ Goroutines'
  BY BrokerStep, ProcessStep
<1>2. GoroutineType' /\ StoreType' /\ RedisType'
  BY GoroutineStep, StoreStep, RedisStep
<1> QED BY <1>1, <1>2 DEF TypeInv, TypeOK

(* The worker's state keeps its shape: attempts stay below maxRetries, the  *)
(* reader between the committed offset and the end of the partition.        *)
THEOREM TypeCorrect == Spec => []TypeOK
<1>1. TypeInv => TypeOK
  BY DEF TypeInv
<1> QED BY <1>1, TypeInvInit, TypeInvStep, PTL DEF Spec
-----------------------------------------------------------------------------
(* Cassandra is the source of truth.                                       *)

Inserted ==
    \A g \in Goroutine : pc[g] \in {"set", "geoadd", "xadd"} => Persisted(reads[g])
CacheInv == TypeInv /\ Inserted /\ SourceOfTruth

(* What Cassandra was given, and the message at an offset, stay.            *)
LEMMA PersistedStays ==
    ASSUME TypeInv, [Next]_vars, NEW i \in Offsets, Persisted(i)
    PROVE  Persisted(i)' /\ log'[i] = log[i]
<1>1. i \in 1..Len(log) /\ Len(log) <= Len(log') /\ log'[i] = log[i]
  BY BrokerStep DEF TypeInv, TypeOK, BrokerType, Persisted, Offsets
<1>2. rows \subseteq rows'
  BY DEF Next, vars, Produce, ReadMessage, CommitQueued, NewGeneration, processMessage,
         DecodeFails, Decode, InsertSucceeds, InsertFails, InsertLocation, DeadLetter,
         SetLatest, GeoAdd, PublishLocationToStream, Shutdown, Exit, Crash,
         EndProcess, Restart, StartAgain, Boot, Expire, RedisRestarts
<1>3. Len(log') \in Nat
  BY BrokerStep DEF BrokerType
<1> QED BY <1>1, <1>2, <1>3 DEF Persisted, TypeInv, TypeOK, BrokerType, Row

(* Only a goroutine adds to what Redis serves: its own message, about that  *)
(* message's driver, in one of the three caching steps.                     *)
LEMMA ServedBy ==
    ASSUME TypeInv, NEW g \in Goroutine, processMessage(g),
           NEW d \in Driver, NEW j \in Served(d)', j \notin Served(d)
    PROVE  /\ j = reads[g] /\ Msg(g).driver = d
           /\ pc[g] \in {"set", "geoadd", "xadd"} /\ pc'[g] \in {"geoadd", "xadd", "done"}
<1> USE DEF Served
<1>1. RedisType /\ pc \in [Goroutine -> PC] /\ Msg(g).driver \in Driver
  BY HasMessage DEF TypeInv, TypeOK, GoroutineType, Message
<1>2. CASE SetLatest(g)
  BY <1>1, <1>2 DEF SetLatest, RedisType
<1>3. CASE GeoAdd(g)
  BY <1>1, <1>3 DEF GeoAdd, RedisType
<1>4. CASE PublishLocationToStream(g)
  BY <1>1, <1>4 DEF PublishLocationToStream, RedisType
<1>5. CASE DecodeFails(g) \/ Decode(g) \/ InsertSucceeds(g) \/ InsertFails(g)
              \/ DeadLetter(g)
  BY <1>5 DEF DecodeFails, Decode, InsertSucceeds, InsertFails, DeadLetter, redis
<1> QED BY <1>2, <1>3, <1>4, <1>5 DEF processMessage

LEMMA ServedStep ==
    ASSUME TypeInv, [Next]_vars, NEW d \in Driver, NEW j \in Served(d)',
           j \notin Served(d)
    PROVE  \E g \in Goroutine : processMessage(g)
<1>1. CASE \E e \in Driver : Expire(e)
  BY <1>1 DEF Expire, RedisType, TypeInv, TypeOK, Served
<1>2. CASE RedisRestarts
  BY <1>2 DEF RedisRestarts, Served
<1>3. CASE UNCHANGED redis
  BY <1>3 DEF redis, Served
<1> QED
  BY <1>1, <1>2, <1>3
     DEF Next, vars, Produce, ReadMessage, CommitQueued, NewGeneration, Shutdown,
         Exit, Crash, EndProcess, Restart, StartAgain, Boot

LEMMA CacheInvInit == Init => CacheInv
BY TypeInvInit DEF Init, CacheInv, Inserted, SourceOfTruth, Served, NoEvent, Goroutine

LEMMA InsertedStep ==
    ASSUME TypeInv, Inserted, [Next]_vars
    PROVE  Inserted'
<1>1. ASSUME NEW g \in Goroutine, processMessage(g) PROVE Inserted'
  <2>1. /\ UNCHANGED <<log, reads>> /\ Goroutine' = Goroutine
        /\ \A h \in Goroutine \ {g} : pc'[h] = pc[h]
    BY <1>1, AtWork DEF broker, process
  <2>2. ASSUME NEW h \in Goroutine, pc'[h] \in {"set", "geoadd", "xadd"}
        PROVE  Persisted(reads[h])'
    <3>0. reads[h] \in Offsets /\ reads[h] \in 1..Len(log)
      BY HasMessage
    <3>1. CASE pc[h] \in {"set", "geoadd", "xadd"}
      <4>1. PICK i \in Offsets : i = reads[h] /\ Persisted(i)
        BY <3>0, <3>1 DEF Inserted
      <4>2. Persisted(i)'
        BY <1>1, <4>1, PersistedStays DEF Next
      <4> QED BY <2>1, <4>1, <4>2 DEF Persisted
    <3>2. CASE pc[h] \notin {"set", "geoadd", "xadd"}
      <4>1. h = g /\ InsertSucceeds(g)
        BY <1>1, <2>1, <2>2, <3>2
           DEF TypeInv, TypeOK, GoroutineType, processMessage, DecodeFails, Decode,
               InsertSucceeds, InsertFails, DeadLetter, SetLatest, GeoAdd,
               PublishLocationToStream
      <4>2. Row(log[reads[g]]) \in rows'
        BY <4>1 DEF InsertSucceeds, InsertLocation, Msg
      <4> QED BY <2>1, <3>0, <4>1, <4>2 DEF Persisted
    <3> QED BY <3>1, <3>2
  <2> QED BY <2>1, <2>2 DEF Inserted
<1>2. CASE ReadMessage
  <2>1. position + 1 \in Offsets
    BY <1>2, BoundsAssumption
       DEF ReadMessage, TypeInv, TypeOK, BrokerType, ProcessType, Offsets
  <2>2. /\ UNCHANGED <<log, rows>> /\ reads' = Append(reads, position + 1)
        /\ reads \in Seq(Offsets)
    BY <1>2 DEF ReadMessage, broker, TypeInv, TypeOK, ProcessType
  <2>3. \A g \in Goroutine' : pc'[g] = IF g \in Goroutine THEN pc[g] ELSE "decode"
    BY <1>2 DEF ReadMessage
  <2>4. \A g \in Goroutine : reads'[g] = reads[g]
    BY <2>1, <2>2 DEF Goroutine
  <2> QED BY <2>2, <2>3, <2>4 DEF Inserted, Persisted
<1>3. CASE Exit \/ Crash
  BY <1>3 DEF Exit, Crash, EndProcess, Inserted, Goroutine
<1>4. CASE Produce
  <2>1. UNCHANGED <<pc, reads>> /\ Goroutine' = Goroutine
    BY <1>4 DEF Produce, process, Goroutine
  <2>2. ASSUME NEW h \in Goroutine, pc[h] \in {"set", "geoadd", "xadd"}
        PROVE  Persisted(reads[h])'
    <3>1. PICK i \in Offsets : i = reads[h] /\ Persisted(i)
      BY <2>2, HasMessage DEF Inserted
    <3>2. Persisted(i)'
      BY <3>1, PersistedStays
    <3> QED BY <2>1, <3>1, <3>2 DEF Persisted
  <2> QED BY <2>1, <2>2 DEF Inserted
<1>5. CASE UNCHANGED <<log, rows, reads, pc>>
  BY <1>5 DEF Inserted, Persisted, Goroutine, Row
<1> QED
  BY <1>1, <1>2, <1>3, <1>4, <1>5
     DEF Next, vars, broker, process, CommitQueued, NewGeneration, Shutdown, Restart,
         StartAgain, Boot, Expire, RedisRestarts

LEMMA CacheInvStep == CacheInv /\ [Next]_vars => CacheInv'
<1> SUFFICES ASSUME CacheInv, [Next]_vars PROVE CacheInv'
  OBVIOUS
<1> USE DEF CacheInv
<1>1. TypeInv' /\ Inserted'
  BY TypeInvStep, InsertedStep
<1>2. ASSUME NEW d \in Driver, NEW j \in Served(d)'
      PROVE  Persisted(j)' /\ log'[j].driver = d
  <2>1. j \in Offsets /\ Persisted(j) /\ log[j].driver = d
    <3>1. CASE j \in Served(d)
      BY <3>1 DEF SourceOfTruth, Served, TypeInv, TypeOK, RedisType
    <3>2. CASE j \notin Served(d)
      <4>1. PICK g \in Goroutine : processMessage(g)
        BY <3>2, ServedStep
      <4>2. j = reads[g] /\ Msg(g).driver = d /\ pc[g] \in {"set", "geoadd", "xadd"}
        BY <3>2, <4>1, ServedBy
      <4> QED BY <4>2, HasMessage DEF Inserted
    <3> QED BY <3>1, <3>2
  <2> QED BY <2>1, PersistedStays
<1> QED BY <1>1, <1>2 DEF SourceOfTruth

(* Whatever Redis serves about a driver was inserted in Cassandra before,   *)
(* for any number of drivers, messages, retries and restarts.               *)
THEOREM RedisServesOnlyPersisted == Spec => []SourceOfTruth
<1>1. CacheInv => SourceOfTruth
  BY DEF CacheInv
<1> QED BY <1>1, CacheInvInit, CacheInvStep, PTL DEF Spec
-----------------------------------------------------------------------------
(* Every message that was read is accounted for.                           *)

OutcomeInv == CacheInv /\ Accounted

LEMMA DeadLetterStays ==
    ASSUME TypeInv, [Next]_vars
    PROVE  /\ \A i \in Offsets : DeadLettered(i) => DeadLettered(i)'
           /\ abandoned \subseteq abandoned' /\ unsent \subseteq unsent'
<1>1. dlq \in [Offsets -> Nat]
  BY DEF TypeInv, TypeOK, StoreType
<1>2. ASSUME NEW g \in Goroutine, processMessage(g)
      PROVE  /\ \A i \in Offsets : DeadLettered(i) => DeadLettered(i)'
             /\ abandoned \subseteq abandoned' /\ unsent \subseteq unsent'
  <2>1. CASE DecodeFails(g) \/ DeadLetter(g)
    BY <1>1, <2>1 DEF DecodeFails, DeadLetter, Send, DeadLettered
  <2>2. CASE UNCHANGED <<dlq, abandoned, unsent>>
    BY <2>2 DEF DeadLettered
  <2> QED
    BY <1>2, <2>1, <2>2
       DEF processMessage, Decode, InsertSucceeds, InsertFails, SetLatest, GeoAdd,
           PublishLocationToStream
<1>3. CASE Exit \/ Crash
  BY <1>3 DEF Exit, Crash, EndProcess, DeadLettered
<1>4. CASE UNCHANGED <<dlq, abandoned, unsent>>
  BY <1>4 DEF DeadLettered
<1> QED
  BY <1>2, <1>3, <1>4
     DEF Next, vars, Produce, ReadMessage, CommitQueued, NewGeneration, Shutdown,
         Restart, StartAgain, Boot, Expire, RedisRestarts

LEMMA SettledStays ==
    ASSUME TypeInv, [Next]_vars, NEW i \in Offsets, Settled(i)
    PROVE  Settled(i)'
<1>1. CASE Persisted(i)
  BY <1>1, PersistedStays DEF Settled
<1>2. CASE DeadLettered(i) \/ i \in abandoned \cup unsent
  BY <1>2, DeadLetterStays DEF Settled
<1> QED BY <1>1, <1>2 DEF Settled

(* A goroutine that finishes has settled its message.                       *)
LEMMA FinishSettles ==
    ASSUME CacheInv, NEW g \in Goroutine, processMessage(g), pc'[g] = "done",
           NEW i \in Offsets, i = reads[g]
    PROVE  Settled(i)'
<1> USE DEF CacheInv, TypeInv, TypeOK
<1>1. CASE DecodeFails(g) \/ DeadLetter(g)
  BY <1>1 DEF DecodeFails, DeadLetter, Send, Settled, DeadLettered, StoreType
<1>2. CASE PublishLocationToStream(g)
  <2>1. Persisted(i)
    BY <1>2 DEF PublishLocationToStream, Inserted
  <2>2. log' = log /\ rows' = rows
    BY <1>2 DEF PublishLocationToStream, broker
  <2> QED BY <2>1, <2>2 DEF Settled, Persisted
<1> QED
  BY <1>1, <1>2
     DEF processMessage, GoroutineType, Decode, InsertSucceeds, InsertFails,
         SetLatest, GeoAdd

LEMMA AccountedStep ==
    ASSUME OutcomeInv, [Next]_vars
    PROVE  Accounted'
<1> USE DEF OutcomeInv, CacheInv
<1>1. position \in Nat /\ position' \in Nat /\ position <= Len(log)
      /\ 1..position \subseteq Offsets /\ 1..position' \subseteq Offsets
      /\ committed \in Nat /\ committed <= position
  <2>1. BrokerType' /\ ProcessType'
    BY BrokerStep, ProcessStep DEF TypeInv
  <2> QED BY <2>1, BoundsAssumption
          DEF TypeInv, TypeOK, BrokerType, ProcessType, Offsets
<1> SUFFICES ASSUME NEW i \in 1..position', ~Settled(i)'
             PROVE  i \in InFlight'
  BY DEF Accounted
<1>2. ~Settled(i) /\ i \in Offsets
  BY <1>1, SettledStays
<1>3. i \in 1..position => i \in InFlight
  BY <1>2 DEF Accounted
<1>4. CASE UNCHANGED <<reads, pc>> /\ position' <= position
  BY <1>1, <1>3, <1>4 DEF InFlight, Goroutine
<1>5. ASSUME NEW g \in Goroutine, processMessage(g) PROVE i \in InFlight'
  <2>1. /\ UNCHANGED <<reads, position>> /\ Goroutine' = Goroutine
        /\ \A h \in Goroutine \ {g} : pc'[h] = pc[h]
    BY <1>5, AtWork DEF process
  <2>2. PICK h \in Goroutine : i = reads[h] /\ pc[h] # "done"
    BY <1>3, <2>1 DEF InFlight
  <2>3. pc'[h] # "done"
    BY <1>2, <1>5, <2>1, <2>2, FinishSettles
  <2> QED BY <2>1, <2>2, <2>3 DEF InFlight
<1>6. CASE ReadMessage
  <2>1. /\ reads' = Append(reads, position + 1) /\ reads \in Seq(Offsets)
        /\ position' = position + 1
        /\ \A g \in Goroutine' : pc'[g] = IF g \in Goroutine THEN pc[g] ELSE "decode"
    BY <1>6 DEF ReadMessage, TypeInv, TypeOK, ProcessType
  <2>2. position + 1 \in Offsets
    BY <1>1, <2>1
  <2>3. /\ Len(reads') = Len(reads) + 1 /\ Len(reads) \in Nat
        /\ reads'[Len(reads) + 1] = position + 1
        /\ \A g \in 1..Len(reads) : reads'[g] = reads[g]
    BY <2>1, <2>2
  <2>4. CASE i = position + 1
    <3>1. Len(reads) + 1 \in Goroutine' /\ Len(reads) + 1 \notin Goroutine
      BY <2>3 DEF Goroutine
    <3> QED BY <2>1, <2>3, <2>4, <3>1 DEF InFlight
  <2>5. CASE i \in 1..position
    <3>1. PICK g \in Goroutine : i = reads[g] /\ pc[g] # "done"
      BY <1>3, <2>5 DEF InFlight
    <3>2. g \in Goroutine' /\ reads'[g] = reads[g]
      BY <2>3 DEF Goroutine
    <3> QED BY <2>1, <3>1, <3>2 DEF InFlight
  <2> QED BY <1>1, <2>1, <2>4, <2>5
<1>7. CASE Exit \/ Crash
  BY <1>3, <1>7 DEF Exit, Crash, EndProcess, Settled
<1>8. CASE Restart \/ StartAgain \/ NewGeneration
  <2>1. position' <= position /\ UNCHANGED <<reads, pc>>
    BY <1>1, <1>8 DEF Restart, StartAgain, Boot, NewGeneration
  <2> QED BY <1>4, <2>1
<1>9. CASE UNCHANGED <<position, reads, pc>>
  BY <1>1, <1>4, <1>9
<1> QED
  BY <1>5, <1>6, <1>7, <1>8, <1>9
     DEF Next, vars, process, Produce, CommitQueued, Shutdown, Expire,
         RedisRestarts

(* No message is lost but by the death of the process under its goroutine   *)
(* or by a dead letter that cannot be written, whatever else fails.         *)
THEOREM EveryMessageAccounted == Spec => []Accounted
<1>1. Init => OutcomeInv
  BY CacheInvInit DEF OutcomeInv, Init, Accounted
<1>2. OutcomeInv /\ [Next]_vars => OutcomeInv'
  BY CacheInvStep, AccountedStep DEF OutcomeInv
<1>3. OutcomeInv => Accounted
  BY DEF OutcomeInv
<1> QED BY <1>1, <1>2, <1>3, PTL DEF Spec
-----------------------------------------------------------------------------
(* The counters add up.                                                    *)

MetricsInv == TypeInv /\ MetricsBalance

LEMMA UndecidedFinite ==
    ASSUME TypeInv
    PROVE  IsFiniteSet(Undecided) /\ Cardinality(Undecided) \in Nat
<1>1. IsFiniteSet(Goroutine)
  BY FS_Interval DEF Goroutine, TypeInv, TypeOK, ProcessType
<1>2. IsFiniteSet(Undecided)
  BY <1>1, FS_Subset DEF Undecided
<1> QED BY <1>2, FS_CardinalityType

LEMMA MetricsGoroutine ==
    ASSUME MetricsInv, NEW g \in Goroutine, processMessage(g)
    PROVE  MetricsBalance'
<1> USE DEF MetricsInv
<1>1. /\ UNCHANGED reads /\ Goroutine' = Goroutine
      /\ pc \in [Goroutine -> PC] /\ pc' \in [Goroutine -> PC]
      /\ \A h \in Goroutine \ {g} : pc'[h] = pc[h]
  BY AtWork DEF process
<1>2. metrics \in [processed : Nat, failed : Nat, dlqSent : Nat]
      /\ Len(reads) \in Nat
  BY DEF TypeInv, TypeOK, ProcessType, GoroutineType
<1>3. CASE Decode(g) \/ InsertFails(g) \/ SetLatest(g) \/ GeoAdd(g)
              \/ PublishLocationToStream(g)
  <2>1. metrics' = metrics
    BY <1>3 DEF Decode, InsertFails, SetLatest, GeoAdd, PublishLocationToStream
  <2>2. g \in Undecided <=> g \in Undecided'
    BY <1>1, <1>3 DEF Undecided, Decode, InsertFails, SetLatest, GeoAdd,
                      PublishLocationToStream
  <2>3. Undecided' = Undecided
    BY <1>1, <2>2 DEF Undecided
  <2> QED BY <1>1, <2>1, <2>3 DEF MetricsBalance
<1>4. CASE DecodeFails(g) \/ InsertSucceeds(g) \/ DeadLetter(g)
  <2>1. g \in Undecided /\ g \notin Undecided'
    BY <1>1, <1>4 DEF Undecided, DecodeFails, InsertSucceeds, DeadLetter
  <2>2. Undecided' = Undecided \ {g}
    BY <1>1, <2>1 DEF Undecided
  <2>3. Cardinality(Undecided') = Cardinality(Undecided) - 1
    BY <2>1, <2>2, UndecidedFinite, FS_RemoveElement
  <2>4. \/ metrics' = [metrics EXCEPT !.dlqSent = @ + 1]
        \/ metrics' = [metrics EXCEPT !.processed = @ + 1]
        \/ metrics' = [metrics EXCEPT !.dlqSent = @ + 1, !.failed = @ + 1]
    BY <1>4 DEF DecodeFails, InsertSucceeds, DeadLetter
  <2>5. /\ metrics'.processed \in Nat /\ metrics'.dlqSent \in Nat
        /\ metrics'.processed + metrics'.dlqSent =
               metrics.processed + metrics.dlqSent + 1
        /\ metrics.failed <= metrics.dlqSent =>
               metrics'.failed <= metrics'.dlqSent
    <3>1. CASE metrics' = [metrics EXCEPT !.dlqSent = @ + 1]
      BY <1>2, <3>1
    <3>2. CASE metrics' = [metrics EXCEPT !.processed = @ + 1]
      BY <1>2, <3>2
    <3>3. CASE metrics' = [metrics EXCEPT !.dlqSent = @ + 1, !.failed = @ + 1]
      BY <1>2, <3>3
    <3> QED BY <2>4, <3>1, <3>2, <3>3
  <2> QED
    BY <1>1, <1>2, <2>3, <2>5, UndecidedFinite DEF MetricsBalance
<1> QED BY <1>3, <1>4 DEF processMessage

LEMMA MetricsStep ==
    ASSUME MetricsInv, [Next]_vars
    PROVE  MetricsInv'
<1> USE DEF MetricsInv
<1>1. TypeInv'
  BY TypeInvStep
<1>2. CASE \E g \in Goroutine : processMessage(g)
  BY <1>1, <1>2, MetricsGoroutine
<1>3. CASE ReadMessage
  <2>1. /\ reads \in Seq(Offsets) /\ position + 1 \in Offsets /\ metrics' = metrics
        /\ reads' = Append(reads, position + 1)
        /\ \A g \in Goroutine' : pc'[g] = IF g \in Goroutine THEN pc[g] ELSE "decode"
    BY <1>3, BoundsAssumption
       DEF ReadMessage, TypeInv, TypeOK, BrokerType, ProcessType, Offsets
  <2>2. Len(reads') = Len(reads) + 1 /\ Len(reads) \in Nat
    BY <2>1
  <2>3. Undecided' = Undecided \cup {Len(reads) + 1} /\ Len(reads) + 1 \notin Undecided
    BY <2>1, <2>2 DEF Undecided, Goroutine
  <2>4. Cardinality(Undecided') = Cardinality(Undecided) + 1
    BY <2>3, UndecidedFinite, FS_AddElement
  <2>5. metrics.processed \in Nat /\ metrics.dlqSent \in Nat
    BY DEF TypeInv, TypeOK, GoroutineType
  <2>6. Cardinality(Undecided) \in Nat
    BY UndecidedFinite
  <2>7. /\ Len(reads) = metrics.processed + metrics.dlqSent + Cardinality(Undecided)
        /\ metrics'.failed <= metrics'.dlqSent
        /\ metrics'.processed = metrics.processed /\ metrics'.dlqSent = metrics.dlqSent
    BY <2>1 DEF MetricsBalance
  <2>8. MetricsBalance'
    BY <2>2, <2>4, <2>5, <2>6, <2>7 DEF MetricsBalance
  <2> QED BY <1>1, <2>8
<1>4. CASE Exit \/ Crash
  <2>1. /\ reads' = <<>> /\ Len(reads') = 0
        /\ metrics' = [processed |-> 0, failed |-> 0, dlqSent |-> 0]
    BY <1>4 DEF Exit, Crash, EndProcess
  <2>2. Undecided' = {}
    BY <2>1 DEF Undecided, Goroutine
  <2>3. Cardinality(Undecided') = 0
    BY <2>2, FS_EmptySet
  <2> QED BY <1>1, <2>1, <2>3 DEF MetricsBalance
<1>5. CASE UNCHANGED <<reads, pc, metrics>>
  BY <1>1, <1>5 DEF MetricsBalance, Undecided, Goroutine
<1> QED
  BY <1>1, <1>2, <1>3, <1>4, <1>5
     DEF Next, vars, process, Produce, CommitQueued, NewGeneration, Shutdown, Restart,
         StartAgain, Boot, Expire, RedisRestarts

(* The counters never drift: at any time every message that was read in     *)
(* this life of the process, again or not, is counted once, or is still     *)
(* being decided.                                                           *)
THEOREM CountersAddUp == Spec => []MetricsBalance
<1>1. Init => MetricsInv
  <2> SUFFICES ASSUME Init PROVE MetricsInv
    OBVIOUS
  <2>1. Undecided = {} /\ Len(reads) = 0
    BY DEF Init, Undecided, Goroutine
  <2>2. Cardinality(Undecided) = 0
    BY <2>1, FS_EmptySet
  <2> QED BY <2>1, <2>2, TypeInvInit DEF Init, MetricsInv, MetricsBalance
<1>2. MetricsInv /\ [Next]_vars => MetricsInv'
  BY MetricsStep
<1>3. MetricsInv => MetricsBalance
  BY DEF MetricsInv
<1> QED BY <1>1, <1>2, <1>3, PTL DEF Spec
-----------------------------------------------------------------------------
(* One outcome for a message that was read once.                           *)

Own(i) == {g \in Goroutine : reads[g] = i}

(* Nothing has come of a message that no process read yet.                  *)
Untouched(i) ==
    Own(i) = {} /\ dlq[i] = 0 /\ \A d \in Driver : i \notin Served(d)

(* A message read once has one goroutine at most: only one that is done     *)
(* dead-lettered it, and only one past the insert had it served.            *)
OneGoroutine(i) ==
    /\ \A g, h \in Own(i) : g = h
    /\ dlq[i] <= 1
    /\ DeadLettered(i) => \A g \in Own(i) : pc[g] = "done"
    /\ \A d \in Driver : i \in Served(d) =>
           ~DeadLettered(i) /\ \A g \in Own(i) : pc[g] \in {"geoadd", "xadd", "done"}

Outcomes ==
    \A i \in Offsets : /\ returned[i] = 0 => Untouched(i)
                       /\ returned[i] = 1 => OneGoroutine(i)
OneInv == TypeInv /\ Outcomes

(* What the outcome of a message depends on.                                *)
LEMMA OutcomeStays ==
    ASSUME NEW i \in Offsets, Own(i)' \subseteq Own(i),
           \A g \in Own(i)' : pc'[g] = pc[g],
           UNCHANGED <<dlq[i], returned[i]>>,
           \A d \in Driver : i \in Served(d)' => i \in Served(d),
           returned[i] = 0 => Untouched(i), returned[i] = 1 => OneGoroutine(i)
    PROVE  /\ returned'[i] = 0 => Untouched(i)'
           /\ returned'[i] = 1 => OneGoroutine(i)'
BY DEF Untouched, OneGoroutine, DeadLettered

LEMMA OneOutcomeGoroutine ==
    ASSUME OneInv, NEW g \in Goroutine, processMessage(g)
    PROVE  Outcomes'
<1>1. /\ UNCHANGED <<reads, returned>> /\ Goroutine' = Goroutine
      /\ pc \in [Goroutine -> PC] /\ pc' \in [Goroutine -> PC] /\ pc[g] # "done"
      /\ \A h \in Goroutine \ {g} : pc'[h] = pc[h]
  BY AtWork DEF OneInv, process
<1>2. PICK n \in Offsets : n = reads[g]
  BY HasMessage DEF OneInv
<1>3. dlq \in [Offsets -> Nat] /\ returned \in [Offsets -> Nat]
  BY DEF OneInv, TypeInv, TypeOK, StoreType, ProcessType
<1>4. \A i \in Offsets : Own(i)' = Own(i)
  BY <1>1 DEF Own
<1>5. \A i \in Offsets \ {n} : dlq'[i] = dlq[i]
  <2>1. CASE DecodeFails(g) \/ DeadLetter(g)
    BY <1>2, <1>3, <2>1 DEF DecodeFails, DeadLetter, Send
  <2>2. CASE UNCHANGED dlq
    BY <2>2
  <2> QED
    BY <2>1, <2>2
       DEF processMessage, Decode, InsertSucceeds, InsertFails, SetLatest, GeoAdd,
           PublishLocationToStream
<1>6. ASSUME NEW d \in Driver, NEW i \in Served(d)', i \notin Served(d)
      PROVE  i = n /\ pc[g] \in {"set", "geoadd", "xadd"} /\ pc'[g] \in {"geoadd", "xadd", "done"}
  BY <1>2, <1>6, ServedBy DEF OneInv
<1> SUFFICES ASSUME NEW i \in Offsets
             PROVE  /\ returned'[i] = 0 => Untouched(i)'
                    /\ returned'[i] = 1 => OneGoroutine(i)'
  BY DEF Outcomes
<1>7. (returned[i] = 0 => Untouched(i)) /\ (returned[i] = 1 => OneGoroutine(i))
  BY DEF OneInv, Outcomes
<1>8. CASE i # n
  <2>1. \A h \in Own(i)' : pc'[h] = pc[h]
    BY <1>1, <1>2, <1>8 DEF Own
  <2>2. \A d \in Driver : i \in Served(d)' => i \in Served(d)
    BY <1>6, <1>8
  <2> QED BY <1>1, <1>4, <1>5, <1>7, <1>8, <2>1, <2>2, OutcomeStays
<1>9. CASE i = n
  <2>1. g \in Own(i) /\ returned[i] # 0
    BY <1>2, <1>7, <1>9 DEF Own, Untouched
  <2> SUFFICES ASSUME returned[i] = 1 PROVE OneGoroutine(i)'
    BY <1>1, <2>1
  <2>2. Own(i)' = {g} /\ Own(i) = {g}
    BY <1>4, <1>7, <2>1 DEF OneGoroutine
  <2>3. dlq[i] = 0 /\ \A d \in Driver : i \in Served(d) => pc[g] \in {"geoadd", "xadd"}
    BY <1>1, <1>3, <1>7, <2>2 DEF OneGoroutine, DeadLettered
  <2>4. CASE DecodeFails(g) \/ DeadLetter(g)
    <3>1. pc'[g] = "done" /\ pc[g] \in {"decode", "deadletter"}
      BY <1>1, <2>4 DEF DecodeFails, DeadLetter
    <3>2. dlq'[i] <= 1
      BY <1>2, <1>3, <1>9, <2>3, <2>4 DEF DecodeFails, DeadLetter, Send
    <3>3. \A d \in Driver : i \notin Served(d)'
      BY <1>6, <2>3, <3>1
    <3> QED BY <2>2, <3>1, <3>2, <3>3 DEF OneGoroutine
  <2>5. CASE UNCHANGED dlq /\ (pc[g] \in {"geoadd", "xadd"} => pc'[g] \in {"xadd", "done"})
    <3>1. ~DeadLettered(i)' /\ dlq'[i] = 0
      BY <2>3, <2>5 DEF DeadLettered
    <3>2. \A d \in Driver : i \in Served(d)' => pc'[g] \in {"geoadd", "xadd", "done"}
      BY <1>6, <2>3, <2>5
    <3> QED BY <2>2, <3>1, <3>2 DEF OneGoroutine
  <2> QED
    BY <1>1, <2>4, <2>5
       DEF processMessage, Decode, InsertSucceeds, InsertFails, SetLatest, GeoAdd,
           PublishLocationToStream
<1> QED BY <1>8, <1>9

LEMMA OneOutcomeStep ==
    ASSUME OneInv, [Next]_vars
    PROVE  OneInv'
<1>1. TypeInv'
  BY TypeInvStep DEF OneInv
<1>2. CASE \E g \in Goroutine : processMessage(g)
  BY <1>1, <1>2, OneOutcomeGoroutine DEF OneInv
<1>3. ASSUME UNCHANGED <<dlq, returned>>,
             \A i \in Offsets : Own(i)' \subseteq Own(i),
             \A i \in Offsets : \A g \in Own(i)' : pc'[g] = pc[g],
             \A d \in Driver, i \in Offsets : i \in Served(d)' => i \in Served(d)
      PROVE  Outcomes'
  BY <1>3, OutcomeStays DEF OneInv, Outcomes
<1>4. CASE ReadMessage
  <2>1. PICK n \in Offsets : n = position + 1
    BY <1>4, BoundsAssumption
       DEF ReadMessage, OneInv, TypeInv, TypeOK, BrokerType, ProcessType, Offsets
  <2>2. /\ reads' = Append(reads, n) /\ returned' = [returned EXCEPT ![n] = @ + 1]
        /\ UNCHANGED <<dlq, redis>>
        /\ \A g \in Goroutine' : pc'[g] = IF g \in Goroutine THEN pc[g] ELSE "decode"
    BY <1>4, <2>1 DEF ReadMessage
  <2>3. reads \in Seq(Offsets) /\ returned \in [Offsets -> Nat]
    BY DEF OneInv, TypeInv, TypeOK, ProcessType
  <2>4. /\ Len(reads) \in Nat /\ Len(reads') = Len(reads) + 1 /\ reads'[Len(reads) + 1] = n
        /\ \A g \in 1..Len(reads) : reads'[g] = reads[g]
    BY <2>2, <2>3
  <2>5. \A d \in Driver : Served(d)' = Served(d)
    BY <2>2 DEF redis, Served
  <2>6. \A i \in Offsets \ {n} : Own(i)' = Own(i) /\ \A g \in Own(i) : pc'[g] = pc[g]
    BY <2>2, <2>4 DEF Own, Goroutine
  <2>7. ASSUME NEW i \in Offsets
        PROVE  /\ returned'[i] = 0 => Untouched(i)'
               /\ returned'[i] = 1 => OneGoroutine(i)'
    <3>1. (returned[i] = 0 => Untouched(i)) /\ (returned[i] = 1 => OneGoroutine(i))
      BY DEF OneInv, Outcomes
    <3>2. CASE i # n
      BY <2>2, <2>3, <2>5, <2>6, <3>1, <3>2, OutcomeStays
    <3>3. CASE i = n
      <4>1. returned[i] \in Nat /\ returned'[i] = returned[i] + 1
        BY <2>2, <2>3, <3>3
      <4> SUFFICES ASSUME returned[i] = 0 PROVE OneGoroutine(i)'
        BY <4>1
      <4>2. Own(i) = {} /\ dlq[i] = 0 /\ \A d \in Driver : i \notin Served(d)
        BY <3>1 DEF Untouched
      <4>3. Own(i)' \subseteq {Len(reads) + 1}
        BY <2>4, <3>3, <4>2 DEF Own, Goroutine
      <4> QED BY <2>2, <2>5, <4>2, <4>3 DEF OneGoroutine, DeadLettered
    <3> QED BY <3>2, <3>3
  <2> QED BY <1>1, <2>7 DEF OneInv, Outcomes
<1>5. CASE Exit \/ Crash
  <2>1. UNCHANGED <<dlq, returned, redis>> /\ Goroutine' = {}
    BY <1>5 DEF Exit, Crash, EndProcess, Goroutine
  <2>2. \A i \in Offsets : Own(i)' = {}
    BY <2>1 DEF Own
  <2>3. \A d \in Driver : Served(d)' = Served(d)
    BY <2>1 DEF redis, Served
  <2> QED BY <1>1, <1>3, <2>1, <2>2, <2>3 DEF OneInv
<1>6. CASE UNCHANGED <<reads, pc, dlq, returned>>
           /\ \A d \in Driver : Served(d)' \subseteq Served(d)
  <2>1. \A i \in Offsets : Own(i)' = Own(i)
    BY <1>6 DEF Own, Goroutine
  <2> QED BY <1>1, <1>3, <1>6, <2>1 DEF OneInv
<1>7. CASE RedisRestarts \/ \E d \in Driver : Expire(d)
  <2>1. \A d \in Driver : Served(d)' \subseteq Served(d)
    BY <1>7 DEF RedisRestarts, Expire, Served, OneInv, TypeInv, TypeOK, RedisType
  <2> QED BY <1>6, <1>7, <2>1 DEF RedisRestarts, Expire, process
<1>8. CASE UNCHANGED <<reads, pc, dlq, returned, redis>>
  <2>1. \A d \in Driver : Served(d)' = Served(d)
    BY <1>8 DEF redis, Served
  <2> QED BY <1>6, <1>8, <2>1
<1> QED
  BY <1>2, <1>4, <1>5, <1>7, <1>8
     DEF Next, vars, process, Produce, CommitQueued, NewGeneration, Shutdown, Restart,
         StartAgain, Boot

(* A message that is read once is not both parked and pushed to Redis, nor  *)
(* parked twice, whatever crashes and rebalances around it.                 *)
THEOREM ParkedOrServed == Spec => []OneOutcome
<1>1. Init => OneInv
  <2> SUFFICES ASSUME Init PROVE OneInv
    OBVIOUS
  <2>1. \A i \in Offsets : Untouched(i) /\ returned[i] = 0
    BY DEF Init, Untouched, Own, Goroutine, Served, NoEvent, Offsets
  <2> QED BY <2>1, TypeInvInit DEF OneInv, Outcomes
<1>2. OneInv => OneOutcome
  <2> SUFFICES ASSUME OneInv, NEW i \in Offsets, DeadLettered(i), returned[i] = 1
               PROVE  dlq[i] = 1 /\ \A d \in Driver : i \notin Served(d)
    BY DEF OneOutcome
  <2>1. OneGoroutine(i) /\ dlq[i] \in Nat
    BY DEF OneInv, Outcomes, TypeInv, TypeOK, StoreType
  <2> QED BY <2>1 DEF OneGoroutine, DeadLettered
<1> QED BY <1>1, <1>2, OneOutcomeStep, PTL DEF Spec
-----------------------------------------------------------------------------
(* Worker implements Delivery.                                              *)

(* Rows, dead letters and losses are those of messages of the partition.    *)
Traced ==
    /\ \A r \in rows : \E i \in 1..Len(log) : r = Row(log[i])
    /\ \A i \in Offsets : DeadLettered(i) => i <= Len(log)
    /\ \A i \in abandoned \cup unsent : i <= Len(log)

DeliveryInv == OutcomeInv /\ Traced

LEMMA SendLetters ==
    ASSUME StoreType, NEW i \in Offsets, Send(i)
    PROVE  \/ /\ \A j \in Offsets : DeadLettered(j)' <=> DeadLettered(j) \/ j = i
              /\ unsent' = unsent
           \/ /\ \A j \in Offsets : DeadLettered(j)' <=> DeadLettered(j)
              /\ unsent' = unsent \cup {i}
BY DEF Send, StoreType, DeadLettered

LEMMA TracedStep ==
    ASSUME TypeInv, Traced, [Next]_vars
    PROVE  Traced'
<1> USE DEF Traced
<1>1. /\ Len(log) \in Nat /\ Len(log') \in Nat /\ Len(log) <= Len(log')
      /\ \A i \in 1..Len(log) : log'[i] = log[i]
  BY BrokerStep DEF TypeInv, TypeOK, BrokerType
<1>2. StoreType /\ Offsets \subseteq Int
  BY DEF TypeInv, TypeOK, Offsets
<1>3. CASE UNCHANGED <<rows, dlq, abandoned, unsent>>
  <2>1. \A r \in rows' : \E i \in 1..Len(log') : r = Row(log'[i])
    BY <1>1, <1>3 DEF Row
  <2>2. \A i \in Offsets : DeadLettered(i)' => i <= Len(log')
    BY <1>1, <1>2, <1>3 DEF DeadLettered
  <2>3. \A i \in abandoned' \cup unsent' : i <= Len(log')
    BY <1>1, <1>2, <1>3 DEF StoreType
  <2> QED BY <2>1, <2>2, <2>3
<1>4. ASSUME NEW g \in Goroutine, processMessage(g) PROVE Traced'
  <2>1. UNCHANGED <<log, abandoned>>
    BY <1>4, AtWork DEF broker
  <2>2. PICK n \in Offsets : n = reads[g] /\ n \in 1..Len(log) /\ Msg(g) = log[n]
    BY HasMessage
  <2>3. \A r \in rows' : r \in rows \/ r = Row(log[n])
    BY <1>4, <2>2 DEF processMessage, DecodeFails, Decode, InsertSucceeds, InsertFails,
                InsertLocation, DeadLetter, SetLatest, GeoAdd, PublishLocationToStream
  <2>4. /\ \A i \in Offsets : DeadLettered(i)' => DeadLettered(i) \/ i = n
        /\ unsent' \subseteq unsent \cup {n}
    <3>1. CASE DecodeFails(g) \/ DeadLetter(g)
      BY <1>2, <2>2, <3>1, SendLetters DEF DecodeFails, DeadLetter
    <3>2. CASE UNCHANGED <<dlq, unsent>>
      BY <3>2 DEF DeadLettered
    <3> QED BY <1>4, <3>1, <3>2
            DEF processMessage, Decode, InsertSucceeds, InsertFails,
                SetLatest, GeoAdd, PublishLocationToStream
  <2>5. \A r \in rows' : \E i \in 1..Len(log') : r = Row(log'[i])
    BY <2>1, <2>2, <2>3 DEF Row
  <2> QED BY <1>1, <2>1, <2>2, <2>4, <2>5
<1>5. CASE Exit \/ Crash
  <2>1. UNCHANGED <<log, rows, dlq, unsent>> /\ abandoned' = abandoned \cup InFlight
    BY <1>5 DEF Exit, Crash, EndProcess
  <2>2. \A i \in InFlight : i <= Len(log)
    BY HasMessage DEF InFlight
  <2> QED BY <2>1, <2>2 DEF Row, DeadLettered
<1> QED
  BY <1>3, <1>4, <1>5
     DEF Next, vars, Produce, ReadMessage, CommitQueued, NewGeneration, Shutdown, Restart,
         StartAgain, Boot, Expire, RedisRestarts, redis

LEMMA DeliveryInvInit == Init => DeliveryInv
BY CacheInvInit DEF Init, DeliveryInv, OutcomeInv, Accounted, Traced, DeadLettered

LEMMA DeliveryInvStep == DeliveryInv /\ [Next]_vars => DeliveryInv'
BY CacheInvStep, AccountedStep, TracedStep DEF DeliveryInv, OutcomeInv, CacheInv
-----------------------------------------------------------------------------
(* The fate of messages is a function of the log, the rows, the dead letters*)
(* and the goroutines.                                                      *)

LEMMA EventsOf ==
    ASSUME TypeInv
    PROVE  /\ Len(log) \in Nat /\ Len(events) = Len(log)
           /\ \A i \in 1..Len(log) : events[i] = Row(log[i])
BY DEF TypeInv, TypeOK, BrokerType, events

LEMMA FateStays ==
    ASSUME TypeInv, UNCHANGED <<log, rows>>,
           \A i \in Offsets : Persisted(i) \/ (DeadLettered(i)' <=> DeadLettered(i)),
           \A i \in Offsets : i <= Len(log) /\ ~Persisted(i) /\ ~DeadLettered(i) =>
               /\ i \in InFlight' <=> i \in InFlight
               /\ i \notin InFlight =>
                      (i \in abandoned' \cup unsent' <=> i \in abandoned \cup unsent)
    PROVE  UNCHANGED <<events, fate>>
<1>1. \A i \in Offsets : Persisted(i)' <=> Persisted(i)
  BY DEF Persisted, Row
<1>2. events' = events
  BY DEF events, Row
<1>3. \A i \in Offsets : fate'[i] = fate[i]
  BY <1>1, EventsOf DEF fate, Offsets
<1>4. fate' = [i \in Offsets |-> fate'[i]] /\ fate = [i \in Offsets |-> fate[i]]
  BY DEF fate
<1> QED BY <1>2, <1>3, <1>4

(* What a step of goroutine g leaves in flight.                             *)
LEMMA InFlightStep ==
    ASSUME TypeInv, NEW g \in Goroutine, processMessage(g)
    PROVE  /\ reads[g] \in InFlight
           /\ \A j \in InFlight \ {reads[g]} : j \in InFlight'
           /\ InFlight' \subseteq InFlight
           /\ pc'[g] # "done" => reads[g] \in InFlight'
<1>1. /\ UNCHANGED reads /\ Goroutine' = Goroutine /\ pc[g] # "done"
      /\ \A h \in Goroutine \ {g} : pc'[h] = pc[h]
  BY AtWork DEF process
<1> QED BY <1>1 DEF InFlight

(* A goroutine that gives its message to the dead letter topic: another one *)
(* may still be at work on the same message.                                *)
LEMMA LetterStep ==
    ASSUME DeliveryInv, NEW g \in Goroutine, DecodeFails(g) \/ DeadLetter(g)
    PROVE  D!Next \/ UNCHANGED <<events, fate, served>>
<1>1. TypeInv /\ StoreType /\ processMessage(g)
  BY DEF DeliveryInv, OutcomeInv, CacheInv, TypeInv, TypeOK, processMessage
<1>2. PICK n \in Offsets : n = reads[g] /\ n \in 1..Len(log)
  BY <1>1, HasMessage
<1>3. UNCHANGED <<log, rows, abandoned, redis>> /\ Send(n)
  BY <1>2 DEF DecodeFails, DeadLetter, broker
<1>4. /\ n \in InFlight
      /\ \A j \in Offsets \ {n} : j \in InFlight' <=> j \in InFlight
  BY <1>1, <1>2, InFlightStep
<1>5. \A j \in Offsets : Persisted(j)' <=> Persisted(j)
  BY <1>3 DEF Persisted, Row
<1>6. events' = events /\ served' = served
  BY <1>3 DEF events, Row, redis, served, Served
<1>7. \/ /\ \A j \in Offsets : DeadLettered(j)' <=> DeadLettered(j) \/ j = n
         /\ unsent' = unsent
      \/ /\ \A j \in Offsets : DeadLettered(j)' <=> DeadLettered(j)
         /\ unsent' = unsent \cup {n}
  BY <1>1, <1>3, SendLetters
<1>8. CASE Persisted(n) \/ DeadLettered(n)
  <2>1. \A j \in Offsets : Persisted(j) \/ (DeadLettered(j)' <=> DeadLettered(j))
    BY <1>7, <1>8
  <2>2. \A j \in Offsets : ~Persisted(j) /\ ~DeadLettered(j) =>
            (j \in abandoned' \cup unsent' <=> j \in abandoned \cup unsent)
    BY <1>3, <1>7, <1>8
  <2>3. \A j \in Offsets : ~Persisted(j) /\ ~DeadLettered(j) =>
            (j \in InFlight' <=> j \in InFlight)
    BY <1>4, <1>8
  <2> QED BY <1>1, <1>3, <1>6, <2>1, <2>2, <2>3, FateStays
<1>9. CASE ~Persisted(n) /\ ~DeadLettered(n)
  <2>1. fate[n] = "working"
    BY <1>1, <1>2, <1>4, <1>9, EventsOf DEF fate
  <2>2. \A j \in Offsets \ {n} : fate'[j] = fate[j]
    BY <1>3, <1>4, <1>5, <1>7 DEF fate
  <2>3. fate'[n] \in {"parked", "lost", "working"}
    BY <1>1, <1>2, <1>3, <1>5, <1>7, <1>9, EventsOf DEF fate
  <2>4. fate' = [fate EXCEPT ![n] = fate'[n]]
    BY <2>2 DEF fate
  <2>5. D!Park(n) \/ D!GiveUp(n) \/ fate' = fate
    <3>1. CASE fate'[n] = "working"
      <4>1. \A j \in Offsets : fate'[j] = fate[j]
        BY <2>1, <2>2, <3>1
      <4>2. fate' = [i \in Offsets |-> fate'[i]] /\ fate = [i \in Offsets |-> fate[i]]
        BY DEF fate
      <4> QED BY <4>1, <4>2
    <3>2. CASE fate'[n] \in {"parked", "lost"}
      BY <1>6, <2>1, <2>4, <3>2 DEF D!Park, D!GiveUp
    <3> QED BY <2>3, <3>1, <3>2
  <2> QED BY <1>6, <2>5 DEF D!Next, D!Message, Offsets
<1> QED BY <1>8, <1>9

(* A write of Cassandra, acknowledged or not.                               *)
LEMMA StoredStep ==
    ASSUME DeliveryInv, NEW g \in Goroutine, processMessage(g), InsertLocation(g),
           pc'[g] # "done", UNCHANGED <<log, dlq, abandoned, unsent, served>>
    PROVE  D!Next \/ UNCHANGED <<events, fate, served>>
<1>1. TypeInv
  BY DEF DeliveryInv, OutcomeInv, CacheInv
<1>2. PICK i \in Offsets : i = reads[g] /\ i \in 1..Len(log) /\ Msg(g) = log[i]
  BY <1>1, HasMessage
<1>3. \A j \in Offsets : /\ j \in InFlight' <=> j \in InFlight
                         /\ DeadLettered(j)' <=> DeadLettered(j)
  BY <1>1, InFlightStep DEF DeadLettered
<1>4. i \in InFlight /\ rows' = rows \cup {Row(log[i])}
  BY <1>1, <1>2, InFlightStep DEF InsertLocation
<1>5. CASE Persisted(i)
  <2>1. rows' = rows
    BY <1>4, <1>5 DEF Persisted
  <2> QED BY <1>1, <1>3, <2>1, FateStays
<1>6. CASE ~Persisted(i)
  <2>1. fate[i] \in {"working", "parked"}
    BY <1>1, <1>2, <1>4, <1>6, EventsOf DEF fate
  <2>2. events' = events
    BY DEF events, Row
  <2>3. ASSUME NEW j \in Offsets
        PROVE  fate'[j] = IF j <= Len(events) /\ events[j] = events[i]
                          THEN "stored" ELSE fate[j]
    <3>1. CASE j > Len(log)
      <4>1. ~(j <= Len(events)) /\ j > Len(log')
        BY <1>1, <3>1, EventsOf DEF Offsets
      <4> QED BY <3>1, <4>1 DEF fate
    <3>2. CASE j <= Len(log)
      <4>1. j \in 1..Len(log)
        BY <1>1, <3>2, EventsOf DEF Offsets
      <4>2. Persisted(j)' <=> Persisted(j) \/ Row(log[j]) = Row(log[i])
        BY <1>1, <1>4, <4>1, EventsOf DEF Persisted, Row
      <4>3. events[j] = Row(log[j]) /\ events[i] = Row(log[i]) /\ j <= Len(events)
        BY <1>1, <1>2, <4>1, EventsOf
      <4> QED BY <1>1, <1>3, <4>1, <4>2, <4>3, EventsOf DEF fate
    <3> QED BY <1>1, <3>1, <3>2, EventsOf DEF Offsets
  <2>4. fate' = [n \in Offsets |-> IF n <= Len(events) /\ events[n] = events[i]
                                   THEN "stored" ELSE fate[n]]
    BY <2>3 DEF fate
  <2>5. D!Store(i)
    BY <2>1, <2>2, <2>4 DEF D!Store, D!Message, Offsets
  <2> QED BY <2>5 DEF D!Next, D!Message, Offsets
<1> QED BY <1>5, <1>6
-----------------------------------------------------------------------------
(* Every step of the worker is a step of Delivery, or none.                 *)

ServesStored == served \subseteq {i \in D!Message : fate[i] = "stored"}

LEMMA ServedStored == CacheInv => ServesStored
<1> SUFFICES ASSUME CacheInv PROVE ServesStored
  OBVIOUS
<1>1. ASSUME NEW d \in Driver, NEW i \in Served(d) PROVE i \in Offsets /\ Persisted(i)
  BY DEF CacheInv, SourceOfTruth, Served, TypeInv, TypeOK, RedisType
<1>2. \A i \in Offsets : Persisted(i) => fate[i] = "stored"
  BY EventsOf DEF fate, Persisted, CacheInv, Offsets
<1> QED BY <1>1, <1>2 DEF ServesStored, served, D!Message, Offsets

LEMMA RedisServes ==
    ASSUME CacheInv', UNCHANGED <<events, fate>>
    PROVE  D!Next
<1>1. ServesStored'
  BY ServedStored, PTL
<1> QED BY <1>1 DEF D!Next, D!Serve, ServesStored

LEMMA StateStays ==
    ASSUME TypeInv, UNCHANGED <<log, rows, dlq, reads, pc, abandoned, unsent>>
    PROVE  UNCHANGED <<events, fate>>
BY FateStays DEF DeadLettered, InFlight, Goroutine

LEMMA ProduceStep ==
    ASSUME DeliveryInv, Produce
    PROVE  D!Next
<1>1. PICK m \in Inputs : log' = Append(log, m)
  BY DEF Produce
<1>2. /\ TypeInv /\ log \in Seq(Inputs) /\ Len(log) \in Nat /\ Len(log) < MaxLog
      /\ UNCHANGED <<rows, dlq, reads, pc, abandoned, unsent, redis>>
  BY DEF Produce, process, DeliveryInv, OutcomeInv, CacheInv, TypeInv, TypeOK, BrokerType
<1>0. PICK n \in Offsets : n = Len(log) + 1
  BY <1>2, BoundsAssumption DEF Offsets
<1>3. /\ n = Len(log) + 1 /\ Len(log') = n /\ log'[n] = m
      /\ \A i \in 1..Len(log) : log'[i] = log[i]
  BY <1>0, <1>1, <1>2
<1>4. m \in Message /\ Row(m) \in Driver \X Time \X EventId
  BY InputsAssumption DEF Message, Row
<1>5. events' = Append(events, Row(m)) /\ Len(events) = Len(log)
  <2>1. events' = [i \in 1..n |-> Row(log'[i])]
    BY <1>3 DEF events, Row
  <2>2. \A i \in 1..n : Row(log'[i]) = IF i = n THEN Row(m) ELSE Row(log[i])
    BY <1>2, <1>3 DEF Row
  <2>3. events \in Seq(Driver \X Time \X EventId) /\ Len(events) = Len(log)
    <3>1. \A i \in 1..Len(log) : Row(log[i]) \in Driver \X Time \X EventId
      BY <1>2, InputsAssumption DEF Message, Row
    <3> QED BY <1>2, <3>1 DEF events
  <2>4. /\ Append(events, Row(m)) \in Seq(Driver \X Time \X EventId)
        /\ Len(Append(events, Row(m))) = n
        /\ \A i \in 1..n : Append(events, Row(m))[i] =
                              IF i = n THEN Row(m) ELSE events[i]
    BY <1>2, <1>3, <1>4, <2>3, AppendProperties
  <2>5. \A i \in 1..Len(log) : events[i] = Row(log[i])
    BY <1>2, EventsOf
  <2>6. \A i \in 1..n : i = n \/ i \in 1..Len(log)
    BY <1>2, <1>3
  <2>7. /\ events' \in Seq(Driver \X Time \X EventId) /\ Len(events') = n
        /\ \A i \in 1..n : events'[i] = IF i = n THEN Row(m) ELSE events[i]
    <3>1. \A i \in 1..n : Row(log'[i]) = IF i = n THEN Row(m) ELSE events[i]
      BY <2>2, <2>5, <2>6
    <3>2. \A i \in 1..n : Row(log'[i]) \in Driver \X Time \X EventId
      BY <1>4, <2>2, <2>3, <2>6, <3>1
    <3> QED BY <1>2, <1>3, <2>1, <3>1, <3>2
  <2> QED BY <2>3, <2>4, <2>7, SeqEqual
<1>6. \A i \in Offsets \ {n} : fate'[i] = fate[i]
  <2>1. \A i \in Offsets \ {n} : (i > Len(log') <=> i > Len(log))
                                 /\ (Persisted(i)' <=> Persisted(i))
    BY <1>2, <1>3 DEF Offsets, Persisted, Row
  <2>2. \A i \in Offsets : (DeadLettered(i)' <=> DeadLettered(i)) /\ InFlight' = InFlight
    BY <1>2 DEF DeadLettered, InFlight, Goroutine
  <2> QED BY <1>2, <2>1, <2>2 DEF fate
<1>7. fate'[n] = IF \E k \in 1..Len(events) : events[k] = Row(m) /\ fate[k] = "stored"
                 THEN "stored" ELSE "waiting"
  <2>1. Persisted(n)' <=> Row(m) \in rows
    BY <1>2, <1>3 DEF Persisted, Row
  <2>2. Row(m) \in rows <=> \E k \in 1..Len(log) : Row(log[k]) = Row(m) /\ Persisted(k)
    BY <1>2 DEF DeliveryInv, Traced, Persisted
  <2>3. \A k \in 1..Len(log) : Persisted(k) <=> fate[k] = "stored"
    BY <1>2, BoundsAssumption DEF fate, Offsets
  <2>4. \A k \in 1..Len(log) : events[k] = Row(log[k])
    BY <1>2, EventsOf
  <2>5. ~DeadLettered(n)' /\ n \notin abandoned' \cup unsent'
    BY <1>2, <1>3 DEF DeliveryInv, Traced, DeadLettered
  <2>6. n \notin InFlight'
    <3>1. n \notin InFlight
      BY <1>2, <1>3, HasMessage DEF InFlight
    <3> QED BY <1>2, <3>1 DEF InFlight, Goroutine
  <2>7. fate'[n] = IF Persisted(n)' THEN "stored" ELSE "waiting"
    BY <1>2, <1>3, <2>5, <2>6 DEF fate
  <2> QED BY <1>5, <2>1, <2>2, <2>3, <2>4, <2>7
<1>8. fate' = [fate EXCEPT ![n] = fate'[n]]
  BY <1>6 DEF fate
<1>9. served' = served
  BY <1>2 DEF served, Served, redis
<1>10. D!Arrive(Row(m))
  BY <1>2, <1>3, <1>5, <1>7, <1>8, <1>9 DEF D!Arrive
<1> QED BY <1>4, <1>10 DEF D!Next
LEMMA ReadStep ==
    ASSUME DeliveryInv, ReadMessage
    PROVE  D!Next \/ UNCHANGED <<events, fate, served>>
<1>1. PICK m \in Offsets : m = position + 1 /\ m <= Len(log)
  BY BoundsAssumption
     DEF ReadMessage, DeliveryInv, OutcomeInv, CacheInv, TypeInv, TypeOK, BrokerType, ProcessType,
         Offsets
<1>2. /\ TypeInv /\ position \in Nat /\ reads \in Seq(Offsets)
      /\ reads' = Append(reads, m)
      /\ UNCHANGED <<log, rows, dlq, abandoned, unsent, redis>>
      /\ \A g \in Goroutine' : pc'[g] = IF g \in Goroutine THEN pc[g] ELSE "decode"
  BY <1>1 DEF ReadMessage, broker, DeliveryInv, OutcomeInv, CacheInv, TypeInv, TypeOK,
              ProcessType
<1>3. InFlight' = InFlight \cup {m}
  <2>1. /\ Len(reads) \in Nat /\ Len(reads') = Len(reads) + 1 /\ reads'[Len(reads) + 1] = m
        /\ \A g \in 1..Len(reads) : reads'[g] = reads[g]
    BY <1>2
  <2>2. /\ Goroutine' = Goroutine \cup {Len(reads) + 1} /\ Len(reads) + 1 \notin Goroutine
        /\ pc'[Len(reads) + 1] = "decode"
        /\ \A g \in Goroutine : pc'[g] = pc[g] /\ reads'[g] = reads[g]
    BY <1>2, <2>1 DEF Goroutine
  <2> QED BY <2>1, <2>2 DEF InFlight
<1>4. \A j \in Offsets : (Persisted(j)' <=> Persisted(j)) /\ (DeadLettered(j)' <=> DeadLettered(j))
  BY <1>2 DEF Persisted, DeadLettered, Row
<1>5. served' = served /\ events' = events
  BY <1>2 DEF served, Served, redis, events, Row
<1>6. CASE Persisted(m) \/ DeadLettered(m) \/ m \in InFlight
  BY <1>2, <1>3, <1>4, <1>5, <1>6, FateStays
<1>7. CASE ~Persisted(m) /\ ~DeadLettered(m) /\ m \notin InFlight
  <2>1. fate[m] \in {"waiting", "lost"} /\ fate'[m] = "working"
    BY <1>1, <1>2, <1>3, <1>4, <1>7, EventsOf DEF fate, Offsets
  <2>2. \A j \in Offsets \ {m} : fate'[j] = fate[j]
    BY <1>2, <1>3, <1>4 DEF fate
  <2>3. fate' = [fate EXCEPT ![m] = "working"]
    BY <2>1, <2>2 DEF fate
  <2>4. \A j \in 1..(m - 1) : fate[j] # "waiting"
    <3>1. ASSUME NEW j \in 1..position PROVE j \in InFlight \/ Settled(j)
      BY DEF DeliveryInv, OutcomeInv, Accounted
    <3>2. \A j \in 1..(m - 1) : j \in 1..position /\ j \in Offsets
      BY <1>1, <1>2, BoundsAssumption DEF Offsets
    <3> QED BY <3>1, <3>2 DEF fate, Settled
  <2>5. D!Take(m)
    BY <1>5, <2>1, <2>3, <2>4 DEF D!Take
  <2> QED BY <2>5 DEF D!Next, D!Message, Offsets
<1> QED BY <1>6, <1>7

LEMMA EndStep ==
    ASSUME DeliveryInv, Exit \/ Crash
    PROVE  D!Next
<1>1. /\ TypeInv /\ UNCHANGED <<log, rows, dlq, unsent, redis>>
      /\ abandoned' = abandoned \cup InFlight /\ reads' = <<>>
  BY DEF Exit, Crash, EndProcess, DeliveryInv, OutcomeInv, CacheInv
<1>2. InFlight' = {}
  BY <1>1 DEF InFlight, Goroutine
<1>3. \A j \in Offsets : (Persisted(j)' <=> Persisted(j)) /\ (DeadLettered(j)' <=> DeadLettered(j))
  BY <1>1 DEF Persisted, DeadLettered, Row
<1>4. served' = served /\ events' = events
  BY <1>1 DEF served, Served, redis, events, Row
<1>5. \A j \in Offsets : fate'[j] = IF fate[j] = "working" THEN "lost" ELSE fate[j]
  BY <1>1, <1>2, <1>3 DEF fate
<1>6. fate' = [j \in Offsets |-> IF fate[j] = "working" THEN "lost" ELSE fate[j]]
  BY <1>5 DEF fate
<1> QED BY <1>4, <1>6 DEF D!Next, D!Abandon, D!Message, Offsets

(* The three caching steps, of a goroutine whose event is stored.           *)
LEMMA CacheStep ==
    ASSUME DeliveryInv, NEW g \in Goroutine, CacheInv',
           SetLatest(g) \/ GeoAdd(g) \/ PublishLocationToStream(g)
    PROVE  D!Next
<1>1. /\ TypeInv /\ Persisted(reads[g]) /\ processMessage(g)
      /\ UNCHANGED <<log, rows, dlq, abandoned, unsent>>
  BY DEF DeliveryInv, OutcomeInv, CacheInv, Inserted, SetLatest, GeoAdd,
         PublishLocationToStream, broker, processMessage
<1>2. \A j \in Offsets : ~Persisted(j) => (j \in InFlight' <=> j \in InFlight)
  BY <1>1, InFlightStep
<1>3. \A j \in Offsets : DeadLettered(j)' <=> DeadLettered(j)
  BY <1>1 DEF DeadLettered
<1>4. UNCHANGED <<events, fate>>
  BY <1>1, <1>2, <1>3, FateStays
<1> QED BY <1>4, RedisServes

LEMMA GoroutineDelivers ==
    ASSUME DeliveryInv, NEW g \in Goroutine, processMessage(g), CacheInv'
    PROVE  D!Next \/ UNCHANGED <<events, fate, served>>
<1>1. TypeInv /\ pc \in [Goroutine -> PC]
  BY DEF DeliveryInv, OutcomeInv, CacheInv, TypeInv, TypeOK, GoroutineType
<1>2. CASE InsertSucceeds(g) \/ InsertFails(g)
  <2>1. UNCHANGED <<log, dlq, abandoned, unsent, redis>> /\ pc'[g] # "done"
    BY <1>1, <1>2 DEF InsertSucceeds, InsertFails, broker
  <2>2. served' = served
    BY <2>1 DEF served, Served, redis
  <2>3. CASE InsertLocation(g)
    BY <2>1, <2>2, <2>3, StoredStep
  <2>4. CASE UNCHANGED rows
    <3>1. \A j \in Offsets : /\ j \in InFlight' <=> j \in InFlight
                             /\ DeadLettered(j)' <=> DeadLettered(j)
      BY <1>1, <2>1, InFlightStep DEF DeadLettered
    <3> QED BY <1>1, <2>1, <2>2, <2>4, <3>1, FateStays
  <2> QED BY <1>2, <2>3, <2>4 DEF InsertSucceeds, InsertFails
<1>3. CASE Decode(g)
  <2>1. UNCHANGED <<log, rows, dlq, abandoned, unsent, redis>> /\ pc'[g] # "done"
    BY <1>1, <1>3 DEF Decode, broker
  <2>2. served' = served
    BY <2>1 DEF served, Served, redis
  <2>3. \A j \in Offsets : /\ j \in InFlight' <=> j \in InFlight
                           /\ DeadLettered(j)' <=> DeadLettered(j)
    BY <1>1, <2>1, InFlightStep DEF DeadLettered
  <2> QED BY <1>1, <2>1, <2>2, <2>3, FateStays
<1>4. CASE SetLatest(g) \/ GeoAdd(g) \/ PublishLocationToStream(g)
  BY <1>4, CacheStep
<1> QED BY <1>2, <1>3, <1>4, LetterStep DEF processMessage

LEMMA DeliveryInit == Init => D!Init
<1> SUFFICES ASSUME Init PROVE D!Init
  OBVIOUS
<1>1. log = <<>> /\ Len(log) = 0
  BY DEF Init
<1>2. events = <<>>
  BY <1>1 DEF events
<1>3. fate = [m \in Offsets |-> "none"]
  BY <1>1 DEF fate, Offsets
<1>4. served = {}
  BY DEF Init, served, Served, NoEvent
<1> QED BY <1>2, <1>3, <1>4 DEF D!Init, D!Message, Offsets

LEMMA DeliveryStep ==
    DeliveryInv /\ DeliveryInv' /\ [Next]_vars => [D!Next]_<<events, fate, served>>
<1> SUFFICES ASSUME DeliveryInv, DeliveryInv', [Next]_vars
             PROVE  D!Next \/ UNCHANGED <<events, fate, served>>
  OBVIOUS
<1>1. TypeInv /\ CacheInv'
  BY DEF DeliveryInv, OutcomeInv, CacheInv
<1>2. CASE UNCHANGED <<log, rows, dlq, reads, pc, abandoned, unsent>>
  <2>1. UNCHANGED <<events, fate>>
    BY <1>1, <1>2, StateStays
  <2> QED BY <1>1, <2>1, RedisServes
<1>3. CASE Produce
  BY <1>3, ProduceStep
<1>4. CASE ReadMessage
  BY <1>4, ReadStep
<1>5. CASE \E g \in Goroutine : processMessage(g)
  BY <1>1, <1>5, GoroutineDelivers
<1>6. CASE Exit \/ Crash
  BY <1>6, EndStep
<1> QED
  BY <1>2, <1>3, <1>4, <1>5, <1>6
     DEF Next, vars, broker, process, CommitQueued, NewGeneration, Shutdown, Restart,
         StartAgain, Boot, Expire, RedisRestarts

(* The worker implements Delivery: whatever it crashes under, redelivers or *)
(* fails to write, every message is taken in order and stored, parked or    *)
(* lost, what is stored stays so, and nothing else is ever served.          *)
THEOREM WorkerDelivers == Spec => Delivers
BY DeliveryInit, DeliveryInvInit, DeliveryInvStep, DeliveryStep, PTL
   DEF Spec, Delivers, D!Spec
=============================================================================
