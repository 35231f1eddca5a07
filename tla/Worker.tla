------------------------------- MODULE Worker -------------------------------
(***************************************************************************)
(* The consumer process of src/server/worker: it reads GPS events from one *)
(* Kafka partition, starts a goroutine for each, and every goroutine       *)
(* persists its event in Cassandra (with retries), parks it in the dead    *)
(* letter queue when it cannot, and otherwise refreshes the Redis caches.  *)
(*                                                                         *)
(* An event is named by its offset in the partition, so the caches, the    *)
(* streams and the dead letters hold offsets; 0 is "no event".  Everything *)
(* a step of Go code does between two calls that leave the process is one  *)
(* action; a goroutine may be overtaken by any other between two of its    *)
(* actions, and the process may die there.                                 *)
(***************************************************************************)
EXTENDS Integers, Sequences, FiniteSets

CONSTANTS
    Driver,         \* driver ids
    EventId,        \* idempotency keys (event_id)
    Time,           \* values of recorded_at
    Inputs,         \* the messages producers may append to the partition
    maxRetries,     \* attempts of insertWithRetry
    MaxLog,         \* bound: length of the partition
    MaxInterruptions \* bound: shutdowns, crashes and rebalances

(***************************************************************************)
(* A Kafka message: its "encoding" header, the codec its value was really  *)
(* written with, and whether both of its ids are UUIDs.                    *)
(***************************************************************************)
Message == [driver : Driver, id : EventId, at : Time,
            header : {"proto", "json", "none"},
            codec  : {"proto", "json", "garbage"},
            uuids  : BOOLEAN]

ASSUME InputsAssumption == Inputs \subseteq Message
ASSUME BoundsAssumption ==
    /\ maxRetries \in Nat \ {0}
    /\ MaxLog \in Nat
    /\ MaxInterruptions \in Nat

Offsets == 1..MaxLog
NoEvent == 0

VARIABLES
    log,        \* the partition: the sequence of messages producers appended
    committed,  \* the group's committed offset at the broker
    phase,      \* the process: "running", "stopping", "stopped" or "down"
    interruptions,  \* how often it was stopped, crashed or rebalanced
    position,   \* the last offset ReadMessage returned; its commit is queued
    reads,      \* the offsets it returned to this process, a goroutine for each
    pc,         \* where each goroutine is
    attempt,    \* failed attempts while it is in the loop of insertWithRetry
    metrics,    \* the counters of worker/metrics.go
    rows,       \* primary keys in Cassandra's driver_locations
    dlq,        \* the dead letter topic: how many letters each offset has
    latest,     \* driver:latest:<driver> in Redis
    geo,        \* the drivers:geo index: the event whose position it holds
    stream,     \* driver:stream:<driver>: the events in it
    returned,   \* history: how often each offset was read, by any process
    abandoned,  \* history: offsets whose goroutine died with the process
    unsent      \* history: offsets whose dead letter could not be written

broker  == <<log, committed>>
process == <<phase, interruptions, position, reads, returned>>
redis   == <<latest, geo, stream>>
vars == <<broker, process, pc, attempt, metrics, rows, dlq, redis,
          abandoned, unsent>>

Alive == phase \in {"running", "stopping"}
Goroutine == 1..Len(reads)
InFlight == {reads[g] : g \in {h \in Goroutine : pc[h] # "done"}}

Row(m) == <<m.driver, m.at, m.id>>
Persisted(i) == i <= Len(log) /\ Row(log[i]) \in rows
DeadLettered(i) == dlq[i] > 0

Init ==
    /\ log = <<>> /\ committed = 0
    /\ phase = "running" /\ interruptions = 0 /\ position = 0
    /\ reads = <<>> /\ pc = <<>> /\ attempt = <<>>
    /\ returned = [i \in Offsets |-> 0]
    /\ metrics = [processed |-> 0, failed |-> 0, dlqSent |-> 0]
    /\ rows = {} /\ dlq = [i \in Offsets |-> 0]
    /\ latest = [d \in Driver |-> NoEvent]
    /\ geo = [d \in Driver |-> NoEvent]
    /\ stream = [d \in Driver |-> {}]
    /\ abandoned = {} /\ unsent = {}

-----------------------------------------------------------------------------
(* The partition and its consumer.                                         *)

Produce ==
    /\ Len(log) < MaxLog
    /\ \E m \in Inputs : log' = Append(log, m)
    /\ UNCHANGED <<committed, process, pc, attempt, metrics, rows, dlq, redis,
                   abandoned, unsent>>

(* ReadMessage queues the commit of what it returns, then the loop starts   *)
(* a goroutine and reads on.  After cancel() it may still win the race with *)
(* ctx.Done() and return a message.                                         *)
ReadMessage ==
    /\ Alive /\ position < Len(log)
    /\ position' = position + 1
    /\ reads' = Append(reads, position + 1)
    /\ pc' = [g \in Goroutine' |-> IF g \in Goroutine THEN pc[g] ELSE "decode"]
    /\ attempt' = [g \in Goroutine' |-> IF g \in Goroutine THEN attempt[g] ELSE 0]
    /\ returned' = [returned EXCEPT ![position + 1] = @ + 1]
    /\ UNCHANGED <<broker, phase, interruptions, metrics, rows, dlq, redis,
                   abandoned, unsent>>

(* The reader's commit loop (every CommitInterval, and on Close) sends what *)
(* is queued: the offsets read, whatever their goroutines are doing.        *)
CommitQueued ==
    /\ Alive /\ committed < position
    /\ committed' = position
    /\ UNCHANGED <<log, process, pc, attempt, metrics, rows, dlq, redis,
                   abandoned, unsent>>

(* A rebalance, or a session that timed out: in the group's new generation  *)
(* the reader goes on after the committed offset, and what was read but not *)
(* yet committed is read again while its first goroutines go on.            *)
NewGeneration ==
    /\ Alive /\ interruptions < MaxInterruptions
    /\ interruptions' = interruptions + 1
    /\ position' = committed
    /\ UNCHANGED <<broker, phase, reads, returned, pc, attempt, metrics, rows,
                   dlq, redis, abandoned, unsent>>

-----------------------------------------------------------------------------
(* processMessage, goroutine g.                                            *)

Msg(g) == log[reads[g]]

Encoding(m) == IF m.header = "proto" THEN "proto" ELSE "json"
Decodes(m) == m.codec = Encoding(m)

(* DLQWriter.Send: one attempt, its error only logged.                      *)
Send(i) ==
    \/ dlq' = [dlq EXCEPT ![i] = @ + 1] /\ UNCHANGED unsent
    \/ unsent' = unsent \cup {i} /\ UNCHANGED dlq

DecodeFailsUncounted(g) ==              \* dlqSent.Inc() forgotten
    /\ pc[g] = "decode" /\ ~Decodes(Msg(g))
    /\ Send(reads[g])
    /\ pc' = [pc EXCEPT ![g] = "done"]
    /\ UNCHANGED <<broker, process, attempt, metrics, rows, redis, abandoned>>

DecodeFailsUnsent(g) ==                 \* an undecodable message is skipped
    /\ pc[g] = "decode" /\ ~Decodes(Msg(g))
    /\ pc' = [pc EXCEPT ![g] = "done"]
    /\ UNCHANGED <<broker, process, attempt, metrics, rows, dlq, redis,
                   abandoned, unsent>>

DecodeFails(g) ==
    /\ pc[g] = "decode" /\ ~Decodes(Msg(g))
    /\ Send(reads[g])
    /\ metrics' = [metrics EXCEPT !.dlqSent = @ + 1]
    /\ pc' = [pc EXCEPT ![g] = "done"]
    /\ UNCHANGED <<broker, process, attempt, rows, redis, abandoned>>

Decode(g) ==
    /\ pc[g] = "decode" /\ Decodes(Msg(g))
    /\ pc' = [pc EXCEPT ![g] = "insert"]
    /\ UNCHANGED <<broker, process, attempt, metrics, rows, dlq, redis,
                   abandoned, unsent>>

(* Executed once, if both ids are UUIDs; the same event is the same row.    *)
InsertLocation(g) ==
    /\ Msg(g).uuids
    /\ rows' = rows \cup {Row(Msg(g))}

InsertSucceeds(g) ==
    /\ pc[g] = "insert" /\ InsertLocation(g)
    /\ metrics' = [metrics EXCEPT !.processed = @ + 1]
    /\ attempt' = [attempt EXCEPT ![g] = 0]
    /\ pc' = [pc EXCEPT ![g] = "set"]
    /\ UNCHANGED <<broker, process, dlq, redis, abandoned, unsent>>

GivesUpOffByOne(g) == attempt[g] + 1 > maxRetries
GivesUp(g) == attempt[g] + 1 = maxRetries

InsertFailsForever(g) ==                \* the attempt is not counted
    /\ pc[g] = "insert"
    /\ UNCHANGED vars

(* An attempt fails: the ids do not parse, or Cassandra does not answer, in *)
(* which case the write may have been applied all the same.                 *)
InsertFails(g) ==
    /\ pc[g] = "insert"
    /\ UNCHANGED rows \/ InsertLocation(g)
    /\ IF GivesUp(g)
       THEN /\ attempt' = [attempt EXCEPT ![g] = 0]
            /\ pc' = [pc EXCEPT ![g] = "deadletter"]
       ELSE /\ attempt' = [attempt EXCEPT ![g] = @ + 1]
            /\ UNCHANGED pc
    /\ UNCHANGED <<broker, process, metrics, dlq, redis, abandoned, unsent>>

DeadLetterNoReturn(g) ==                \* the return after Send forgotten
    /\ pc[g] = "deadletter"
    /\ Send(reads[g])
    /\ metrics' = [metrics EXCEPT !.dlqSent = @ + 1, !.failed = @ + 1]
    /\ pc' = [pc EXCEPT ![g] = "set"]
    /\ UNCHANGED <<broker, process, attempt, rows, redis, abandoned>>

DeadLetter(g) ==
    /\ pc[g] = "deadletter"
    /\ Send(reads[g])
    /\ metrics' = [metrics EXCEPT !.dlqSent = @ + 1, !.failed = @ + 1]
    /\ pc' = [pc EXCEPT ![g] = "done"]
    /\ UNCHANGED <<broker, process, attempt, rows, redis, abandoned>>

(* SetLatestLocation: SET, then GEOADD unless SET failed.  A command that   *)
(* fails may have been executed, but go-redis sends none once cancel() was  *)
(* called; InsertLocation knows no context and goes on.                     *)
Uncancelled == phase = "running"

SetLatest(g) ==
    /\ pc[g] = "set"
    /\ \/ /\ Uncancelled
          /\ latest' = [latest EXCEPT ![Msg(g).driver] = reads[g]]
          /\ pc' \in {[pc EXCEPT ![g] = "geoadd"], [pc EXCEPT ![g] = "xadd"]}
       \/ /\ UNCHANGED latest
          /\ pc' = [pc EXCEPT ![g] = "xadd"]
    /\ UNCHANGED <<broker, process, attempt, metrics, rows, dlq, geo, stream,
                   abandoned, unsent>>

GeoAdd(g) ==
    /\ pc[g] = "geoadd"
    /\ \/ Uncancelled /\ geo' = [geo EXCEPT ![Msg(g).driver] = reads[g]]
       \/ UNCHANGED geo
    /\ pc' = [pc EXCEPT ![g] = "xadd"]
    /\ UNCHANGED <<broker, process, attempt, metrics, rows, dlq, latest,
                   stream, abandoned, unsent>>

(* XADD with MAXLEN ~ may drop entries (LiveStream says which).             *)
PublishLocationToStream(g) ==
    /\ pc[g] = "xadd"
    /\ \/ /\ Uncancelled
          /\ \E s \in SUBSET stream[Msg(g).driver] :
                 stream' = [stream EXCEPT ![Msg(g).driver] = s \cup {reads[g]}]
       \/ UNCHANGED stream
    /\ pc' = [pc EXCEPT ![g] = "done"]
    /\ UNCHANGED <<broker, process, attempt, metrics, rows, dlq, latest, geo,
                   abandoned, unsent>>

processMessage(g) ==
    \/ DecodeFails(g) \/ Decode(g)
    \/ InsertSucceeds(g) \/ InsertFails(g) \/ DeadLetter(g)
    \/ SetLatest(g) \/ GeoAdd(g) \/ PublishLocationToStream(g)

-----------------------------------------------------------------------------
(* The life of the process.                                                *)

Shutdown ==
    /\ phase = "running" /\ interruptions < MaxInterruptions
    /\ phase' = "stopping" /\ interruptions' = interruptions + 1
    /\ UNCHANGED <<broker, position, reads, returned, pc, attempt, metrics,
                   rows, dlq, redis, abandoned, unsent>>

(* The process is gone, and with it every goroutine and every counter.      *)
EndProcess ==
    /\ abandoned' = abandoned \cup InFlight
    /\ reads' = <<>> /\ pc' = <<>> /\ attempt' = <<>>
    /\ metrics' = [processed |-> 0, failed |-> 0, dlqSent |-> 0]
    /\ UNCHANGED <<log, position, returned, rows, dlq, redis, unsent>>

(* The two seconds are over: reader.Close() flushes the queued commits (it  *)
(* may fail to), and main returns, whatever is still in flight.             *)
Exit ==
    /\ phase = "stopping"
    /\ phase' = "stopped"
    /\ committed' \in {committed, position}
    /\ UNCHANGED interruptions
    /\ EndProcess

Crash ==
    /\ Alive /\ interruptions < MaxInterruptions
    /\ phase' = "down" /\ interruptions' = interruptions + 1
    /\ UNCHANGED committed
    /\ EndProcess

(* main up to the consumer loop: it returns once Cassandra answers, and the *)
(* reader resumes at the committed offset.                                  *)
Boot ==
    /\ phase' = "running"
    /\ position' = committed
    /\ UNCHANGED <<broker, interruptions, reads, returned, pc, attempt, metrics,
                   rows, dlq, redis, abandoned, unsent>>

Restart == phase = "down" /\ Boot                        \* restart: on-failure
StartAgain == phase = "stopped" /\ Boot                  \* by an operator

-----------------------------------------------------------------------------
(* Redis, which the worker does not own: a key's TTL runs out, the server   *)
(* restarts empty (it runs without persistence).                            *)

Expire(d) ==
    /\ latest[d] # NoEvent
    /\ latest' = [latest EXCEPT ![d] = NoEvent]
    /\ UNCHANGED <<broker, process, pc, attempt, metrics, rows, dlq, geo,
                   stream, abandoned, unsent>>

RedisRestarts ==
    /\ latest' = [d \in Driver |-> NoEvent]
    /\ geo' = [d \in Driver |-> NoEvent]
    /\ stream' = [d \in Driver |-> {}]
    /\ UNCHANGED <<broker, process, pc, attempt, metrics, rows, dlq, abandoned,
                   unsent>>

Next ==
    \/ Produce \/ ReadMessage \/ CommitQueued \/ NewGeneration
    \/ \E g \in Goroutine : processMessage(g)
    \/ Shutdown \/ Exit \/ Crash \/ Restart \/ StartAgain
    \/ \E d \in Driver : Expire(d)
    \/ RedisRestarts

(* The Go scheduler runs every goroutine, every call returns (drivers have  *)
(* timeouts), the reader keeps reading, and Docker restarts a crashed       *)
(* worker.  Nobody promises to start a stopped one.                         *)
Fairness ==
    /\ WF_vars(phase = "running" /\ ReadMessage)
    /\ WF_vars(\E g \in Goroutine : processMessage(g))
    /\ WF_vars(Exit)
    /\ WF_vars(Restart)

Spec == Init /\ [][Next]_vars
FairSpec == Spec /\ Fairness
-----------------------------------------------------------------------------
(* What the worker is checked for.                                         *)

PC == {"decode", "insert", "deadletter", "set", "geoadd", "xadd", "done"}

BrokerType == log \in Seq(Inputs) /\ Len(log) <= MaxLog /\ committed \in Nat

ProcessType ==
    /\ phase \in {"running", "stopping", "stopped", "down"}
    /\ interruptions \in 0..MaxInterruptions /\ position \in Nat
    /\ committed <= position /\ position <= Len(log)
    /\ reads \in Seq(Offsets) /\ returned \in [Offsets -> Nat]

GoroutineType ==
    /\ pc \in [Goroutine -> PC]
    /\ attempt \in [Goroutine -> 0..(maxRetries - 1)]
    /\ metrics \in [processed : Nat, failed : Nat, dlqSent : Nat]

StoreType ==
    /\ rows \subseteq Driver \X Time \X EventId
    /\ dlq \in [Offsets -> Nat]
    /\ abandoned \subseteq Offsets /\ unsent \subseteq Offsets

RedisType ==
    /\ latest \in [Driver -> Offsets \cup {NoEvent}]
    /\ geo \in [Driver -> Offsets \cup {NoEvent}]
    /\ stream \in [Driver -> SUBSET Offsets]

(* The shape of the state; the attempts stay below maxRetries and the       *)
(* reader is never ahead of the partition nor behind its own commits.       *)
TypeOK == BrokerType /\ ProcessType /\ GoroutineType /\ StoreType /\ RedisType

Served(d) == ({latest[d], geo[d]} \ {NoEvent}) \cup stream[d]

(* Cassandra is the source of truth (README.md:233-235): whatever Redis     *)
(* serves about a driver, in the latest key, the geo index or the stream,   *)
(* is an event of that driver that Cassandra was given before.              *)
SourceOfTruth ==
    \A d \in Driver : \A i \in Served(d) : Persisted(i) /\ log[i].driver = d

(* Every message at or below the reader's position has an outcome, across   *)
(* crashes and redeliveries: its goroutine is at work, Cassandra has it, or *)
(* the dead letter queue has it.  The two ways to lose it are a process     *)
(* that ends under its goroutine and a dead letter that cannot be written.  *)
Settled(i) == Persisted(i) \/ DeadLettered(i) \/ i \in abandoned \/ i \in unsent
Accounted == \A i \in 1..position : i \in InFlight \/ Settled(i)

(* The counters of a process add up: every message that ReadMessage         *)
(* returned to it, again or not, is counted exactly once as processed or    *)
(* dead-lettered, or is still being decided.                                *)
Undecided == {g \in Goroutine : pc[g] \in {"decode", "insert", "deadletter"}}
MetricsBalance ==
    /\ Len(reads) = metrics.processed + metrics.dlqSent + Cardinality(Undecided)
    /\ metrics.failed <= metrics.dlqSent

(* A message that was read once, whatever else was crashed or rebalanced,   *)
(* has one outcome: if it is dead-lettered, it is parked once and is never  *)
(* pushed to Redis.  Only a message that is read again may have both.       *)
OneOutcome ==
    \A i \in Offsets : DeadLettered(i) /\ returned[i] = 1 =>
        /\ \A d \in Driver : i \notin Served(d)
        /\ dlq[i] = 1

(* No message is left behind: whatever Cassandra, Redis and the dead letter *)
(* queue answer (dlq.go:46-48), a message in the partition is settled and   *)
(* its goroutine gone, unless an operator stops the worker.                 *)
Drained ==
    \A i \in Offsets :
        i <= Len(log) ~> \/ i \notin InFlight /\ i <= position /\ Settled(i)
                         \/ phase = "stopped"

(* The worker implements Delivery: what the dead letters, the rows and the  *)
(* goroutines say of a message is its fate there.                           *)
events == [i \in 1..Len(log) |-> Row(log[i])]
fate == [i \in Offsets |->
            IF i > Len(log) THEN "none"
            ELSE IF Persisted(i) THEN "stored"
            ELSE IF DeadLettered(i) THEN "parked"
            ELSE IF i \in InFlight THEN "working"
            ELSE IF i \in abandoned \cup unsent THEN "lost"
            ELSE "waiting"]

served == UNION {Served(d) : d \in Driver}

D == INSTANCE Delivery WITH Event <- Driver \X Time \X EventId, MaxMessages <- MaxLog

(* Messages are taken in order and every one is stored, parked or lost as   *)
(* Delivery allows; what is stored stays so and is all that is served.      *)
Delivers == D!Spec

-----------------------------------------------------------------------------
(* What the repository says of the worker, and the code does not do.       *)

(* README.md:261 "Kafka offset committed after successful Cassandra         *)
(* insert": the commit is queued by ReadMessage before the goroutine runs.  *)
CommittedAfterInsert == \A i \in 1..committed : Persisted(i) \/ DeadLettered(i)

(* README.md:222 "Guarantees ordering per driver" and db/redis.go:44        *)
(* "stores only the most recent GPS event": a goroutine per message undoes  *)
(* the partition's order, and an event gives way to one that was produced   *)
(* before it and recorded before it.                                        *)
LatestNeverRegresses ==
    [][\A d \in Driver : latest[d] # NoEvent /\ latest'[d] # NoEvent =>
           ~(latest'[d] < latest[d] /\ log[latest'[d]].at < log[latest[d]].at)]_vars
=============================================================================
