------------------------------- MODULE Ingest -------------------------------
(***************************************************************************)
(* The write path of src/server/api: POST /location and POST               *)
(* /location/batch, the asynchronous Kafka writer behind them, and clients *)
(* that send a request again when they were not told 202.                  *)
(*                                                                         *)
(* A try is one HTTP request.  WriteMessages only queues: the writer's     *)
(* goroutine of a partition takes batches off its queue and produces them, *)
(* and nobody hears of the outcome.                                        *)
(***************************************************************************)
EXTENDS Integers, Sequences

CONSTANTS
    Driver,         \* driver ids
    EventId,        \* idempotency keys clients make up
    Time,           \* values clients give recorded_at
    None,           \* a field of the body that is missing
    Requests,       \* what clients have to send
    Partition,      \* partitions of gps.updates
    Hash,           \* kafka.Hash: the partition of a message key
    writerAttempts, \* MaxAttempts of kafka.Writer
    MaxTries,       \* bound: HTTP requests
    MaxBoots        \* bound: restarts of the API

(* A point of a request's body, and whether validateLocation accepts it.    *)
Point == [driver : Driver, id : EventId \cup {None}, at : Time \cup {None},
          valid : BOOLEAN]

ASSUME RequestsAssumption ==
    /\ Requests \subseteq [batch : BOOLEAN, points : Seq(Point)]
    /\ \A r \in Requests : ~r.batch => Len(r.points) = 1
ASSUME IngestAssumption ==
    /\ Hash \in [Driver \cup EventId -> Partition]
    /\ writerAttempts \in Nat \ {0}
    /\ MaxTries \in Nat /\ MaxBoots \in Nat

VARIABLES
    tries,              \* the tries so far, with the handler's state
    told,               \* requests whose client was told 202
    phase,              \* "running", "draining", "closing", "stopped", "down"
    boots,
    queue,              \* messages queued for a partition
    batch,              \* the batch its goroutine is producing
    attempt,            \* failed attempts at it
    log,                \* the partition: the batches appended to it
    counters,           \* kafkaPublishTotal and kafkaPublishErrors
    turns,              \* history: calls of WriteMessages that queued
    dropped,            \* history: messages the writer gave up
    lost                \* history: messages a crash of the API took

clients == <<tries, told>>
process == <<phase, boots>>
writer  == <<queue, batch, attempt, log>>
history == <<turns, dropped, lost>>
vars == <<clients, process, writer, counters, history>>

Try == 1..Len(tries)
Pending(p) == queue[p] \cup batch[p]
Produced(p) == UNION {log[p][j] : j \in 1..Len(log[p])}

(* Queue and batch are sets of messages: the handlers' turns at             *)
(* WriteMessages, and the points of one request, say which comes first.     *)
Before(m, n) ==
    \/ tries[m.try].turn < tries[n.try].turn
    \/ tries[m.try].turn = tries[n.try].turn /\ m.k < n.k

Init ==
    /\ tries = <<>> /\ told = {}
    /\ phase = "running" /\ boots = 0
    /\ queue = [p \in Partition |-> {}] /\ batch = [p \in Partition |-> {}]
    /\ attempt = [p \in Partition |-> 0] /\ log = [p \in Partition |-> <<>>]
    /\ counters = [total |-> 0, errors |-> 0]
    /\ turns = 0 /\ dropped = {} /\ lost = {}

-----------------------------------------------------------------------------
(* Clients and handlers.                                                   *)

(* A client sends its request, again if it gave up waiting for a 202.       *)
Send ==
    /\ phase = "running" /\ Len(tries) < MaxTries
    /\ \E r \in Requests :
          /\ r \notin told
          /\ tries' = Append(tries, [req |-> r, stage |-> "received", msgs |-> {},
                                    turn |-> 0])
    /\ UNCHANGED <<told, process, writer, counters, history>>

(* The message of point k of try t: what the client left out is filled in,  *)
(* with the time of the try, here its number, and with a fresh id.          *)
Stamped(t, k) ==
    LET e == tries[t].req.points[k] IN
    [try |-> t, k |-> k, driver |-> e.driver,
     id |-> IF e.id = None THEN <<t, k>> ELSE e.id,
     at |-> IF e.at = None THEN t ELSE e.at]

FreshIds(t, k) ==                       \* event_id always generated
    [Stamped(t, k) EXCEPT !.id = <<t, k>>]

(* handleLocation refuses an invalid point, handleLocationBatch skips it.   *)
Refused(t) == ~tries[t].req.batch /\ ~tries[t].req.points[1].valid
ValidPoints(r) == {k \in 1..Len(r.points) : r.points[k].valid}

EncodeFreshIds(t) ==
    /\ tries[t].stage = "received" /\ ~Refused(t)
    /\ tries' = [tries EXCEPT ![t].stage = "encoded",
                              ![t].msgs = {FreshIds(t, k) :
                                               k \in ValidPoints(tries[t].req)}]
    /\ UNCHANGED <<told, process, writer, counters, history>>

Encode(t) ==
    /\ tries[t].stage = "received" /\ ~Refused(t)
    /\ tries' = [tries EXCEPT ![t].stage = "encoded",
                              ![t].msgs = {Stamped(t, k) :
                                               k \in ValidPoints(tries[t].req)}]
    /\ UNCHANGED <<told, process, writer, counters, history>>

Refuse(t) ==
    /\ tries[t].stage = "received" /\ Refused(t)
    /\ tries' = [tries EXCEPT ![t].stage = "done"]
    /\ UNCHANGED <<told, process, writer, counters, history>>

PartitionById(m) == IF m.id \in EventId THEN Hash[m.id] ELSE Hash[m.driver]
PartitionOf(m) == Hash[m.driver]        \* Key: driver_id

(* WriteMessages queues everything and returns nil, or fails (no metadata,  *)
(* a closed writer) and queues nothing.  A batch moves no counter.          *)
Counted(t) == IF tries[t].req.batch THEN 0 ELSE 1

WriteMessages(t) ==
    /\ tries[t].stage = "encoded" /\ phase \in {"running", "draining"}
    /\ turns' = turns + 1
    /\ tries' = [tries EXCEPT ![t].stage = "queued", ![t].turn = turns + 1]
    /\ queue' = [p \in Partition |->
                    queue[p] \cup {m \in tries[t].msgs : PartitionOf(m) = p}]
    /\ counters' = [counters EXCEPT !.total = @ + Counted(t)]
    /\ UNCHANGED <<told, process, batch, attempt, log, dropped, lost>>

WriteFails(t) ==
    /\ tries[t].stage = "encoded"
    /\ tries' = [tries EXCEPT ![t].stage = "done"]
    /\ counters' = [counters EXCEPT !.errors = @ + Counted(t)]
    /\ UNCHANGED <<told, process, writer, history>>

(* 202, which may not reach the client.                                     *)
Accept(t) ==
    /\ tries[t].stage = "queued"
    /\ tries' = [tries EXCEPT ![t].stage = "done"]
    /\ told' \in {told, told \cup {tries[t].req}}
    /\ UNCHANGED <<process, writer, counters, history>>

handle(t) ==
    \/ Encode(t) \/ Refuse(t) \/ WriteMessages(t) \/ WriteFails(t) \/ Accept(t)

-----------------------------------------------------------------------------
(* The writer's goroutine of partition p.                                  *)

TakeBatch(p) ==                         \* from the front of the queue
    /\ phase \in {"running", "draining", "closing"}
    /\ batch[p] = {}
    /\ \E b \in SUBSET queue[p] \ {{}} :
          /\ \A m \in b, n \in queue[p] \ b : Before(m, n)
          /\ batch' = [batch EXCEPT ![p] = b]
          /\ queue' = [queue EXCEPT ![p] = @ \ b]
    /\ attempt' = [attempt EXCEPT ![p] = 0]
    /\ UNCHANGED <<clients, process, log, counters, history>>

ProduceSucceeds(p) ==
    /\ batch[p] # {}
    /\ log' = [log EXCEPT ![p] = Append(@, batch[p])]
    /\ batch' = [batch EXCEPT ![p] = {}]
    /\ UNCHANGED <<clients, process, queue, attempt, counters, history>>

(* An attempt fails, although the broker may have appended the batch; it is *)
(* repeated up to writerAttempts times, or not if the error is permanent.   *)
ProduceFails(p) ==
    /\ batch[p] # {}
    /\ log' \in {log, [log EXCEPT ![p] = Append(@, batch[p])]}
    /\ \/ /\ attempt[p] + 1 < writerAttempts
          /\ attempt' = [attempt EXCEPT ![p] = @ + 1]
          /\ UNCHANGED <<batch, dropped>>
       \/ /\ batch' = [batch EXCEPT ![p] = {}]
          /\ dropped' = dropped \cup (batch[p] \ Produced(p)')
          /\ UNCHANGED attempt
    /\ UNCHANGED <<clients, process, queue, counters, turns, lost>>

produce(p) == TakeBatch(p) \/ ProduceSucceeds(p) \/ ProduceFails(p)

-----------------------------------------------------------------------------
(* The life of the API process.                                            *)

Killed == [t \in Try |-> [tries[t] EXCEPT !.stage = "done"]]

Shutdown ==
    /\ phase = "running" /\ boots < MaxBoots
    /\ phase' = "draining"
    /\ UNCHANGED <<clients, boots, writer, counters, history>>

CloseWriterWaits ==                     \* server.Shutdown without its ten seconds:
    /\ phase = "draining"               \* a client that hangs holds it up
    /\ \A t \in Try : tries[t].req \in told
    /\ phase' = "closing"
    /\ UNCHANGED <<clients, boots, writer, counters, history>>

(* server.Shutdown returns when the handlers are through, or after its ten  *)
(* seconds; then writer.Close() refuses new messages.                       *)
CloseWriter ==
    /\ phase = "draining"
    /\ phase' = "closing"
    /\ UNCHANGED <<clients, boots, writer, counters, history>>

ExitUnflushed ==                        \* writer.Close() forgotten
    /\ phase = "closing"
    /\ phase' = "stopped" /\ tries' = Killed
    /\ queue' = [p \in Partition |-> {}] /\ batch' = [p \in Partition |-> {}]
    /\ UNCHANGED <<told, boots, attempt, log, counters, history>>

ExitAtOnce ==                           \* Close() does not wait for the goroutines
    /\ phase = "closing"
    /\ phase' = "stopped" /\ tries' = Killed
    /\ UNCHANGED <<told, boots, writer, counters, history>>

(* Close returns when every queue is flushed, and main after it.            *)
Exit ==
    /\ phase = "closing"
    /\ \A p \in Partition : Pending(p) = {}
    /\ phase' = "stopped" /\ tries' = Killed
    /\ UNCHANGED <<told, boots, writer, counters, history>>

Crash ==
    /\ phase \in {"running", "draining", "closing"} /\ boots < MaxBoots
    /\ phase' = "down" /\ tries' = Killed
    /\ lost' = lost \cup UNION {Pending(p) : p \in Partition}
    /\ queue' = [p \in Partition |-> {}] /\ batch' = [p \in Partition |-> {}]
    /\ UNCHANGED <<told, boots, attempt, log, counters, turns, dropped>>

Boot ==
    /\ phase \in {"stopped", "down"} /\ boots < MaxBoots
    /\ phase' = "running" /\ boots' = boots + 1
    /\ counters' = [total |-> 0, errors |-> 0]
    /\ UNCHANGED <<clients, writer, history>>

Next ==
    \/ Send
    \/ \E t \in Try : handle(t)
    \/ \E p \in Partition : produce(p)
    \/ Shutdown \/ CloseWriter \/ Exit \/ Crash \/ Boot

(* The Go scheduler runs the handlers and the writer's goroutines, produce  *)
(* requests time out, and a shutdown goes through.                          *)
Spec == Init /\ [][Next]_vars
FairSpec ==
    /\ Spec
    /\ \A t \in 1..MaxTries : WF_vars(t \in Try /\ handle(t))
    /\ \A p \in Partition : WF_vars(produce(p))
    /\ WF_vars(CloseWriter) /\ WF_vars(Exit)

-----------------------------------------------------------------------------
(* What the write path is checked for.                                     *)

Id == EventId \cup ((1..MaxTries) \X Nat)
Message == [try : 1..MaxTries, k : Nat, driver : Driver, id : Id,
            at : Time \cup (1..MaxTries)]
HandlerState == [req : Requests, msgs : SUBSET Message, turn : Nat,
                 stage : {"received", "encoded", "queued", "done"}]
Logged == UNION {Produced(p) : p \in Partition}
Held == Logged \cup UNION {Pending(p) : p \in Partition}

(* The shape of the state; a message is never in the queue and in the batch *)
(* at once, and a stopped writer holds none.                                *)
TypeOK ==
    /\ boots \in 0..MaxBoots
    /\ phase \in {"running", "draining", "closing", "stopped", "down"}
    /\ tries \in Seq(HandlerState) /\ Len(tries) <= MaxTries /\ told \subseteq Requests
    /\ counters \in [total : Nat, errors : Nat]
    /\ queue \in [Partition -> SUBSET Message] /\ batch \in [Partition -> SUBSET Message]
    /\ log \in [Partition -> Seq(SUBSET Message)]
    /\ attempt \in [Partition -> 0..(writerAttempts - 1)]
    /\ turns \in Nat /\ dropped \subseteq Message /\ lost \subseteq Message
    /\ \A p \in Partition : queue[p] \cap batch[p] = {}
    /\ phase \in {"stopped", "down"} => \A p \in Partition : Pending(p) = {}

(* A client that was told 202 for its request has every valid point of it   *)
(* on the way: in the partition, in the writer, or lost in one of the two   *)
(* ways there are, attempts exhausted or a crash of the API.  An orderly    *)
(* shutdown loses none.                                                     *)
AcceptedAccounted ==
    \A r \in told : \E t \in Try :
        /\ tries[t].req = r
        /\ \A k \in ValidPoints(r) :
               \E m \in Held \cup dropped \cup lost : m.try = t /\ m.k = k

(* Key = driver_id (README.md:221-223): a driver's messages share one       *)
(* partition, and however often the writer repeats a batch they first       *)
(* appear there in the order in which the handlers queued them.             *)
FirstAppearance(p, j, m) ==
    m \in log[p][j] /\ \A i \in 1..(j - 1) : m \notin log[p][i]
DriverOrder ==
    /\ \A p \in Partition : \A j \in 1..Len(log[p]) : \A i \in 1..(j - 1) :
           \A m \in log[p][i], n \in log[p][j] :
               FirstAppearance(p, j, n) => Before(m, n)
    /\ \A p, q \in Partition : p # q =>
           {m.driver : m \in Produced(p)} \cap {m.driver : m \in Produced(q)} = {}

(* The primary key of migrations.cql.  Messages that stem from one point of *)
(* one request, whose client supplied event_id and recorded_at, are one row *)
(* of Cassandra however often the client or the writer sent them.           *)
Row(m) == <<m.driver, m.at, m.id>>
PointOf(m) == tries[m.try].req.points[m.k]
SamePoint(m, n) == tries[m.try].req = tries[n.try].req /\ m.k = n.k
RetryIsOneRow ==
    \A m, n \in Logged :
        SamePoint(m, n) /\ PointOf(m).id # None /\ PointOf(m).at # None
            => Row(m) = Row(n)

(* The write path implements Intake: the requests in the order of their     *)
(* turns, and each of their points where its message is.                    *)
accepted == [i \in 1..turns |-> tries[CHOOSE t \in Try : tries[t].turn = i].req]
Entries(ms) == {<<tries[m.try].turn, m.k>> : m \in ms}
Unsent == (UNION {Pending(p) : p \in Partition}) \ Logged
waiting == Entries(Unsent)
published == Entries(Logged)
gone == Entries((dropped \cup lost) \ Logged)

I == INSTANCE Intake WITH lost <- gone

(* Every valid point of an accepted request waits in the writer until it is *)
(* published or lost, in the order of acceptance for each driver, whatever  *)
(* is repeated, dropped, shut down or crashes; a 202 is only sent for one.  *)
Promises == I!Spec

(* What was queued reaches Kafka, or is given up, or goes with the process. *)
Settled(t) == tries[t].msgs \subseteq Logged \cup dropped \cup lost
Delivered ==
    \A t \in 1..MaxTries :
        t \in Try /\ tries[t].stage = "queued" ~> t \in Try /\ Settled(t)

(* A shutdown ends: nobody waits for a queue that never empties.            *)
Stops == phase = "draining" ~> phase \in {"stopped", "down"}

=============================================================================
