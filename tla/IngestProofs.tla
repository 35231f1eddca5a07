---------------------------- MODULE IngestProofs ----------------------------
(* What was accepted is accounted for and in order, for every set of        *)
(* requests, every hash and every bound.                                    *)
EXTENDS Ingest, SequenceTheorems, TLAPS

Everywhere == Held \cup dropped \cup lost

(* A try: what its handler may have done at its stage.                      *)
TryInv(t) ==
    /\ tries[t].turn <= turns
    /\ tries[t].stage \in {"received", "encoded"} => tries[t].turn = 0
    /\ tries[t].stage = "queued" => tries[t].turn # 0
    /\ tries[t].stage = "encoded" =>
           tries[t].msgs = {Stamped(t, k) : k \in ValidPoints(tries[t].req)}
    /\ tries[t].turn # 0 =>
           \A k \in ValidPoints(tries[t].req) : Stamped(t, k) \in Everywhere

ClientInv == \A r \in told : \E t \in Try : tries[t].req = r /\ tries[t].turn # 0

(* A message: it comes from a handler that had its turn, and from one of the*)
(* valid points of its request.                                             *)
MessageInv(m) ==
    /\ m.try \in Try /\ tries[m.try].turn # 0
    /\ m.k \in ValidPoints(tries[m.try].req) /\ m = Stamped(m.try, m.k)

(* A partition: what is in the log comes before what is produced for the    *)
(* first time, and both before what is queued.                              *)
PartitionInv(p) ==
    /\ \A m \in Pending(p) \cup Produced(p) : PartitionOf(m) = p
    /\ \A m \in Produced(p) \cup batch[p], n \in queue[p] : Before(m, n)
    /\ \A m \in Produced(p), n \in batch[p] \ Produced(p) : Before(m, n)
    /\ \A j \in 1..Len(log[p]) : \A i \in 1..(j - 1) :
           \A m \in log[p][i], n \in log[p][j] :
               FirstAppearance(p, j, n) => Before(m, n)

IngestInv ==
    /\ TypeOK /\ ClientInv
    /\ \A t \in Try : TryInv(t)
    /\ \A m \in Everywhere : MessageInv(m)
    /\ \A p \in Partition : PartitionInv(p)
-----------------------------------------------------------------------------
(* Messages, batches and turns.                                             *)

(* What appending a batch adds to a log.                                    *)
LEMMA UnionAppend ==
    ASSUME NEW S, NEW s \in Seq(SUBSET S), NEW b \in SUBSET S
    PROVE  UNION {Append(s, b)[j] : j \in 1..Len(Append(s, b))}
               = (UNION {s[j] : j \in 1..Len(s)}) \cup b
<1>1. /\ Len(Append(s, b)) = Len(s) + 1 /\ Len(s) \in Nat
      /\ Append(s, b)[Len(s) + 1] = b
      /\ \A j \in 1..Len(s) : Append(s, b)[j] = s[j]
  OBVIOUS
<1> DEFINE a == Append(s, b)
<1>2. 1..Len(a) = 1..Len(s) \cup {Len(s) + 1}
  BY <1>1
<1>3. \A x : x \in UNION {a[j] : j \in 1..Len(a)} <=>
                \E j \in 1..Len(s) \cup {Len(s) + 1} : x \in a[j]
  BY <1>2
<1>4. \A x : (\E j \in 1..Len(s) \cup {Len(s) + 1} : x \in a[j]) <=>
                (x \in b \/ \E j \in 1..Len(s) : x \in s[j])
  BY <1>1
<1>5. \A x : x \in UNION {s[j] : j \in 1..Len(s)} <=> \E j \in 1..Len(s) : x \in s[j]
  OBVIOUS
<1> DEFINE new == UNION {a[j] : j \in 1..Len(a)}
           old == UNION {s[j] : j \in 1..Len(s)}
<1>6. \A x : x \in new <=> x \in old \cup b
  BY <1>3, <1>4, <1>5
<1> HIDE DEF new, old
<1>7. new = old \cup b
  BY <1>6
<1> QED BY <1>7 DEF new, old, a

LEMMA StampedType ==
    ASSUME TypeOK, NEW t \in Try, NEW k \in ValidPoints(tries[t].req)
    PROVE  Stamped(t, k) \in Message
<1>1. t \in 1..MaxTries /\ t \in Nat
  BY IngestAssumption DEF TypeOK, Try
<1>5. tries[t] \in HandlerState
  BY DEF TypeOK, Try
<1>6. tries[t].req.points \in Seq(Point)
  BY <1>5, RequestsAssumption DEF HandlerState
<1>2. k \in Nat /\ k \in 1..Len(tries[t].req.points)
  BY <1>6 DEF ValidPoints
<1>3. tries[t].req.points[k] \in Point
  BY <1>2, <1>6
<1> DEFINE e == tries[t].req.points[k]
<1>4. e.driver \in Driver /\ e.id \in EventId \cup {None} /\ e.at \in Time \cup {None}
  BY <1>3 DEF Point
<1>7. (IF e.id = None THEN <<t, k>> ELSE e.id) \in Id
  BY <1>1, <1>2, <1>4 DEF Id
<1>8. (IF e.at = None THEN t ELSE e.at) \in Time \cup (1..MaxTries)
  BY <1>1, <1>4
<1> QED BY <1>1, <1>2, <1>4, <1>7, <1>8 DEF Stamped, Message

(* A message has the partition of its driver.                               *)
LEMMA PartitionOfType ==
    ASSUME NEW m \in Message
    PROVE  PartitionOf(m) \in Partition /\ m.try \in 1..MaxTries /\ m.k \in Nat
BY IngestAssumption DEF PartitionOf, Message

(* The places of the messages, when a step moves them around.               *)
LEMMA EverywhereIs ==
    \A m : m \in Everywhere <=>
        \/ \E p \in Partition : m \in Pending(p) \cup Produced(p)
        \/ m \in dropped \cup lost
BY DEF Everywhere, Held, Logged

LEMMA InitType == Init => TypeOK
BY IngestAssumption
   DEF Init, TypeOK, Pending, HandlerState

(* Handlers only go forward, and a request stays with its try.              *)
LEMMA StageType ==
    ASSUME TypeOK, NEW t \in Try, NEW s \in {"received", "encoded", "queued", "done"},
           tries' = [tries EXCEPT ![t].stage = s]
    PROVE  /\ tries' \in Seq(HandlerState) /\ Len(tries') = Len(tries) /\ Try' = Try
           /\ \A u \in Try : /\ tries'[u].req = tries[u].req /\ tries'[u].turn = tries[u].turn
                             /\ tries'[u].msgs = tries[u].msgs
                             /\ tries'[u].stage = IF u = t THEN s ELSE tries[u].stage
<1>1. tries \in Seq(HandlerState) /\ Len(tries) \in Nat
  BY DEF TypeOK
<1>2. \A u \in Try : tries[u] \in HandlerState
  BY <1>1 DEF Try
<1>3. [tries[t] EXCEPT !.stage = s] \in HandlerState
  BY <1>2 DEF HandlerState
<1>4. \A u \in Try : tries'[u] = IF u = t THEN [tries[t] EXCEPT !.stage = s] ELSE tries[u]
  BY <1>1 DEF Try
<1>5. tries' \in Seq(HandlerState) /\ Len(tries') = Len(tries)
  BY <1>1, <1>3 DEF Try
<1>6. Try' = Try
  BY <1>5 DEF Try
<1>7. \A u \in Try : /\ tries'[u].req = tries[u].req /\ tries'[u].turn = tries[u].turn
                     /\ tries'[u].msgs = tries[u].msgs
                     /\ tries'[u].stage = IF u = t THEN s ELSE tries[u].stage
  BY <1>2, <1>4 DEF HandlerState
<1> QED BY <1>5, <1>6, <1>7

LEMMA KilledType ==
    ASSUME TypeOK, tries' = Killed
    PROVE  /\ tries' \in Seq(HandlerState) /\ Len(tries') = Len(tries) /\ Try' = Try
           /\ \A u \in Try : /\ tries'[u].req = tries[u].req /\ tries'[u].turn = tries[u].turn
                             /\ tries'[u].msgs = tries[u].msgs
                             /\ tries'[u].stage = "done"
<1>1. tries \in Seq(HandlerState) /\ Len(tries) \in Nat
  BY DEF TypeOK
<1>2. \A u \in Try : tries[u] \in HandlerState
  BY <1>1 DEF Try
<1>3. \A u \in Try : [tries[u] EXCEPT !.stage = "done"] \in HandlerState
  BY <1>2 DEF HandlerState
<1>4. tries' = [u \in 1..Len(tries) |-> [tries[u] EXCEPT !.stage = "done"]]
  BY DEF Killed, Try
<1>5. tries' \in Seq(HandlerState) /\ Len(tries') = Len(tries)
  BY <1>1, <1>3, <1>4 DEF Try
<1>6. Try' = Try
  BY <1>5 DEF Try
<1>7. \A u \in Try : /\ tries'[u].req = tries[u].req /\ tries'[u].turn = tries[u].turn
                     /\ tries'[u].msgs = tries[u].msgs
                     /\ tries'[u].stage = "done"
  BY <1>2, <1>4 DEF HandlerState, Try
<1> QED BY <1>5, <1>6, <1>7

-----------------------------------------------------------------------------
(* What steps of one kind keep.                                             *)

LEMMA TurnType ==
    ASSUME TypeOK, NEW t \in Try
    PROVE  tries[t].turn \in Nat /\ tries[t].req \in Requests
<1>1. tries[t] \in HandlerState
  BY DEF TypeOK, Try
<1> QED BY <1>1 DEF HandlerState

(* Requests and turns stay with their tries.                                *)
TriesStay ==
    /\ Try \subseteq Try'
    /\ \A t \in Try : tries'[t].req = tries[t].req /\ tries'[t].turn = tries[t].turn

LEMMA StampedStays ==
    ASSUME NEW t \in Try, tries'[t].req = tries[t].req
    PROVE  /\ ValidPoints(tries'[t].req) = ValidPoints(tries[t].req)
           /\ \A k : Stamped(t, k)' = Stamped(t, k)
BY DEF Stamped, ValidPoints

LEMMA MessagesStay ==
    ASSUME \A m \in Everywhere : MessageInv(m), TriesStay, Everywhere' \subseteq Everywhere
    PROVE  \A m \in Everywhere' : MessageInv(m)'
<1> SUFFICES ASSUME NEW m \in Everywhere' PROVE MessageInv(m)'
  OBVIOUS
<1>1. MessageInv(m)
  OBVIOUS
<1>2. /\ m.try \in Try /\ m.try \in Try' /\ tries'[m.try].turn # 0
      /\ tries'[m.try].req = tries[m.try].req
  BY <1>1 DEF MessageInv, TriesStay
<1>3. m.k \in ValidPoints(tries'[m.try].req) /\ m = Stamped(m.try, m.k)'
  BY <1>1, <1>2, StampedStays DEF MessageInv
<1> QED BY <1>2, <1>3 DEF MessageInv

LEMMA ClientsStay ==
    ASSUME ClientInv, TriesStay, told' = told
    PROVE  ClientInv'
BY DEF ClientInv, TriesStay

(* A try whose handler makes no step, or one that changes only its stage.   *)
LEMMA TryStays ==
    ASSUME NEW t \in Try, TryInv(t), turns \in Nat, turns' \in {turns, turns + 1},
           tries'[t].req = tries[t].req, tries'[t].turn = tries[t].turn,
           tries[t].turn \in Nat, Everywhere \subseteq Everywhere',
           /\ tries'[t].stage \in {"received", "encoded"} =>
                  tries[t].stage \in {"received", "encoded"}
           /\ tries'[t].stage = "queued" => tries[t].stage = "queued"
           /\ tries'[t].stage = "encoded" =>
                  tries[t].stage = "encoded" /\ tries'[t].msgs = tries[t].msgs
    PROVE  TryInv(t)'
<1>1. tries'[t].turn <= turns'
  BY DEF TryInv
<1>2. tries'[t].stage = "encoded" =>
          tries'[t].msgs = {Stamped(t, k)' : k \in ValidPoints(tries'[t].req)}
  BY StampedStays DEF TryInv
<1>3. tries'[t].turn # 0 => \A k \in ValidPoints(tries'[t].req) : Stamped(t, k)' \in Everywhere'
  BY StampedStays DEF TryInv
<1> QED BY <1>1, <1>2, <1>3 DEF TryInv

(* The order of two messages depends on their tries only.                   *)
LEMMA BeforeStays ==
    ASSUME TriesStay, NEW m, NEW n, m.try \in Try, n.try \in Try, Before(m, n)
    PROVE  Before(m, n)'
BY DEF TriesStay, Before

LEMMA InPartition ==
    ASSUME NEW p \in Partition
    PROVE  /\ Pending(p) \subseteq Everywhere /\ Produced(p) \subseteq Everywhere
           /\ \A j \in 1..Len(log[p]) : log[p][j] \subseteq Everywhere
BY DEF Everywhere, Held, Logged, Produced

(* A partition whose queue, batch and log stay.                             *)
LEMMA PartitionStays ==
    ASSUME NEW p \in Partition, PartitionInv(p), \A m \in Everywhere : MessageInv(m),
           TriesStay, queue'[p] = queue[p], batch'[p] = batch[p], log'[p] = log[p]
    PROVE  PartitionInv(p)'
<1>1. \A m \in Pending(p) \cup Produced(p) : m.try \in Try
  BY InPartition DEF MessageInv
<1>2. Produced(p)' = Produced(p) /\ Pending(p)' = Pending(p)
  BY DEF Produced, Pending
<1>3. \A m \in Pending(p)' \cup Produced(p)' : PartitionOf(m)' = p
  BY <1>2 DEF PartitionInv, PartitionOf
<1>4. \A m \in Produced(p)' \cup batch'[p], n \in queue'[p] : Before(m, n)'
  <2>1. ASSUME NEW m \in Produced(p) \cup batch[p], NEW n \in queue[p] PROVE Before(m, n)'
    BY <1>1, BeforeStays DEF PartitionInv, Pending
  <2> QED BY <1>2, <2>1
<1>5. \A m \in Produced(p)', n \in batch'[p] \ Produced(p)' : Before(m, n)'
  <2>1. ASSUME NEW m \in Produced(p), NEW n \in batch[p] \ Produced(p) PROVE Before(m, n)'
    BY <1>1, BeforeStays DEF PartitionInv, Pending
  <2> QED BY <1>2, <2>1
<1>6. \A j \in 1..Len(log'[p]) : \A i \in 1..(j - 1) :
          \A m \in log'[p][i], n \in log'[p][j] :
              FirstAppearance(p, j, n)' => Before(m, n)'
  <2> SUFFICES ASSUME NEW j \in 1..Len(log[p]), NEW i \in 1..(j - 1), i \in 1..Len(log[p]),
                      NEW m \in log[p][i], NEW n \in log[p][j], FirstAppearance(p, j, n)'
               PROVE  Before(m, n)'
    BY DEF FirstAppearance
  <2>1. FirstAppearance(p, j, n)
    BY DEF FirstAppearance
  <2>2. m \in Produced(p) /\ n \in Produced(p)
    BY DEF Produced
  <2> QED BY <1>1, <2>1, <2>2, BeforeStays DEF PartitionInv
<1> QED BY <1>3, <1>4, <1>5, <1>6 DEF PartitionInv

-----------------------------------------------------------------------------
(* The shape of the state.                                                  *)

ClientType ==
    /\ tries \in Seq(HandlerState) /\ Len(tries) <= MaxTries /\ told \subseteq Requests
WriterType ==
    /\ queue \in [Partition -> SUBSET Message] /\ batch \in [Partition -> SUBSET Message]
    /\ log \in [Partition -> Seq(SUBSET Message)]
    /\ attempt \in [Partition -> 0..(writerAttempts - 1)]
    /\ turns \in Nat /\ dropped \subseteq Message /\ lost \subseteq Message
    /\ \A p \in Partition : queue[p] \cap batch[p] = {}
    /\ phase \in {"stopped", "down"} => \A p \in Partition : Pending(p) = {}
ProcessType ==
    /\ boots \in 0..MaxBoots
    /\ phase \in {"running", "draining", "closing", "stopped", "down"}
    /\ counters \in [total : Nat, errors : Nat]

LEMMA TypeParts == TypeOK <=> ClientType /\ WriterType /\ ProcessType
BY DEF TypeOK, ClientType, WriterType, ProcessType

LEMMA WriterTypeStays ==
    ASSUME WriterType, UNCHANGED <<writer, history>>,
           phase' = phase \/ phase' \in {"running", "draining", "closing"}
    PROVE  WriterType'
BY DEF WriterType, writer, history, Pending

LEMMA CountersType ==
    ASSUME ProcessType, ClientType, NEW t \in Try, UNCHANGED process,
           \/ UNCHANGED counters
           \/ counters' = [counters EXCEPT !.total = @ + Counted(t)]
           \/ counters' = [counters EXCEPT !.errors = @ + Counted(t)]
    PROVE  ProcessType'
<1>1. Counted(t) \in Nat /\ counters.total + Counted(t) \in Nat
      /\ counters.errors + Counted(t) \in Nat
  BY DEF Counted, ProcessType
<1>2. counters' \in [total : Nat, errors : Nat]
  BY <1>1 DEF ProcessType
<1> QED BY <1>2 DEF ProcessType, process

(* A new try, or one that goes on.                                          *)
LEMMA SendType ==
    ASSUME TypeOK, Send
    PROVE  /\ ClientType' /\ TriesStay /\ Try' = Try \cup {Len(tries) + 1}
           /\ \A t \in Try : tries'[t] = tries[t]
           /\ tries'[Len(tries) + 1].stage = "received" /\ tries'[Len(tries) + 1].turn = 0
<1>1. tries \in Seq(HandlerState) /\ Len(tries) \in Nat /\ Len(tries) < MaxTries
      /\ told \subseteq Requests
  BY DEF TypeOK, Send
<1>2. PICK r \in Requests :
          tries' = Append(tries, [req |-> r, stage |-> "received", msgs |-> {}, turn |-> 0])
  BY DEF Send
<1> DEFINE new == [req |-> r, stage |-> "received", msgs |-> {}, turn |-> 0]
<1>3. new \in HandlerState /\ new.stage = "received" /\ new.turn = 0
  BY DEF HandlerState
<1>4. tries' = Append(tries, new)
  BY <1>2
<1> HIDE DEF new
<1>5. tries' \in Seq(HandlerState) /\ Len(tries') = Len(tries) + 1
      /\ tries'[Len(tries) + 1] = new /\ \A t \in 1..Len(tries) : tries'[t] = tries[t]
  BY <1>1, <1>3, <1>4
<1>6. Try' = Try \cup {Len(tries) + 1}
  BY <1>1, <1>5 DEF Try
<1>7. ClientType'
  BY <1>1, <1>5, IngestAssumption DEF ClientType, Send
<1> QED BY <1>3, <1>5, <1>6, <1>7 DEF TriesStay, Try

LEMMA EncodeType ==
    ASSUME TypeOK, NEW t \in Try, Encode(t)
    PROVE  /\ ClientType' /\ TriesStay /\ Try' = Try
           /\ \A u \in Try \ {t} : tries'[u] = tries[u]
           /\ tries'[t].stage = "encoded"
           /\ tries'[t].msgs = {Stamped(t, k) : k \in ValidPoints(tries[t].req)}
<1> DEFINE ms == {Stamped(t, k) : k \in ValidPoints(tries[t].req)}
           new == [tries[t] EXCEPT !.stage = "encoded", !.msgs = ms]
<1>1. tries \in Seq(HandlerState) /\ Len(tries) \in Nat /\ tries[t] \in HandlerState
  BY DEF TypeOK, Try
<1>2. ms \subseteq Message
  BY StampedType
<1>3. tries' = [tries EXCEPT ![t] = new]
  BY <1>1 DEF Encode, Try
<1> HIDE DEF ms
<1>4. new \in HandlerState /\ new.stage = "encoded" /\ new.msgs = ms
      /\ new.req = tries[t].req /\ new.turn = tries[t].turn
  BY <1>1, <1>2 DEF HandlerState
<1> HIDE DEF new
<1>5. tries' \in Seq(HandlerState) /\ Len(tries') = Len(tries) /\ tries'[t] = new
      /\ \A u \in Try \ {t} : tries'[u] = tries[u]
  BY <1>1, <1>3, <1>4 DEF Try
<1>6. Try' = Try
  BY <1>5 DEF Try
<1>7. ClientType'
  BY <1>5 DEF ClientType, TypeOK, Encode
<1> QED BY <1>4, <1>5, <1>6, <1>7 DEF TriesStay, ms

LEMMA WriteType ==
    ASSUME TypeOK, NEW t \in Try, WriteMessages(t)
    PROVE  /\ ClientType' /\ Try' = Try
           /\ \A u \in Try \ {t} : tries'[u] = tries[u]
           /\ tries'[t].stage = "queued" /\ tries'[t].turn = turns + 1
           /\ tries'[t].req = tries[t].req /\ tries'[t].msgs = tries[t].msgs
<1> DEFINE new == [tries[t] EXCEPT !.stage = "queued", !.turn = turns + 1]
<1>1. tries \in Seq(HandlerState) /\ Len(tries) \in Nat /\ tries[t] \in HandlerState
      /\ turns + 1 \in Nat
  BY DEF TypeOK, Try
<1>3. tries' = [tries EXCEPT ![t] = new]
  BY <1>1 DEF WriteMessages, Try
<1>4. new \in HandlerState /\ new.stage = "queued" /\ new.msgs = tries[t].msgs
      /\ new.req = tries[t].req /\ new.turn = turns + 1
  BY <1>1 DEF HandlerState
<1> HIDE DEF new
<1>5. tries' \in Seq(HandlerState) /\ Len(tries') = Len(tries) /\ tries'[t] = new
      /\ \A u \in Try \ {t} : tries'[u] = tries[u]
  BY <1>1, <1>3, <1>4 DEF Try
<1>6. Try' = Try
  BY <1>5 DEF Try
<1>7. ClientType'
  BY <1>5 DEF ClientType, TypeOK, WriteMessages
<1> QED BY <1>4, <1>5, <1>6, <1>7

-----------------------------------------------------------------------------
(* Steps that leave the writer alone.                                       *)

LEMMA SameEverywhere == UNCHANGED <<writer, history>> => Everywhere' = Everywhere
BY DEF writer, history, Everywhere, Held, Logged, Produced, Pending

LEMMA WriterUntouched ==
    ASSUME IngestInv, UNCHANGED <<writer, history>>, TriesStay,
           ClientType', WriterType', ProcessType', ClientInv', \A t \in Try' : TryInv(t)'
    PROVE  IngestInv'
<1>1. Everywhere' = Everywhere
  BY SameEverywhere
<1>2. \A m \in Everywhere' : MessageInv(m)'
  BY <1>1, MessagesStay DEF IngestInv
<1>3. \A p \in Partition : PartitionInv(p)'
  BY PartitionStays DEF IngestInv, writer
<1>4. TypeOK'
  BY TypeParts, PTL
<1> QED BY <1>2, <1>3, <1>4 DEF IngestInv

LEMMA SendStep ==
    ASSUME IngestInv, Send
    PROVE  IngestInv'
<1>1. TypeOK /\ ClientType /\ WriterType /\ ProcessType
  BY TypeParts DEF IngestInv
<1>2. UNCHANGED <<told, process, writer, counters, history>> /\ turns' = turns
  BY DEF Send, history
<1>3. WriterType' /\ ProcessType'
  BY <1>1, <1>2, WriterTypeStays DEF process, ProcessType
<1>4. ClientType' /\ TriesStay
  BY <1>1, SendType
<1>5. \A t \in Try : TryInv(t)'
  <2> SUFFICES ASSUME NEW t \in Try PROVE TryInv(t)'
    OBVIOUS
  <2>1. tries'[t] = tries[t] /\ TryInv(t) /\ turns \in Nat /\ Everywhere' = Everywhere
    BY <1>1, <1>2, SendType, SameEverywhere DEF IngestInv, WriterType
  <2> QED BY <1>1, <1>2, <1>4, <2>1, TurnType, TryStays DEF TriesStay
<1>6. PICK n : /\ Try' = Try \cup {n}
               /\ tries'[n].stage = "received" /\ tries'[n].turn = 0
  BY <1>1, SendType
<1>7. TryInv(n)'
  BY <1>1, <1>2, <1>6 DEF TryInv, WriterType
<1>8. ClientInv'
  BY <1>2, <1>4, ClientsStay DEF IngestInv
<1> QED BY <1>2, <1>3, <1>4, <1>5, <1>6, <1>7, <1>8, WriterUntouched

LEMMA EncodeStep ==
    ASSUME IngestInv, NEW t \in Try, Encode(t)
    PROVE  IngestInv'
<1>1. TypeOK /\ ClientType /\ WriterType /\ ProcessType
  BY TypeParts DEF IngestInv
<1>2. UNCHANGED <<told, process, writer, counters, history>> /\ turns' = turns
  BY DEF Encode, history
<1>3. WriterType' /\ ProcessType'
  BY <1>1, <1>2, WriterTypeStays DEF process, ProcessType
<1>4. ClientType' /\ TriesStay /\ Try' = Try
  BY <1>1, EncodeType
<1>5. \A u \in Try \ {t} : TryInv(u)'
  <2> SUFFICES ASSUME NEW u \in Try \ {t} PROVE TryInv(u)'
    OBVIOUS
  <2>1. tries'[u] = tries[u] /\ TryInv(u) /\ turns \in Nat /\ Everywhere' = Everywhere
    BY <1>1, <1>2, EncodeType, SameEverywhere DEF IngestInv, WriterType
  <2> QED BY <1>1, <1>2, <1>4, <2>1, TurnType, TryStays DEF TriesStay
<1>6. TryInv(t)'
  <2>1. TryInv(t) /\ tries[t].stage = "received" /\ tries'[t].stage = "encoded"
        /\ tries'[t].turn = tries[t].turn /\ tries[t].turn = 0
    BY <1>1, <1>4, EncodeType DEF IngestInv, Encode, TryInv, TriesStay
  <2>2. tries'[t].msgs = {Stamped(t, k)' : k \in ValidPoints(tries'[t].req)}
    BY <1>1, <1>4, EncodeType, StampedStays DEF TriesStay
  <2> QED BY <1>1, <1>2, <2>1, <2>2 DEF TryInv, WriterType
<1>7. ClientInv'
  BY <1>2, <1>4, ClientsStay DEF IngestInv
<1> QED BY <1>2, <1>3, <1>4, <1>5, <1>6, <1>7, WriterUntouched

(* The handler ends: 400, 500, or the answer 202.                           *)
LEMMA AnswerStep ==
    ASSUME IngestInv, NEW t \in Try, Refuse(t) \/ WriteFails(t) \/ Accept(t)
    PROVE  IngestInv'
<1>1. TypeOK /\ ClientType /\ WriterType /\ ProcessType
  BY TypeParts DEF IngestInv
<1>2. /\ UNCHANGED <<process, writer, history>> /\ turns' = turns
      /\ tries' = [tries EXCEPT ![t].stage = "done"]
  BY DEF Refuse, WriteFails, Accept, history
<1>3. /\ tries' \in Seq(HandlerState) /\ Len(tries') = Len(tries) /\ Try' = Try
      /\ \A u \in Try : /\ tries'[u].req = tries[u].req /\ tries'[u].turn = tries[u].turn
                        /\ tries'[u].msgs = tries[u].msgs
                        /\ tries'[u].stage = IF u = t THEN "done" ELSE tries[u].stage
  BY <1>1, <1>2, StageType
<1>4. TriesStay
  BY <1>3 DEF TriesStay
<1>5. told' = told \/ (told' = told \cup {tries[t].req} /\ tries[t].turn # 0)
  BY DEF Refuse, WriteFails, Accept, IngestInv, TryInv
<1>6. tries[t].req \in Requests
  <2>1. tries[t] \in HandlerState
    BY <1>1 DEF ClientType, Try
  <2> QED BY <2>1 DEF HandlerState
<1>7. ClientType'
  BY <1>1, <1>3, <1>5, <1>6 DEF ClientType
<1>8. WriterType'
  BY <1>1, <1>2, WriterTypeStays DEF process
<1>9. ProcessType'
  BY <1>1, <1>2, CountersType DEF Refuse, WriteFails, Accept
<1>10. ASSUME NEW u \in Try PROVE TryInv(u)'
  <2>1. TryInv(u) /\ turns \in Nat /\ Everywhere' = Everywhere
    BY <1>1, <1>2, SameEverywhere DEF IngestInv, WriterType
  <2>2. /\ tries'[u].msgs = tries[u].msgs
        /\ tries'[u].stage = "done" \/ tries'[u].stage = tries[u].stage
    BY <1>3
  <2> QED BY <1>1, <1>2, <1>4, <2>1, <2>2, TurnType, TryStays DEF TriesStay
<1>11. ClientInv'
  BY <1>3, <1>4, <1>5 DEF ClientInv, IngestInv, TriesStay
<1> QED BY <1>2, <1>3, <1>4, <1>7, <1>8, <1>9, <1>10, <1>11, WriterUntouched

(* A signal, the end of server.Shutdown, a restart: no handler moves.       *)
LEMMA ProcessStep ==
    ASSUME IngestInv, Shutdown \/ CloseWriter \/ Boot
    PROVE  IngestInv'
<1>1. TypeOK /\ ClientType /\ WriterType /\ ProcessType
  BY TypeParts DEF IngestInv
<1>2. UNCHANGED <<clients, writer, history>> /\ UNCHANGED <<tries, told, turns>>
      /\ phase' \in {"running", "draining", "closing"}
  BY DEF Shutdown, CloseWriter, Boot, clients, history
<1>3. ProcessType'
  <2>1. boots' \in 0..MaxBoots
    BY <1>1, IngestAssumption DEF ProcessType, Shutdown, CloseWriter, Boot
  <2>2. counters' \in [total : Nat, errors : Nat]
    BY <1>1 DEF ProcessType, Shutdown, CloseWriter, Boot
  <2> QED BY <1>2, <2>1, <2>2 DEF ProcessType
<1>4. ClientType' /\ WriterType' /\ TriesStay
  BY <1>1, <1>2, WriterTypeStays DEF ClientType, TriesStay, Try
<1>5. \A t \in Try' : TryInv(t)'
  <2> SUFFICES ASSUME NEW t \in Try PROVE TryInv(t)'
    BY <1>2 DEF Try
  <2>1. TryInv(t) /\ turns \in Nat /\ Everywhere' = Everywhere
    BY <1>1, <1>2, SameEverywhere DEF IngestInv, WriterType
  <2> QED BY <1>1, <1>2, <1>4, <2>1, TurnType, TryStays DEF TriesStay
<1>6. ClientInv'
  BY <1>2, <1>4, ClientsStay DEF IngestInv
<1> QED BY <1>2, <1>3, <1>4, <1>5, <1>6, WriterUntouched

LEMMA ExitStep ==
    ASSUME IngestInv, Exit
    PROVE  IngestInv'
<1>1. TypeOK /\ ClientType /\ WriterType /\ ProcessType
  BY TypeParts DEF IngestInv
<1>2. /\ UNCHANGED <<told, boots, writer, counters, history>> /\ turns' = turns
      /\ tries' = Killed /\ phase' = "stopped"
      /\ \A p \in Partition : Pending(p) = {}
  BY DEF Exit, history
<1>3. /\ tries' \in Seq(HandlerState) /\ Len(tries') = Len(tries) /\ Try' = Try
      /\ \A u \in Try : /\ tries'[u].req = tries[u].req /\ tries'[u].turn = tries[u].turn
                        /\ tries'[u].msgs = tries[u].msgs /\ tries'[u].stage = "done"
  BY <1>1, <1>2, KilledType
<1>4. TriesStay
  BY <1>3 DEF TriesStay
<1>5. ClientType' /\ ProcessType'
  BY <1>1, <1>2, <1>3 DEF ClientType, ProcessType
<1>6. WriterType'
  BY <1>1, <1>2 DEF WriterType, writer, history, Pending
<1>7. \A t \in Try' : TryInv(t)'
  <2> SUFFICES ASSUME NEW t \in Try PROVE TryInv(t)'
    BY <1>3
  <2>1. TryInv(t) /\ turns \in Nat /\ Everywhere' = Everywhere
    BY <1>1, <1>2, SameEverywhere DEF IngestInv, WriterType
  <2> QED BY <1>1, <1>2, <1>3, <1>4, <2>1, TurnType, TryStays DEF TriesStay
<1>8. ClientInv'
  BY <1>2, <1>4, ClientsStay DEF IngestInv
<1> QED BY <1>2, <1>4, <1>5, <1>6, <1>7, <1>8, WriterUntouched

-----------------------------------------------------------------------------
(* WriteMessages and a crash.                                               *)

LEMMA WriteStep ==
    ASSUME IngestInv, NEW t \in Try, WriteMessages(t)
    PROVE  IngestInv'
<1> DEFINE ms == tries[t].msgs
<1>1. /\ TypeOK /\ ClientType /\ WriterType /\ ProcessType
      /\ turns \in Nat /\ turns' = turns + 1 /\ turns' # 0
  BY TypeParts DEF IngestInv, WriterType, WriteMessages
<1>2. /\ tries[t].stage = "encoded" /\ tries[t].turn = 0
      /\ ms = {Stamped(t, k) : k \in ValidPoints(tries[t].req)}
  BY DEF IngestInv, TryInv, WriteMessages
<1>3. \A m \in ms : /\ m \in Message /\ m.try = t /\ m.k \in ValidPoints(tries[t].req)
                    /\ m = Stamped(t, m.k)
  BY <1>1, <1>2, StampedType DEF Stamped
<1>4. /\ ClientType' /\ Try' = Try
      /\ \A u \in Try \ {t} : tries'[u] = tries[u]
      /\ tries'[t].stage = "queued" /\ tries'[t].turn = turns + 1
      /\ tries'[t].req = tries[t].req /\ tries'[t].msgs = ms
  BY <1>1, WriteType
<1> HIDE DEF ms
<1>5. /\ UNCHANGED <<told, process, batch, attempt, log, dropped, lost>>
      /\ phase \in {"running", "draining"} /\ phase' = phase
      /\ \A p \in Partition : queue'[p] = queue[p] \cup {m \in ms : PartitionOf(m) = p}
  BY DEF WriteMessages, process, ms
<1>6. \A m \in Everywhere : m.try \in Try \ {t} /\ MessageInv(m)
  BY <1>2 DEF IngestInv, MessageInv
<1>7. \A p \in Partition : Produced(p)' = Produced(p)
  BY <1>5 DEF Produced
<1>8. \A m : m \in Everywhere' <=> m \in Everywhere \cup ms
  <2>1. \A m : (\E p \in Partition : m \in Pending(p)' \cup Produced(p)')
               <=> m \in ms \/ \E p \in Partition : m \in Pending(p) \cup Produced(p)
    BY <1>3, <1>5, <1>7, PartitionOfType DEF Pending
  <2>2. \A m : m \in Everywhere' <=>
            \/ \E p \in Partition : m \in Pending(p)' \cup Produced(p)'
            \/ m \in dropped' \cup lost'
    BY DEF Everywhere, Held, Logged
  <2> QED BY <1>5, <2>1, <2>2, EverywhereIs
<1>9. WriterType'
  <2>1. queue' \in [Partition -> SUBSET Message]
    BY <1>1, <1>3 DEF WriteMessages, WriterType, ms
  <2>2. \A p \in Partition : queue'[p] \cap batch'[p] = {}
    <3> SUFFICES ASSUME NEW p \in Partition, NEW m \in queue'[p] \cap batch'[p] PROVE FALSE
      OBVIOUS
    <3>1. m \in batch[p] /\ m \in Everywhere /\ m \in queue[p] \cup ms
      BY <1>5, InPartition DEF Pending
    <3> QED BY <1>1, <1>3, <1>6, <3>1 DEF WriterType
  <2> QED BY <1>1, <1>5, <2>1, <2>2 DEF WriterType
<1>10. ProcessType'
  BY <1>1, CountersType DEF WriteMessages
<1>11. \A u \in Try' : TryInv(u)'
  <2>1. TryInv(t)'
    <3>1. \A k \in ValidPoints(tries'[t].req) : Stamped(t, k)' \in Everywhere'
      BY <1>2, <1>4, <1>8, StampedStays
    <3> QED BY <1>1, <1>4, <3>1 DEF TryInv
  <2>2. ASSUME NEW u \in Try \ {t} PROVE TryInv(u)'
    <3>1. TryInv(u) /\ tries[u].turn \in Nat /\ Everywhere \subseteq Everywhere'
      BY <1>1, <1>8, TurnType DEF IngestInv
    <3> QED BY <1>1, <1>4, <3>1, TryStays
  <2> QED BY <1>4, <2>1, <2>2
<1>12. ClientInv'
  BY <1>1, <1>4, <1>5 DEF ClientInv, IngestInv
<1>13. \A m \in Everywhere' : MessageInv(m)'
  <2>1. ASSUME NEW m \in Everywhere PROVE MessageInv(m)'
    <3>1. MessageInv(m) /\ m.try \in Try /\ tries'[m.try] = tries[m.try]
      BY <1>4, <1>6
    <3> QED BY <1>4, <3>1, StampedStays DEF MessageInv
  <2>2. ASSUME NEW m \in ms PROVE MessageInv(m)'
    <3>1. m.try = t /\ m.k \in ValidPoints(tries'[t].req) /\ m = Stamped(t, m.k)'
      BY <1>3, <1>4, StampedStays
    <3> QED BY <1>1, <1>4, <3>1 DEF MessageInv
  <2> QED BY <1>8, <2>1, <2>2
<1>14. ASSUME NEW p \in Partition PROVE PartitionInv(p)'
  <2>1. /\ queue'[p] = queue[p] \cup {m \in ms : PartitionOf(m) = p}
        /\ batch'[p] = batch[p] /\ log'[p] = log[p] /\ Produced(p)' = Produced(p)
        /\ PartitionInv(p)
    BY <1>5, <1>7 DEF IngestInv
  <2>2. \A m \in Pending(p) \cup Produced(p) : m.try \in Try \ {t}
    BY <1>6, InPartition
  <2>3. \A m, n : m.try \in Try \ {t} /\ n.try \in Try \ {t} => (Before(m, n)' <=> Before(m, n))
    BY <1>4 DEF Before
  <2>4. \A m, n : m.try \in Try \ {t} /\ n.try = t => Before(m, n)'
    <3> SUFFICES ASSUME NEW u \in Try \ {t} PROVE tries'[u].turn < tries'[t].turn
      BY DEF Before
    <3>1. TryInv(u) /\ tries[u].turn \in Nat
      BY <1>1, TurnType DEF IngestInv
    <3> QED BY <1>1, <1>4, <3>1 DEF TryInv
  <2>5. \A m \in Pending(p)' \cup Produced(p)' : PartitionOf(m)' = p
    BY <2>1 DEF PartitionInv, Pending, PartitionOf
  <2>6. \A m \in Produced(p)' \cup batch'[p], n \in queue'[p] : Before(m, n)'
    <3> SUFFICES ASSUME NEW m \in Produced(p) \cup batch[p], NEW n \in queue[p] \cup ms
                 PROVE  Before(m, n)'
      BY <2>1
    <3>1. m.try \in Try \ {t}
      BY <2>2 DEF Pending
    <3>2. CASE n \in queue[p]
      BY <2>1, <2>2, <2>3, <3>1, <3>2 DEF PartitionInv, Pending
    <3>3. CASE n \in ms
      BY <1>3, <2>4, <3>1, <3>3
    <3> QED BY <3>2, <3>3
  <2>7. \A m \in Produced(p)', n \in batch'[p] \ Produced(p)' : Before(m, n)'
    BY <2>1, <2>2, <2>3 DEF PartitionInv, Pending
  <2>8. \A j \in 1..Len(log'[p]) : \A i \in 1..(j - 1) :
            \A m \in log'[p][i], n \in log'[p][j] :
                FirstAppearance(p, j, n)' => Before(m, n)'
    <3> SUFFICES ASSUME NEW j \in 1..Len(log[p]), NEW i \in 1..(j - 1), i \in 1..Len(log[p]),
                        NEW m \in log[p][i], NEW n \in log[p][j], FirstAppearance(p, j, n)'
                 PROVE  Before(m, n)'
      BY <2>1
    <3>1. FirstAppearance(p, j, n) /\ m \in Produced(p) /\ n \in Produced(p)
      BY <2>1 DEF FirstAppearance, Produced
    <3> QED BY <2>1, <2>2, <2>3, <3>1 DEF PartitionInv
  <2> QED BY <2>5, <2>6, <2>7, <2>8 DEF PartitionInv
<1>15. TypeOK'
  BY <1>4, <1>9, <1>10, TypeParts, PTL
<1> QED BY <1>11, <1>12, <1>13, <1>14, <1>15 DEF IngestInv


LEMMA CrashStep ==
    ASSUME IngestInv, Crash
    PROVE  IngestInv'
<1>1. TypeOK /\ ClientType /\ WriterType /\ ProcessType
  BY TypeParts DEF IngestInv
<1>2. /\ UNCHANGED <<told, boots, attempt, log, counters, turns, dropped>>
      /\ tries' = Killed /\ phase' = "down"
      /\ lost' = lost \cup UNION {Pending(p) : p \in Partition}
      /\ queue' = [p \in Partition |-> {}] /\ batch' = [p \in Partition |-> {}]
  BY DEF Crash
<1>3. /\ tries' \in Seq(HandlerState) /\ Len(tries') = Len(tries) /\ Try' = Try
      /\ \A u \in Try : /\ tries'[u].req = tries[u].req /\ tries'[u].turn = tries[u].turn
                        /\ tries'[u].msgs = tries[u].msgs /\ tries'[u].stage = "done"
  BY <1>1, <1>2, KilledType
<1>4. TriesStay
  BY <1>3 DEF TriesStay
<1>5. \A p \in Partition : Produced(p)' = Produced(p) /\ Pending(p)' = {}
  BY <1>2 DEF Produced, Pending
<1>6. \A m : m \in Everywhere' <=> m \in Everywhere
  <2>1. \A m : m \in Everywhere' <=>
            \/ \E p \in Partition : m \in Pending(p)' \cup Produced(p)'
            \/ m \in dropped' \cup lost'
    BY DEF Everywhere, Held, Logged
  <2>2. \A m : m \in lost' <=> m \in lost \/ \E p \in Partition : m \in Pending(p)
    BY <1>2
  <2> QED BY <1>2, <1>5, <2>1, <2>2, EverywhereIs
<1>7. ClientType' /\ ProcessType'
  BY <1>1, <1>2, <1>3 DEF ClientType, ProcessType
<1>8. WriterType'
  <2>1. lost' \subseteq Message
    BY <1>1, <1>2 DEF WriterType, Pending
  <2> QED BY <1>1, <1>2, <1>5, <2>1 DEF WriterType
<1>9. \A t \in Try' : TryInv(t)'
  <2> SUFFICES ASSUME NEW t \in Try PROVE TryInv(t)'
    BY <1>3
  <2>1. TryInv(t) /\ turns \in Nat /\ Everywhere \subseteq Everywhere'
    BY <1>1, <1>6 DEF IngestInv, WriterType
  <2> QED BY <1>1, <1>2, <1>3, <2>1, TurnType, TryStays
<1>10. ClientInv'
  BY <1>2, <1>4, ClientsStay DEF IngestInv
<1>11. \A m \in Everywhere' : MessageInv(m)'
  BY <1>4, <1>6, MessagesStay DEF IngestInv
<1>12. ASSUME NEW p \in Partition PROVE PartitionInv(p)'
  <2>1. /\ queue'[p] = {} /\ batch'[p] = {} /\ log'[p] = log[p] /\ PartitionInv(p)
        /\ Produced(p)' = Produced(p) /\ Pending(p)' = {}
    BY <1>2, <1>5 DEF IngestInv
  <2>2. \A m \in Produced(p) : m.try \in Try
    BY InPartition DEF IngestInv, MessageInv
  <2>3. \A j \in 1..Len(log'[p]) : \A i \in 1..(j - 1) :
            \A m \in log'[p][i], n \in log'[p][j] :
                FirstAppearance(p, j, n)' => Before(m, n)'
    <3> SUFFICES ASSUME NEW j \in 1..Len(log[p]), NEW i \in 1..(j - 1), i \in 1..Len(log[p]),
                        NEW m \in log[p][i], NEW n \in log[p][j], FirstAppearance(p, j, n)'
                 PROVE  Before(m, n)'
      BY <2>1
    <3>1. FirstAppearance(p, j, n) /\ m \in Produced(p) /\ n \in Produced(p)
      BY <2>1 DEF FirstAppearance, Produced
    <3> QED BY <1>4, <2>1, <2>2, <3>1, BeforeStays DEF PartitionInv
  <2> QED BY <2>1, <2>3 DEF PartitionInv, PartitionOf
<1>13. TypeOK'
  BY <1>7, <1>8, TypeParts, PTL
<1> QED BY <1>9, <1>10, <1>11, <1>12, <1>13 DEF IngestInv
-----------------------------------------------------------------------------
(* The goroutine of a partition.                                            *)

(* It moves messages of its own partition and creates none.                 *)
LEMMA PartitionMoves ==
    ASSUME IngestInv, UNCHANGED <<clients, process, counters, turns>>, WriterType',
           NEW p \in Partition, PartitionInv(p)',
           \A q \in Partition \ {p} : /\ queue'[q] = queue[q] /\ batch'[q] = batch[q]
                                      /\ log'[q] = log[q],
           \A m : m \in Pending(p)' \cup Produced(p)' \cup dropped' \cup lost' <=>
                  m \in Pending(p) \cup Produced(p) \cup dropped \cup lost
    PROVE  IngestInv'
<1>1. UNCHANGED <<tries, told, phase, boots, counters, turns>> /\ TriesStay /\ Try' = Try
  BY DEF clients, process, TriesStay, Try
<1>2. TypeOK /\ ClientType /\ WriterType /\ ProcessType
  BY TypeParts DEF IngestInv
<1>3. ClientType' /\ ProcessType'
  BY <1>1, <1>2 DEF ClientType, ProcessType
<1>4. \A q \in Partition \ {p} : Pending(q)' = Pending(q) /\ Produced(q)' = Produced(q)
  BY DEF Pending, Produced
<1>5. \A m : m \in Everywhere' <=> m \in Everywhere
  <2>1. \A m : m \in Everywhere' <=>
            \/ \E q \in Partition : m \in Pending(q)' \cup Produced(q)'
            \/ m \in dropped' \cup lost'
    BY DEF Everywhere, Held, Logged
  <2> QED BY <1>4, <2>1, EverywhereIs
<1>6. \A t \in Try' : TryInv(t)'
  <2> SUFFICES ASSUME NEW t \in Try PROVE TryInv(t)'
    BY <1>1
  <2>1. TryInv(t) /\ turns \in Nat /\ Everywhere \subseteq Everywhere'
    BY <1>2, <1>5 DEF IngestInv, WriterType
  <2> QED BY <1>1, <1>2, <2>1, TurnType, TryStays
<1>7. \A m \in Everywhere' : MessageInv(m)'
  BY <1>1, <1>5, MessagesStay DEF IngestInv
<1>8. \A q \in Partition : PartitionInv(q)'
  BY <1>1, PartitionStays DEF IngestInv
<1>9. ClientInv'
  BY <1>1, ClientsStay DEF IngestInv
<1>10. TypeOK'
  BY <1>3, TypeParts, PTL
<1> QED BY <1>6, <1>7, <1>8, <1>9, <1>10 DEF IngestInv

LEMMA TakeBatchStep ==
    ASSUME IngestInv, NEW p \in Partition, TakeBatch(p)
    PROVE  IngestInv'
<1>1. TypeOK /\ WriterType /\ PartitionInv(p)
  BY TypeParts DEF IngestInv
<1>2. PICK b \in SUBSET queue[p] :
          /\ \A m \in b, n \in queue[p] \ b : Before(m, n)
          /\ batch' = [batch EXCEPT ![p] = b] /\ queue' = [queue EXCEPT ![p] = @ \ b]
  BY DEF TakeBatch
<1>3. /\ UNCHANGED <<clients, process, log, counters, turns, dropped, lost, tries, phase>>
      /\ batch[p] = {} /\ phase \notin {"stopped", "down"}
      /\ attempt' = [attempt EXCEPT ![p] = 0]
  BY DEF TakeBatch, clients, process, history
<1>4. /\ queue'[p] = queue[p] \ b /\ batch'[p] = b
      /\ \A q \in Partition \ {p} : queue'[q] = queue[q] /\ batch'[q] = batch[q]
  BY <1>1, <1>2 DEF WriterType
<1>5. WriterType'
  <2>1. queue' \in [Partition -> SUBSET Message] /\ batch' \in [Partition -> SUBSET Message]
    BY <1>1, <1>2 DEF WriterType
  <2>2. attempt' \in [Partition -> 0..(writerAttempts - 1)]
    BY <1>1, <1>3, IngestAssumption DEF WriterType
  <2>3. \A q \in Partition : queue'[q] \cap batch'[q] = {}
    BY <1>1, <1>4 DEF WriterType
  <2> QED BY <1>1, <1>3, <2>1, <2>2, <2>3 DEF WriterType
<1>6. Produced(p)' = Produced(p) /\ Pending(p)' = Pending(p)
  BY <1>3, <1>4 DEF Produced, Pending
<1>7. PartitionInv(p)'
  <2>1. \A m, n : Before(m, n)' <=> Before(m, n)
    BY <1>3 DEF Before
  <2>2. \A m \in Produced(p)' \cup batch'[p], n \in queue'[p] : Before(m, n)'
    BY <1>1, <1>2, <1>4, <1>6, <2>1 DEF PartitionInv
  <2>3. \A m \in Produced(p)', n \in batch'[p] \ Produced(p)' : Before(m, n)'
    BY <1>1, <1>4, <1>6, <2>1 DEF PartitionInv
  <2> QED BY <1>1, <1>3, <1>6, <2>1, <2>2, <2>3
          DEF PartitionInv, PartitionOf, FirstAppearance
<1> QED BY <1>3, <1>4, <1>5, <1>6, <1>7, PartitionMoves

(* The batch reaches the log, for the first time or again.                  *)
LEMMA AppendedInOrder ==
    ASSUME IngestInv, NEW p \in Partition, UNCHANGED tries,
           log' = [log EXCEPT ![p] = Append(@, batch[p])],
           queue'[p] = queue[p], batch'[p] \in {batch[p], {}}
    PROVE  /\ PartitionInv(p)' /\ Produced(p)' = Produced(p) \cup batch[p]
           /\ log' \in [Partition -> Seq(SUBSET Message)]
           /\ \A q \in Partition \ {p} : log'[q] = log[q]
<1>1. /\ WriterType /\ PartitionInv(p)
      /\ log[p] \in Seq(SUBSET Message) /\ batch[p] \in SUBSET Message
  BY TypeParts DEF IngestInv, WriterType
<1>2. log'[p] = Append(log[p], batch[p]) /\ \A q \in Partition \ {p} : log'[q] = log[q]
  BY <1>1 DEF WriterType
<1>3. Produced(p)' = Produced(p) \cup batch[p]
  BY <1>1, <1>2, UnionAppend DEF Produced
<1>4. Append(log[p], batch[p]) \in Seq(SUBSET Message)
  BY <1>1
<1>5. log' \in [Partition -> Seq(SUBSET Message)]
  BY <1>1, <1>4 DEF WriterType
<1>6. /\ Len(log'[p]) = Len(log[p]) + 1 /\ Len(log[p]) \in Nat
      /\ log'[p][Len(log[p]) + 1] = batch[p]
      /\ \A j \in 1..Len(log[p]) : log'[p][j] = log[p][j]
  BY <1>1, <1>2
<1>7. \A m, n : Before(m, n)' <=> Before(m, n)
  BY DEF Before
<1>8. ASSUME NEW j \in 1..Len(log'[p]), NEW i \in 1..(j - 1),
             NEW m \in log'[p][i], NEW n \in log'[p][j], FirstAppearance(p, j, n)'
      PROVE  Before(m, n)'
  <2>1. i \in 1..Len(log[p]) /\ log'[p][i] = log[p][i] /\ m \in Produced(p)
    BY <1>6 DEF Produced
  <2>2. CASE j \in 1..Len(log[p])
    <3>2. \A h \in 1..(j - 1) : h \in 1..Len(log[p]) /\ log'[p][h] = log[p][h]
      BY <1>6, <2>2
    <3>1. FirstAppearance(p, j, n) /\ n \in log[p][j]
      BY <1>6, <1>8, <2>2, <3>2 DEF FirstAppearance
    <3> QED BY <1>1, <1>7, <2>1, <2>2, <3>1 DEF PartitionInv
  <2>3. CASE j = Len(log[p]) + 1
    <3>3. \A h \in 1..Len(log[p]) : h \in 1..(j - 1) /\ log'[p][h] = log[p][h]
      BY <1>6, <2>3
    <3>1. n \in batch[p] /\ \A h \in 1..Len(log[p]) : n \notin log[p][h]
      BY <1>6, <1>8, <2>3, <3>3 DEF FirstAppearance
    <3>2. n \notin Produced(p)
      BY <3>1 DEF Produced
    <3> QED BY <1>1, <1>7, <2>1, <3>1, <3>2 DEF PartitionInv
  <2> QED BY <1>6, <2>2, <2>3
<1>9. \A m \in Pending(p)' \cup Produced(p)' : PartitionOf(m)' = p
  BY <1>1, <1>3 DEF PartitionInv, Pending, PartitionOf
<1>10. \A m \in Produced(p)' \cup batch'[p], n \in queue'[p] : Before(m, n)'
  BY <1>1, <1>3, <1>7 DEF PartitionInv
<1>11. \A m \in Produced(p)', n \in batch'[p] \ Produced(p)' : Before(m, n)'
  BY <1>3
<1>12. PartitionInv(p)'
  BY <1>8, <1>9, <1>10, <1>11 DEF PartitionInv
<1> QED BY <1>2, <1>3, <1>5, <1>12

LEMMA ProduceStep ==
    ASSUME IngestInv, NEW p \in Partition, ProduceSucceeds(p) \/ ProduceFails(p)
    PROVE  IngestInv'
<1>1. TypeOK /\ WriterType /\ PartitionInv(p) /\ ProcessType
  BY TypeParts DEF IngestInv
<1>2. /\ UNCHANGED <<clients, process, counters, turns, lost, tries, phase, queue>>
      /\ batch[p] # {}
      /\ batch' = batch \/ batch' = [batch EXCEPT ![p] = {}]
      /\ log' = log \/ log' = [log EXCEPT ![p] = Append(@, batch[p])]
  BY DEF ProduceSucceeds, ProduceFails, clients, process, history
<1>3. /\ batch' \in [Partition -> SUBSET Message] /\ batch'[p] \in {batch[p], {}}
      /\ \A q \in Partition \ {p} : batch'[q] = batch[q]
  BY <1>1, <1>2 DEF WriterType
<1>4. /\ PartitionInv(p)' /\ log' \in [Partition -> Seq(SUBSET Message)]
      /\ Produced(p)' = Produced(p) \/ Produced(p)' = Produced(p) \cup batch[p]
      /\ \A q \in Partition \ {p} : log'[q] = log[q]
  <2>1. CASE log' = [log EXCEPT ![p] = Append(@, batch[p])]
    BY <1>2, <1>3, <2>1, AppendedInOrder
  <2>2. CASE log' = log
    <3>1. Produced(p)' = Produced(p) /\ \A m, n : Before(m, n)' <=> Before(m, n)
      BY <1>2, <2>2 DEF Produced, Before
    <3>2. \A m \in Produced(p)' \cup batch'[p], n \in queue'[p] : Before(m, n)'
      BY <1>1, <1>2, <1>3, <3>1 DEF PartitionInv
    <3>3. \A m \in Produced(p)', n \in batch'[p] \ Produced(p)' : Before(m, n)'
      BY <1>1, <1>3, <3>1 DEF PartitionInv
    <3>4. \A m \in Pending(p)' \cup Produced(p)' : PartitionOf(m)' = p
      BY <1>1, <1>2, <1>3, <3>1 DEF PartitionInv, Pending, PartitionOf
    <3>5. PartitionInv(p)'
      BY <1>1, <2>2, <3>1, <3>2, <3>3, <3>4 DEF PartitionInv, FirstAppearance
    <3> QED BY <1>1, <2>2, <3>1, <3>5 DEF WriterType
  <2> QED BY <1>2, <2>1, <2>2
<1>5. \A m : m \in Pending(p)' \cup Produced(p)' \cup dropped' \cup lost' <=>
             m \in Pending(p) \cup Produced(p) \cup dropped \cup lost
  <2>1. CASE batch' = batch /\ dropped' = dropped
    BY <1>2, <1>4, <2>1 DEF Pending
  <2>2. CASE batch'[p] = {} /\ dropped' = dropped \cup (batch[p] \ Produced(p)')
    BY <1>2, <1>4, <2>2 DEF Pending
  <2>3. CASE batch'[p] = {} /\ dropped' = dropped /\ Produced(p)' = Produced(p) \cup batch[p]
    BY <1>2, <2>3 DEF Pending
  <2>4. CASE ProduceSucceeds(p)
    BY <1>1, <1>2, <1>3, <2>3, <2>4, AppendedInOrder DEF ProduceSucceeds, history, WriterType
  <2>5. CASE ProduceFails(p)
    BY <1>1, <2>1, <2>2, <2>5 DEF ProduceFails, WriterType
  <2> QED BY <2>4, <2>5
<1>6. WriterType'
  <2>1. dropped' \subseteq Message
    BY <1>1, <1>3 DEF ProduceSucceeds, ProduceFails, WriterType, history
  <2>2. attempt' \in [Partition -> 0..(writerAttempts - 1)]
    <3>1. CASE UNCHANGED attempt
      BY <1>1, <3>1 DEF WriterType
    <3>2. CASE attempt[p] + 1 < writerAttempts /\ attempt' = [attempt EXCEPT ![p] = @ + 1]
      <4>1. attempt[p] + 1 \in 0..(writerAttempts - 1)
        BY <1>1, <3>2, IngestAssumption DEF WriterType
      <4> QED BY <1>1, <3>2, <4>1 DEF WriterType
    <3> QED BY <3>1, <3>2 DEF ProduceSucceeds, ProduceFails
  <2>3. \A q \in Partition : queue'[q] \cap batch'[q] = {}
    BY <1>1, <1>2, <1>3 DEF WriterType
  <2>4. phase' \notin {"stopped", "down"}
    BY <1>1, <1>2 DEF WriterType, Pending
  <2> QED BY <1>1, <1>2, <1>3, <1>4, <2>1, <2>2, <2>3, <2>4 DEF WriterType
<1> QED BY <1>2, <1>3, <1>4, <1>5, <1>6, PartitionMoves
-----------------------------------------------------------------------------
LEMMA InitInv == Init => IngestInv
<1> SUFFICES ASSUME Init PROVE IngestInv
  OBVIOUS
<1>1. TypeOK /\ Len(tries) = 0
  BY InitType DEF Init
<1>2. Try = {}
  BY <1>1 DEF Try
<1>3. \A p \in Partition : Pending(p) = {} /\ Produced(p) = {} /\ Len(log[p]) = 0
  BY DEF Init, Pending, Produced
<1>4. \A m : m \notin Everywhere
  BY <1>3, EverywhereIs DEF Init
<1>5. \A p \in Partition : PartitionInv(p)
  <2> SUFFICES ASSUME NEW p \in Partition PROVE PartitionInv(p)
    OBVIOUS
  <2>1. 1..Len(log[p]) = {} /\ queue[p] = {} /\ batch[p] = {}
    BY <1>3 DEF Pending
  <2> QED BY <1>3, <2>1 DEF PartitionInv
<1> QED BY <1>1, <1>2, <1>4, <1>5 DEF IngestInv, ClientInv, Init

LEMMA NextInv == IngestInv /\ [Next]_vars => IngestInv'
<1> SUFFICES ASSUME IngestInv, [Next]_vars PROVE IngestInv'
  OBVIOUS
<1>1. ASSUME UNCHANGED vars PROVE IngestInv'
  <2>1. /\ UNCHANGED <<tries, told, phase, boots, turns, queue, batch, attempt, log, counters,
                       dropped, lost>>
        /\ Try' = Try /\ Everywhere' = Everywhere
    BY <1>1 DEF vars, clients, process, writer, history, Try, Everywhere, Held, Logged,
                Produced, Pending
  <2>2. TypeOK' /\ ClientInv'
    BY <2>1 DEF IngestInv, TypeOK, Pending, ClientInv
  <2>5. TriesStay /\ \A m \in Everywhere' : MessageInv(m)'
    BY <2>1, MessagesStay DEF IngestInv, TriesStay
  <2>6. \A t \in Try' : TryInv(t)'
    <3> SUFFICES ASSUME NEW t \in Try PROVE TryInv(t)'
      BY <2>1
    <3>1. TryInv(t) /\ turns \in Nat
      BY DEF IngestInv, TypeOK
    <3> QED BY <2>1, <3>1, TurnType, TryStays DEF IngestInv
  <2>4. \A p \in Partition : PartitionInv(p)'
    BY <2>1, PartitionStays DEF IngestInv, TriesStay
  <2> QED BY <2>2, <2>4, <2>5, <2>6 DEF IngestInv
<1>2. ASSUME NEW t \in Try, handle(t) PROVE IngestInv'
  BY <1>2, EncodeStep, AnswerStep, WriteStep DEF handle
<1>3. ASSUME NEW p \in Partition, produce(p) PROVE IngestInv'
  BY <1>3, TakeBatchStep, ProduceStep DEF produce
<1> QED BY <1>1, <1>2, <1>3, SendStep, ProcessStep, ExitStep, CrashStep DEF Next

LEMMA IngestInvariant == Spec => []IngestInv
BY InitInv, NextInv, PTL DEF Spec

(* The state of handlers, writer and log keeps its shape; queue and batch   *)
(* are disjoint, and a writer that stopped holds nothing.                   *)
THEOREM IngestTypeCorrect == Spec => []TypeOK
<1>1. IngestInv => TypeOK
  BY DEF IngestInv
<1> QED BY <1>1, IngestInvariant, PTL

(* Every valid point of a request answered with 202 is in the log or the    *)
(* writer, or was dropped after all attempts or lost in a crash.            *)
THEOREM AcceptedIsAccounted == Spec => []AcceptedAccounted
<1>1. IngestInv => AcceptedAccounted
  <2> SUFFICES ASSUME IngestInv, NEW r \in told
               PROVE  \E t \in Try :
                          /\ tries[t].req = r
                          /\ \A k \in ValidPoints(r) : \E m \in Everywhere : m.try = t /\ m.k = k
    BY DEF AcceptedAccounted, Everywhere
  <2>1. PICK t \in Try : tries[t].req = r /\ tries[t].turn # 0
    BY DEF IngestInv, ClientInv
  <2>2. \A k \in ValidPoints(r) : Stamped(t, k) \in Everywhere
    BY <2>1 DEF IngestInv, TryInv
  <2>3. \A k : Stamped(t, k).try = t /\ Stamped(t, k).k = k
    BY DEF Stamped
  <2> QED BY <2>1, <2>2, <2>3
<1> QED BY <1>1, IngestInvariant, PTL

(* However often batches are repeated, a partition shows messages in the    *)
(* order of the handlers' turns, and a driver's messages share a partition. *)
THEOREM DriversAreInOrder == Spec => []DriverOrder
<1>1. IngestInv => DriverOrder
  <2> SUFFICES ASSUME IngestInv PROVE DriverOrder
    OBVIOUS
  <2>1. \A p \in Partition : \A m \in Produced(p) : Hash[m.driver] = p
    BY DEF IngestInv, PartitionInv, PartitionOf
  <2>2. \A p, q \in Partition : p # q =>
            {m.driver : m \in Produced(p)} \cap {m.driver : m \in Produced(q)} = {}
    BY <2>1
  <2> QED BY <2>2 DEF DriverOrder, IngestInv, PartitionInv
<1> QED BY <1>1, IngestInvariant, PTL

(* However often client and writer repeat themselves, a point with event_id *)
(* and recorded_at is one row of Cassandra.                                 *)
THEOREM RetriesAreOneRow == Spec => []RetryIsOneRow
<1>1. IngestInv => RetryIsOneRow
  <2> SUFFICES ASSUME IngestInv, NEW m \in Logged, NEW n \in Logged, SamePoint(m, n),
                      PointOf(m).id # None, PointOf(m).at # None
               PROVE  Row(m) = Row(n)
    BY DEF RetryIsOneRow
  <2>1. m = Stamped(m.try, m.k) /\ n = Stamped(n.try, n.k)
    BY DEF IngestInv, MessageInv, Everywhere, Held
  <2>2. PointOf(n) = PointOf(m)
    BY DEF SamePoint, PointOf
  <2>3. \A t, k : /\ Stamped(t, k).driver = tries[t].req.points[k].driver
                  /\ tries[t].req.points[k].id # None =>
                         Stamped(t, k).id = tries[t].req.points[k].id
                  /\ tries[t].req.points[k].at # None =>
                         Stamped(t, k).at = tries[t].req.points[k].at
    BY DEF Stamped
  <2>4. ASSUME NEW x \in Logged, x = Stamped(x.try, x.k),
               PointOf(x).id # None, PointOf(x).at # None
        PROVE  x.driver = PointOf(x).driver /\ x.id = PointOf(x).id /\ x.at = PointOf(x).at
    <3>1. /\ Stamped(x.try, x.k).driver = PointOf(x).driver
          /\ Stamped(x.try, x.k).id = PointOf(x).id
          /\ Stamped(x.try, x.k).at = PointOf(x).at
      BY <2>3, <2>4 DEF PointOf
    <3> HIDE DEF Stamped
    <3> QED BY <2>4, <3>1
  <2> QED BY <2>1, <2>2, <2>4 DEF Row
<1> QED BY <1>1, IngestInvariant, PTL

-----------------------------------------------------------------------------
(* Ingest implements Intake.                                                *)

(* Tries take their turns one by one, and what was given up or lost is not  *)
(* with the writer any more.                                                *)
TurnsInv ==
    /\ \A i \in 1..turns : \E t \in Try : tries[t].turn = i
    /\ \A t, u \in Try : tries[t].turn = tries[u].turn /\ tries[t].turn # 0 => t = u
Apart == \A p \in Partition : Pending(p) \cap (dropped \cup lost) = {}

PromiseInv == IngestInv /\ TurnsInv /\ Apart

LEMMA TurnsStay ==
    ASSUME TurnsInv, TriesStay, turns' = turns,
           \A t \in Try' \ Try : tries'[t].turn = 0
    PROVE  TurnsInv'
BY DEF TurnsInv, TriesStay

LEMMA TurnsStep == IngestInv /\ TurnsInv /\ [Next]_vars => TurnsInv'
<1> SUFFICES ASSUME IngestInv, TurnsInv, [Next]_vars PROVE TurnsInv'
  OBVIOUS
<1>1. TypeOK /\ turns \in Nat
  BY DEF IngestInv, TypeOK
<1>2. ASSUME Try' = Try, turns' = turns, TriesStay PROVE TurnsInv'
  BY <1>2, TurnsStay
<1>3. CASE UNCHANGED <<tries, turns>>
  BY <1>2, <1>3 DEF TriesStay, Try
<1>4. CASE Send
  <2>1. turns' = turns
    BY <1>4 DEF Send, history
  <2> QED BY <1>1, <1>4, <2>1, SendType, TurnsStay
<1>5. ASSUME NEW t \in Try, Encode(t) PROVE TurnsInv'
  <2>1. turns' = turns
    BY <1>5 DEF Encode, history
  <2> QED BY <1>1, <1>2, <1>5, <2>1, EncodeType
<1>6. ASSUME NEW t \in Try, Refuse(t) \/ WriteFails(t) \/ Accept(t) PROVE TurnsInv'
  <2>1. turns' = turns /\ tries' = [tries EXCEPT ![t].stage = "done"]
    BY <1>6 DEF Refuse, WriteFails, Accept, history
  <2>2. Try' = Try /\ TriesStay
    BY <1>1, <2>1, StageType DEF TriesStay
  <2> QED BY <1>2, <2>1, <2>2
<1>7. ASSUME NEW t \in Try, WriteMessages(t) PROVE TurnsInv'
  <2>1. /\ Try' = Try /\ turns' = turns + 1 /\ tries'[t].turn = turns + 1
        /\ \A u \in Try \ {t} : tries'[u].turn = tries[u].turn
    BY <1>1, <1>7, WriteType DEF WriteMessages
  <2>2. tries[t].turn = 0 /\ \A u \in Try : tries[u].turn <= turns /\ tries[u].turn \in Nat
    BY <1>1, <1>7, TurnType DEF IngestInv, TryInv, WriteMessages
  <2>3. \A i \in 1..turns' : \E u \in Try' : tries'[u].turn = i
    <3> SUFFICES ASSUME NEW i \in 1..turns' PROVE \E u \in Try : tries'[u].turn = i
      BY <2>1
    <3>1. CASE i = turns + 1
      BY <2>1, <3>1
    <3>2. CASE i \in 1..turns
      BY <2>1, <2>2, <3>2 DEF TurnsInv
    <3> QED BY <1>1, <2>1, <3>1, <3>2
  <2>4. \A u, v \in Try' : tries'[u].turn = tries'[v].turn /\ tries'[u].turn # 0 => u = v
    <3>1. \A u \in Try \ {t} : tries'[u].turn # tries'[t].turn
      BY <1>1, <2>1, <2>2
    <3> QED BY <2>1, <3>1 DEF TurnsInv
  <2> QED BY <2>3, <2>4 DEF TurnsInv
<1>8. CASE Exit \/ Crash
  <2>1. tries' = Killed /\ turns' = turns
    BY <1>8 DEF Exit, Crash, history
  <2>2. Try' = Try /\ TriesStay
    BY <1>1, <2>1, KilledType DEF TriesStay
  <2> QED BY <1>2, <2>1, <2>2
<1> QED
  BY <1>3, <1>4, <1>5, <1>6, <1>7, <1>8
     DEF Next, vars, handle, produce, TakeBatch, ProduceSucceeds, ProduceFails, Shutdown,
         CloseWriter, Boot, clients, history

LEMMA ApartStep == IngestInv /\ Apart /\ [Next]_vars => Apart'
<1> SUFFICES ASSUME IngestInv, Apart, [Next]_vars PROVE Apart'
  OBVIOUS
<1>1. TypeOK /\ WriterType
  BY TypeParts DEF IngestInv
<1>2. CASE UNCHANGED <<queue, batch, dropped, lost>>
  BY <1>2 DEF Apart, Pending
<1>3. ASSUME NEW t \in Try, WriteMessages(t) PROVE Apart'
  <2>1. /\ UNCHANGED <<batch, dropped, lost>>
        /\ \A p \in Partition : queue'[p] \subseteq queue[p] \cup tries[t].msgs
    BY <1>3 DEF WriteMessages
  <2>2. \A m \in tries[t].msgs : m \notin Everywhere
    <3>1. /\ tries[t].turn = 0
          /\ tries[t].msgs = {Stamped(t, k) : k \in ValidPoints(tries[t].req)}
      BY <1>3 DEF IngestInv, TryInv, WriteMessages
    <3>2. \A m \in tries[t].msgs : m.try = t
      BY <3>1 DEF Stamped
    <3> QED BY <3>1, <3>2 DEF IngestInv, MessageInv
  <2>3. \A m \in tries[t].msgs : m \notin dropped \cup lost
    BY <2>2, EverywhereIs
  <2> QED BY <2>1, <2>3 DEF Apart, Pending
<1>4. ASSUME NEW p \in Partition, TakeBatch(p) PROVE Apart'
  <2>1. PICK b \in SUBSET queue[p] :
            batch' = [batch EXCEPT ![p] = b] /\ queue' = [queue EXCEPT ![p] = @ \ b]
    BY <1>4 DEF TakeBatch
  <2>2. \A q \in Partition : Pending(q)' \subseteq Pending(q)
    BY <1>1, <2>1 DEF WriterType, Pending
  <2> QED BY <1>4, <2>2 DEF Apart, TakeBatch, history
<1>5. ASSUME NEW p \in Partition, ProduceSucceeds(p) \/ ProduceFails(p) PROVE Apart'
  <2>1. UNCHANGED <<queue, lost>> /\ (batch' = batch \/ batch' = [batch EXCEPT ![p] = {}])
    BY <1>5 DEF ProduceSucceeds, ProduceFails, history
  <2>2. \A q \in Partition : Pending(q)' \subseteq Pending(q)
    BY <1>1, <2>1 DEF WriterType, Pending
  <2>3. CASE dropped' = dropped
    BY <2>1, <2>2, <2>3 DEF Apart
  <2>4. CASE batch' = [batch EXCEPT ![p] = {}] /\ dropped' \subseteq dropped \cup batch[p]
    <3>1. \A q \in Partition : Pending(q)' \cap batch[p] = {}
      <4>1. Pending(p)' \cap batch[p] = {}
        BY <1>1, <2>1, <2>4 DEF WriterType, Pending
      <4>2. ASSUME NEW q \in Partition, q # p PROVE Pending(q) \cap Pending(p) = {}
        BY <4>2 DEF IngestInv, PartitionInv
      <4> QED BY <2>2, <4>1, <4>2 DEF Pending
    <3> QED BY <2>1, <2>2, <2>4, <3>1 DEF Apart
  <2> QED BY <1>5, <2>3, <2>4 DEF ProduceSucceeds, ProduceFails, history
<1>6. CASE Crash
  BY <1>6 DEF Apart, Pending, Crash
<1> QED
  BY <1>2, <1>3, <1>4, <1>5, <1>6
     DEF Next, vars, handle, produce, Send, Encode, Refuse, WriteFails, Accept, Shutdown,
         CloseWriter, Exit, Boot, writer, history

LEMMA PromiseInvStep == PromiseInv /\ [Next]_vars => PromiseInv'
BY NextInv, TurnsStep, ApartStep DEF PromiseInv

LEMMA PromiseInvInit == Init => PromiseInv
<1> SUFFICES ASSUME Init PROVE PromiseInv
  OBVIOUS
<1>1. Try = {} /\ 1..turns = {}
  BY DEF Init, Try
<1> QED BY <1>1, InitInv DEF PromiseInv, TurnsInv, Apart, Init, Pending

-----------------------------------------------------------------------------
(* Entries name messages one to one, and keep naming them.                  *)

Entry(m) == <<tries[m.try].turn, m.k>>

LEMMA EntriesAre ==
    ASSUME NEW ms
    PROVE  \A e : e \in Entries(ms) <=> \E m \in ms : e = Entry(m)
BY DEF Entries, Entry

LEMMA EntriesInjective ==
    ASSUME PromiseInv, NEW m \in Everywhere, NEW n \in Everywhere, Entry(m) = Entry(n)
    PROVE  m = n
<1>1. /\ MessageInv(m) /\ MessageInv(n)
      /\ tries[m.try].turn = tries[n.try].turn /\ m.k = n.k
  BY DEF PromiseInv, IngestInv, Entry
<1>2. m.try = n.try
  BY <1>1 DEF MessageInv, PromiseInv, TurnsInv
<1> QED BY <1>1, <1>2 DEF MessageInv

LEMMA AcceptedIs ==
    ASSUME PromiseInv
    PROVE  /\ turns \in Nat /\ Len(accepted) = turns /\ accepted \in Seq(Requests)
           /\ \A t \in Try : tries[t].turn # 0 =>
                  tries[t].turn \in 1..turns /\ accepted[tries[t].turn] = tries[t].req
<1>1. TypeOK /\ turns \in Nat
  BY DEF PromiseInv, IngestInv, TypeOK
<1>2. \A i \in 1..turns : \E t \in Try : tries[t].turn = i /\ accepted[i] = tries[t].req
  <2> SUFFICES ASSUME NEW i \in 1..turns
               PROVE  \E t \in Try : tries[t].turn = i /\ accepted[i] = tries[t].req
    OBVIOUS
  <2>1. \E t \in Try : tries[t].turn = i
    BY DEF PromiseInv, TurnsInv
  <2>2. accepted[i] = tries[CHOOSE t \in Try : tries[t].turn = i].req
    BY DEF accepted
  <2> QED BY <2>1, <2>2
<1>3. \A i \in 1..turns : accepted[i] \in Requests
  BY <1>1, <1>2, TurnType
<1>4. accepted \in Seq(Requests) /\ Len(accepted) = turns
  BY <1>1, <1>3 DEF accepted
<1>5. ASSUME NEW t \in Try, tries[t].turn # 0
      PROVE  tries[t].turn \in 1..turns /\ accepted[tries[t].turn] = tries[t].req
  <2>1. tries[t].turn \in 1..turns
    BY <1>1, <1>5, TurnType DEF PromiseInv, IngestInv, TryInv
  <2>2. PICK u \in Try : tries[u].turn = tries[t].turn /\ accepted[tries[t].turn] = tries[u].req
    BY <1>2, <2>1
  <2> QED BY <1>5, <2>1, <2>2 DEF PromiseInv, TurnsInv
<1> QED BY <1>1, <1>4, <1>5

RequestsAccepted == \A t \in Try : tries[t].turn # 0 => accepted[tries[t].turn] = tries[t].req

LEMMA AcceptedWithTurn == PromiseInv => RequestsAccepted
BY AcceptedIs DEF RequestsAccepted

LEMMA AcceptedStays ==
    ASSUME PromiseInv, PromiseInv', TriesStay, turns' = turns
    PROVE  accepted' = accepted
<1>1. \A i \in 1..turns : accepted'[i] = accepted[i]
  <2> SUFFICES ASSUME NEW i \in 1..turns PROVE accepted'[i] = accepted[i]
    OBVIOUS
  <2>1. PICK t \in Try : tries[t].turn = i
    BY DEF PromiseInv, TurnsInv
  <2>2. t \in Try' /\ tries'[t].turn = i /\ tries'[t].req = tries[t].req /\ i # 0
    BY <2>1 DEF TriesStay
  <2>3. accepted[i] = tries[t].req
    BY <2>1, <2>2, AcceptedIs
  <2>4. RequestsAccepted'
    BY AcceptedWithTurn, PTL
  <2> QED BY <2>2, <2>3, <2>4 DEF RequestsAccepted
<1>2. accepted' = [i \in 1..turns |-> accepted'[i]] /\ accepted = [i \in 1..turns |-> accepted[i]]
  BY DEF accepted
<1> QED BY <1>1, <1>2

(* The messages that have an entry are those that are somewhere.            *)
LEMMA MappedIsHeld ==
    /\ Unsent \subseteq Everywhere /\ Logged \subseteq Everywhere
    /\ dropped \cup lost \subseteq Everywhere
BY DEF Unsent, Everywhere, Held

LEMMA EntryStays ==
    ASSUME PromiseInv, TriesStay, NEW m \in Everywhere
    PROVE  Entry(m)' = Entry(m)
BY DEF PromiseInv, IngestInv, MessageInv, TriesStay, Entry

(* A step that moves the messages b from Unsent to the log, or gives them   *)
(* up.                                                                      *)
LEMMA Moved ==
    ASSUME PromiseInv, TriesStay, NEW A \in SUBSET Everywhere, NEW b \in SUBSET A, NEW B
    PROVE  /\ B = A \ b => {<<tries'[m.try].turn, m.k>> : m \in B} = Entries(A) \ Entries(b)
           /\ B = A => {<<tries'[m.try].turn, m.k>> : m \in B} = Entries(A)
<1>1. \A m \in A : <<tries'[m.try].turn, m.k>> = Entry(m)
  BY EntryStays DEF Entry
<1>2. \A m, n \in A : Entry(m) = Entry(n) => m = n
  BY EntriesInjective
<1>3. \A e : e \in {<<tries'[m.try].turn, m.k>> : m \in B} <=>
                 \E m \in B : e = <<tries'[m.try].turn, m.k>>
  OBVIOUS
<1>4. ASSUME B = A \ b
      PROVE  \A e : e \in {<<tries'[m.try].turn, m.k>> : m \in B} <=> e \in Entries(A) \ Entries(b)
  BY <1>1, <1>2, <1>3, <1>4, EntriesAre
<1>5. ASSUME B = A
      PROVE  \A e : e \in {<<tries'[m.try].turn, m.k>> : m \in B} <=> e \in Entries(A)
  BY <1>1, <1>3, <1>5, EntriesAre
<1> QED BY <1>4, <1>5

LEMMA Gained ==
    ASSUME PromiseInv, TriesStay, NEW A \in SUBSET Everywhere, NEW b \in SUBSET Everywhere, NEW B,
           B = A \cup b
    PROVE  {<<tries'[m.try].turn, m.k>> : m \in B} = Entries(A) \cup Entries(b)
<1>1. \A m \in B : <<tries'[m.try].turn, m.k>> = Entry(m)
  BY EntryStays DEF Entry
<1>2. \A e : e \in {<<tries'[m.try].turn, m.k>> : m \in B} <=> e \in Entries(A) \cup Entries(b)
  BY <1>1, EntriesAre
<1> QED BY <1>2

(* Steps that move no message.                                              *)
LEMMA NothingMoves ==
    ASSUME PromiseInv, PromiseInv', TriesStay, turns' = turns,
           Unsent' = Unsent, Logged' = Logged, (dropped \cup lost)' = dropped \cup lost
    PROVE  UNCHANGED <<accepted, waiting, published, gone>>
<1>1. accepted' = accepted
  BY AcceptedStays
<1>2. /\ Unsent \in SUBSET Everywhere /\ Logged \in SUBSET Everywhere
      /\ (dropped \cup lost) \ Logged \in SUBSET Everywhere
  BY MappedIsHeld
<1>3. waiting' = waiting /\ published' = published
  BY <1>2, Moved DEF waiting, published, Entries
<1>4. ((dropped \cup lost) \ Logged)' = (dropped \cup lost) \ Logged
  OBVIOUS
<1>5. gone' = gone
  BY <1>2, <1>4, Moved DEF gone, Entries
<1> QED BY <1>1, <1>3, <1>5

-----------------------------------------------------------------------------
(* The steps of Ingest as steps of Intake.                                  *)

LEMMA EntryDriver ==
    ASSUME PromiseInv, NEW m \in Everywhere
    PROVE  I!DriverOf(Entry(m)) = m.driver
<1>1. MessageInv(m)
  BY DEF PromiseInv, IngestInv
<1>2. accepted[tries[m.try].turn] = tries[m.try].req
  BY <1>1, AcceptedIs DEF MessageInv
<1>3. m.driver = tries[m.try].req.points[m.k].driver
  BY <1>1 DEF MessageInv, Stamped
<1>4. Entry(m)[1] = tries[m.try].turn /\ Entry(m)[2] = m.k
  BY DEF Entry
<1> QED BY <1>2, <1>3, <1>4 DEF I!DriverOf

(* The batch of a partition is at the front for all its drivers.            *)
LEMMA BatchIsFront ==
    ASSUME PromiseInv, NEW p \in Partition, NEW b, b = batch[p] \ Logged
    PROVE  b \subseteq Unsent /\ Entries(b) \subseteq waiting /\ I!Front(Entries(b))
<1>1. b \subseteq Unsent
  BY DEF Unsent, Pending
<1>2. Entries(b) \subseteq waiting
  BY <1>1 DEF Entries, waiting
<1>3. ASSUME NEW n \in Entries(b), NEW m \in waiting \ Entries(b),
             I!DriverOf(m) = I!DriverOf(n)
      PROVE  I!Earlier(n, m)
  <2>1. PICK nn \in b : n = Entry(nn)
    BY EntriesAre
  <2>2. PICK mm \in Unsent : m = Entry(mm)
    BY EntriesAre DEF waiting
  <2>3. mm \notin b /\ mm \in Everywhere /\ nn \in Everywhere
    BY <1>1, <2>1, <2>2, EntriesAre, MappedIsHeld
  <2>4. mm.driver = nn.driver
    BY <1>3, <2>1, <2>2, <2>3, EntryDriver
  <2>5. PICK q \in Partition : mm \in Pending(q) /\ mm \notin Logged
    BY <2>2 DEF Unsent
  <2>6. Hash[mm.driver] = q /\ Hash[nn.driver] = p
    BY <2>1, <2>5 DEF PromiseInv, IngestInv, PartitionInv, PartitionOf, Pending
  <2>7. mm \in queue[p] /\ nn \in batch[p]
    BY <2>1, <2>3, <2>4, <2>5, <2>6 DEF Pending
  <2>8. Before(nn, mm)
    BY <2>7 DEF PromiseInv, IngestInv, PartitionInv
  <2> QED BY <2>1, <2>2, <2>8 DEF Before, I!Earlier, Entry
<1>4. I!Front(Entries(b))
  BY <1>3 DEF I!Front
<1> QED BY <1>1, <1>2, <1>4

(* The batch reached the log: what was not there before is published.       *)
LEMMA Published ==
    ASSUME PromiseInv, PromiseInv', NEW p \in Partition, UNCHANGED <<tries, told, turns, lost>>,
           Produced(p)' = Produced(p) \cup batch[p],
           \A q \in Partition \ {p} : Produced(q)' = Produced(q) /\ Pending(q)' = Pending(q),
           Pending(p)' \in {Pending(p), queue[p]}, dropped' = dropped
    PROVE  I!Next
<1>1. TriesStay
  BY DEF TriesStay, Try
<1>2. PICK b : b = batch[p] \ Logged
  OBVIOUS
<1>3. b \subseteq Unsent /\ Entries(b) \subseteq waiting /\ I!Front(Entries(b))
      /\ b \subseteq Everywhere
  BY <1>2, BatchIsFront, MappedIsHeld
<1>4. \A m : m \in Logged' <=> m \in Logged \cup b
  BY <1>2 DEF Logged
<1>5. \A m : m \in Unsent' <=> m \in Unsent \ b
  <2>1. \A m : m \in Unsent' <=> m \notin Logged' /\ \E q \in Partition : m \in Pending(q)'
    BY DEF Unsent
  <2>2. \A m : m \in Unsent <=> m \notin Logged /\ \E q \in Partition : m \in Pending(q)
    BY DEF Unsent
  <2>3. \A m : m \notin Logged' =>
            ((\E q \in Partition : m \in Pending(q)') <=> (\E q \in Partition : m \in Pending(q)))
    BY <1>2, <1>4 DEF Pending
  <2> QED BY <1>4, <2>1, <2>2, <2>3
<1>6. \A m : m \in ((dropped \cup lost) \ Logged)' <=> m \in (dropped \cup lost) \ Logged
  <2>1. \A m \in dropped \cup lost : m \notin b
    BY <1>2 DEF PromiseInv, Apart, Pending
  <2> QED BY <1>4, <2>1
<1>7. /\ Unsent \in SUBSET Everywhere /\ Logged \in SUBSET Everywhere
      /\ (dropped \cup lost) \ Logged \in SUBSET Everywhere
  BY MappedIsHeld
<1>8. waiting' = waiting \ Entries(b)
  <2>1. Unsent' = Unsent \ b
    BY <1>5
  <2> QED BY <1>1, <1>3, <1>7, <2>1, Moved DEF waiting, Entries
<1>9. published' = published \cup Entries(b)
  <2>1. Logged' = Logged \cup b
    BY <1>4
  <2> QED BY <1>1, <1>3, <1>7, <2>1, Gained DEF published, Entries
<1>10. gone' = gone
  <2>1. ((dropped \cup lost) \ Logged)' = (dropped \cup lost) \ Logged
    BY <1>6
  <2> QED BY <1>1, <1>7, <2>1, Moved DEF gone, Entries
<1>11. accepted' = accepted
  BY <1>1, AcceptedStays
<1>12. I!Publish(Entries(b))
  BY <1>3, <1>8, <1>9, <1>10, <1>11 DEF I!Publish
<1> QED BY <1>3, <1>12 DEF I!Next

(* Messages that were not in the log are dropped or go with the process.    *)
LEMMA GivenUp ==
    ASSUME PromiseInv, PromiseInv', TriesStay, UNCHANGED <<told, turns>>, Logged' = Logged,
           NEW b \in SUBSET Unsent, I!Front(Entries(b)), Entries(b) \subseteq waiting,
           \A m : m \in Unsent' <=> m \in Unsent \ b,
           \A m : m \in (dropped' \cup lost') \ Logged <=> m \in ((dropped \cup lost) \ Logged) \cup b
    PROVE  I!Next
<1>1. /\ Unsent \in SUBSET Everywhere /\ Logged \in SUBSET Everywhere /\ b \in SUBSET Everywhere
      /\ (dropped \cup lost) \ Logged \in SUBSET Everywhere
  BY MappedIsHeld
<1>2. waiting' = waiting \ Entries(b)
  <2>1. Unsent' = Unsent \ b
    OBVIOUS
  <2> QED BY <1>1, <2>1, Moved DEF waiting, Entries
<1>3. published' = published
  BY <1>1, Moved DEF published, Entries
<1>4. gone' = gone \cup Entries(b)
  <2>1. (dropped' \cup lost') \ Logged' = ((dropped \cup lost) \ Logged) \cup b
    OBVIOUS
  <2> QED BY <1>1, <2>1, Gained DEF gone, Entries
<1>5. I!Lose(Entries(b))
  BY <1>2, <1>3, <1>4, AcceptedStays DEF I!Lose
<1> QED BY <1>5 DEF I!Next


(* WriteMessages accepts the request.                                       *)
LEMMA WriteAccepts ==
    ASSUME PromiseInv, PromiseInv', NEW t \in Try, WriteMessages(t)
    PROVE  I!Next
<1>1. TypeOK /\ TypeOK' /\ WriterType /\ turns \in Nat
  BY TypeParts DEF PromiseInv, IngestInv, TypeOK
<1>2. /\ Try' = Try /\ \A u \in Try \ {t} : tries'[u] = tries[u]
      /\ tries'[t].turn = turns + 1 /\ tries'[t].req = tries[t].req
  BY <1>1, WriteType
<1>3. PICK r \in Requests : r = tries[t].req
  BY <1>1, TurnType
<1>4. PICK ms : ms = tries[t].msgs
  OBVIOUS
<1>5. /\ tries[t].turn = 0 /\ ms = {Stamped(t, k) : k \in ValidPoints(r)}
      /\ UNCHANGED <<told, batch, log, dropped, lost>> /\ turns' = turns + 1
      /\ \A p \in Partition : queue'[p] = queue[p] \cup {m \in ms : PartitionOf(m) = p}
  BY <1>3, <1>4 DEF WriteMessages, PromiseInv, IngestInv, TryInv
<1>6. \A m \in Everywhere : m.try \in Try \ {t}
  BY <1>5 DEF PromiseInv, IngestInv, MessageInv
<1>7. \A m \in ms : m.try = t /\ m \notin Everywhere /\ PartitionOf(m) \in Partition
  <2>1. \A k \in ValidPoints(r) : Stamped(t, k).try = t /\ Stamped(t, k) \in Message
    BY <1>1, <1>3, StampedType DEF Stamped
  <2> QED BY <1>5, <1>6, <2>1, PartitionOfType
<1>8. \A m \in Everywhere : <<tries'[m.try].turn, m.k>> = Entry(m)
  BY <1>2, <1>6 DEF Entry
<1>9. /\ Logged' = Logged /\ Unsent \subseteq Everywhere /\ Logged \subseteq Everywhere
      /\ dropped \cup lost \subseteq Everywhere
  BY <1>5, MappedIsHeld DEF Logged, Produced
<1>10. \A m : m \in Unsent' <=> m \in Unsent \cup ms
  <2>1. \A m : m \in Unsent' <=> m \notin Logged /\ \E p \in Partition : m \in Pending(p)'
    BY <1>9 DEF Unsent
  <2>2. \A m : (\E p \in Partition : m \in Pending(p)') <=>
               m \in ms \/ \E p \in Partition : m \in Pending(p)
    BY <1>5, <1>7 DEF Pending
  <2>3. \A m \in ms : m \notin Logged
    BY <1>7, <1>9
  <2> QED BY <2>1, <2>2, <2>3 DEF Unsent
<1>11. \A e : e \in waiting' <=> e \in waiting \cup {<<turns + 1, k>> : k \in I!Points(r)}
  <2>1. \A e : e \in waiting' <=> \E m \in Unsent' : e = <<tries'[m.try].turn, m.k>>
    BY DEF waiting, Entries
  <2>2. \A e : e \in waiting <=> \E m \in Unsent : e = Entry(m)
    BY EntriesAre DEF waiting
  <2>3. \A e : (\E m \in ms : e = <<tries'[m.try].turn, m.k>>) <=>
               \E k \in ValidPoints(r) : e = <<turns + 1, k>>
    <3>1. \A k : Stamped(t, k).try = t /\ Stamped(t, k).k = k
      BY DEF Stamped
    <3> QED BY <1>2, <1>5, <3>1
  <2>4. I!Points(r) = ValidPoints(r)
    BY DEF I!Points, ValidPoints
  <2> QED BY <1>8, <1>9, <1>10, <2>1, <2>2, <2>3, <2>4
<1>12. published' = published /\ gone' = gone
  BY <1>5, <1>8, <1>9 DEF published, gone, Entries, Entry
<1>13. accepted' = Append(accepted, r)
  <2>1. accepted \in Seq(Requests) /\ Len(accepted) = turns
    BY AcceptedIs
  <2>2. /\ Append(accepted, r) \in Seq(Requests) /\ Len(Append(accepted, r)) = turns + 1
        /\ \A i \in 1..(turns + 1) :
               Append(accepted, r)[i] = IF i = turns + 1 THEN r ELSE accepted[i]
    BY <1>1, <2>1, AppendProperties
  <2>3. RequestsAccepted /\ RequestsAccepted'
    BY AcceptedWithTurn, PTL
  <2>4. \A i \in 1..(turns + 1) : accepted'[i] = IF i = turns + 1 THEN r ELSE accepted[i]
    <3> SUFFICES ASSUME NEW i \in 1..(turns + 1)
                 PROVE  accepted'[i] = IF i = turns + 1 THEN r ELSE accepted[i]
      OBVIOUS
    <3>1. CASE i = turns + 1
      BY <1>1, <1>2, <1>3, <2>3, <3>1 DEF RequestsAccepted
    <3>2. CASE i \in 1..turns
      <4>1. PICK u \in Try : tries[u].turn = i
        BY <3>2 DEF PromiseInv, TurnsInv
      <4>2. u # t /\ i # 0 /\ i # turns + 1
        BY <1>1, <1>5, <3>2, <4>1
      <4> QED BY <1>2, <2>3, <4>1, <4>2 DEF RequestsAccepted
    <3> QED BY <1>1, <3>1, <3>2
  <2>5. accepted' \in Seq(Requests) /\ Len(accepted') = turns + 1
    <3>1. accepted' = [i \in 1..(turns + 1) |-> accepted'[i]]
      BY <1>5 DEF accepted
    <3>2. \A i \in 1..(turns + 1) : accepted'[i] \in Requests
      BY <1>1, <2>1, <2>4
    <3> QED BY <1>1, <3>1, <3>2
  <2> QED BY <2>2, <2>4, <2>5, SeqEqual
<1>14. waiting' = waiting \cup {<<Len(accepted) + 1, k>> : k \in I!Points(r)}
  BY <1>11, AcceptedIs
<1>15. I!Accept(r)
  BY <1>5, <1>12, <1>13, <1>14 DEF I!Accept
<1> QED BY <1>3, <1>15 DEF I!Next

LEMMA HandlerPromises ==
    ASSUME PromiseInv, PromiseInv', NEW t \in Try, handle(t)
    PROVE  I!Next \/ UNCHANGED <<accepted, waiting, published, gone, told>>
<1>1. TypeOK
  BY DEF PromiseInv, IngestInv
<1>2. CASE WriteMessages(t)
  BY <1>2, WriteAccepts
<1>3. CASE Encode(t) \/ Refuse(t) \/ WriteFails(t) \/ Accept(t)
  <2>1. UNCHANGED <<writer, history>> /\ turns' = turns
    BY <1>3 DEF Encode, Refuse, WriteFails, Accept, history
  <2>2. TriesStay
    <3>1. CASE Encode(t)
      BY <1>1, <3>1, EncodeType
    <3>2. CASE tries' = [tries EXCEPT ![t].stage = "done"]
      BY <1>1, <3>2, StageType DEF TriesStay
    <3> QED BY <1>3, <3>1, <3>2 DEF Refuse, WriteFails, Accept
  <2>3. UNCHANGED <<accepted, waiting, published, gone>>
    BY <2>1, <2>2, NothingMoves DEF writer, history, Unsent, Logged, Pending, Produced
  <2>4. CASE told' = told
    BY <2>3, <2>4
  <2>5. CASE Accept(t) /\ told' = told \cup {tries[t].req}
    <3>1. tries[t].turn # 0
      BY <2>5 DEF Accept, PromiseInv, IngestInv, TryInv
    <3>2. PICK r \in Requests : r = tries[t].req
      BY <1>1, TurnType
    <3>3. \E i \in 1..Len(accepted) : accepted[i] = r
      BY <3>1, <3>2, AcceptedIs
    <3>4. I!Tell(r)
      BY <2>3, <2>5, <3>2, <3>3 DEF I!Tell
    <3> QED BY <3>2, <3>4 DEF I!Next
  <2> QED BY <1>3, <2>4, <2>5 DEF Encode, Refuse, WriteFails, Accept
<1> QED BY <1>2, <1>3 DEF handle

LEMMA WriterPromises ==
    ASSUME PromiseInv, PromiseInv', NEW p \in Partition, produce(p)
    PROVE  I!Next \/ UNCHANGED <<accepted, waiting, published, gone, told>>
<1>1. TypeOK /\ WriterType /\ log[p] \in Seq(SUBSET Message) /\ batch[p] \in SUBSET Message
  BY TypeParts DEF PromiseInv, IngestInv, WriterType
<1>2. UNCHANGED <<tries, told, turns, lost>> /\ TriesStay
  BY DEF produce, TakeBatch, ProduceSucceeds, ProduceFails, clients, history, TriesStay, Try
<1>3. CASE TakeBatch(p)
  <2>1. PICK b \in SUBSET queue[p] :
            batch' = [batch EXCEPT ![p] = b] /\ queue' = [queue EXCEPT ![p] = @ \ b]
    BY <1>3 DEF TakeBatch
  <2>2. batch[p] = {} /\ UNCHANGED <<log, dropped>>
    BY <1>3 DEF TakeBatch, history
  <2>3. \A q \in Partition : Pending(q)' = Pending(q) /\ Produced(q)' = Produced(q)
    BY <1>1, <2>1, <2>2 DEF WriterType, Pending, Produced
  <2>4. Unsent' = Unsent /\ Logged' = Logged
    BY <2>3 DEF Unsent, Logged
  <2> QED BY <1>2, <2>2, <2>4, NothingMoves
<1>4. CASE ProduceSucceeds(p) \/ ProduceFails(p)
  <2>1. /\ queue' = queue /\ (batch' = batch \/ batch' = [batch EXCEPT ![p] = {}])
        /\ (log' = log \/ log' = [log EXCEPT ![p] = Append(@, batch[p])])
    BY <1>4 DEF ProduceSucceeds, ProduceFails
  <2>2. /\ \A q \in Partition \ {p} : Pending(q)' = Pending(q) /\ Produced(q)' = Produced(q)
        /\ batch'[p] = batch[p] \/ batch'[p] = {}
        /\ Pending(p)' \in {Pending(p), queue[p]}
    BY <1>1, <2>1 DEF WriterType, Pending, Produced
  <2>3. CASE log' = [log EXCEPT ![p] = Append(@, batch[p])]
    <3>1. log'[p] = Append(log[p], batch[p])
      BY <1>1, <2>3 DEF WriterType
    <3>2. Produced(p)' = Produced(p) \cup batch[p]
      BY <1>1, <3>1, UnionAppend DEF Produced
    <3>3. dropped' = dropped
      BY <1>4, <3>2 DEF ProduceSucceeds, ProduceFails, history
    <3> QED BY <1>2, <2>2, <3>2, <3>3, Published
  <2>4. CASE log' = log /\ ProduceFails(p)
    <3>1. Logged' = Logged /\ \A q \in Partition : Produced(q)' = Produced(q)
      BY <2>4 DEF Logged, Produced
    <3>2. CASE batch' = batch /\ dropped' = dropped
      <4>1. Unsent' = Unsent
        BY <2>1, <3>1, <3>2 DEF Unsent, Pending
      <4> QED BY <1>2, <3>1, <3>2, <4>1, NothingMoves
    <3>3. CASE batch' = [batch EXCEPT ![p] = {}]
               /\ dropped' = dropped \cup (batch[p] \ Produced(p)')
      <4>1. PICK b : b = batch[p] \ Logged
        OBVIOUS
      <4>2. b \subseteq Unsent /\ Entries(b) \subseteq waiting /\ I!Front(Entries(b))
        BY <4>1, BatchIsFront
      <4>3. Pending(p)' = queue[p] /\ queue[p] \cap batch[p] = {}
        BY <1>1, <2>1, <3>3 DEF WriterType, Pending
      <4>4. ASSUME NEW q \in Partition, q # p PROVE Pending(q) \cap batch[p] = {}
        BY <4>4 DEF PromiseInv, IngestInv, PartitionInv, Pending
      <4>5. \A m : (\E q \in Partition : m \in Pending(q)') <=>
                   m \notin batch[p] /\ \E q \in Partition : m \in Pending(q)
        BY <2>2, <4>3, <4>4 DEF Pending
      <4>6. \A m : m \in Unsent' <=> m \in Unsent \ b
        BY <3>1, <4>1, <4>5 DEF Unsent
      <4>7. \A m \in batch[p] : m \in Logged <=> m \in Produced(p)
        <5> SUFFICES ASSUME NEW m \in batch[p], NEW q \in Partition, m \in Produced(q)
                     PROVE  m \in Produced(p)
          BY DEF Logged
        <5> QED BY DEF PromiseInv, IngestInv, PartitionInv, Pending
      <4>8. \A m : m \in (dropped' \cup lost') \ Logged <=>
                   m \in ((dropped \cup lost) \ Logged) \cup b
        BY <1>2, <3>1, <3>3, <4>1, <4>7
      <4> QED BY <1>2, <3>1, <4>2, <4>6, <4>8, GivenUp
    <3> QED BY <2>4, <3>2, <3>3 DEF ProduceFails
  <2> QED BY <1>4, <2>1, <2>3, <2>4 DEF ProduceSucceeds
<1> QED BY <1>3, <1>4 DEF produce

LEMMA CrashPromises ==
    ASSUME PromiseInv, PromiseInv', Crash
    PROVE  I!Next
<1>1. /\ UNCHANGED <<told, turns, log, dropped>> /\ tries' = Killed
      /\ lost' = lost \cup UNION {Pending(p) : p \in Partition}
      /\ \A p \in Partition : Pending(p)' = {}
  BY DEF Crash, Pending
<1>2. TriesStay
  BY <1>1, KilledType DEF TriesStay, PromiseInv, IngestInv
<1>3. Logged' = Logged
  BY <1>1 DEF Logged, Produced
<1>4. PICK b : b = Unsent
  OBVIOUS
<1>5. Entries(b) = waiting /\ I!Front(Entries(b))
  BY <1>4 DEF waiting, I!Front
<1>6. \A m : m \in Unsent' <=> m \in Unsent \ b
  BY <1>1, <1>4 DEF Unsent
<1>7. \A m : m \in (dropped' \cup lost') \ Logged <=> m \in ((dropped \cup lost) \ Logged) \cup b
  BY <1>1, <1>4 DEF Unsent
<1> QED BY <1>1, <1>2, <1>3, <1>4, <1>5, <1>6, <1>7, GivenUp

LEMMA PromiseStep ==
    PromiseInv /\ PromiseInv' /\ [Next]_vars =>
        [I!Next]_<<accepted, waiting, published, gone, told>>
<1> SUFFICES ASSUME PromiseInv, PromiseInv', [Next]_vars
             PROVE  I!Next \/ UNCHANGED <<accepted, waiting, published, gone, told>>
  OBVIOUS
<1>1. TypeOK
  BY DEF PromiseInv, IngestInv
<1>2. ASSUME UNCHANGED <<writer, history, told>>, TriesStay
      PROVE  UNCHANGED <<accepted, waiting, published, gone, told>>
  BY <1>2, NothingMoves DEF writer, history, Unsent, Logged, Pending, Produced
<1>3. CASE Send
  BY <1>1, <1>2, <1>3, SendType DEF Send
<1>4. CASE Exit
  BY <1>1, <1>2, <1>4, KilledType DEF Exit, TriesStay
<1>5. CASE Shutdown \/ CloseWriter \/ Boot \/ UNCHANGED vars
  <2>1. UNCHANGED <<writer, history, told, tries>>
    BY <1>5 DEF Shutdown, CloseWriter, Boot, vars, clients
  <2> QED BY <1>2, <2>1 DEF TriesStay, Try
<1> QED
  BY <1>3, <1>4, <1>5, HandlerPromises, WriterPromises, CrashPromises DEF Next

LEMMA PromiseInit == Init => I!Init
<1> SUFFICES ASSUME Init PROVE I!Init
  OBVIOUS
<1>1. turns = 0 /\ \A p \in Partition : Pending(p) = {} /\ Produced(p) = {}
  BY DEF Init, Pending, Produced
<1>2. accepted = <<>>
  BY <1>1 DEF accepted
<1>3. Unsent = {} /\ Logged = {} /\ (dropped \cup lost) \ Logged = {}
  BY <1>1 DEF Unsent, Logged, Init
<1>4. waiting = {} /\ published = {} /\ gone = {}
  BY <1>3, EntriesAre DEF waiting, published, gone
<1> QED BY <1>2, <1>4 DEF I!Init, Init

(* The write path implements Intake: whatever it repeats, drops or crashes  *)
(* under, every valid point of an accepted request waits, is published or   *)
(* lost, in the order of acceptance for each driver, and 202 is only sent   *)
(* for an accepted request.                                                 *)
THEOREM IngestPromises == Spec => Promises
BY PromiseInit, PromiseInvInit, PromiseInvStep, PromiseStep, PTL
   DEF Spec, Promises, I!Spec

(* What Intake says to a client: nothing that was accepted is forgotten, and *)
(* nothing else is answered with 202.                                       *)
Remembered ==
    /\ accepted \in Seq(Requests)
    /\ \A i \in 1..Len(accepted) : \A k \in I!Points(accepted[i]) :
           <<i, k>> \in waiting \cup published \cup gone
    /\ \A r \in told : \E i \in 1..Len(accepted) : accepted[i] = r

LEMMA AcceptRemembers ==
    ASSUME Remembered, NEW r \in Requests, I!Accept(r)
    PROVE  Remembered'
<1>1. /\ accepted' = Append(accepted, r) /\ told' = told
      /\ waiting' = waiting \cup {<<Len(accepted) + 1, k>> : k \in I!Points(r)}
      /\ published' = published /\ gone' = gone
  BY DEF I!Accept
<1>2. /\ Len(accepted') = Len(accepted) + 1 /\ Len(accepted) \in Nat
      /\ accepted'[Len(accepted) + 1] = r
      /\ \A i \in 1..Len(accepted) : accepted'[i] = accepted[i]
  BY <1>1 DEF Remembered
<1>3. ASSUME NEW i \in 1..Len(accepted'), NEW k \in I!Points(accepted'[i])
      PROVE  <<i, k>> \in waiting' \cup published' \cup gone'
  <2>1. CASE i = Len(accepted) + 1
    BY <1>1, <1>2, <1>3, <2>1
  <2>2. CASE i \in 1..Len(accepted)
    BY <1>1, <1>2, <1>3, <2>2 DEF Remembered
  <2> QED BY <1>2, <2>1, <2>2
<1>4. accepted' \in Seq(Requests)
  BY <1>1 DEF Remembered
<1>5. \A q \in told' : \E i \in 1..Len(accepted') : accepted'[i] = q
  BY <1>1, <1>2 DEF Remembered
<1> QED BY <1>3, <1>4, <1>5 DEF Remembered

LEMMA IntakeStep ==
    Remembered /\ [I!Next]_<<accepted, waiting, published, gone, told>> => Remembered'
<1> SUFFICES ASSUME Remembered, [I!Next]_<<accepted, waiting, published, gone, told>>
             PROVE  Remembered'
  OBVIOUS
<1>1. ASSUME NEW r \in Requests, I!Accept(r) PROVE Remembered'
  BY <1>1, AcceptRemembers DEF I!Accept
<1>2. ASSUME NEW r \in Requests, I!Tell(r) PROVE Remembered'
  BY <1>2 DEF I!Tell, Remembered
<1>3. ASSUME NEW b \in SUBSET waiting, I!Publish(b) \/ I!Lose(b)
      PROVE  Remembered'
  <2>1. /\ accepted' = accepted /\ told' = told /\ waiting' = waiting \ b
        /\ \/ published' = published \cup b /\ gone' = gone
           \/ published' = published /\ gone' = gone \cup b
    BY <1>3 DEF I!Publish, I!Lose
  <2> QED BY <2>1 DEF Remembered
<1>4. CASE UNCHANGED <<accepted, waiting, published, gone, told>>
  BY <1>4 DEF Remembered
<1> QED BY <1>1, <1>2, <1>3, <1>4 DEF I!Next

(* Intake says what a client relies on: every valid point of an accepted    *)
(* request waits, is published or lost, and 202 is only sent for such a one.*)
THEOREM IntakeForgetsNothing == Promises => []Remembered
<1>1. I!Init => Remembered
  BY DEF I!Init, Remembered
<1> QED BY <1>1, IntakeStep, PTL DEF Promises, I!Spec

=============================================================================
