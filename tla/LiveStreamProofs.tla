-------------------------- MODULE LiveStreamProofs --------------------------
(* Proofs about LiveStream, for any number of connections, events and       *)
(* faults, any COUNT and any MAXLEN.                                        *)
EXTENDS LiveStream, SequenceTheorems, TLAPS

Sorted(s) == \A j, k \in 1..Len(s) : j < k => s[j] < s[k]

TypeInv ==
    /\ last \in 0..MaxEvents /\ first \in 1..(last + 1) /\ faults \in 0..MaxFaults
    /\ pc \in [Conn -> PC]
    /\ up \in [Conn -> BOOLEAN] /\ cancelled \in [Conn -> BOOLEAN] /\ stalled \subseteq Conn
    /\ lastID \in [Conn -> 0..MaxEvents \cup {Dollar, Malformed}]
    /\ after \in [Conn -> 0..MaxEvents] /\ from \in [Conn -> 0..MaxEvents]
    /\ batch \in [Conn -> Seq(1..MaxEvents)] /\ got \in [Conn -> Seq(1..MaxEvents)]
    /\ since \in [Conn -> 0..MaxEvents \cup {None, Malformed}]

(* The handler of c: where it is decides what it holds.                     *)
HandlerInv(c) ==
    /\ up[c] => Active(c)
    /\ pc[c] = "write" <=> batch[c] # <<>>
    /\ pc[c] \in {"new", "snapshot", "closed"} => lastID[c] = Dollar
    /\ Active(c) /\ lastID[c] \notin Nat => batch[c] = <<>>
    /\ pc[c] = "new" \/ (Active(c) /\ lastID[c] \notin Nat) => got[c] = <<>>
    /\ since[c] \in Nat => since[c] <= last
    /\ pc[c] = "blocked" =>
           /\ lastID[c] # Malformed
           /\ after[c] = IF lastID[c] = Dollar THEN from[c] ELSE lastID[c]

(* What it has delivered lies before what it is about to deliver, and both  *)
(* up to its cursor.                                                        *)
DeliveryInv(c) ==
    /\ Sorted(got[c]) /\ Sorted(batch[c])
    /\ \A e \in Ids(got[c]), b \in Ids(batch[c]) : e < b
    /\ lastID[c] \in Nat =>
           \A e \in Ids(got[c]) \cup Ids(batch[c]) : e <= lastID[c]

NoGapFor(c) ==
    up[c] /\ lastID[c] \in Nat =>
        \A e \in (from[c] + 1)..lastID[c] :
            e \in Ids(got[c]) \cup Ids(batch[c]) \/ e < first

ConnInv(c) == HandlerInv(c) /\ DeliveryInv(c) /\ NoGapFor(c)
LiveInv == TypeInv /\ \A c \in Conn : ConnInv(c)

-----------------------------------------------------------------------------
(* Sequences of events.                                                     *)

LEMMA IdsOfEmpty == Ids(<<>>) = {} /\ Sorted(<<>>)
BY DEF Ids, Sorted

LEMMA EventSeq ==
    ASSUME NEW s \in Seq(1..MaxEvents)
    PROVE  s \in Seq(Int) /\ \A k \in 1..Len(s) : s[k] \in Int
<1>1. Len(s) \in Nat /\ s = [k \in 1..Len(s) |-> s[k]]
  BY LenProperties
<1>2. \A k \in 1..Len(s) : s[k] \in 1..MaxEvents
  BY ElementOfSeq
<1>3. \A k \in 1..Len(s) : s[k] \in Int
  BY <1>2
<1> QED BY <1>1, <1>3

LEMMA IdsOfAppend ==
    ASSUME NEW s \in Seq(Int), NEW e \in Int
    PROVE  /\ Ids(Append(s, e)) = Ids(s) \cup {e}
           /\ Sorted(s) /\ (\A x \in Ids(s) : x < e) => Sorted(Append(s, e))
<1> DEFINE t == Append(s, e)
<1>1. /\ Len(t) = Len(s) + 1 /\ t[Len(s) + 1] = e /\ Len(s) \in Nat
      /\ \A k \in 1..Len(s) : t[k] = s[k]
  BY AppendProperties
<1>2. 1..Len(t) = 1..Len(s) \cup {Len(s) + 1}
  BY <1>1
<1>3. Ids(t) = Ids(s) \cup {e}
  BY <1>1, <1>2 DEF Ids
<1>4. ASSUME Sorted(s), \A x \in Ids(s) : x < e PROVE Sorted(t)
  <2>1. ASSUME NEW j \in 1..Len(t), NEW k \in 1..Len(t), j < k PROVE t[j] < t[k]
    <3>1. j \in 1..Len(s)
      BY <1>1, <2>1
    <3>2. CASE k \in 1..Len(s)
      BY <1>1, <1>4, <2>1, <3>1, <3>2 DEF Sorted
    <3>3. CASE k = Len(s) + 1
      BY <1>1, <1>4, <3>1, <3>3 DEF Ids
    <3> QED BY <1>2, <3>2, <3>3
  <2> QED BY <2>1 DEF Sorted
<1> QED BY <1>3, <1>4

LEMMA IdsOfTail ==
    ASSUME NEW s \in Seq(Int), s # <<>>
    PROVE  /\ Head(s) \in Int /\ Ids(s) = {Head(s)} \cup Ids(Tail(s))
           /\ Sorted(s) => Sorted(Tail(s)) /\ \A x \in Ids(Tail(s)) : Head(s) < x
<1>1. /\ Len(s) \in Nat \ {0} /\ Len(Tail(s)) = Len(s) - 1 /\ Head(s) = s[1] /\ s[1] \in Int
      /\ \A k \in 1..(Len(s) - 1) : Tail(s)[k] = s[k + 1]
  BY HeadTailProperties
<1>2. \A k \in 1..Len(s) : k = 1 \/ k - 1 \in 1..(Len(s) - 1)
  BY <1>1
<1>3. \A k \in 1..(Len(s) - 1) : k + 1 \in 1..Len(s)
  BY <1>1
<1>4. Ids(s) = {Head(s)} \cup Ids(Tail(s))
  <2>1. ASSUME NEW k \in 1..Len(s) PROVE s[k] \in {Head(s)} \cup Ids(Tail(s))
    <3>1. CASE k = 1
      BY <1>1, <3>1
    <3>2. CASE k - 1 \in 1..(Len(s) - 1)
      <4>1. Tail(s)[k - 1] = s[(k - 1) + 1]
        BY <1>1, <3>2
      <4>2. (k - 1) + 1 = k
        OBVIOUS
      <4> QED BY <1>1, <3>2, <4>1, <4>2 DEF Ids
    <3> QED BY <1>2, <3>1, <3>2
  <2>2. Head(s) \in Ids(s)
    BY <1>1 DEF Ids
  <2>3. \A x \in Ids(Tail(s)) : x \in Ids(s)
    BY <1>1, <1>3 DEF Ids
  <2> QED BY <2>1, <2>2, <2>3 DEF Ids
<1>5. Sorted(s) => Sorted(Tail(s)) /\ \A x \in Ids(Tail(s)) : Head(s) < x
  BY <1>1, <1>3 DEF Sorted, Ids
<1> QED BY <1>1, <1>4, <1>5

(* What XREAD returns: the retained events behind `after`, up to NewLastID. *)
LEMMA AvailableProperties ==
    ASSUME TypeInv, NEW c \in Conn, Start(c) <= last
    PROVE  /\ Available(c) \in Seq(1..MaxEvents) /\ Available(c) # <<>>
           /\ NewLastID(c) = End(c) /\ End(c) \in 0..last
           /\ Sorted(Available(c)) /\ Ids(Available(c)) = Start(c)..End(c)
           /\ after[c] < Start(c)
           /\ \A e \in (after[c] + 1)..End(c) : e \in Start(c)..End(c) \/ e < first
<1>1. /\ Start(c) \in Nat /\ 1 <= Start(c) /\ after[c] < Start(c) /\ last \in Nat
      /\ first \in Nat /\ (Start(c) = first \/ Start(c) = after[c] + 1)
      /\ after[c] \in Nat
  BY StreamAssumption DEF TypeInv, Start
<1>2. /\ End(c) \in Nat /\ Start(c) <= End(c) /\ End(c) <= last
  BY <1>1, StreamAssumption DEF End
<1> DEFINE n == End(c) - Start(c) + 1
<1>3. n \in Nat /\ n >= 1
  BY <1>1, <1>2
<1>4. Available(c) = [k \in 1..n |-> Start(c) + k - 1]
  BY DEF Available
<1>5. \A k \in 1..n : Start(c) + k - 1 \in 1..MaxEvents
  BY <1>1, <1>2, StreamAssumption DEF TypeInv
<1> HIDE DEF n
<1>6. Available(c) \in Seq(1..MaxEvents) /\ Len(Available(c)) = n
  BY <1>3, <1>4, <1>5
<1>7. Available(c) # <<>>
  BY <1>3, <1>6
<1>8. NewLastID(c) = End(c)
  <2>1. NewLastID(c) = Available(c)[n]
    BY <1>6 DEF NewLastID, Last
  <2>2. Available(c)[n] = Start(c) + n - 1
    BY <1>3, <1>4
  <2> QED BY <1>1, <1>2, <2>1, <2>2 DEF n
<1>9. Sorted(Available(c))
  BY <1>1, <1>3, <1>4, <1>6 DEF Sorted
<1>10. Ids(Available(c)) = Start(c)..End(c)
  <2>1. Ids(Available(c)) = {Start(c) + k - 1 : k \in 1..n}
    BY <1>4, <1>6 DEF Ids
  <2>2. \A e \in Start(c)..End(c) : e - Start(c) + 1 \in 1..n /\ e = Start(c) + (e - Start(c) + 1) - 1
    BY <1>1, <1>2 DEF n
  <2>3. \A k \in 1..n : Start(c) + k - 1 \in Start(c)..End(c)
    BY <1>1, <1>2 DEF n
  <2> QED BY <2>1, <2>2, <2>3
<1> QED BY <1>1, <1>2, <1>6, <1>7, <1>8, <1>9, <1>10

-----------------------------------------------------------------------------
LEMMA LiveInvInit == Init => LiveInv
<1> SUFFICES ASSUME Init PROVE LiveInv
  OBVIOUS
<1>1. TypeInv
  BY StreamAssumption DEF Init, TypeInv, PC
<1>2. ASSUME NEW c \in Conn PROVE ConnInv(c)
  BY IdsOfEmpty, StreamAssumption
     DEF Init, ConnInv, HandlerInv, DeliveryInv, NoGapFor, Active
<1> QED BY <1>1, <1>2 DEF LiveInv

(* A connection that a step leaves alone, but for Redis dropping events,    *)
(* for its rider going away or for an XREAD that is sent again.             *)
LEMMA Untouched ==
    ASSUME TypeInv, NEW c \in Conn, ConnInv(c),
           first' \in Int, last' \in Int, first <= first', last <= last',
           pc'[c] = pc[c] \/ (pc[c] = "blocked" /\ pc'[c] = "loop"),
           after'[c] = after[c] \/ pc'[c] # "blocked",
           up'[c] => up[c],
           lastID'[c] = lastID[c], batch'[c] = batch[c], got'[c] = got[c],
           since'[c] = since[c], from'[c] = from[c]
    PROVE  ConnInv(c)'
<1>1. HandlerInv(c)'
  BY DEF TypeInv, ConnInv, HandlerInv, Active
<1>2. DeliveryInv(c)'
  BY DEF ConnInv, DeliveryInv, Sorted, Ids
<1>3. NoGapFor(c)'
  <2>1. SUFFICES ASSUME up'[c], lastID[c] \in Nat, NEW e \in (from[c] + 1)..lastID[c]
                 PROVE  e \in Ids(got[c]) \cup Ids(batch[c]) \/ e < first'
    BY DEF NoGapFor, Ids
  <2>2. e \in Ids(got[c]) \cup Ids(batch[c]) \/ e < first
    BY <2>1 DEF ConnInv, NoGapFor
  <2>3. e \in Int /\ first \in Int
    BY <2>1 DEF TypeInv
  <2> QED BY <2>2, <2>3
<1> QED BY <1>1, <1>2, <1>3 DEF ConnInv

(* A connection whose handler is gone, or that never had one.               *)
LEMMA Gone ==
    ASSUME NEW c \in Conn, ConnInv(c),
           pc'[c] = "closed" \/ (pc'[c] = "new" /\ pc[c] = "new"),
           up'[c] = FALSE, lastID'[c] = Dollar, batch'[c] = <<>>,
           got'[c] = got[c], since'[c] = None
    PROVE  ConnInv(c)'
<1>1. HandlerInv(c)'
  BY StreamAssumption DEF ConnInv, HandlerInv, Active
<1>2. DeliveryInv(c)'
  BY IdsOfEmpty, StreamAssumption DEF ConnInv, DeliveryInv, Sorted, Ids
<1>3. NoGapFor(c)'
  BY DEF NoGapFor
<1> QED BY <1>1, <1>2, <1>3 DEF ConnInv

-----------------------------------------------------------------------------
(* One lemma per step: the types, and the connections it touches.           *)

LEMMA PublishStep ==
    ASSUME LiveInv, PublishLocationToStream PROVE LiveInv'
<1>1. /\ first' \in 1..(last' + 1) /\ first <= first' /\ first' \in Int
      /\ last' \in 0..MaxEvents /\ last <= last' /\ last' \in Int
  <2>1. last \in Nat /\ first \in Nat /\ first >= 1 /\ first <= last + 1 /\ MaxEvents \in Nat
    BY StreamAssumption DEF LiveInv, TypeInv
  <2>2. last < MaxEvents /\ last' = last + 1
    BY DEF PublishLocationToStream
  <2>3. first' = first \/ first' \in first..last
    BY DEF PublishLocationToStream
  <2> QED BY <2>1, <2>2, <2>3
<1>2. UNCHANGED <<faults, pc, up, stalled, since, got, cancelled, lastID, after, batch, from>>
  BY DEF PublishLocationToStream, rider
<1>3. TypeInv'
  BY <1>1, <1>2 DEF LiveInv, TypeInv
<1>4. ASSUME NEW c \in Conn PROVE ConnInv(c)'
  BY <1>1, <1>2, Untouched DEF LiveInv
<1> QED BY <1>3, <1>4 DEF LiveInv

LEMMA ConnectStep ==
    ASSUME LiveInv, NEW c \in Conn, Connect(c) PROVE LiveInv'
<1>0. first \in Int /\ last \in Int /\ TypeInv
  BY DEF LiveInv, TypeInv
<1>1. PICK s \in 0..last \cup {None, Malformed} : since' = [since EXCEPT ![c] = s]
  BY DEF Connect
<1>2. /\ pc[c] = "new" /\ pc' = [pc EXCEPT ![c] = "snapshot"]
      /\ up' = [up EXCEPT ![c] = TRUE]
      /\ UNCHANGED <<first, last, faults, stalled, cancelled, lastID, after, batch, got, from>>
  BY DEF Connect, stream
<1>3. s \in 0..MaxEvents \cup {None, Malformed}
  BY <1>0, StreamAssumption DEF TypeInv
<1>4. TypeInv'
  BY <1>0, <1>1, <1>2, <1>3 DEF TypeInv, PC
<1>5. ASSUME NEW d \in Conn PROVE ConnInv(d)'
  <2>1. CASE d # c
    <3>1. pc'[d] = pc[d] /\ up'[d] = up[d] /\ since'[d] = since[d]
      BY <1>0, <1>1, <1>2, <2>1 DEF TypeInv
    <3>2. /\ ConnInv(d) /\ first <= first' /\ last <= last' /\ first' \in Int /\ last' \in Int
          /\ after'[d] = after[d] /\ lastID'[d] = lastID[d] /\ batch'[d] = batch[d]
          /\ got'[d] = got[d] /\ from'[d] = from[d]
      BY <1>0, <1>2 DEF LiveInv
    <3> QED BY <1>0, <3>1, <3>2, Untouched
  <2>2. CASE d = c
    <3>1. pc'[c] = "snapshot" /\ up'[c] = TRUE /\ since'[c] = s
      BY <1>0, <1>1, <1>2 DEF TypeInv
    <3>2. ConnInv(c) /\ lastID[c] = Dollar /\ batch[c] = <<>> /\ got[c] = <<>>
      BY <1>2 DEF LiveInv, ConnInv, HandlerInv, Active
    <3>3. Dollar \notin Nat /\ (s \in Nat => s <= last)
      BY <1>1, StreamAssumption
    <3>4. HandlerInv(c)'
      BY <1>2, <3>1, <3>2, <3>3 DEF HandlerInv, Active
    <3>5. DeliveryInv(c)'
      BY <1>2, <3>2 DEF ConnInv, DeliveryInv
    <3>6. NoGapFor(c)'
      BY <1>2, <3>2, <3>3 DEF NoGapFor
    <3> QED BY <2>2, <3>4, <3>5, <3>6 DEF ConnInv
  <2> QED BY <2>1, <2>2
<1> QED BY <1>4, <1>5 DEF LiveInv

LEMMA DisconnectStep ==
    ASSUME LiveInv, NEW c \in Conn,
           Disconnect(c) \/ NoticeDisconnect(c) \/ StopReading(c) \/ ReadOn(c)
    PROVE  LiveInv'
<1>0. first \in Int /\ last \in Int /\ TypeInv
  BY DEF LiveInv, TypeInv
<1>1. /\ up' = up \/ up' = [up EXCEPT ![c] = FALSE]
      /\ stalled' \subseteq stalled \cup {c}
      /\ cancelled' = cancelled \/ cancelled' = [cancelled EXCEPT ![c] = TRUE]
      /\ UNCHANGED <<first, last, faults, pc, lastID, after, batch, got, since, from>>
  BY DEF Disconnect, NoticeDisconnect, StopReading, ReadOn, stream, rider
<1>2. TypeInv'
  BY <1>0, <1>1 DEF TypeInv
<1>3. ASSUME NEW d \in Conn PROVE ConnInv(d)'
  <2>1. up'[d] => up[d]
    BY <1>0, <1>1 DEF TypeInv
  <2> QED BY <1>0, <1>1, <2>1, Untouched DEF LiveInv
<1> QED BY <1>2, <1>3 DEF LiveInv

LEMMA ReturnStep ==
    ASSUME LiveInv, NEW c \in Conn, Return(c), faults' \in 0..MaxFaults
    PROVE  LiveInv'
<1>0. first \in Int /\ last \in Int /\ TypeInv
  BY DEF LiveInv, TypeInv
<1>1. /\ pc' = [pc EXCEPT ![c] = "closed"] /\ up' = [up EXCEPT ![c] = FALSE]
      /\ stalled' \subseteq stalled
      /\ cancelled' = [cancelled EXCEPT ![c] = FALSE]
      /\ lastID' = [lastID EXCEPT ![c] = Dollar] /\ after' = [after EXCEPT ![c] = 0]
      /\ batch' = [batch EXCEPT ![c] = <<>>] /\ since' = [since EXCEPT ![c] = None]
      /\ from' = [from EXCEPT ![c] = 0] /\ UNCHANGED <<first, last, got>>
  BY DEF Return, Forget, stream
<1>2. TypeInv'
  BY <1>0, <1>1, StreamAssumption DEF TypeInv, PC
<1>3. ASSUME NEW d \in Conn PROVE ConnInv(d)'
  <2>1. CASE d # c
    <3>1. /\ pc'[d] = pc[d] /\ up'[d] = up[d] /\ since'[d] = since[d]
          /\ lastID'[d] = lastID[d] /\ after'[d] = after[d] /\ batch'[d] = batch[d]
          /\ from'[d] = from[d]
      BY <1>0, <1>1, <2>1 DEF TypeInv
    <3> QED BY <1>0, <1>1, <3>1, Untouched DEF LiveInv
  <2>2. CASE d = c
    <3>1. /\ pc'[c] = "closed" /\ up'[c] = FALSE /\ lastID'[c] = Dollar
          /\ batch'[c] = <<>> /\ since'[c] = None
      BY <1>0, <1>1 DEF TypeInv
    <3> QED BY <1>1, <2>2, <3>1, Gone DEF LiveInv
  <2> QED BY <2>1, <2>2
<1> QED BY <1>2, <1>3 DEF LiveInv

LEMMA SnapshotStep ==
    ASSUME LiveInv, NEW c \in Conn, SendSnapshot(c) PROVE LiveInv'
<1>0. first \in Int /\ last \in Int /\ TypeInv /\ last \in 0..MaxEvents
  BY DEF LiveInv, TypeInv
<1>1. PICK i \in 0..MaxEvents \cup {Dollar, Malformed}, f \in 0..MaxEvents :
        /\ lastID' = [lastID EXCEPT ![c] = i] /\ from' = [from EXCEPT ![c] = f]
        /\ i \in Nat => i = f
        /\ i = Malformed \/ i = Dollar \/ i \in Nat
  <2>1. since[c] \in 0..MaxEvents \cup {None, Malformed}
    BY <1>0 DEF TypeInv
  <2>2. CASE since[c] = None
    BY <1>0, <2>2, StreamAssumption DEF SendSnapshot
  <2>3. CASE since[c] = Malformed
    BY <1>0, <2>3, StreamAssumption DEF SendSnapshot, Replaying
  <2>4. CASE since[c] \in 0..MaxEvents
    BY <2>4, StreamAssumption DEF SendSnapshot, Replaying
  <2> QED BY <2>1, <2>2, <2>3, <2>4
<1>2. /\ pc[c] = "snapshot" /\ pc' = [pc EXCEPT ![c] = "loop"]
      /\ UNCHANGED <<first, last, faults, up, stalled, since, got, cancelled, after, batch>>
  BY DEF SendSnapshot, stream, rider
<1>3. TypeInv'
  BY <1>0, <1>1, <1>2 DEF TypeInv, PC
<1>4. ASSUME NEW d \in Conn PROVE ConnInv(d)'
  <2>1. CASE d # c
    <3>1. pc'[d] = pc[d] /\ lastID'[d] = lastID[d] /\ from'[d] = from[d]
      BY <1>0, <1>1, <1>2, <2>1 DEF TypeInv
    <3> QED BY <1>0, <1>2, <3>1, Untouched DEF LiveInv
  <2>2. CASE d = c
    <3>1. pc'[c] = "loop" /\ lastID'[c] = i /\ from'[c] = f
      BY <1>0, <1>1, <1>2 DEF TypeInv
    <3>2. /\ batch[c] = <<>> /\ got[c] = <<>> /\ (since[c] \in Nat => since[c] <= last)
      BY <1>2, StreamAssumption DEF LiveInv, ConnInv, HandlerInv, Active
    <3>3. HandlerInv(c)'
      BY <1>2, <3>1, <3>2 DEF HandlerInv, Active
    <3>4. DeliveryInv(c)'
      BY <1>2, <3>2, IdsOfEmpty DEF DeliveryInv
    <3>5. NoGapFor(c)'
      BY <1>1, <3>1 DEF NoGapFor
    <3> QED BY <2>2, <3>3, <3>4, <3>5 DEF ConnInv
  <2> QED BY <2>1, <2>2
<1> QED BY <1>3, <1>4 DEF LiveInv

LEMMA XReadArrivesStep ==
    ASSUME LiveInv, NEW c \in Conn, XReadArrives(c) PROVE LiveInv'
<1>0. first \in Int /\ last \in Int /\ TypeInv /\ last \in 0..MaxEvents
  BY DEF LiveInv, TypeInv
<1>1. PICK a \in 0..MaxEvents, f \in 0..MaxEvents :
        /\ after' = [after EXCEPT ![c] = a] /\ from' = [from EXCEPT ![c] = f]
        /\ IF lastID[c] = Dollar THEN a = f ELSE a = lastID[c] /\ f = from[c]
  <2>1. lastID[c] \in 0..MaxEvents \cup {Dollar} /\ from \in [Conn -> 0..MaxEvents]
    BY <1>0 DEF TypeInv, XReadArrives
  <2>2. CASE lastID[c] = Dollar
    BY <1>0, <2>2 DEF XReadArrives
  <2>3. CASE lastID[c] # Dollar
    <3>1. from' = [from EXCEPT ![c] = from[c]] /\ after' = [after EXCEPT ![c] = lastID[c]]
      BY <2>1, <2>3 DEF XReadArrives
    <3> QED BY <2>1, <2>3, <3>1
  <2> QED BY <2>2, <2>3
<1>2. /\ pc[c] = "loop" /\ lastID[c] # Malformed /\ pc' = [pc EXCEPT ![c] = "blocked"]
      /\ UNCHANGED <<first, last, faults, up, stalled, since, got, cancelled, lastID, batch>>
  BY DEF XReadArrives, stream, rider
<1>3. TypeInv'
  BY <1>0, <1>1, <1>2 DEF TypeInv, PC
<1>4. ASSUME NEW d \in Conn PROVE ConnInv(d)'
  <2>1. CASE d # c
    <3>1. pc'[d] = pc[d] /\ after'[d] = after[d] /\ from'[d] = from[d]
      BY <1>0, <1>1, <1>2, <2>1 DEF TypeInv
    <3> QED BY <1>0, <1>2, <3>1, Untouched DEF LiveInv
  <2>2. CASE d = c
    <3>1. pc'[c] = "blocked" /\ after'[c] = a /\ from'[c] = f
      BY <1>0, <1>1, <1>2 DEF TypeInv
    <3>2. ConnInv(c)
      BY DEF LiveInv
    <3>3. HandlerInv(c)'
      BY <1>1, <1>2, <3>1, <3>2 DEF ConnInv, HandlerInv, Active
    <3>4. DeliveryInv(c)'
      BY <1>2, <3>2 DEF ConnInv, DeliveryInv
    <3>5. NoGapFor(c)'
      BY <1>1, <1>2, <3>1, <3>2, StreamAssumption DEF ConnInv, NoGapFor
    <3> QED BY <2>2, <3>3, <3>4, <3>5 DEF ConnInv
  <2> QED BY <2>1, <2>2
<1> QED BY <1>3, <1>4 DEF LiveInv

LEMMA ReadStep ==
    ASSUME LiveInv, NEW c \in Conn, ReadLocationStream(c) PROVE LiveInv'
<1>0. first \in Int /\ last \in Int /\ TypeInv /\ last \in 0..MaxEvents
  BY DEF LiveInv, TypeInv
<1>1. PICK b, n : b = Available(c) /\ n = NewLastID(c)
  OBVIOUS
<1>2. /\ pc[c] = "blocked" /\ Start(c) <= last /\ pc' = [pc EXCEPT ![c] = "write"]
      /\ batch' = [batch EXCEPT ![c] = b] /\ lastID' = [lastID EXCEPT ![c] = n]
      /\ after' = [after EXCEPT ![c] = 0]
      /\ UNCHANGED <<first, last, faults, up, stalled, since, got, cancelled, from>>
  BY <1>1 DEF ReadLocationStream, stream, rider
<1>3. /\ b \in Seq(1..MaxEvents) /\ b # <<>> /\ n \in 0..last /\ Sorted(b)
      /\ \A e \in Ids(b) : after[c] < e /\ e <= n /\ e \in Int
      /\ \A e \in (after[c] + 1)..n : e \in Ids(b) \/ e < first
  <2>1. /\ n = End(c) /\ Ids(b) = Start(c)..n /\ Sorted(b) /\ b \in Seq(1..MaxEvents)
        /\ b # <<>> /\ n \in 0..last /\ after[c] < Start(c)
        /\ \A e \in (after[c] + 1)..n : e \in Ids(b) \/ e < first
    BY <1>0, <1>1, <1>2, AvailableProperties
  <2>2. after[c] \in Int /\ Start(c) \in Int /\ n \in Int
    BY <1>0, <2>1, StreamAssumption DEF TypeInv, Start
  <2> QED BY <2>1, <2>2
<1>4. n \in 0..MaxEvents
  BY <1>0, <1>3, StreamAssumption
<1>5. TypeInv'
  BY <1>0, <1>2, <1>3, <1>4, StreamAssumption DEF TypeInv, PC
<1>6. ASSUME NEW d \in Conn PROVE ConnInv(d)'
  <2>1. CASE d # c
    <3>1. /\ pc'[d] = pc[d] /\ after'[d] = after[d] /\ batch'[d] = batch[d]
          /\ lastID'[d] = lastID[d]
      BY <1>0, <1>2, <2>1 DEF TypeInv
    <3> QED BY <1>0, <1>2, <3>1, Untouched DEF LiveInv
  <2>2. CASE d = c
    <3>1. /\ pc'[c] = "write" /\ after'[c] = 0 /\ batch'[c] = b /\ lastID'[c] = n
          /\ got'[c] = got[c] /\ up'[c] = up[c]
      BY <1>0, <1>2 DEF TypeInv
    <3>2. ConnInv(c) /\ Active(c) /\ batch[c] = <<>> /\ n \in Nat
      BY <1>2, <1>3 DEF LiveInv, ConnInv, HandlerInv, Active
    <3>3. \A e \in Ids(got[c]) : e <= after[c] /\ e \in Int
      <4>1. got[c] \in Seq(1..MaxEvents)
        BY <1>0 DEF TypeInv
      <4>2. \A e \in Ids(got[c]) : e \in Int
        <5>1. \A k \in 1..Len(got[c]) : got[c][k] \in Int
          BY <4>1, EventSeq
        <5> QED BY <5>1 DEF Ids
      <4>3. CASE lastID[c] \in Nat
        <5>1. after[c] = lastID[c]
          BY <1>2, <3>2, <4>3, StreamAssumption DEF ConnInv, HandlerInv
        <5> QED BY <3>2, <4>2, <4>3, <5>1 DEF ConnInv, DeliveryInv
      <4>4. CASE lastID[c] \notin Nat
        BY <3>2, <4>4, IdsOfEmpty DEF ConnInv, HandlerInv
      <4> QED BY <4>3, <4>4
    <3>4. HandlerInv(c)'
      BY <1>2, <1>3, <3>1, <3>2 DEF ConnInv, HandlerInv, Active
    <3>5. after[c] \in Int /\ n \in Int
      BY <1>0, <1>3 DEF TypeInv
    <3>6. \A e \in Ids(got[c]), x \in Ids(b) : e < x
      BY <1>3, <3>3, <3>5
    <3>7. \A e \in Ids(got[c]) : e <= n
      <4>1. b \in Seq(Int)
        BY <1>3, EventSeq
      <4>2. Head(b) \in Ids(b)
        BY <1>3, <4>1, IdsOfTail
      <4> QED BY <1>3, <3>3, <3>5, <4>2
    <3>8. DeliveryInv(c)'
      BY <1>3, <3>1, <3>2, <3>6, <3>7 DEF ConnInv, DeliveryInv
    <3>9. NoGapFor(c)'
      <4>1. SUFFICES ASSUME up[c], NEW e \in (from[c] + 1)..n
                     PROVE  e \in Ids(got[c]) \cup Ids(b) \/ e < first
        BY <1>2, <3>1 DEF NoGapFor
      <4>2. from[c] \in Int /\ e \in Int
        BY <1>0 DEF TypeInv
      <4>3. CASE e > after[c]
        BY <1>3, <3>5, <4>2, <4>3
      <4>4. CASE e <= after[c]
        <5>1. lastID[c] \in Nat /\ after[c] = lastID[c]
          BY <1>0, <1>2, <3>2, <3>5, <4>2, <4>4, StreamAssumption DEF TypeInv, ConnInv, HandlerInv
        <5>2. e \in (from[c] + 1)..lastID[c]
          BY <4>2, <4>4, <5>1
        <5> QED BY <3>2, <4>1, <5>1, <5>2, IdsOfEmpty DEF ConnInv, NoGapFor
      <4> QED BY <3>5, <4>2, <4>3, <4>4
    <3> QED BY <2>2, <3>4, <3>8, <3>9 DEF ConnInv
  <2> QED BY <2>1, <2>2
<1> QED BY <1>5, <1>6 DEF LiveInv

LEMMA WriteStep ==
    ASSUME LiveInv, NEW c \in Conn, WriteEvent(c) PROVE LiveInv'
<1>0. /\ first \in Int /\ last \in Int /\ TypeInv
      /\ batch[c] \in Seq(1..MaxEvents) /\ got[c] \in Seq(1..MaxEvents)
  BY DEF LiveInv, TypeInv
<1>1. PICK b, g, p :
        /\ b = Tail(batch[c]) /\ g = IF up[c] THEN Append(got[c], Head(batch[c])) ELSE got[c]
        /\ p = IF Len(batch[c]) = 1 THEN "loop" ELSE "write"
  OBVIOUS
<1>2. /\ pc[c] = "write" /\ pc' = [pc EXCEPT ![c] = p]
      /\ batch' = [batch EXCEPT ![c] = b] /\ got' = [got EXCEPT ![c] = g]
      /\ UNCHANGED <<first, last, faults, up, stalled, since, cancelled, lastID, after, from>>
  BY <1>1 DEF WriteEvent, stream
<1>3. ConnInv(c) /\ batch[c] # <<>> /\ Active(c) /\ lastID[c] \in Nat
  BY <1>2 DEF LiveInv, ConnInv, HandlerInv, Active
<1>4. /\ b \in Seq(1..MaxEvents) /\ Head(batch[c]) \in 1..MaxEvents
      /\ Len(b) = Len(batch[c]) - 1
  BY <1>0, <1>1, <1>3, HeadTailProperties
<1>5. g \in Seq(1..MaxEvents)
  BY <1>0, <1>1, <1>4, AppendProperties
<1>6. p \in {"loop", "write"} /\ (p = "write" <=> b # <<>>)
  <2>1. Len(b) \in Nat /\ (b = <<>> <=> Len(b) = 0)
    <3>1. Len(b) \in Nat
      BY <1>4, LenProperties
    <3>2. b = <<>> <=> Len(b) = 0
      BY <1>4, EmptySeq
    <3> QED BY <3>1, <3>2
  <2>2. Len(batch[c]) \in Nat
    BY <1>0, LenProperties
  <2> QED BY <1>1, <1>4, <2>1, <2>2
<1>7. TypeInv'
  BY <1>0, <1>2, <1>4, <1>5, <1>6 DEF TypeInv, PC
<1>8. /\ Ids(batch[c]) = {Head(batch[c])} \cup Ids(b)
      /\ Sorted(b) /\ \A x \in Ids(b) : Head(batch[c]) < x
  BY <1>0, <1>1, <1>3, EventSeq, IdsOfTail DEF ConnInv, DeliveryInv
<1>9. /\ Sorted(g) /\ (\A x \in Ids(g), y \in Ids(b) : x < y)
      /\ (\A x \in Ids(g) : x <= lastID[c])
      /\ up[c] => Ids(g) \cup Ids(b) = Ids(got[c]) \cup Ids(batch[c])
  <2>1. CASE up[c]
    <3>1. got[c] \in Seq(Int) /\ Head(batch[c]) \in Int
      BY <1>0, <1>4, EventSeq
    <3>2. \A x \in Ids(got[c]) : x < Head(batch[c])
      BY <1>3, <1>8 DEF ConnInv, DeliveryInv
    <3>3. Sorted(g) /\ Ids(g) = Ids(got[c]) \cup {Head(batch[c])}
      BY <1>1, <1>3, <2>1, <3>1, <3>2, IdsOfAppend DEF ConnInv, DeliveryInv
    <3> QED BY <1>3, <1>8, <3>3 DEF ConnInv, DeliveryInv
  <2>2. CASE ~up[c]
    BY <1>1, <1>3, <1>8, <2>2 DEF ConnInv, DeliveryInv
  <2> QED BY <2>1, <2>2
<1>10. ASSUME NEW d \in Conn PROVE ConnInv(d)'
  <2>1. CASE d # c
    <3>1. pc'[d] = pc[d] /\ batch'[d] = batch[d] /\ got'[d] = got[d]
      BY <1>0, <1>2, <2>1 DEF TypeInv
    <3> QED BY <1>0, <1>2, <3>1, Untouched DEF LiveInv
  <2>2. CASE d = c
    <3>1. /\ pc'[c] = p /\ batch'[c] = b /\ got'[c] = g /\ up'[c] = up[c]
          /\ lastID'[c] = lastID[c] /\ from'[c] = from[c]
      BY <1>0, <1>2 DEF TypeInv
    <3>2. HandlerInv(c)'
      BY <1>2, <1>3, <1>6, <3>1 DEF ConnInv, HandlerInv, Active
    <3>3. DeliveryInv(c)'
      BY <1>3, <1>8, <1>9, <3>1 DEF ConnInv, DeliveryInv
    <3>4. NoGapFor(c)'
      BY <1>2, <1>3, <1>9, <3>1 DEF ConnInv, NoGapFor
    <3> QED BY <2>2, <3>2, <3>3, <3>4 DEF ConnInv
  <2> QED BY <2>1, <2>2
<1> QED BY <1>7, <1>10 DEF LiveInv

LEMMA RetriedStep ==
    ASSUME LiveInv, NEW c \in Conn, XReadRetried(c) PROVE LiveInv'
<1>0. first \in Int /\ last \in Int /\ TypeInv
  BY DEF LiveInv, TypeInv
<1>1. /\ pc[c] = "blocked" /\ pc' = [pc EXCEPT ![c] = "loop"]
      /\ after' = [after EXCEPT ![c] = 0] /\ faults' = faults + 1 /\ faults < MaxFaults
      /\ UNCHANGED <<first, last, up, stalled, since, got, cancelled, lastID, batch, from>>
  BY DEF XReadRetried, Fault, stream, rider
<1>2. TypeInv'
  BY <1>0, <1>1, StreamAssumption DEF TypeInv, PC
<1>3. ASSUME NEW d \in Conn PROVE ConnInv(d)'
  <2>1. /\ pc'[d] = pc[d] \/ (pc[d] = "blocked" /\ pc'[d] = "loop")
        /\ after'[d] = after[d] \/ pc'[d] # "blocked"
    BY <1>0, <1>1 DEF TypeInv
  <2> QED BY <1>0, <1>1, <2>1, Untouched DEF LiveInv
<1> QED BY <1>2, <1>3 DEF LiveInv

LEMMA RedisStep ==
    ASSUME LiveInv, RedisRestarts PROVE LiveInv'
<1>0. /\ first \in Int /\ last \in 0..MaxEvents /\ first <= last + 1 /\ 1 <= first
      /\ last \in Int /\ TypeInv
  BY DEF LiveInv, TypeInv
<1>1. /\ first' = last + 1 /\ faults' = faults + 1 /\ faults < MaxFaults
      /\ pc' = [c \in Conn |-> IF pc[c] = "blocked" THEN "loop" ELSE pc[c]]
      /\ after' = [c \in Conn |-> 0]
      /\ UNCHANGED <<last, up, stalled, since, got, cancelled, lastID, batch, from>>
  BY DEF RedisRestarts, Fault, rider
<1>2. TypeInv'
  BY <1>0, <1>1, StreamAssumption DEF TypeInv, PC
<1>3. ASSUME NEW d \in Conn PROVE ConnInv(d)'
  <2>1. /\ pc'[d] = pc[d] \/ (pc[d] = "blocked" /\ pc'[d] = "loop")
        /\ after'[d] = after[d] \/ pc'[d] # "blocked"
    BY <1>1
  <2>2. first <= first' /\ first' \in Int /\ last <= last' /\ last' \in Int
    BY <1>0, <1>1
  <2> QED BY <1>0, <1>1, <2>1, <2>2, Untouched DEF LiveInv
<1> QED BY <1>2, <1>3 DEF LiveInv

LEMMA ApiStep ==
    ASSUME LiveInv, ApiRestarts PROVE LiveInv'
<1>1. /\ faults' = faults + 1 /\ faults < MaxFaults
      /\ pc' = [c \in Conn |-> IF Active(c) THEN "closed" ELSE pc[c]]
      /\ up' = [c \in Conn |-> FALSE] /\ stalled' = {} /\ cancelled' = [c \in Conn |-> FALSE]
      /\ lastID' = [c \in Conn |-> Dollar] /\ after' = [c \in Conn |-> 0]
      /\ batch' = [c \in Conn |-> <<>>] /\ since' = [c \in Conn |-> None]
      /\ from' = [c \in Conn |-> 0] /\ UNCHANGED <<first, last, got>>
  BY DEF ApiRestarts, Fault, stream
<1>2. TypeInv'
  BY <1>1, StreamAssumption DEF LiveInv, TypeInv, PC
<1>3. ASSUME NEW d \in Conn PROVE ConnInv(d)'
  <2>1. pc'[d] = "closed" \/ (pc'[d] = "new" /\ pc[d] = "new")
    BY <1>1 DEF Active
  <2> QED BY <1>1, <2>1, Gone DEF LiveInv
<1> QED BY <1>2, <1>3 DEF LiveInv

LEMMA LiveInvNext == LiveInv /\ [Next]_vars => LiveInv'
<1> SUFFICES ASSUME LiveInv, [Next]_vars PROVE LiveInv'
  OBVIOUS
<1>1. CASE PublishLocationToStream
  BY <1>1, PublishStep
<1>2. CASE RedisRestarts
  BY <1>2, RedisStep
<1>3. CASE ApiRestarts
  BY <1>3, ApiStep
<1>4. ASSUME NEW c \in Conn, Connect(c) PROVE LiveInv'
  BY <1>4, ConnectStep
<1>5. ASSUME NEW c \in Conn,
             Disconnect(c) \/ NoticeDisconnect(c) \/ StopReading(c) \/ ReadOn(c)
      PROVE  LiveInv'
  BY <1>5, DisconnectStep
<1>6. ASSUME NEW c \in Conn, handleWebSocket(c) PROVE LiveInv'
  <2>1. CASE SendSnapshot(c)
    BY <2>1, SnapshotStep
  <2>2. CASE XReadArrives(c)
    BY <2>2, XReadArrivesStep
  <2>3. CASE ReadLocationStream(c)
    BY <2>3, ReadStep
  <2>4. CASE WriteEvent(c)
    BY <2>4, WriteStep
  <2>5. CASE SnapshotFails(c) \/ LoopReturns(c) \/ WriteFails(c)
    BY <2>5, ReturnStep DEF SnapshotFails, LoopReturns, WriteFails, LiveInv, TypeInv
  <2> QED BY <1>6, <2>1, <2>2, <2>3, <2>4, <2>5 DEF handleWebSocket
<1>7. ASSUME NEW c \in Conn, XReadRetried(c) PROVE LiveInv'
  BY <1>7, RetriedStep
<1>8. ASSUME NEW c \in Conn, XReadFails(c) PROVE LiveInv'
  <2>1. faults' \in 0..MaxFaults
    BY <1>8, StreamAssumption DEF XReadFails, Fault, LiveInv, TypeInv
  <2> QED BY <1>8, <2>1, ReturnStep DEF XReadFails
<1>9. CASE UNCHANGED vars
  <2>1. /\ UNCHANGED <<first, last, faults, up, stalled, since, got, pc, cancelled>>
        /\ UNCHANGED <<lastID, after, batch, from>>
    BY <1>9 DEF vars, stream, rider
  <2>2. TypeInv'
    BY <2>1 DEF LiveInv, TypeInv
  <2>3. first \in Int /\ last \in Int
    BY DEF LiveInv, TypeInv
  <2>4. ASSUME NEW c \in Conn PROVE ConnInv(c)'
    BY <2>1, <2>3, Untouched DEF LiveInv
  <2> QED BY <2>2, <2>4 DEF LiveInv
<1> QED BY <1>1, <1>2, <1>3, <1>4, <1>5, <1>6, <1>7, <1>8, <1>9 DEF Next

LEMMA LiveInvHolds == Spec => []LiveInv
<1> QED BY LiveInvInit, LiveInvNext, PTL DEF Spec

-----------------------------------------------------------------------------
(* The state keeps its shape: only a live handler has an open connection,   *)
(* and it writes exactly while it holds events (ws.go).                     *)
THEOREM StreamTypeCorrect == Spec => []TypeOK
<1>1. LiveInv => TypeOK
  BY DEF LiveInv, TypeInv, ConnInv, HandlerInv, TypeOK
<1> QED BY <1>1, LiveInvHolds, PTL

(* No connection ever delivers an event twice, or an older one after a      *)
(* newer one, whatever restarts (ws.go:91-142).                             *)
THEOREM RidersReceiveInOrder == Spec => []InOrder
<1>1. LiveInv => InOrder
  BY DEF LiveInv, ConnInv, DeliveryInv, Sorted, InOrder
<1> QED BY <1>1, LiveInvHolds, PTL

(* No connection skips an event between its start and its cursor, unless    *)
(* Redis dropped it first (ws.go:91-142, redis.go:146-183).                 *)
THEOREM NoEventIsSkipped == Spec => []NoGap
<1>1. LiveInv => NoGap
  BY DEF LiveInv, ConnInv, NoGapFor, NoGap
<1> QED BY <1>1, LiveInvHolds, PTL
=============================================================================
