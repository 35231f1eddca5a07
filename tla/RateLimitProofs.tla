-------------------------- MODULE RateLimitProofs --------------------------
(* Proofs about RateLimit, for every limit, window and number of requests.  *)
EXTENDS RateLimit, FiniteSetTheorems, TLAPS

(* What ties the history to the counters of the present life of Redis: the  *)
(* key outlives the window of each request it counted, and while that       *)
(* window lasts it has not been reset.                                      *)
CounterCovers ==
    \A k \in Requests :
        LET r == requests[k] IN
        /\ r.life <= life
        /\ r.count > 0 /\ r.life = life =>
               /\ r.at + Window <= expires[r.bucket]
               /\ now < r.at + Window => r.count <= counter[r.bucket]

(* Within one window no count is handed out twice.                          *)
CountsGrow ==
    \A j, k \in Requests :
        j < k /\ SameWindow(j, k) /\ requests[j].count > 0 /\ requests[k].count > 0
            => requests[j].count < requests[k].count

VerdictFits ==
    \A k \in Requests :
        requests[k].verdict = "next" => requests[k].count \in 1..limitRPS

WindowInv == TypeOK /\ CounterCovers /\ CountsGrow /\ VerdictFits

-----------------------------------------------------------------------------
(* Type correctness.                                                       *)

LEMMA BucketOfType ==
    ASSUME NEW d \in Driver, NEW n \in Naming
    PROVE  BucketOf(d, n) \in Bucket
BY LimitAssumption DEF BucketOf, Bucket

LEMMA RecordType ==
    ASSUME TypeOK, NEW k \in Requests
    PROVE  /\ requests[k] \in RequestType
           /\ requests[k].at \in Nat /\ requests[k].life \in Nat
           /\ requests[k].count \in Nat /\ requests[k].bucket \in Bucket
           /\ requests[k].at <= now
<1>1. requests[k] \in RequestType
  BY DEF TypeOK, Requests
<1> QED BY <1>1 DEF RequestType, TypeOK

LEMMA ClockType ==
    ASSUME TypeOK
    PROVE  now \in Nat /\ life \in Nat /\ Window \in Nat \ {0}
BY LimitAssumption DEF TypeOK

(* A request appends one record, stamped with the present.                  *)
LEMMA RequestAppends ==
    ASSUME TypeOK, Request
    PROVE  \E r \in RequestType :
              /\ requests' = Append(requests, r)
              /\ r.at = now /\ r.life = life /\ now' = now /\ life' = life
              /\ r.verdict = "next" => r.count \in 1..limitRPS
              /\ r.verdict = "rejected" => r.count > limitRPS
              /\ \/ r.count = Count(r.bucket) /\ incrementRateLimit(r.bucket)
                 \/ r.count = 0 /\ UNCHANGED <<counter, expires>>
<1> USE DEF TypeOK
<1>1. PICK d \in Driver, n \in Naming :
          Answered(d, BucketOf(d, n)) \/ FailsOpen(d, BucketOf(d, n))
  BY DEF Request
<1> DEFINE b == BucketOf(d, n)
<1>2. b \in Bucket
  BY BucketOfType
<1>3. Count(b) \in Nat \ {0}
  BY <1>2 DEF Count
<1>4. now' = now /\ life' = life
  BY DEF Request
<1> HIDE DEF b
<1>5. CASE Answered(d, b)
  <2> DEFINE r == [driver |-> d, bucket |-> b, at |-> now, life |-> life,
                   count |-> Count(b), verdict |-> Verdict(Count(b))]
  <2>1. r \in RequestType
    BY <1>2, <1>3 DEF RequestType, Verdict
  <2>2. /\ r.verdict = "next" => r.count \in 1..limitRPS
        /\ r.verdict = "rejected" => r.count > limitRPS
    BY <1>3, LimitAssumption DEF Verdict
  <2> QED BY <1>4, <1>5, <2>1, <2>2 DEF Answered, Record
<1>6. CASE incrementRateLimit(b) /\ Record(d, b, Count(b), "open")
  <2> DEFINE r == [driver |-> d, bucket |-> b, at |-> now, life |-> life,
                   count |-> Count(b), verdict |-> "open"]
  <2>1. r \in RequestType
    BY <1>2, <1>3 DEF RequestType
  <2> QED BY <1>4, <1>6, <2>1 DEF Record
<1>7. CASE UNCHANGED <<counter, expires>> /\ Record(d, b, 0, "open")
  <2> DEFINE r == [driver |-> d, bucket |-> b, at |-> now, life |-> life,
                   count |-> 0, verdict |-> "open"]
  <2>1. r \in RequestType
    BY <1>2 DEF RequestType
  <2> QED BY <1>4, <1>7, <2>1 DEF Record
<1> QED BY <1>1, <1>5, <1>6, <1>7 DEF FailsOpen, b

LEMMA TypeOKStep == TypeOK /\ [Next]_vars => TypeOK'
<1> SUFFICES ASSUME TypeOK, [Next]_vars PROVE TypeOK'
  OBVIOUS
<1>1. CASE Request
  <2>1. PICK r \in RequestType :
            /\ requests' = Append(requests, r)
            /\ r.at = now /\ now' = now /\ life' = life
            /\ \/ incrementRateLimit(r.bucket)
               \/ UNCHANGED <<counter, expires>>
    BY <1>1, RequestAppends
  <2>2. r.bucket \in Bucket /\ Count(r.bucket) \in Nat
    BY DEF RequestType, Count, TypeOK
  <2>3. counter' \in [Bucket -> Nat] /\ expires' \in [Bucket -> Nat]
    <3>1. now + Window \in Nat
      BY LimitAssumption DEF TypeOK
    <3> QED BY <2>1, <2>2, <3>1 DEF incrementRateLimit, TypeOK
  <2>4. requests' \in Seq(RequestType) /\ Len(requests') = Len(requests) + 1
        /\ \A k \in Requests : requests'[k] = requests[k]
        /\ requests'[Len(requests) + 1] = r
    BY <2>1 DEF TypeOK, Requests
  <2>5. Len(requests) < MaxRequests
    BY <1>1 DEF Request
  <2>6. Len(requests') <= MaxRequests /\ now' \in 0..MaxTime
    BY <2>1, <2>4, <2>5, LimitAssumption DEF TypeOK
  <2>7. \A k \in Requests' : requests'[k].at <= now'
    BY <2>1, <2>4 DEF TypeOK, Requests
  <2>8. \A b \in Bucket : expires'[b] <= now' + Window
    <3>1. Window \in Nat /\ now \in Nat /\ now' = now
      BY <2>1, ClockType
    <3>2. \A b \in Bucket : expires[b] <= now + Window
      BY DEF TypeOK
    <3>3. CASE UNCHANGED <<counter, expires>>
      BY <3>1, <3>2, <3>3
    <3>4. CASE incrementRateLimit(r.bucket)
      <4> SUFFICES ASSUME NEW b \in Bucket PROVE expires'[b] <= now + Window
        BY <3>1
      <4>1. expires' = [expires EXCEPT ![r.bucket] = now + Window]
        BY <3>4 DEF incrementRateLimit
      <4>2. expires'[b] = now + Window \/ expires'[b] = expires[b]
        BY <4>1 DEF TypeOK
      <4>3. now + Window <= now + Window
        BY <3>1
      <4> QED BY <3>2, <4>2, <4>3
    <3> QED BY <2>1, <3>3, <3>4
  <2> QED BY <2>1, <2>3, <2>4, <2>6, <2>7, <2>8 DEF TypeOK
<1>2. CASE Tick
  <2>1. now' \in 0..MaxTime
    BY <1>2, LimitAssumption DEF Tick, TypeOK
  <2>2. \A k \in Requests : requests[k].at <= now'
    BY <1>2, RecordType, ClockType DEF Tick
  <2>3. \A b \in Bucket : expires[b] <= now' + Window
    <3>1. \A b \in Bucket : expires[b] \in Nat /\ expires[b] <= now + Window
      BY DEF TypeOK
    <3> QED BY <1>2, <3>1, ClockType DEF Tick
  <2> QED BY <1>2, <2>1, <2>2, <2>3 DEF Tick, TypeOK, Requests
<1>3. CASE RedisRestarts
  <2>1. now \in Nat /\ life' \in 0..MaxRestarts
    BY <1>3, LimitAssumption DEF RedisRestarts, TypeOK
  <2>2. \A b \in Bucket : expires'[b] <= now' + Window
    BY <1>3, ClockType DEF RedisRestarts
  <2> QED BY <1>3, <2>1, <2>2 DEF RedisRestarts, TypeOK, Requests
<1>4. CASE UNCHANGED vars
  BY <1>4 DEF vars, TypeOK, Requests
<1> QED BY <1>1, <1>2, <1>3, <1>4 DEF Next

LEMMA TypeOKInit == Init => TypeOK
BY LimitAssumption DEF Init, TypeOK, Requests

(* The limiter's state keeps its shape.                                     *)
THEOREM LimiterTypeCorrect == Spec => []TypeOK
BY TypeOKInit, TypeOKStep, PTL DEF Spec
-----------------------------------------------------------------------------
(* The limit in every window.                                              *)

LEMMA WindowInvRequest ==
    ASSUME WindowInv, Request
    PROVE  CounterCovers' /\ CountsGrow' /\ VerdictFits'
<1> DEFINE n == Len(requests) + 1
<1>1. PICK r \in RequestType :
          /\ requests' = Append(requests, r)
          /\ r.at = now /\ r.life = life /\ now' = now /\ life' = life
          /\ r.verdict = "next" => r.count \in 1..limitRPS
          /\ \/ r.count = Count(r.bucket) /\ incrementRateLimit(r.bucket)
             \/ r.count = 0 /\ UNCHANGED <<counter, expires>>
  BY RequestAppends DEF WindowInv
<1>2. /\ n \in Nat /\ Requests' = Requests \cup {n} /\ n \notin Requests
      /\ \A k \in Requests : requests'[k] = requests[k] /\ k < n
      /\ requests'[n] = r
  BY <1>1 DEF WindowInv, TypeOK, Requests
<1> HIDE DEF n
<1>3. now \in Nat /\ life \in Nat /\ Window \in Nat \ {0} /\ r.bucket \in Bucket
      /\ r.count \in Nat
      /\ \A b \in Bucket : counter[b] \in Nat /\ expires[b] \in Nat
      /\ \A k \in Requests : requests[k] \in RequestType /\ requests[k].at <= now
      /\ \A j \in Requests : /\ requests[j].at \in Nat /\ requests[j].count \in Nat
                             /\ requests[j].bucket \in Bucket
  <2>1. TypeOK
    BY DEF WindowInv
  <2>2. r.bucket \in Bucket /\ r.count \in Nat
    BY DEF RequestType
  <2>3. \A b \in Bucket : counter[b] \in Nat /\ expires[b] \in Nat
    BY <2>1 DEF TypeOK
  <2> QED BY <2>1, <2>2, <2>3, RecordType, ClockType
(* A request of the present window was counted by the key as it is now.     *)
<1>4. ASSUME NEW k \in Requests, requests[k].count > 0, requests[k].life = life,
             now < requests[k].at + Window
      PROVE  Live(requests[k].bucket)
             /\ requests[k].count < Count(requests[k].bucket)
  BY <1>3, <1>4 DEF WindowInv, CounterCovers, Live, Count
<1>5. CounterCovers'
  <2> SUFFICES ASSUME NEW k \in Requests'
               PROVE /\ requests'[k].life <= life'
                     /\ requests'[k].count > 0 /\ requests'[k].life = life' =>
                          /\ requests'[k].at + Window <= expires'[requests'[k].bucket]
                          /\ now' < requests'[k].at + Window =>
                                requests'[k].count <= counter'[requests'[k].bucket]
    BY DEF CounterCovers
  <2>0. counter \in [Bucket -> Nat] /\ expires \in [Bucket -> Nat]
    BY DEF WindowInv, TypeOK
  <2>1. CASE k = n
    <3>0. /\ requests'[k] = r /\ r.life = life' /\ r.at = now' /\ now' = now
          /\ now \in Nat /\ life' \in Nat /\ Window \in Nat /\ r.count \in Nat
      BY <1>1, <1>2, <1>3, <2>1
    <3>1. CASE r.count = 0
      BY <3>0, <3>1
    <3>2. CASE r.count = Count(r.bucket) /\ incrementRateLimit(r.bucket)
      <4>1. counter'[r.bucket] = Count(r.bucket)
            /\ expires'[r.bucket] = now + Window
        BY <1>3, <2>0, <3>2 DEF incrementRateLimit
      <4> QED BY <3>0, <3>2, <4>1
    <3> QED BY <1>1, <3>1, <3>2
  <2>2. CASE k \in Requests
    <3>1. requests'[k] = requests[k] /\ requests[k].life <= life
      BY <1>2, <2>2 DEF WindowInv, CounterCovers
    <3>2. CASE requests[k].count > 0 /\ requests[k].life = life
      <4>1. requests[k].at + Window <= expires[requests[k].bucket]
            /\ (now < requests[k].at + Window =>
                    requests[k].count <= counter[requests[k].bucket])
        BY <2>2, <3>2 DEF WindowInv, CounterCovers
      <4>2. CASE incrementRateLimit(r.bucket) /\ requests[k].bucket = r.bucket
        <5>1. counter'[r.bucket] = Count(r.bucket)
              /\ expires'[r.bucket] = now + Window
          BY <1>3, <2>0, <4>2 DEF incrementRateLimit
        <5>2. now < requests[k].at + Window => requests[k].count < Count(r.bucket)
          BY <1>4, <2>2, <3>2, <4>2
        <5>3. Count(r.bucket) \in Nat
          BY <1>3 DEF Count
        <5> QED BY <1>1, <1>3, <2>2, <3>1, <4>2, <5>1, <5>2, <5>3
      <4>3. CASE incrementRateLimit(r.bucket) /\ requests[k].bucket # r.bucket
        <5>1. counter'[requests[k].bucket] = counter[requests[k].bucket]
              /\ expires'[requests[k].bucket] = expires[requests[k].bucket]
          BY <1>3, <2>0, <2>2, <4>3 DEF incrementRateLimit
        <5> QED BY <1>1, <3>1, <4>1, <5>1
      <4>4. CASE UNCHANGED <<counter, expires>>
        BY <1>1, <3>1, <4>1, <4>4
      <4> QED BY <1>1, <4>2, <4>3, <4>4
    <3>3. CASE ~(requests[k].count > 0 /\ requests[k].life = life)
      BY <1>1, <3>1, <3>3
    <3> QED BY <3>2, <3>3
  <2> QED BY <1>2, <2>1, <2>2
<1>6. CountsGrow'
  <2> SUFFICES ASSUME NEW j \in Requests', NEW k \in Requests', j < k,
                      SameWindow(j, k)', requests'[j].count > 0,
                      requests'[k].count > 0
               PROVE  requests'[j].count < requests'[k].count
    BY DEF CountsGrow
  <2>1. j \in Requests /\ requests'[j] = requests[j]
    BY <1>2 DEF Requests
  <2>2. CASE k \in Requests
    BY <1>2, <2>1, <2>2 DEF WindowInv, CountsGrow, SameWindow
  <2>3. CASE k = n
    <3>1. requests[j].bucket = r.bucket /\ requests[j].life = life
          /\ requests[j].at - now \in (1 - Window)..(Window - 1)
      BY <1>1, <1>2, <2>1, <2>3 DEF SameWindow
    <3>2. now < requests[j].at + Window
      BY <1>3, <2>1, <3>1
    <3>3. requests[j].count < Count(r.bucket)
      BY <1>4, <2>1, <3>1, <3>2
    <3>4. r.count = Count(r.bucket)
      <4>1. r.count > 0
        BY <1>2, <2>3
      <4> QED BY <1>1, <4>1
    <3> QED BY <1>2, <2>1, <2>3, <3>3, <3>4
  <2> QED BY <1>2, <2>2, <2>3
<1>7. VerdictFits'
  BY <1>1, <1>2 DEF WindowInv, VerdictFits
<1> QED BY <1>5, <1>6, <1>7

LEMMA WindowInvStep == WindowInv /\ [Next]_vars => WindowInv'
<1> SUFFICES ASSUME WindowInv, [Next]_vars PROVE WindowInv'
  OBVIOUS
<1>1. TypeOK'
  BY TypeOKStep DEF WindowInv
<1>2. CASE Request
  BY <1>1, <1>2, WindowInvRequest DEF WindowInv
<1>3. CASE UNCHANGED requests
  <2>1. CountsGrow' /\ VerdictFits'
    BY <1>3 DEF WindowInv, CountsGrow, VerdictFits, SameWindow, Requests
  <2>2. now \in Nat /\ life \in Nat /\ Window \in Nat
        /\ \A k \in Requests : requests[k].life \in Nat /\ requests[k].at \in Nat
    BY RecordType, ClockType DEF WindowInv
  <2> DEFINE Covers(k) ==
        /\ requests[k].life <= life
        /\ requests[k].count > 0 /\ requests[k].life = life =>
               /\ requests[k].at + Window <= expires[requests[k].bucket]
               /\ now < requests[k].at + Window =>
                      requests[k].count <= counter[requests[k].bucket]
  <2>6. (CounterCovers <=> \A k \in Requests : Covers(k))
        /\ (CounterCovers' <=> \A k \in Requests : Covers(k)')
    BY <1>3 DEF CounterCovers, Requests
  <2>7. \A k \in Requests : Covers(k)
    BY <2>6 DEF WindowInv
  <2>3. CASE Tick
    BY <1>1, <1>3, <2>1, <2>2, <2>3, <2>6, <2>7 DEF Tick, WindowInv
  <2>4. CASE RedisRestarts
    BY <1>1, <1>3, <2>1, <2>2, <2>4, <2>6, <2>7 DEF RedisRestarts, WindowInv
  <2>5. CASE UNCHANGED vars
    BY <1>1, <2>1, <2>5, <2>6, <2>7 DEF vars, WindowInv
  <2> QED BY <1>1, <1>2, <2>1, <2>3, <2>4, <2>5 DEF Next, WindowInv
<1> QED BY <1>2, <1>3 DEF Next, Tick, RedisRestarts, vars

(* Requests admitted from one window have different counts of 1..limitRPS,  *)
(* so there are no more than limitRPS of them.                              *)
LEMMA WindowInvLimits == WindowInv => SlidingWindow
<1> SUFFICES ASSUME WindowInv, NEW k \in Requests
             PROVE  Cardinality(AdmittedFrom(k)) <= limitRPS
  BY DEF SlidingWindow
<1> DEFINE A == AdmittedFrom(k)
           f == [j \in A |-> requests[j].count]
<1>1. \A j \in Requests : requests[j].at \in Nat /\ requests[j].count \in Nat
  BY RecordType DEF WindowInv
<1>2. A \subseteq Requests
  BY DEF AdmittedFrom
<1>3. IsFiniteSet(A) /\ Cardinality(A) \in Nat
  <2>1. Len(requests) \in Nat
    BY DEF WindowInv, TypeOK
  <2>2. IsFiniteSet(Requests)
    BY <2>1, FS_Interval DEF Requests
  <2> QED BY <1>2, <2>2, FS_Subset, FS_CardinalityType
<1>4. IsFiniteSet(1..limitRPS) /\ Cardinality(1..limitRPS) = limitRPS
  BY LimitAssumption, FS_Interval
<1>5. f \in [A -> 1..limitRPS]
  BY DEF AdmittedFrom, WindowInv, VerdictFits
<1>6. ASSUME NEW i \in A, NEW j \in A, i # j PROVE f[i] # f[j]
  <2>1. i \in Requests /\ j \in Requests /\ k \in Requests
    BY <1>2
  <2>2. SameWindow(i, j) /\ SameWindow(j, i)
    BY <1>1, <2>1, LimitAssumption DEF AdmittedFrom, SameWindow
  <2>3. requests[i].count > 0 /\ requests[j].count > 0
    BY <1>5, <2>1 DEF AdmittedFrom, WindowInv, VerdictFits
  <2>4. i < j \/ j < i
    BY <1>6, <2>1 DEF Requests
  <2>5. requests[i].count # requests[j].count
    BY <1>1, <2>1, <2>2, <2>3, <2>4 DEF WindowInv, CountsGrow
  <2> QED BY <2>5
<1>7. ~(limitRPS < Cardinality(A))
  <2> SUFFICES ASSUME limitRPS < Cardinality(A) PROVE FALSE
    OBVIOUS
  <2>1. \E i, j \in A : i # j /\ f[i] = f[j]
    <3> HIDE DEF A, f
    <3> QED BY <1>3, <1>4, <1>5, FS_PigeonHole
  <2> QED BY <1>6, <2>1
<1> QED BY <1>3, <1>7, LimitAssumption

(* In every window of time at most limitRPS of the requests of a bucket     *)
(* that Redis answered are passed on.                                       *)
THEOREM LimitHoldsInEveryWindow == Spec => []SlidingWindow
<1>1. Init => WindowInv
  BY TypeOKInit
     DEF Init, WindowInv, CounterCovers, CountsGrow, VerdictFits, Requests
<1> QED BY <1>1, WindowInvStep, WindowInvLimits, PTL DEF Spec
-----------------------------------------------------------------------------
(* A rejection is earned in its own bucket.                                *)

Counted(b) ==
    {j \in Requests : requests[j].bucket = b /\ requests[j].count > 0}
CounterEarned == \A b \in Bucket : Live(b) => counter[b] <= Cardinality(Counted(b))
BucketInv == TypeOK /\ CounterEarned /\ RejectedForOwnBucket

LEMMA CountedFinite ==
    ASSUME TypeOK, NEW b
    PROVE  IsFiniteSet(Counted(b)) /\ Cardinality(Counted(b)) \in Nat
<1>1. IsFiniteSet(Requests)
  BY FS_Interval DEF Requests, TypeOK
<1>2. Counted(b) \subseteq Requests
  BY DEF Counted
<1> QED BY <1>1, <1>2, FS_Subset, FS_CardinalityType

LEMMA BucketInvRequest ==
    ASSUME BucketInv, Request
    PROVE  CounterEarned' /\ RejectedForOwnBucket'
<1> DEFINE n == Len(requests) + 1
<1>1. PICK r \in RequestType :
          /\ requests' = Append(requests, r) /\ now' = now
          /\ r.verdict = "rejected" => r.count > limitRPS
          /\ \/ r.count = Count(r.bucket) /\ incrementRateLimit(r.bucket)
             \/ r.count = 0 /\ UNCHANGED <<counter, expires>>
  BY RequestAppends DEF BucketInv
<1>2. /\ n \in Nat /\ Requests' = Requests \cup {n} /\ n \notin Requests
      /\ \A k \in Requests : requests'[k] = requests[k] /\ k < n
      /\ requests'[n] = r /\ 1..(n - 1) = Requests
      /\ \A k \in Requests : 1..(k - 1) \subseteq Requests
  BY <1>1 DEF BucketInv, TypeOK, Requests
<1> HIDE DEF n
<1>3. /\ \A b \in Bucket : counter[b] \in Nat
      /\ r.bucket \in Bucket /\ counter \in [Bucket -> Nat]
      /\ expires \in [Bucket -> Nat] /\ r.count \in Nat
  BY DEF BucketInv, TypeOK, RequestType
<1>4. \A b \in Bucket : /\ IsFiniteSet(Counted(b))
                        /\ Cardinality(Counted(b)) \in Nat
  BY CountedFinite DEF BucketInv
<1>5. ASSUME NEW b \in Bucket, b # r.bucket \/ r.count = 0
      PROVE  Counted(b)' = Counted(b)
  BY <1>2, <1>5 DEF Counted
<1>6. ASSUME r.count = Count(r.bucket)
      PROVE  Cardinality(Counted(r.bucket)') = Cardinality(Counted(r.bucket)) + 1
  <2>1. r.count > 0
    BY <1>3, <1>6 DEF Count
  <2>2. Counted(r.bucket)' = Counted(r.bucket) \cup {n}
    BY <1>2, <2>1 DEF Counted
  <2>3. n \notin Counted(r.bucket)
    BY <1>2 DEF Counted
  <2> QED BY <1>3, <1>4, <2>2, <2>3, FS_AddElement
<1>7. ASSUME r.count = Count(r.bucket)
      PROVE  r.count <= Cardinality(Counted(r.bucket)) + 1
  BY <1>3, <1>4, <1>7 DEF Count, BucketInv, CounterEarned
<1>8. CounterEarned'
  <2> SUFFICES ASSUME NEW b \in Bucket, Live(b)'
               PROVE  counter'[b] <= Cardinality(Counted(b)')
    BY DEF CounterEarned
  <2>1. CASE r.count = Count(r.bucket) /\ incrementRateLimit(r.bucket)
             /\ b = r.bucket
    BY <1>3, <1>6, <1>7, <2>1 DEF incrementRateLimit
  <2>2. CASE incrementRateLimit(r.bucket) /\ b # r.bucket
    <3>1. counter'[b] = counter[b] /\ expires'[b] = expires[b]
      BY <1>3, <2>2 DEF incrementRateLimit
    <3>2. Live(b)
      BY <1>1, <3>1 DEF Live
    <3> QED BY <1>5, <2>2, <3>1, <3>2 DEF BucketInv, CounterEarned
  <2>3. CASE r.count = 0 /\ UNCHANGED <<counter, expires>>
    <3>1. Live(b)
      BY <1>1, <2>3 DEF Live
    <3> QED BY <1>5, <2>3, <3>1 DEF BucketInv, CounterEarned
  <2> QED BY <1>1, <2>1, <2>2, <2>3
<1>9. ASSUME NEW k \in Requests', requests'[k].verdict = "rejected"
      PROVE  Cardinality(CountedBefore(k)') >= limitRPS
  <2>1. CASE k \in Requests
    <3>1. \A j \in 1..(k - 1) : requests'[j] = requests[j]
      BY <1>2, <2>1
    <3>2. CountedBefore(k)' = CountedBefore(k)
      BY <1>2, <2>1, <3>1 DEF CountedBefore
    <3>3. requests[k].verdict = "rejected"
      BY <1>2, <1>9, <2>1
    <3> QED BY <2>1, <3>2, <3>3 DEF BucketInv, RejectedForOwnBucket
  <2>2. CASE k = n
    <3>1. CountedBefore(k)' = Counted(r.bucket)
      BY <1>2, <2>2 DEF CountedBefore, Counted
    <3>2. r.count > limitRPS
      BY <1>1, <1>2, <1>9, <2>2
    <3>3. r.count = Count(r.bucket)
      BY <1>1, <3>2, LimitAssumption
    <3>4. r.count <= Cardinality(Counted(r.bucket)) + 1
      BY <1>7, <3>3
    <3> QED BY <1>3, <1>4, <3>1, <3>2, <3>4, LimitAssumption
  <2> QED BY <1>2, <2>1, <2>2
<1> QED BY <1>8, <1>9 DEF RejectedForOwnBucket

LEMMA BucketInvStep == BucketInv /\ [Next]_vars => BucketInv'
<1> SUFFICES ASSUME BucketInv, [Next]_vars PROVE BucketInv'
  OBVIOUS
<1>1. TypeOK'
  BY TypeOKStep DEF BucketInv
<1>2. CASE Request
  BY <1>1, <1>2, BucketInvRequest DEF BucketInv
<1>3. CASE UNCHANGED <<requests, counter>> /\ \A b \in Bucket : Live(b)' => Live(b)
  BY <1>1, <1>3 DEF BucketInv, CounterEarned, Counted, RejectedForOwnBucket,
     CountedBefore, Requests
<1>4. CASE Tick
  <2>1. \A b \in Bucket : Live(b)' => Live(b)
    BY <1>4, ClockType DEF Tick, Live, BucketInv, TypeOK
  <2> QED BY <1>3, <1>4, <2>1 DEF Tick
<1>5. CASE RedisRestarts
  <2>1. \A b \in Bucket : Live(b)' => Live(b)
    BY <1>5, ClockType DEF RedisRestarts, Live, BucketInv
  <2> QED BY <1>3, <1>5, <2>1 DEF RedisRestarts
<1>6. CASE UNCHANGED vars
  BY <1>3, <1>6 DEF vars, Live
<1> QED BY <1>2, <1>4, <1>5, <1>6 DEF Next

(* A request is only rejected when limitRPS requests to its own bucket were *)
(* counted before it: no bucket's traffic uses up another's limit.          *)
THEOREM BucketsAreIsolated == Spec => []RejectedForOwnBucket
<1>1. Init => BucketInv
  BY TypeOKInit
     DEF Init, BucketInv, CounterEarned, Live, RejectedForOwnBucket, Requests
<1>2. BucketInv => RejectedForOwnBucket
  BY DEF BucketInv
<1> QED BY <1>1, <1>2, BucketInvStep, PTL DEF Spec
=============================================================================
