---------------------------- MODULE NearbyProofs ----------------------------
(* Proofs about Nearby, for every finite set of drivers, TTL and number of  *)
(* writes and restarts.                                                     *)
EXTENDS Nearby, FiniteSetTheorems, SequenceTheorems, TLAPS

Write == [driver : Driver, place : Place]

IndexOK ==
    /\ now \in Nat /\ now <= MaxTime /\ expires \in [Driver -> Nat]
    /\ geo \in [Driver -> Place \cup {Nowhere}]
    /\ pending \in Seq(Write) /\ writes \in 0..MaxWrites /\ restarts \in 0..MaxRestarts
    /\ seen \in [Driver -> Nat]
    /\ \A d \in Driver : seen[d] <= now /\ expires[d] <= seen[d] + driverTTL

(* The candidates are asked about one by one.                               *)
RequestOK ==
    /\ stage \in {"idle", "exists", "answered"} /\ res \in Seq(Driver)
    /\ asked \in 0..Len(res) /\ active \subseteq Driver
    /\ started \in Nat /\ started <= now /\ steady \subseteq Driver
    /\ stage = "exists" => asked < Len(res)
    /\ stage = "answered" => asked = Len(res)

(* A driver that is near and alive all along is a candidate, and is taken   *)
(* when it is asked about.                                                  *)
SteadyInv ==
    /\ stage = "idle" => steady = {} /\ active = {}
    /\ \A d \in steady : \E k \in 1..Len(res) : res[k] = d
    /\ \A k \in 1..asked : res[k] \in steady => res[k] \in active

NearbyInv == IndexOK /\ RequestOK /\ SteadyInv /\ NoStaleDriver

-----------------------------------------------------------------------------
(* SetToSeq lists every element of a finite set, and no other.              *)
LEMMA Listed ==
    ASSUME NEW S, IsFiniteSet(S)
    PROVE  /\ SetToSeq(S) \in Seq(S)
           /\ \A x \in S : \E k \in 1..Len(SetToSeq(S)) : SetToSeq(S)[k] = x
<1> DEFINE n == Cardinality(S)
<1>1. n \in Nat /\ ExistsBijection(1..n, S)
  BY FS_CardinalityType
<1>2. PICK f \in Bijection(1..n, S) : TRUE
  BY <1>1 DEF ExistsBijection
<1>3. f \in [1..n -> S] /\ IsInjective(f)
  BY <1>2 DEF Bijection, Injection
<1>4. SetToSeq(S) \in [1..n -> S] /\ IsInjective(SetToSeq(S))
  BY <1>3 DEF SetToSeq
<1>5. IsFiniteSet(1..n) /\ Cardinality(1..n) = n
  BY <1>1, FS_Interval
<1>6. SetToSeq(S) \in Surjection(1..n, S)
  BY <1>1, <1>4, <1>5, FS_Injection DEF Injection
<1>7. SetToSeq(S) \in Seq(S) /\ Len(SetToSeq(S)) = n
  BY <1>1, <1>4
<1> QED BY <1>6, <1>7 DEF Surjection

LEMMA Removed ==
    ASSUME NEW S, NEW s \in Seq(S), NEW k \in 1..Len(s)
    PROVE  RemoveAt(s, k) \in Seq(S)
<1>1. SubSeq(s, 1, k - 1) \in Seq(S) /\ SubSeq(s, k + 1, Len(s)) \in Seq(S)
  BY SubSeqProperties
<1> QED BY <1>1, ConcatProperties DEF RemoveAt

-----------------------------------------------------------------------------
LEMMA NearbyInvInit == Init => NearbyInv
BY NearbyAssumption
   DEF Init, NearbyInv, IndexOK, RequestOK, SteadyInv, NoStaleDriver

LEMMA IndexStep ==
    ASSUME IndexOK, Next
    PROVE  IndexOK' /\ now <= now' /\ (\A d \in Driver : seen[d] <= seen'[d])
<1> USE NearbyAssumption DEF IndexOK
<1>1. ASSUME NEW d \in Driver, NEW p \in Place, Set(d, p)
      PROVE  IndexOK' /\ now <= now' /\ (\A e \in Driver : seen[e] <= seen'[e])
  <2>1. pending' \in Seq(Write)
    BY <1>1 DEF Set, Write
  <2> QED BY <1>1, <2>1 DEF Set
<1>2. ASSUME NEW k \in 1..Len(pending), GeoAdd(k)
      PROVE  IndexOK' /\ now <= now' /\ (\A e \in Driver : seen[e] <= seen'[e])
  <2>1. pending' \in Seq(Write)
    BY <1>2, Removed DEF GeoAdd
  <2>2. pending[k] \in Write
    BY <1>2
  <2>3. geo' \in [Driver -> Place \cup {Nowhere}]
    BY <1>2, <2>2 DEF GeoAdd, Write
  <2> QED BY <1>2, <2>1, <2>3 DEF GeoAdd
<1>3. CASE GetNearbyDrivers
  BY <1>3 DEF GetNearbyDrivers, GeoRadius, Exists, Fails, Answer, Forget, redis, worker
<1>4. CASE Tick
  BY <1>4 DEF Tick, worker
<1>5. CASE RedisRestarts
  BY <1>5 DEF RedisRestarts, worker
<1> QED BY <1>1, <1>2, <1>3, <1>4, <1>5 DEF Next

LEMMA RequestStep ==
    ASSUME IndexOK, RequestOK, Next
    PROVE  RequestOK'
<1> USE DEF RequestOK
<1>1. steady' \subseteq Driver /\ now <= now' /\ now \in Nat /\ now' \in Nat
  BY IndexStep DEF Next, IndexOK
<1>2. CASE UNCHANGED request
  BY <1>1, <1>2 DEF request
<1>3. CASE GeoRadius
  <2> DEFINE S == {d \in Driver : geo[d] \in Near}
  <2>1. IsFiniteSet(S)
    BY NearbyAssumption, FS_Subset
  <2>2. res' \in Seq(S)
    BY <1>3, <2>1, Listed DEF GeoRadius
  <2>3. res' \in Seq(Driver) /\ Len(res') \in Nat /\ (res' # <<>> => Len(res') > 0)
        /\ (res' = <<>> => Len(res') = 0)
    BY <2>2
  <2> QED BY <1>1, <1>3, <2>3 DEF GeoRadius, redis, IndexOK
<1>4. CASE Exists
  BY <1>1, <1>4 DEF Exists
<1>5. CASE Fails \/ Answer
  <2>1. stage' = "idle" /\ res' = <<>> /\ asked' = 0 /\ active' = {} /\ started' = 0
    BY <1>5 DEF Fails, Answer, Forget
  <2>2. res' \in Seq(Driver) /\ Len(res') = 0
    BY <2>1
  <2> QED BY <1>1, <2>1, <2>2
<1> QED
  BY <1>2, <1>3, <1>4, <1>5
     DEF Next, Set, GeoAdd, GetNearbyDrivers, Tick, RedisRestarts

LEMMA SteadyStep ==
    ASSUME NearbyInv, Next
    PROVE  SteadyInv'
<1> USE DEF SteadyInv
<1>1. /\ IndexOK /\ RequestOK /\ SteadyInv
      /\ steady' = {d \in IF stage = "idle" THEN Driver ELSE steady :
                        stage' # "idle" /\ geo'[d] \in Near /\ now' < expires'[d]}
  BY DEF NearbyInv, Next
<1>2. CASE UNCHANGED request
  BY <1>1, <1>2 DEF request
<1>3. CASE GeoRadius
  <2> DEFINE S == {d \in Driver : geo[d] \in Near}
  <2>1. \A x \in S : \E k \in 1..Len(res') : res'[k] = x
    <3>1. IsFiniteSet(S)
      BY NearbyAssumption, FS_Subset
    <3> QED BY <1>3, <3>1, Listed DEF GeoRadius
  <2>2. steady' \subseteq S
    BY <1>1, <1>3 DEF GeoRadius, redis
  <2> QED BY <1>3, <2>1, <2>2 DEF GeoRadius
<1>4. CASE Exists
  <2>1. /\ stage = "exists" /\ res' = res /\ asked' = asked + 1 /\ asked \in Nat
        /\ steady' \subseteq steady /\ stage' # "idle" /\ active \subseteq active'
    BY <1>1, <1>4 DEF Exists, RequestOK
  <2>2. res[asked + 1] \in steady' => res[asked + 1] \in active'
    BY <1>1, <1>4 DEF Exists, Live, redis
  <2>3. \A k \in 1..asked' : k \in 1..asked \/ k = asked + 1
    BY <2>1
  <2> QED BY <1>1, <2>1, <2>2, <2>3
<1>5. CASE Fails \/ Answer
  BY <1>1, <1>5 DEF Fails, Answer, Forget
<1> QED
  BY <1>2, <1>3, <1>4, <1>5
     DEF Next, Set, GeoAdd, GetNearbyDrivers, Tick, RedisRestarts

LEMMA FreshStep ==
    ASSUME NearbyInv, Next
    PROVE  NoStaleDriver'
<1> USE DEF NoStaleDriver
<1>1. /\ IndexOK /\ RequestOK /\ IndexOK' /\ RequestOK' /\ driverTTL \in Nat
      /\ \A d \in Driver : seen[d] <= seen'[d] /\ seen[d] \in Nat /\ seen'[d] \in Nat
      /\ started \in Nat /\ started' \in Nat
  BY NearbyAssumption, IndexStep, RequestStep DEF NearbyInv, IndexOK, RequestOK
<1>2. CASE active' = {}
  BY <1>2
<1>3. CASE active' = active /\ started' = started
  BY <1>1, <1>3 DEF NearbyInv, RequestOK
<1>4. CASE Exists
  <2>1. /\ started' = started /\ UNCHANGED <<now, expires, seen>>
        /\ \A d \in active' : d \in active \/ (d \in Driver /\ now < expires[d])
    BY <1>1, <1>4 DEF Exists, Live, redis, worker, RequestOK
  <2>2. \A d \in Driver : now < expires[d] => started < seen[d] + driverTTL
    <3>1. /\ now \in Nat /\ started \in Nat /\ started <= now
          /\ \A d \in Driver : /\ expires[d] \in Nat /\ seen[d] \in Nat
                               /\ expires[d] <= seen[d] + driverTTL
      BY <1>1 DEF IndexOK, RequestOK
    <3> QED BY <1>1, <3>1
  <2> QED BY <2>1, <2>2 DEF NearbyInv
<1> QED
  BY <1>2, <1>3, <1>4
     DEF Next, Set, GeoAdd, GetNearbyDrivers, GeoRadius, Fails, Answer, Forget, Tick,
         RedisRestarts, request

LEMMA NearbyInvStep == NearbyInv /\ [Next]_vars => NearbyInv'
<1>1. NearbyInv /\ Next => NearbyInv'
  BY IndexStep, RequestStep, SteadyStep, FreshStep DEF NearbyInv
<1>2. NearbyInv /\ UNCHANGED vars => NearbyInv'
  BY DEF vars, redis, worker, request, NearbyInv, IndexOK, RequestOK, SteadyInv, NoStaleDriver
<1> QED BY <1>1, <1>2

-----------------------------------------------------------------------------
(* The theorems.                                                           *)

(* The state keeps its shape; no latest key outlives its last SET by more   *)
(* than the TTL.                                                            *)
THEOREM IndexTypeCorrect == Spec => []TypeOK
<1>1. NearbyInv => TypeOK
  BY NearbyAssumption DEF NearbyInv, IndexOK, RequestOK, TypeOK, Write
<1> QED BY <1>1, NearbyInvInit, NearbyInvStep, PTL DEF Spec

(* Nobody is returned whose last event is older than the TTL was when the   *)
(* request began.                                                           *)
THEOREM AnswerIsFresh == Spec => []NoStaleDriver
<1>1. NearbyInv => NoStaleDriver
  BY DEF NearbyInv
<1> QED BY <1>1, NearbyInvInit, NearbyInvStep, PTL DEF Spec

(* Nobody is left out who is near and alive throughout.                     *)
THEOREM AnswerIsComplete == Spec => []NoneMissed
<1>1. NearbyInv => NoneMissed
  BY DEF NearbyInv, RequestOK, SteadyInv, NoneMissed
<1> QED BY <1>1, NearbyInvInit, NearbyInvStep, PTL DEF Spec
=============================================================================
