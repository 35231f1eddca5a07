------------------------------- MODULE Nearby -------------------------------
(***************************************************************************)
(* GET /drivers/nearby (GetNearbyDrivers of src/server/db/redis.go) while  *)
(* the worker writes: the GEO index says who is near, and keeps a driver   *)
(* for ever; the latest-location key says who is still there, and expires. *)
(* A request reads the one, then, key by key, the other.                   *)
(*                                                                         *)
(* Requests only read, so one at a time is all there is to see.  Time is   *)
(* Redis's clock, in ticks.                                                *)
(***************************************************************************)
EXTENDS Integers, Sequences, SequencesExt

CONSTANTS
    Driver,         \* driver ids
    Place,          \* positions
    Near,           \* those within the radius of the request
    Nowhere,        \* not in the index
    driverTTL,      \* TTL of driver:latest:<driver>
    MaxTime,        \* bound: the clock
    MaxWrites,      \* bound: events the worker writes
    MaxRestarts     \* bound: restarts of Redis

ASSUME NearbyAssumption ==
    /\ IsFiniteSet(Driver) /\ Near \subseteq Place /\ Nowhere \notin Place
    /\ driverTTL \in Nat \ {0}
    /\ MaxTime \in Nat /\ MaxWrites \in Nat /\ MaxRestarts \in Nat

VARIABLES
    now,
    expires,        \* when driver:latest:<driver> expires
    geo,            \* drivers:geo
    pending,        \* goroutines of the worker between SET and GEOADD
    writes, restarts,
    stage,          \* of the request: "idle", "exists", "answered"
    res,            \* what GEORADIUS returned
    asked,          \* how many of the EXISTS were executed
    active,         \* the answer
    started,        \* history: when the request's GEORADIUS was executed
    seen,           \* history: when the last SET of each driver was executed
    steady          \* history: near and alive ever since GEORADIUS

redis == <<now, expires, geo>>
worker == <<pending, writes, seen>>
request == <<stage, res, asked, active, started>>
vars == <<redis, worker, restarts, request, steady>>

Live(d) == now < expires[d]

Init ==
    /\ now = 0 /\ expires = [d \in Driver |-> 0] /\ geo = [d \in Driver |-> Nowhere]
    /\ pending = <<>> /\ writes = 0 /\ restarts = 0
    /\ stage = "idle" /\ res = <<>> /\ asked = 0 /\ active = {} /\ started = 0
    /\ seen = [d \in Driver |-> 0] /\ steady = {}

-----------------------------------------------------------------------------
(* SetLatestLocation, by any number of goroutines.                         *)

SetExtends(d, p) ==                     \* the TTL is added to what is left
    /\ writes < MaxWrites /\ writes' = writes + 1
    /\ expires' = [expires EXCEPT ![d] = IF Live(d) THEN @ + driverTTL ELSE now + driverTTL]
    /\ seen' = [seen EXCEPT ![d] = now]
    /\ pending' = Append(pending, [driver |-> d, place |-> p])
    /\ UNCHANGED <<now, geo, restarts, request>>

Set(d, p) ==
    /\ writes < MaxWrites /\ writes' = writes + 1
    /\ expires' = [expires EXCEPT ![d] = now + driverTTL]
    /\ seen' = [seen EXCEPT ![d] = now]
    /\ pending' = Append(pending, [driver |-> d, place |-> p])
    /\ UNCHANGED <<now, geo, restarts, request>>

(* In any order; it may fail, executed or not.                              *)
GeoAdd(k) ==
    /\ geo' \in {geo, [geo EXCEPT ![pending[k].driver] = pending[k].place]}
    /\ pending' = RemoveAt(pending, k)
    /\ UNCHANGED <<now, expires, writes, seen, restarts, request>>

-----------------------------------------------------------------------------
(* GetNearbyDrivers.                                                       *)

(* GEORADIUS; without candidates there is nothing to ask.                   *)
GeoRadius ==
    /\ stage = "idle"
    /\ res' = SetToSeq({d \in Driver : geo[d] \in Near})
    /\ stage' = IF res' = <<>> THEN "answered" ELSE "exists"
    /\ asked' = 0 /\ active' = {} /\ started' = now
    /\ UNCHANGED <<redis, worker, restarts>>

ExistsUnchecked ==                      \* every candidate is returned
    /\ stage = "exists"
    /\ asked' = asked + 1
    /\ active' = active \cup {res[asked + 1]}
    /\ stage' = IF asked' = Len(res) THEN "answered" ELSE "exists"
    /\ UNCHANGED <<redis, worker, restarts, res, started>>

ExistsShifted ==                        \* a reply is taken for the next candidate's
    /\ stage = "exists"
    /\ asked' = asked + 1
    /\ active' = IF Live(res[asked + 1]) /\ asked + 1 < Len(res)
                 THEN active \cup {res[asked + 2]} ELSE active
    /\ stage' = IF asked' = Len(res) THEN "answered" ELSE "exists"
    /\ UNCHANGED <<redis, worker, restarts, res, started>>

(* One EXISTS of the pipeline, which is no transaction.                     *)
Exists ==
    /\ stage = "exists"
    /\ asked' = asked + 1
    /\ active' = IF Live(res[asked + 1]) THEN active \cup {res[asked + 1]} ELSE active
    /\ stage' = IF asked' = Len(res) THEN "answered" ELSE "exists"
    /\ UNCHANGED <<redis, worker, restarts, res, started>>

Forget ==
    /\ stage' = "idle" /\ res' = <<>> /\ asked' = 0 /\ active' = {} /\ started' = 0
    /\ UNCHANGED <<redis, worker, restarts>>

Fails == stage = "exists" /\ Forget     \* 500
Answer == stage = "answered" /\ Forget  \* 200

GetNearbyDrivers == GeoRadius \/ Exists \/ Fails \/ Answer

-----------------------------------------------------------------------------
Tick ==
    /\ now < MaxTime /\ now' = now + 1
    /\ UNCHANGED <<expires, geo, worker, restarts, request>>

(* Redis comes back empty.                                                  *)
RedisRestarts ==
    /\ restarts < MaxRestarts /\ restarts' = restarts + 1
    /\ expires' = [d \in Driver |-> 0] /\ geo' = [d \in Driver |-> Nowhere]
    /\ UNCHANGED <<now, worker, request>>

Next ==
    /\ \/ \E d \in Driver, p \in Place : Set(d, p)
       \/ \E k \in 1..Len(pending) : GeoAdd(k)
       \/ GetNearbyDrivers \/ Tick \/ RedisRestarts
    /\ steady' = {d \in IF stage = "idle" THEN Driver ELSE steady :
                     stage' # "idle" /\ geo'[d] \in Near /\ now' < expires'[d]}

Spec == Init /\ [][Next]_vars

-----------------------------------------------------------------------------
(* What the request is checked for.                                        *)

(* The shape of the state; no driver outlives its last event by more than   *)
(* the TTL.                                                                 *)
TypeOK ==
    /\ now \in 0..MaxTime /\ expires \in [Driver -> Nat]
    /\ geo \in [Driver -> Place \cup {Nowhere}]
    /\ pending \in Seq([driver : Driver, place : Place])
    /\ writes \in 0..MaxWrites /\ restarts \in 0..MaxRestarts
    /\ stage \in {"idle", "exists", "answered"} /\ res \in Seq(Driver)
    /\ asked \in 0..Len(res) /\ active \subseteq Driver /\ started \in Nat
    /\ seen \in [Driver -> Nat] /\ steady \subseteq Driver
    /\ \A d \in Driver : expires[d] <= seen[d] + driverTTL

(* redis.go:66-69, "filters out stale drivers": of whoever is in the answer *)
(* an event was stored less than a TTL before the request, although the     *)
(* index never forgets a driver and the two reads are apart.                *)
NoStaleDriver == \A d \in active : started < seen[d] + driverTTL

(* The converse: a driver that is near and alive all through the request is *)
(* not left out, whatever comes and goes around it.                         *)
NoneMissed == stage = "answered" => steady \subseteq active
=============================================================================
