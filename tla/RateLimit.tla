----------------------------- MODULE RateLimit -----------------------------
(***************************************************************************)
(* RateLimitMiddleware of src/server/api/ratelimit.go: one counter per     *)
(* bucket in Redis, incremented and given a TTL in one transaction by      *)
(* whichever API replica serves the request.  Time is Redis's clock, in    *)
(* ticks; rateLimitWindow is Window ticks long.                            *)
(*                                                                         *)
(* The decision only reads the reply of that transaction, so a request is  *)
(* one action, at the moment Redis executes it.                            *)
(***************************************************************************)
EXTENDS Integers, Sequences, FiniteSets

CONSTANTS
    Driver,         \* driver ids
    Naming,         \* the ways clients name their driver to the limiter
    limitRPS,       \* RATE_LIMIT_RPS
    Window,         \* rateLimitWindow
    MaxTime,        \* bound: the clock
    MaxRequests,    \* bound: the requests
    MaxRestarts     \* bound: restarts of Redis

ASSUME LimitAssumption ==
    /\ limitRPS \in Nat \ {0}
    /\ Window \in Nat \ {0}
    /\ MaxTime \in Nat
    /\ MaxRequests \in Nat
    /\ MaxRestarts \in Nat
    /\ Naming \subseteq {"header", "query", "blank", "none"}

VARIABLES
    now,        \* Redis's clock
    counter,    \* driver:ratelimit:<bucket>
    expires,    \* when that key expires; it does not exist from then on
    life,       \* how often Redis was restarted, which empties it
    requests    \* history: every request, in the order Redis saw them

vars == <<now, counter, expires, life, requests>>

(* The X-Driver-ID header, or else ?driver_id=, or else "unknown"; a header *)
(* of spaces is trimmed after that, to the empty name.                      *)
Bucket == Driver \cup {"", "unknown"}
BucketOf(d, naming) ==
    CASE naming \in {"header", "query"} -> d
      [] naming = "blank" -> ""
      [] naming = "none" -> "unknown"

Live(b) == now < expires[b]

Init ==
    /\ now = 0
    /\ counter = [b \in Bucket |-> 0]
    /\ expires = [b \in Bucket |-> 0]
    /\ life = 0
    /\ requests = <<>>

(* The transaction: INCR of a key that may not exist, and EXPIRE.           *)
Count(b) == IF Live(b) THEN counter[b] + 1 ELSE 1

incrementRateLimitFirstOnly(b) ==       \* EXPIRE only when INCR returned 1
    /\ counter' = [counter EXCEPT ![b] = Count(b)]
    /\ expires' = IF Live(b) THEN expires ELSE [expires EXCEPT ![b] = now + Window]

incrementRateLimitExtends(b) ==         \* the TTL is added to what is left
    /\ counter' = [counter EXCEPT ![b] = Count(b)]
    /\ expires' = [expires EXCEPT ![b] = IF Live(b) THEN @ + Window ELSE now + Window]

incrementRateLimit(b) ==
    /\ counter' = [counter EXCEPT ![b] = Count(b)]
    /\ expires' = [expires EXCEPT ![b] = now + Window]

VerdictOffByOne(count) == IF count >= limitRPS THEN "rejected" ELSE "next"
Verdict(count) == IF count > limitRPS THEN "rejected" ELSE "next"

Record(d, b, count, verdict) ==
    requests' = Append(requests, [driver |-> d, bucket |-> b, at |-> now,
                                  life |-> life, count |-> count,
                                  verdict |-> verdict])

(* A request by driver d whose transaction is answered.                     *)
Answered(d, b) ==
    /\ incrementRateLimit(b)
    /\ Record(d, b, Count(b), Verdict(Count(b)))

(* Redis fails and the request is let through ("fail open"); the            *)
(* transaction may have been executed before the error.  A count of 0 marks *)
(* one that was not.                                                        *)
FailsOpen(d, b) ==
    \/ incrementRateLimit(b) /\ Record(d, b, Count(b), "open")
    \/ UNCHANGED <<counter, expires>> /\ Record(d, b, 0, "open")

Request ==
    /\ Len(requests) < MaxRequests
    /\ \E d \in Driver, naming \in Naming :
           LET b == BucketOf(d, naming) IN Answered(d, b) \/ FailsOpen(d, b)
    /\ UNCHANGED <<now, life>>

Tick ==
    /\ now < MaxTime
    /\ now' = now + 1
    /\ UNCHANGED <<counter, expires, life, requests>>

RedisRestarts ==
    /\ life < MaxRestarts
    /\ life' = life + 1
    /\ expires' = [b \in Bucket |-> now]
    /\ UNCHANGED <<now, counter, requests>>

Next == Request \/ Tick \/ RedisRestarts

Spec == Init /\ [][Next]_vars

-----------------------------------------------------------------------------
(* What the limiter is checked for.                                        *)

Requests == 1..Len(requests)

RequestType == [driver : Driver, bucket : Bucket, at : Nat, life : Nat,
                count : Nat, verdict : {"next", "rejected", "open"}]

(* The shape of the state; no request lies in the future of the clock, and  *)
(* no key has more than one window left to live.                            *)
TypeOK ==
    /\ now \in 0..MaxTime /\ life \in 0..MaxRestarts
    /\ counter \in [Bucket -> Nat] /\ expires \in [Bucket -> Nat]
    /\ requests \in Seq(RequestType) /\ Len(requests) <= MaxRequests
    /\ \A k \in Requests : requests[k].at <= now
    /\ \A b \in Bucket : expires[b] <= now + Window

(* Requests j and k reached the same counter within one window.             *)
SameWindow(j, k) ==
    /\ requests[j].bucket = requests[k].bucket
    /\ requests[j].life = requests[k].life
    /\ requests[j].at - requests[k].at \in (1 - Window)..(Window - 1)

(* The limit holds in every window of time, wherever it starts (the         *)
(* "sliding window" of ratelimit.go:14-18): of the requests of one bucket   *)
(* that fall in a window and that Redis answered, at most limitRPS are      *)
(* passed on, as long as Redis keeps its counters.                          *)
AdmittedFrom(k) ==
    {j \in Requests : /\ requests[j].verdict = "next" /\ SameWindow(j, k)
                      /\ requests[j].at >= requests[k].at}
SlidingWindow == \A k \in Requests : Cardinality(AdmittedFrom(k)) <= limitRPS

(* A rejection is earned in its own bucket: limitRPS requests that named    *)
(* the same bucket were counted before it.                                  *)
CountedBefore(k) ==
    {j \in 1..(k - 1) : requests[j].bucket = requests[k].bucket /\ requests[j].count > 0}
RejectedForOwnBucket ==
    \A k \in Requests : requests[k].verdict = "rejected" =>
                            Cardinality(CountedBefore(k)) >= limitRPS

-----------------------------------------------------------------------------
(* What the repository says of the limiter, and the code does not do.      *)

(* ratelimit.go:71-72 "sets TTL on first call ... (window resets after      *)
(* TTL)" and INTERVIEW.md:201-204: then a request that finds fewer than     *)
(* limitRPS others of its bucket in the window before it is passed on.  As  *)
(* every call extends the TTL, a steady client below the limit is counted   *)
(* up to it and locked out.                                                 *)
WindowBefore(k) ==
    {j \in 1..(k - 1) : SameWindow(j, k) /\ requests[j].count > 0}
ConformingPasses ==
    \A k \in Requests : requests[k].verdict = "rejected" =>
                            Cardinality(WindowBefore(k)) >= limitRPS
=============================================================================
