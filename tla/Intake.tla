------------------------------- MODULE Intake -------------------------------
(***************************************************************************)
(* What src/server/api promises the clients of POST /location and          *)
(* /location/batch, without its handlers, queues, partitions, retries and  *)
(* processes: requests are accepted one after the other; the valid points  *)
(* of an accepted one wait, and are then published or lost, those of one   *)
(* driver in the order in which they were accepted.  What was published    *)
(* stays so, and clients are told 202 only of what was accepted.           *)
(***************************************************************************)
EXTENDS Integers, Sequences

CONSTANTS
    Requests        \* what clients have to send

VARIABLES
    accepted,       \* the requests accepted so far, in order
    waiting,        \* points <<i, k>>: point k of the i-th request accepted
    published,
    lost,
    told            \* requests whose client was told 202

Points(r) == {k \in 1..Len(r.points) : r.points[k].valid}
DriverOf(m) == accepted[m[1]].points[m[2]].driver
Earlier(m, n) == m[1] < n[1] \/ (m[1] = n[1] /\ m[2] < n[2])

Init ==
    /\ accepted = <<>> /\ told = {}
    /\ waiting = {} /\ published = {} /\ lost = {}

Accept(r) ==
    /\ accepted' = Append(accepted, r)
    /\ waiting' = waiting \cup {<<Len(accepted) + 1, k>> : k \in Points(r)}
    /\ UNCHANGED <<published, lost, told>>

Tell(r) ==
    /\ \E i \in 1..Len(accepted) : accepted[i] = r
    /\ told' = told \cup {r}
    /\ UNCHANGED <<accepted, waiting, published, lost>>

(* No point is passed over by a later one of its driver.                    *)
Front(b) ==
    \A n \in b, m \in waiting \ b : DriverOf(m) = DriverOf(n) => Earlier(n, m)

Publish(b) ==
    /\ Front(b)
    /\ waiting' = waiting \ b /\ published' = published \cup b
    /\ UNCHANGED <<accepted, lost, told>>

Lose(b) ==
    /\ Front(b)
    /\ waiting' = waiting \ b /\ lost' = lost \cup b
    /\ UNCHANGED <<accepted, published, told>>

Next ==
    \/ \E r \in Requests : Accept(r) \/ Tell(r)
    \/ \E b \in SUBSET waiting : Publish(b) \/ Lose(b)

Spec == Init /\ [][Next]_<<accepted, waiting, published, lost, told>>
=============================================================================
