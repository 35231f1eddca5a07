------------------------------ MODULE Delivery ------------------------------
(***************************************************************************)
(* What src/server/worker promises, without its goroutines, retries,       *)
(* offsets, caches and processes: messages wait in the order they arrived  *)
(* and are taken in that order; a taken one is stored in Cassandra, parked *)
(* in the dead letter topic, or lost, and a lost one may be taken again.   *)
(* What is stored stays stored, and riders are only served from it.        *)
(***************************************************************************)
EXTENDS Integers, Sequences

CONSTANTS
    Event,          \* what Cassandra tells apart
    MaxMessages     \* bound

VARIABLES
    events,         \* the messages that arrived: the event of each
    fate,           \* what became of each message
    served          \* messages that riders are served from

Message == 1..MaxMessages

Init ==
    /\ events = <<>>
    /\ fate = [m \in Message |-> "none"]
    /\ served = {}

(* A message arrives, perhaps as a copy of one that is stored.              *)
Arrive(e) ==
    /\ Len(events) < MaxMessages
    /\ events' = Append(events, e)
    /\ LET stored == \E n \in 1..Len(events) : events[n] = e /\ fate[n] = "stored"
       IN fate' = [fate EXCEPT ![Len(events) + 1] = IF stored THEN "stored" ELSE "waiting"]
    /\ UNCHANGED served

Take(m) ==
    /\ fate[m] \in {"waiting", "lost"}
    /\ \A n \in 1..(m - 1) : fate[n] # "waiting"
    /\ fate' = [fate EXCEPT ![m] = "working"]
    /\ UNCHANGED <<events, served>>

(* All copies of an event are one row.  A parked message may be taken again *)
(* too.                                                                     *)
Store(m) ==
    /\ fate[m] \in {"working", "parked"}
    /\ fate' = [n \in Message |->
                   IF n <= Len(events) /\ events[n] = events[m] THEN "stored" ELSE fate[n]]
    /\ UNCHANGED <<events, served>>

Park(m) ==
    /\ fate[m] = "working"
    /\ fate' = [fate EXCEPT ![m] = "parked"]
    /\ UNCHANGED <<events, served>>

(* The dead letter could not be written.                                    *)
GiveUp(m) ==
    /\ fate[m] = "working"
    /\ fate' = [fate EXCEPT ![m] = "lost"]
    /\ UNCHANGED <<events, served>>

(* The process ends under its goroutines.                                   *)
Abandon ==
    /\ fate' = [m \in Message |-> IF fate[m] = "working" THEN "lost" ELSE fate[m]]
    /\ UNCHANGED <<events, served>>

(* The caches hold any of what is stored.                                   *)
Serve ==
    /\ served' \in SUBSET {m \in Message : fate[m] = "stored"}
    /\ UNCHANGED <<events, fate>>

Next ==
    \/ \E e \in Event : Arrive(e)
    \/ \E m \in Message : Take(m) \/ Store(m) \/ Park(m) \/ GiveUp(m)
    \/ Abandon \/ Serve

Spec == Init /\ [][Next]_<<events, fate, served>>
=============================================================================
