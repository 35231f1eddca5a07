----------------------------- MODULE LiveStream -----------------------------
(***************************************************************************)
(* The WebSocket push path of one driver: the driver's Redis stream, which *)
(* the worker appends to and trims, and the handlers of src/server/api/    *)
(* ws.go that replay it to a rider, one handler per connection.            *)
(*                                                                         *)
(* An event is named by its place in the order of XADDs, which is the      *)
(* order of stream ids; the stream retains the events first..last.         *)
(***************************************************************************)
EXTENDS Integers, Sequences, SequencesExt

CONSTANTS
    Conn,           \* connections the rider opens, one after the other
    None,           \* no ?since=
    Malformed,      \* a ?since= that is no stream id
    Dollar,         \* the XREAD id "$": behind whatever is there already
    ReadCount,      \* COUNT of XREAD
    StreamMaxLen,   \* MAXLEN of XADD (approximate)
    MaxEvents,      \* bound: events of the driver
    MaxFaults       \* bound: errors of Redis, restarts of Redis and the API

ASSUME StreamAssumption ==
    /\ ReadCount \in Nat \ {0}
    /\ StreamMaxLen \in Nat \ {0}
    /\ MaxEvents \in Nat
    /\ MaxFaults \in Nat
    /\ {None, Malformed, Dollar} \cap Nat = {}
    /\ None # Malformed /\ Malformed # Dollar

VARIABLES
    first, last,    \* what the stream retains
    faults,
    pc,             \* where the handler of a connection is
    up,             \* the rider's end of the connection is open
    stalled,        \* connections whose rider does not read what arrives
    cancelled,      \* the handler's context
    lastID,         \* what the handler passes to XREAD
    after,          \* what XREAD waits behind: lastID with "$" resolved
    batch,          \* events XREAD returned that are not written yet
    got,            \* history: events written to a rider that is there, in order
    since,          \* history: the ?since= of the connection
    from            \* history: the event behind which the delivery starts

stream == <<first, last>>
rider == <<up, stalled, since, got>>
vars == <<stream, faults, rider, pc, cancelled, lastID, after, batch, from>>

Ids(s) == {s[k] : k \in 1..Len(s)}
Received == UNION {Ids(got[c]) : c \in Conn}
Active(c) == pc[c] \notin {"new", "closed"}
Replaying(c) == since[c] \notin {None, Malformed}

Init ==
    /\ first = 1 /\ last = 0 /\ faults = 0
    /\ pc = [c \in Conn |-> "new"]
    /\ up = [c \in Conn |-> FALSE]
    /\ stalled = {}
    /\ cancelled = [c \in Conn |-> FALSE]
    /\ lastID = [c \in Conn |-> Dollar]
    /\ after = [c \in Conn |-> 0]
    /\ batch = [c \in Conn |-> <<>>]
    /\ got = [c \in Conn |-> <<>>]
    /\ since = [c \in Conn |-> None]
    /\ from = [c \in Conn |-> 0]

-----------------------------------------------------------------------------
(* XADD with MAXLEN ~: it drops old events or leaves them, but keeps at     *)
(* least StreamMaxLen.                                                      *)
PublishLocationToStream ==
    /\ last < MaxEvents
    /\ last' = last + 1
    /\ first' \in {first} \cup {f \in first..last : last' - f + 1 >= StreamMaxLen}
    /\ UNCHANGED <<faults, rider, pc, cancelled, lastID, after, batch, from>>

-----------------------------------------------------------------------------
(* The rider: connects, reconnects when its connection is down, possibly    *)
(* with a stream id ("0" included) as ?since=, may stop reading for as long *)
(* as it likes, and goes away.                                              *)
Connect(c) ==
    /\ pc[c] = "new" /\ \A d \in Conn : ~up[d]
    /\ pc' = [pc EXCEPT ![c] = "snapshot"]
    /\ up' = [up EXCEPT ![c] = TRUE]
    /\ \E s \in 0..last \cup {None, Malformed} : since' = [since EXCEPT ![c] = s]
    /\ UNCHANGED <<stream, faults, stalled, cancelled, lastID, after, batch, got,
                   from>>

StopReading(c) ==
    /\ up[c] /\ c \notin stalled
    /\ stalled' = stalled \cup {c}
    /\ UNCHANGED <<stream, faults, up, since, got, pc, cancelled, lastID, after,
                   batch, from>>

ReadOn(c) ==
    /\ c \in stalled
    /\ stalled' = stalled \ {c}
    /\ UNCHANGED <<stream, faults, up, since, got, pc, cancelled, lastID, after,
                   batch, from>>

Disconnect(c) ==
    /\ up[c]
    /\ up' = [up EXCEPT ![c] = FALSE]
    /\ stalled' = stalled \ {c}
    /\ UNCHANGED <<stream, faults, pc, cancelled, lastID, after, batch, got,
                   since, from>>

-----------------------------------------------------------------------------
(* handleWebSocket.                                                        *)

(* The connection and the locals go.                                        *)
Forget(c) ==
    /\ cancelled' = [cancelled EXCEPT ![c] = FALSE]
    /\ lastID' = [lastID EXCEPT ![c] = Dollar]
    /\ after' = [after EXCEPT ![c] = 0]
    /\ batch' = [batch EXCEPT ![c] = <<>>]
    /\ since' = [since EXCEPT ![c] = None]
    /\ from' = [from EXCEPT ![c] = 0]
    /\ UNCHANGED <<stream, got>>

ReturnKeepsConnection(c) ==             \* defer conn.Close() forgotten
    /\ pc' = [pc EXCEPT ![c] = "closed"]
    /\ UNCHANGED <<up, stalled>>
    /\ Forget(c)

Return(c) ==
    /\ pc' = [pc EXCEPT ![c] = "closed"]
    /\ up' = [up EXCEPT ![c] = FALSE]
    /\ stalled' = stalled \ {c}
    /\ Forget(c)

(* The cached position goes out first, if there is one; its write fails     *)
(* only when the rider is gone.  Then lastID is chosen.                     *)
SendSnapshot(c) ==
    /\ pc[c] = "snapshot"
    /\ pc' = [pc EXCEPT ![c] = "loop"]
    /\ IF since[c] = None
       THEN /\ lastID' = [lastID EXCEPT ![c] = Dollar]
            /\ from' = [from EXCEPT ![c] = last]
       ELSE /\ lastID' = [lastID EXCEPT ![c] = since[c]]
            /\ from' = [from EXCEPT ![c] = IF Replaying(c) THEN since[c] ELSE last]
    /\ UNCHANGED <<stream, faults, rider, cancelled, after, batch>>

SnapshotFails(c) ==
    /\ pc[c] = "snapshot" /\ ~up[c]
    /\ Return(c) /\ UNCHANGED faults

NoticeDisconnectLate(c) ==              \* only seen while a write is pending
    /\ pc[c] = "write" /\ ~up[c] /\ ~cancelled[c]
    /\ cancelled' = [cancelled EXCEPT ![c] = TRUE]
    /\ UNCHANGED <<stream, faults, rider, pc, lastID, after, batch, from>>

(* The goroutine blocked in conn.ReadMessage() sees the rider go.           *)
NoticeDisconnect(c) ==
    /\ pc[c] \in {"loop", "blocked", "write"} /\ ~up[c] /\ ~cancelled[c]
    /\ cancelled' = [cancelled EXCEPT ![c] = TRUE]
    /\ UNCHANGED <<stream, faults, rider, pc, lastID, after, batch, from>>

(* The top of the loop sees ctx.Done(), go-redis refuses a context that was *)
(* cancelled after that, or Redis rejects a malformed id.                   *)
LoopReturns(c) ==
    /\ pc[c] = "loop" /\ (cancelled[c] \/ lastID[c] = Malformed)
    /\ Return(c) /\ UNCHANGED faults

(* XREAD reaches Redis, which resolves "$" to the last id it has by then.   *)
XReadArrives(c) ==
    /\ pc[c] = "loop" /\ ~cancelled[c] /\ lastID[c] # Malformed
    /\ pc' = [pc EXCEPT ![c] = "blocked"]
    /\ IF lastID[c] = Dollar
       THEN /\ after' = [after EXCEPT ![c] = last]
            /\ from' = [from EXCEPT ![c] = last]
       ELSE /\ after' = [after EXCEPT ![c] = lastID[c]]
            /\ UNCHANGED from
    /\ UNCHANGED <<stream, faults, rider, cancelled, lastID, batch>>

(* What XREAD returns: the oldest events retained behind `after`, at most   *)
(* ReadCount.  With BLOCK 0 it waits for one without limit, and cancelling  *)
(* the context does not wake it.                                            *)
Start(c) == IF after[c] < first THEN first ELSE after[c] + 1
End(c) == IF Start(c) + ReadCount - 1 < last THEN Start(c) + ReadCount - 1 ELSE last
Available(c) == [k \in 1..(End(c) - Start(c) + 1) |-> Start(c) + k - 1]

NewLastIDEnd(c) == last                 \* the end of the stream
NewLastIDFirst(c) == Head(Available(c)) \* the first message, not the last
NewLastID(c) == Last(Available(c))

ReadLocationStream(c) ==
    /\ pc[c] = "blocked" /\ Start(c) <= last
    /\ batch' = [batch EXCEPT ![c] = Available(c)]
    /\ lastID' = [lastID EXCEPT ![c] = NewLastID(c)]
    /\ pc' = [pc EXCEPT ![c] = "write"]
    /\ after' = [after EXCEPT ![c] = 0]
    /\ UNCHANGED <<stream, faults, rider, cancelled, from>>

(* A write to a rider that is gone fails, or lands in a buffer.  One to a   *)
(* rider that does not read lands in a buffer, too, or blocks, without a    *)
(* deadline.                                                                *)
Stuck(c) == c \in stalled /\ pc[c] \in {"snapshot", "write"}

WriteEvent(c) ==
    /\ pc[c] = "write"
    /\ batch' = [batch EXCEPT ![c] = Tail(@)]
    /\ got' = [got EXCEPT ![c] = IF up[c] THEN Append(@, Head(batch[c])) ELSE @]
    /\ pc' = [pc EXCEPT ![c] = IF Len(batch[c]) = 1 THEN "loop" ELSE "write"]
    /\ UNCHANGED <<stream, faults, up, stalled, since, cancelled, lastID, after, from>>

WriteFails(c) ==
    /\ pc[c] = "write" /\ ~up[c]
    /\ Return(c) /\ UNCHANGED faults

handleWebSocket(c) ==
    \/ SendSnapshot(c) \/ SnapshotFails(c) \/ LoopReturns(c) \/ XReadArrives(c)
    \/ ReadLocationStream(c) \/ WriteEvent(c) \/ WriteFails(c)

-----------------------------------------------------------------------------
(* Faults.  go-redis sends a command again when its connection breaks, with *)
(* the same arguments, and gives up after a few times.                      *)
Fault == faults < MaxFaults /\ faults' = faults + 1

XReadRetried(c) ==
    /\ Fault /\ pc[c] = "blocked"
    /\ pc' = [pc EXCEPT ![c] = "loop"]
    /\ after' = [after EXCEPT ![c] = 0]
    /\ UNCHANGED <<stream, rider, cancelled, lastID, batch, from>>

XReadFails(c) ==
    /\ Fault /\ pc[c] \in {"loop", "blocked"}
    /\ Return(c)

(* Redis comes back empty; its stream ids, being timestamps, go on growing. *)
RedisRestarts ==
    /\ Fault
    /\ first' = last + 1
    /\ pc' = [c \in Conn |-> IF pc[c] = "blocked" THEN "loop" ELSE pc[c]]
    /\ after' = [c \in Conn |-> 0]
    /\ UNCHANGED <<last, rider, cancelled, lastID, batch, from>>

(* Every handler of the process goes with it.                               *)
ApiRestarts ==
    /\ Fault
    /\ pc' = [c \in Conn |-> IF Active(c) THEN "closed" ELSE pc[c]]
    /\ up' = [c \in Conn |-> FALSE]
    /\ stalled' = {}
    /\ cancelled' = [c \in Conn |-> FALSE]
    /\ lastID' = [c \in Conn |-> Dollar]
    /\ after' = [c \in Conn |-> 0]
    /\ batch' = [c \in Conn |-> <<>>]
    /\ since' = [c \in Conn |-> None]
    /\ from' = [c \in Conn |-> 0]
    /\ UNCHANGED <<stream, got>>

Next ==
    \/ PublishLocationToStream \/ RedisRestarts \/ ApiRestarts
    \/ \E c \in Conn :
          \/ Connect(c) \/ StopReading(c) \/ ReadOn(c) \/ Disconnect(c)
          \/ handleWebSocket(c) \/ NoticeDisconnect(c)
          \/ XReadRetried(c) \/ XReadFails(c)

(* The Go scheduler runs the handler and its disconnect goroutine, and      *)
(* Redis answers an XREAD it has an answer to.  Nobody promises that a      *)
(* driver sends another event or that a rider connects, reads or leaves: a  *)
(* write may block for as long as the rider does not read.                  *)
Spec == Init /\ [][Next]_vars
FairSpec ==
    /\ Spec
    /\ \A c \in Conn : /\ WF_vars(~Stuck(c) /\ handleWebSocket(c))
                      /\ WF_vars(NoticeDisconnect(c))

-----------------------------------------------------------------------------
(* What the push path is checked for.                                      *)

PC == {"new", "snapshot", "loop", "blocked", "write", "closed"}

(* The shape of the state; only a live handler has a connection or a batch. *)
TypeOK ==
    /\ last \in 0..MaxEvents /\ first \in 1..(last + 1) /\ faults \in 0..MaxFaults
    /\ pc \in [Conn -> PC]
    /\ up \in [Conn -> BOOLEAN] /\ cancelled \in [Conn -> BOOLEAN]
    /\ stalled \subseteq Conn
    /\ lastID \in [Conn -> 0..MaxEvents \cup {Dollar, Malformed}]
    /\ after \in [Conn -> 0..MaxEvents] /\ from \in [Conn -> 0..MaxEvents]
    /\ batch \in [Conn -> Seq(1..MaxEvents)] /\ got \in [Conn -> Seq(1..MaxEvents)]
    /\ since \in [Conn -> 0..MaxEvents \cup {None, Malformed}]
    /\ \A c \in Conn : up[c] => Active(c)
    /\ \A c \in Conn : pc[c] = "write" <=> batch[c] # <<>>

(* A rider never receives the same event twice on one connection, nor an    *)
(* older one after a newer one.                                             *)
InOrder ==
    \A c \in Conn : \A j, k \in 1..Len(got[c]) : j < k => got[c][j] < got[c][k]

(* No gap: everything between the start of the delivery and the cursor was  *)
(* written to the rider, is about to be, or was trimmed from the stream.    *)
NoGap ==
    \A c \in Conn : up[c] /\ lastID[c] \in Nat =>
        \A e \in (from[c] + 1)..lastID[c] :
            e \in Ids(got[c]) \cup Ids(batch[c]) \/ e < first

(* A rider that stays, and sooner or later reads on, gets every event       *)
(* behind its cursor, however many arrive while it is being served, unless  *)
(* the stream drops it first.                                               *)
EveryEventArrives ==
    \A c \in Conn : <>[](c \notin stalled) =>
        \A e \in 1..MaxEvents :
            up[c] /\ lastID[c] \in Nat /\ from[c] < e /\ e <= last
                ~> e \in Ids(got[c]) \/ ~up[c] \/ e < first

(* A handler outlives its rider only while it waits for a quiet driver, its *)
(* context cancelled, and the driver's next event ends it unless Redis      *)
(* fails in between.                                                        *)
Leaked(c) == pc[c] = "blocked" /\ cancelled[c] /\ Start(c) > last
NextEventFreesHandler ==
    \A c \in Conn :
        /\ Active(c) /\ ~up[c] ~> pc[c] = "closed" \/ Leaked(c)
        /\ \A n \in 0..MaxFaults :
               pc[c] = "blocked" /\ cancelled[c] /\ Start(c) <= last /\ faults = n
                   ~> pc[c] = "closed" \/ faults > n

-----------------------------------------------------------------------------
(* What the repository says of the push path, and the code does not do.    *)

(* ws.go:83-84 "On context cancellation ... XREAD returns an error and we   *)
(* exit cleanly - no goroutine leak": BLOCK 0 outlives the context.         *)
HandlerExits ==
    \A c \in Conn : Active(c) /\ ~up[c] ~> pc[c] = "closed"
=============================================================================
