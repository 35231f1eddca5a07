------------------------------ MODULE MCIngest ------------------------------
(* Small instances of Ingest for TLC: two drivers on two partitions.        *)
EXTENDS Ingest

CONSTANTS d1, d2, e1, p1, p2

Fix(d, e, t, v) == [driver |-> d, id |-> e, at |-> t, valid |-> v]
Single(p) == [batch |-> FALSE, points |-> <<p>>]

Keyed   == Single(Fix(d1, e1, 0, TRUE))       \* event_id and recorded_at given
Invalid == Single(Fix(d2, e1, 0, FALSE))
Mixed   == [batch |-> TRUE, points |-> <<Fix(d2, None, None, TRUE), Fix(d1, e1, 0, FALSE),
                                         Fix(d1, None, None, TRUE)>>]

SomeRequests == {Keyed, Invalid, Mixed}
KeyHash == [x \in {d1, d2, e1} |-> IF x = d1 THEN p1 ELSE p2]
=============================================================================
