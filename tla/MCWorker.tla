------------------------------ MODULE MCWorker ------------------------------
(* Small instances of Worker for TLC: two drivers, and one message of every *)
(* kind the goroutine treats differently.                                   *)
EXTENDS Worker

CONSTANTS d1, d2, e1, e2

Stamps == {1, 2}

Event(d, e, t, h, c, u) ==
    [driver |-> d, id |-> e, at |-> t, header |-> h, codec |-> c, uuids |-> u]

(* A proto event, one of another driver from a producer without the header  *)
(* whose ids are not UUIDs, and an undecodable message.                      *)
ProtoEvent  == Event(d1, e1, 1, "proto", "proto", TRUE)
BadIds      == Event(d2, e2, 2, "none", "json", FALSE)
Mislabelled == Event(d1, e2, 2, "proto", "json", TRUE)
LaterEvent  == Event(d1, e2, 2, "json", "json", TRUE)

SomeMessages == {ProtoEvent, BadIds, Mislabelled}
GoodMessages == {ProtoEvent, LaterEvent}
=============================================================================
