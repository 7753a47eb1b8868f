---- MODULE MCConnectedCalls ----
(* Statements that the gate, the routes and the cluster tell apart. *)
EXTENDS ConnectedCalls

Shape(type, node, writes, schema, effect, blind) ==
  [type |-> type, node |-> node, writes |-> writes, schema |-> schema,
   effect |-> effect, blind |-> blind]

Read    == Shape("DML", "select", FALSE, FALSE, {}, FALSE)
Hidden  == Shape("DML", "select", FALSE, FALSE, {"row"}, FALSE)  \* a write below a SELECT
Write   == Shape("DML", "plain", TRUE, FALSE, {"row"}, FALSE)
Blind   == Shape("DML", "plain", TRUE, FALSE, {"row"}, TRUE)
Alter   == Shape("DDL", "plain", FALSE, TRUE, {"schema"}, FALSE)
Grant   == Shape("DCL", "plain", TRUE, TRUE, {"cluster"}, FALSE)
Analyze == Shape("DML", "explain", FALSE, FALSE, {"row"}, FALSE)

AllShapes  == {Read, Hidden, Write, Blind, Alter, Grant, Analyze}
FewShapes  == {Read, Write, Alter}
====
