---- MODULE MCManagerCalls ----
(* Statements that the cluster tells apart: a read, a write it cannot be seen *)
(* to be, a write, a write without WHERE, DDL, and EXPLAIN ANALYZE of a write.*)
EXTENDS ManagerCalls

Shape(type, node, writes, schema, effect, blind) ==
  [type |-> type, node |-> node, writes |-> writes, schema |-> schema,
   effect |-> effect, blind |-> blind]

Shapes ==
  {Shape("DML", "select", FALSE, FALSE, {}, FALSE),
   Shape("DML", "select", FALSE, FALSE, {"row"}, FALSE),
   Shape("DML", "plain", TRUE, FALSE, {"row"}, FALSE),
   Shape("DML", "plain", TRUE, FALSE, {"row"}, TRUE),
   Shape("DDL", "plain", FALSE, TRUE, {"schema"}, FALSE),
   Shape("DML", "explain", FALSE, FALSE, {"row"}, FALSE)}
====
