---- MODULE MCEscalation ----
(* Statement shapes for the allowlist: one per row of the predicate matrix in *)
(* classifyReadOnly, and the shapes the gate cannot see through.              *)
EXTENDS EscalationLoop

Shape(type, node, writes, schema, effect) ==
  [type |-> type, node |-> node, writes |-> writes, schema |-> schema,
   effect |-> effect, blind |-> FALSE]

Shapes ==
  {Shape("DML", "select", FALSE, FALSE, {}),                     \* SELECT
   Shape("DML", "select", FALSE, FALSE, {"row"}),                \* a write below a SELECT
   Shape("DML", "plain", TRUE, FALSE, {"row"}),                  \* INSERT
   Shape("DDL", "plain", FALSE, TRUE, {"schema"}),               \* CREATE TABLE
   Shape("DDL", "plain", TRUE, TRUE, {"row", "schema"}),         \* TRUNCATE
   Shape("DCL", "plain", TRUE, TRUE, {"cluster"}),               \* GRANT
   Shape("DCL", "admin", TRUE, FALSE, {"cluster"}),              \* SET CLUSTER SETTING
   Shape("DCL", "admin", TRUE, TRUE, {"cluster", "schema"}),     \* CONFIGURE ZONE
   Shape("DML", "tenant", FALSE, FALSE, {"cluster"}),            \* ALTER TENANT CAPABILITY
   Shape("DML", "tenant", TRUE, FALSE, {"cluster"}),             \* ALTER TENANT REPLICATION
   Shape("TCL", "plain", FALSE, FALSE, {}),                      \* BEGIN
   Shape("DML", "explain", FALSE, FALSE, {}),                    \* EXPLAIN SELECT
   Shape("DML", "explain", FALSE, FALSE, {"row"}),               \* EXPLAIN ANALYZE INSERT
   Shape("DML", "explain", FALSE, FALSE, {"schema"})}            \* EXPLAIN ANALYZE ALTER
====
