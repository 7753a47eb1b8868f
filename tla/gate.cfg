SPECIFICATION Spec
CONSTANTS
  Stmts <- Shapes
  MaxBatch = 2
CHECK_DEADLOCK FALSE
INVARIANTS RetryGetsFurther SmallestMode StrongerAdmits GateStopsSchema
