SPECIFICATION ParseSpec
CONSTANTS
  Letters = {"x", "y"}
  MaxText = 4
CHECK_DEADLOCK FALSE
INVARIANTS PointsAtFailure
