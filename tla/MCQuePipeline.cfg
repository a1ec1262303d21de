SPECIFICATION Spec
CONSTANTS
  a = a
  b = b
  t1 = t1
  Names = {a, b}
  Runs = {t1}
  Lists <- MCLists
  Orders <- MCOrders
  MaxEdits = 2
CHECK_DEADLOCK FALSE
INVARIANTS TypeOK FollowsItsList NothingPassedOver
