\* Two batches and two registrations of a room; or a draft of a sensor beside one from before, against
\* another editor or a lost answer.  (Batches and new ids never meet: one set serves for both.)
CONSTANTS
  Space = {ra}
  Outdoors = outdoors
  Id = {x1}
  Asked = {u1, u2}
  MAX_REGISTRATIONS = 2
  Ref = {r1}
  Old = {y1}
  New = {u1, u2}
  Pos = {p}
  MAX_LOST = 1
  MAX_OTHERS = 1
SPECIFICATION FurnishingSpec
INVARIANTS JudgedByItsRooms NothingForgotten UnsentIsAcceptable CreatedOnceIfAnswered
SYMMETRY Interchangeable
CHECK_DEADLOCK FALSE
