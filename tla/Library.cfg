SPECIFICATION Spec
INVARIANTS
  CopiesRight
  EachItemOnce
  IdsAgree
  VecsAgree
  LayoutAgrees
  BestIsCalled
CHECK_DEADLOCK FALSE
