SPECIFICATION MCSpec
CONSTANTS
  Attempt = {a1, a2}
  NatKind <- MCNatKinds
  MaxReg = 1
  Followed = {a1}
INVARIANTS PlanIsCoherent SessionsTryDifferent PunchAgrees DispatchNeverBlocks
 
CHECK_DEADLOCK FALSE
