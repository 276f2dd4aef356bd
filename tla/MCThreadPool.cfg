\* Three calls (two callers and a nested or a third), two workers.
SPECIFICATION Spec
CONSTANTS
  Calls = {c1, c2, c3}
  Workers = {w1, w2}
  Zero = p0
  None = None
SYMMETRY Symmetry
INVARIANTS
  IInv
  TypeOK
  OnePublisher
  BorrowOutlivesUse
  ExactlyOnce
  PanicReachesItsCaller
  NoLostWakeup
PROPERTIES
  SlotWrittenWhenIdle
  ForkJoinSpec
