CONSTANT MaxRadios = 2

SPECIFICATION Spec
INVARIANTS UplinkIsLast RankIsOrder BusyIsSpared
CHECK_DEADLOCK FALSE
