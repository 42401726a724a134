SPECIFICATION Spec
CONSTANTS
  Channels = {c1, c2, c3, c4}
  Messages = {m1, m2}
  Automations = {a1, a2}
  Maintainers = {p1}
  Capacity = 2
  MaxWaiting = 2
  Nobody = Nobody
INVARIANT SlotHasOneHolder
INVARIANT TableBounded
INVARIANT MaintenanceAlone
INVARIANT NoLostWakeup
PROPERTY PreemptionReachesTurn
PROPERTY KeepsService
SYMMETRY UpToNames
