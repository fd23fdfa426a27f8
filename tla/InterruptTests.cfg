\* Priority: stores at once or up to three in flight.  External: delays that
\* outlast a store, two stores in flight.  Timer: eight interrupts, the first
\* after eight ticks, then every six.
CONSTANTS
  Depths = {0, 3}
  SpinLimit = 2
  CountTo = 4
  MaxPosted = 2
  First = 8
  Interval = 6
  N = 8
  InstretLimit = 6
  Latency = 2

SPECIFICATION FairSpec

INVARIANTS
  PriorityVerdict
  ExternalVerdictIsExact
  DelegationVerdict
  TimerVerdictIsExact
  CountsDeadlines

PROPERTIES
  ArmedTogether
  Decides
