CONSTANTS
  Producers <- MCProducers
  Consumers <- MCConsumers
  n = 2
  N = 6
SPECIFICATION AllSpec
INVARIANTS
  OutputIsAccountedFor
  NeverAllAsleep
  PhilosophersGoOn
PROPERTIES
  PassesPcCheck
  BothArePrinted
