CONSTANT Mishaps = 4
SPECIFICATION ChargeSpec
PROPERTY FullIsRestored
