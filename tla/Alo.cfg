\* Every sequence of two operations on every value of a 2-bit register at
\* each end, beside another register: what each does to the registers it
\* names and to those it does not, and what it leaves behind for the next.
SPECIFICATION Spec
CONSTANTS
  W = 2
  NReg = 2
  Ops <- AllOps
  Places <- SameOrNot
  Fills <- Staggered
  MaxOps = 2
INVARIANTS
  TypeOK
  FlagsTellTheTruth
  AsTested
PROPERTIES
  ImplementsMemory
CHECK_DEADLOCK FALSE
