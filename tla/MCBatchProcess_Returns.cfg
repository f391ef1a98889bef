\* Two transactions and the five workers of the code.
CONSTANTS
  NTx = 2
  Workers = {1, 2, 3, 4, 5}
SPECIFICATION Spec
PROPERTY BatchReturns
\* The deadlock is what the property is about: let TLC report it as the
\* violation of BatchReturns rather than as a deadlock.
CHECK_DEADLOCK FALSE
