\* Five transactions in batches of two: three goroutines, the last with one
\* transaction.  The part_002 version.
CONSTANTS
  NTx = 5
  BatchSize = 2
  ErrorContinues = FALSE
SPECIFICATION Spec
INVARIANT TypeOK ResultFaithful
PROPERTY Terminates ImplementsContract
\* BatchSignTransactions returns: once it has, no step is enabled.
CHECK_DEADLOCK FALSE
