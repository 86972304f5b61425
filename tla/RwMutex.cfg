\* Three threads and room for two readers, so that readers are turned away by
\* the counter's limit as well as by writers.  No symmetry: it is unsound for
\* liveness and for the CHOOSE of the mapping.
SPECIFICATION FairSpec
CONSTANTS
  Threads = {t1, t2, t3}
  NoThread = NoThread
  MaxReaders = 2
INVARIANTS MutualExclusion CounterIsReaders SleepersHaveReason
PROPERTIES ClaimantEnters SleeperWakes ImplementsRwLock
