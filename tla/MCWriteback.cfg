CONSTANTS
  t1 = t1
  Flusher = Flusher
  Syncer = Syncer
  NoOne = NoOne
  Tasks = {t1}
  NrPages = 2
  VecSize = 2
  NrToWrite = 1
  MaxStores = 2
  MaxSyncs = 1
  MaxRare = 1
SPECIFICATION Spec
INVARIANTS NoLostWrite DirtyTagged SyncComplete
CHECK_DEADLOCK FALSE
