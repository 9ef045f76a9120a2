\* compile(), reset(), compile() over the modules of MCDriver.
CONSTANTS
  Modules <- MCModules
  Funcs = {}
  NumGlobals = 2
  NumArgs = 1
  MaxStale = 0
  PHINodeSortThreshold = 3
  MaxIds = 24
SPECIFICATION Spec
INVARIANT UnsupportedNeverSucceeds
INVARIANT NumberingExact
INVARIANT ConstantsExpanded
INVARIANT PhiRangeExact
INVARIANT InvalidTypeReported
INVARIANT CachedLayoutSound
PROPERTY RestartsTerminate
\* Both modules are compiled: the final state has no successor.
CHECK_DEADLOCK FALSE
