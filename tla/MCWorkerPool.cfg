\* Four workers, as RENDER_THREADS, over seven rows: bands of one and two.
CONSTANTS
  N = 4
  RowCount = 7
  MaxDispatch = 2
SPECIFICATION FairSpec
INVARIANTS EveryRowOnce PublishedAlone ThroughGate BarriersEmptyAtDestroy
PROPERTIES CallsReturn ImplementsParallelFor
