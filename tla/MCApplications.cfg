\* Node and arc blocks small enough that every graph needs several.
CONSTANTS
  NODE_BLOCK_SIZE = 3
  ARC_BLOCK_SIZE = 5
  GCLL_BLOCK_SIZE = 2
  CLUSTERS = 2
  PASSES = 3
  SCALE = 10
  MAX_POLYGONS = 2
  MAX_POINTS = 2
  DRIFT = 1
  COLORS = {0, 1}
SPECIFICATION MCSpec
INVARIANTS MaxflowInv MarginalsExact
PROPERTIES OptimalMoves ClustersImprove SegmentationEnds PolygonsKept
