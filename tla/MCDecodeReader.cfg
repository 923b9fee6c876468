CONSTANTS
  Families <- MCFamilies
  Queries <- MCQueries
  Layouts <- MCLayouts
  SegmentRows = 2
  Numbered = 2
  MaxDecodes = 2
SPECIFICATION ReaderSpec
INVARIANTS SamplesAreTheirs WholeWhenComplete CountedAreWritten
CHECK_DEADLOCK FALSE
