CONSTANTS
  Tables <- SmallTables
  Asyncs = {TRUE, FALSE}
  StageUnits = 3
  PageUnits = 2
  SplitUnits = 2
  CopyThreads = 2
  Blank = Blank
SPECIFICATION Spec
INVARIANTS TypeOK RoundTrip NeverMisplaced NoRace LossContained
