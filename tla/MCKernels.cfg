CONSTANTS
  SizeMax = 63
  LW = 3
  LH = 2
  SCALE = 2
  IntMax = 127
  FRAMES = 15
  Canvases <- MCCanvases
  Coordinates <- MCCoordinates
  Extents <- MCExtents
  Channels <- MCChannels
  Raws <- MCRaws
  Limits <- MCLimits
  Flats <- MCFlats
  Percents <- MCPercents
SPECIFICATION Spec
INVARIANTS ShownExactly SnapshotIsTheFrame InsideBuffer FadeGentle AxisFaithful
