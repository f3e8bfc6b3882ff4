SPECIFICATION StackSpec
CONSTANTS
  Items = {a, b, c}
  N = 3
  Wrap = 8
  NoItem = NoItem
PROPERTIES RecentSpec
