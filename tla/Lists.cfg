SPECIFICATION AllSpec
CONSTANTS
  Items = {1, 2, 3}
  NoItem = NoItem
  MaxRows = 3
  AppLists = {1, 2}
  Cols = {1, 2}
  Cell <- TableCells
  Filters = {{1, 3}}
  Contents <- TableContents
  Parent <- TreeParents
  InitialNodes = {1, 2, 3}
  Forms = {"listbox", "table", "tree"}
  Grids = TRUE
  Shapes <- GridShapes
  RowHeight = 3
  OwnHeights = {2, 7}
  Rearms = FALSE
INVARIANTS
  KeysHaveOnePlace
  ViewsHold
  GridHolds
PROPERTIES
  ItemsCarried
  CursorAlwaysSeen
