SPECIFICATION Spec
CONSTANTS
  LnTypes <- MCLnTypes
  LNodes <- MCLNodes
  MainMap <- MCMainMap
  c1 = c1
  c2 = c2
  Cells <- MCCells
  Menus <- MCMenus
  MainMenu = "main"
  Times = {1, 2}
  Held <- MCHeld
  Samples <- MCSamples
  MaxDown = 3
  MaxUp = 2
INVARIANTS Settled Within
CONSTRAINT Promising
SYMMETRY Symm
CHECK_DEADLOCK FALSE
