CONSTANTS
  ElementCount = 3
  Value = {0, 1}
  Zero = 0
  MaxRequest = 4
SPECIFICATION Spec
INVARIANTS
  TypeOK
  Positions
  ViewStable
PROPERTY
  RefinesStreamWindow
