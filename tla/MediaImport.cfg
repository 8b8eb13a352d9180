SPECIFICATION Spec
CONSTANTS
  Sources = {1, 2}
  Keys = {1, 2, 3}
  Feed = 2
  Limit = 1
  Filters <- AllOrFirst
  Importers = {i, j}
  Editors = {e}
  MaxCalls = 3
PROPERTIES KeptOnFailure Restored
SYMMETRY Alike
CHECK_DEADLOCK FALSE
