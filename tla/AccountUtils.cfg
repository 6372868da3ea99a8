\* Two keys, two networks, a blank or two.
SPECIFICATION AccountSpec
CONSTANTS
  Key = {k1, k2}
  Prefix = {0, 42}
  Padding = {0, 1, 2}
PROPERTIES
  Normalises
CHECK_DEADLOCK FALSE
