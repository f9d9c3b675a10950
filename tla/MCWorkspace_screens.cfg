CONSTANTS
  a = a
  b = b
  l = l
  s = s
  n = n
  Nothing = Nothing
  Own = {a, b}
  Lent = {l}
  ForStudy = {s}
  New = {n}
  MaxBegun = 4
SPECIFICATION ScreenSpec
CHECK_DEADLOCK FALSE
INVARIANT
  ScreenShowsOneDeck
