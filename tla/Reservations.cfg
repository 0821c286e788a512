CONSTANTS
  l1 = l1
  l2 = l2
  own = own
  wh = wh
  Lines = {l1, l2}
  Products = {own, wh}
  Inbound = {wh}
  ProductOf <- MixedLines
  Stock = 1
  Buffer = 0
  Readers = {r1}
  Ttl = 1
  MaxClock = 2
  MaxCrashes = 1
  MaxFigures = 1
  MaxStocktakes = 1
SPECIFICATION Spec
CHECK_DEADLOCK FALSE
CONSTRAINT OneDisturbance
INVARIANTS TypeOK SoldIsHeld NoSilentOverstatement BooksBalance
