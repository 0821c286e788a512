CONSTANTS
  l1 = l1
  l2 = l2
  own = own
  wh = wh
  Lines = {l1, l2}
  Products = {wh}
  Inbound = {wh}
  ProductOf <- WarehouseLines
  Stock = 1
  Buffer = 0
  Readers = {r1}
  Ttl = 1
  MaxClock = 2
  MaxCrashes = 0
  MaxFigures = 0
  MaxStocktakes = 0
SPECIFICATION FairSpec
CHECK_DEADLOCK FALSE
PROPERTY ExpiredIsReleased
