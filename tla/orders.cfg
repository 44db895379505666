SPECIFICATION MCOrderSpec
CONSTANTS
  c1 = c1
  c2 = c2
  p1 = p1
  p2 = p2
  m1 = m1
  m2 = m2
  m3 = m3
  old = old
  w1 = w1
  w2 = w2
  w3 = w3
  w4 = w4
  None = None
  Customers = {c1, c2}
  Products = {p1, p2}
  Messages = {m1, m2, m3}
  Legacy = {old}
  Buyer <- BuyerOf
  Baskets <- OneOrBoth
  Prices = {1, 2}
  Cost <- CostOf
  Files <- DearerOrCheaper
  MaxQty = 2
  OwnerMessages = {w1, w2, w3, w4}
  Text <- ShipOrDeliver
SYMMETRY MessageSymmetry
INVARIANTS StockAccounted DebtMatchesOrder OneBookingPerMessage
PROPERTY ImplementsBookedOrders
CHECK_DEADLOCK FALSE
