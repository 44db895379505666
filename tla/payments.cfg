SPECIFICATION MCShopSpec
CONSTANTS
  c1 = c1
  p1 = p1
  o1 = o1
  o2 = o2
  k1 = k1
  k2 = k2
  k3 = k3
  x1 = x1
  x2 = x2
  y1 = y1
  y2 = y2
  y3 = y3
  y4 = y4
  y5 = y5
  y6 = y6
  y7 = y7
  y8 = y8
  y9 = y9
  y10 = y10
  y11 = y11
  r1 = r1
  None = None
  Customers = {c1}
  Products = {p1}
  Messages = {}
  Legacy = {o1, o2}
  Buyer <- OneCustomer
  Baskets <- TwoUnits
  Prices = {1}
  Cost <- CostOf
  Files = {}
  MaxQty = 3
  OwnerMessages = {}
  Text <- NoText
  Claims = {k1, k2, k3}
  Claimed <- Payments
  PayBy <- CashAndBank
  References = {x1, x2}
  PayMessages = {y1, y2, y3, y4, y5, y6, y7, y8, y9, y10, y11}
  PayText <- Decisions
  RefundCases = {r1}
  RefundOrder <- OrderOfCase
INVARIANTS LedgerExplained ReferenceAuthorisesOnce OnePendingClaimPerPayment
PROPERTIES ApprovalsWithinDebt ImplementsCustomerAccounts
CHECK_DEADLOCK FALSE
