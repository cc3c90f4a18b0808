SPECIFICATION Spec
CONSTANTS
  p1 = p1
  d1 = d1
  r1 = r1
  r2 = r2
  q1 = q1
  q2 = q2
  c1 = c1
  c2 = c2
  Pages = {p1}
  Drafts = {d1}
  Requests = {r1, r2}
  Quotes = {q1, q2}
  Carts = {c1, c2}
  Baskets = {1, 2}
  Capacity = 2
  MaxOrders = 1
  MaxPrice = 1
  MaxReloads = 1
SYMMETRY Alike
INVARIANTS BookedAsQuoted BookedOnce NeverOversold AnswersMatch LimitOverrunBounded
CHECK_DEADLOCK FALSE
