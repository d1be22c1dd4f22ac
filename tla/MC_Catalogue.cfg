SPECIFICATION CatalogueSpec
CONSTANTS
  Listing = {l1}
  Tab = {t1, t2}
  Admin = {a1, a2}
  Cover = {c1, c2}
  Portfolio = {p1}
  MaxPortfolio = 1
  Request = {r1, r2}
SYMMETRY Symmetry
CONSTRAINT StudentFirst
INVARIANTS DraftStaysPrivate RowsHaveFiles VerdictStands
