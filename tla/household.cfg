SPECIFICATION StartSpec
CONSTANTS
  p1 = p1 p2 = p2 c1 = c1 c2 = c2 w1 = w1 w2 = w2 r1 = r1 r2 = r2 r3 = r3
  Parents = {p1, p2}
  Children = {c1, c2}
  Oldest <- Joined
  Works = {w1}
  Requests = {r1, r2, r3}
  Nobody = Nobody
INVARIANTS HouseholdInv SessionsFollowPasswords
PROPERTIES SharedWorkStays ClosedAsReviewed
SYMMETRY Alike
