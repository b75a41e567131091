SPECIFICATION Spec
CONSTANTS
  center1 = center1
  staff1 = staff1
  o1 = o1
  o2 = o2
  k1 = k1
  k2 = k2
  c1 = c1
  c2 = c2
  Centers = {center1}
  Staff = {staff1}
  Orders = {o1, o2}
  Categories = {k1, k2}
  Nobody = Nobody
  Calls = {c1, c2}
INVARIANTS
  TypeOK
  EarnsForCenter
  ApprovedHasCategories
SYMMETRY Alike
CONSTRAINT Focus
