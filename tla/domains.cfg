SPECIFICATION Spec
CONSTANTS
  Tenants = {t1, t2}
  Existing = {t1}
  shop = shop
  wwwShop = wwwShop
  Domains <- SampleDomains
  Twin <- SampleTwin
  NoDomain = NoDomain
  Nobody = Nobody
  Calls = {c1, c2}
  MaxEdits = 4
INVARIANTS
  TypeOK
  VerifiedIsProven
  CacheAgrees
CONSTRAINT FewLosses
SYMMETRY Symmetry
CHECK_DEADLOCK FALSE
