SPECIFICATION Spec
CONSTANTS
  t1 = t1
  t2 = t2
  a1 = a1
  a2 = a2
  p1 = p1
  p2 = p2
  p3 = p3
  Calls = {c1}
  Tenants = {t1, t2}
  ApiKeys = {a1, a2}
  Providers = {p1, p2, p3}
  PixKeys = {1, 2, 3}
  TenantOfKey <- OwnerOfKey
  TenantOfProvider <- OwnerOfProvider
  TenantOfPix <- OwnerOfPix
  ProviderOfPix <- AccountOfPix
  None = None
  NoAccount = NoAccount
  Operations = {"key", "tenant", "provider", "default", "pix"}
  MaxChanges = 2
CHECK_DEADLOCK FALSE
INVARIANTS TypeOK OwnAccount ActsOnTruth RefusalHasCause
