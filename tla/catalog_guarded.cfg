\* Two concurrent requests, two rows, two codes, one sku, one e-mail.
SPECIFICATION Spec
CONSTANTS
  UserIds = {u1, u2}
  Emails = {admin}
  AdminEmail = admin
  Ids = {i1, i2}
  Codes = {k1, k2}
  Skus = {s1}
  Requests = {r1, r2}
  Null = Null
SYMMETRY Symmetry
INVARIANTS
  UniqueKeys
  IInv
PROPERTIES
  OnlyPresentAdminsConfigure
  TokensAreEarned
  OnlyRacesEscapeTheLookup
  ConflictsNameAnotherRow
  PatchesWriteWhatTheyName
