\* Two sessions on one repository.
CONSTANTS
  Sessions = {s1, s2}
  Oids = {o1, o2}
  LockIds = {l1, l2}
  RetryMax = 3
  None = None
  Garbled = Garbled
SPECIFICATION Spec
SYMMETRY Symmetry
INVARIANTS TransferAuthorized CredentialsNeedAccess PresentIsTrue LockRepliesTrue
