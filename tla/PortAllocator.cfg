CONSTANTS
  Ports = {p1}
  Owners = {o1, o2}
  Nobody = Nobody
  Calls = {c1, c2, c3}
  MemogoDeletes = TRUE
SPECIFICATION Spec
INVARIANT TypeOK
PROPERTY SecureReservationsStay
