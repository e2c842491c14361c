CONSTANTS
  Hosts = {h1}
  Serials = {s1, s2, s3, s4}
  Lifetime = 3
  RenewBefore = 2
  TrustFor = 0
  Handshakes = {g1}
  Renewer = Renewer
SPECIFICATION FairSpec
INVARIANTS TypeOK PairsMatch ResponseUpWhenAsked RestartServesSame
 
