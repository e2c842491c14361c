CONSTANTS
  Keys = {h1, h2}
  Bodies = {b1, NoUpstream}
  NoUpstream = NoUpstream
  Unparsable = {}
  Workers = {g1}
  Hup = Hup
SPECIFICATION FairSpec
INVARIANT TypeOK
PROPERTIES SettledRoutesStay SighupHeals
