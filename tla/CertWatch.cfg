CONSTANT MaxIssue = 4
SPECIFICATION FairSpec
INVARIANTS TypeOK OnlyCurrentServes
PROPERTIES RotationServed
