SPECIFICATION FairSpec
CONSTANT Devices = {0}
INVARIANTS TypeOK NoEcho
PROPERTY RequestServed
