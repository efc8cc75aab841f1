CONSTANTS
    ann1 = ann1
    ann2 = ann2
    bob = bob
    ann = ann
    bobs = bobs
    Session = {ann1, ann2, bob}
    Account = {ann, bobs}
    owner <- TwoOfAnn
    GetKey = {ann1}
    Does <- Everything
    MaxMessages = 2
SPECIFICATION FairSpec
INVARIANTS TypeOK NewestShown 
PROPERTY SignalsServed
CHECK_DEADLOCK FALSE
