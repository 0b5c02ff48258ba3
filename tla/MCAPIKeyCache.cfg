SPECIFICATION FairSpec
CONSTANTS
    Validators = {v1, v2}
    Admins = {a1, a2}
    Tiers = {"basic", "premium"}
    TTL = 2
INVARIANT TypeOK
PROPERTY CopyConverges
