SPECIFICATION MCSpec
CONSTANTS
    Validators = {v1}
    Admins = {a1}
    Tiers = {"basic", "premium"}
    TTL = 2
INVARIANT UpdateInvalidates
