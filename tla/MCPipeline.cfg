SPECIFICATION Spec
CONSTANTS
    Emails = {e1}
    Passwords = {p1, p2}
    None = None
    jwtExpiry = 2
    Requests = {r1, r2}
    Inputs <- MCInputs
SYMMETRY Symmetry
INVARIANTS
    AdminHasUser
    AnsweredOnce
    ChargedOnce
    LoggedAsAnswered
    AccountsAsTold
