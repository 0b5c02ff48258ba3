------------------------------ MODULE Accounts -------------------------------
(***************************************************************************)
(* The users table and the tokens of internal/service/authService.go.      *)
(* bcrypt is reduced to what CompareHashAndPassword tells: whether a       *)
(* password is the one that was hashed.  A token is known by the email in  *)
(* its claims; of the tokens of one email the latest lives longest, so it  *)
(* stands for all of them.                                                 *)
(***************************************************************************)
EXTENDS Naturals

CONSTANTS
    Emails, Passwords,
    None,        \* no row, no token, no body
    jwtExpiry    \* in clock units; validate in internal/config makes it positive

ASSUME AccountsAssumption ==
    /\ None \notin Emails \cup Passwords
    /\ jwtExpiry \in Nat \ {0}

VARIABLES
    users,   \* the password behind each email's row
    tokens   \* time until the latest token of each email expires

accounts == <<users, tokens>>

AccountsInit ==
    /\ users = [e \in Emails |-> None]
    /\ tokens = [e \in Emails |-> 0]

FindByEmail(e) == users[e]

(* Fault: the table has no unique index, and the later row is found first. *)
CreateAnother(e, p) ==
    /\ users' = [users EXCEPT ![e] = p]
    /\ UNCHANGED tokens

(* INSERT: the unique index on email refuses a second row. *)
Create(e, p) ==
    /\ users[e] = None
    /\ users' = [users EXCEPT ![e] = p]
    /\ UNCHANGED tokens

PasswordMatches(e, p) == FindByEmail(e) # None /\ FindByEmail(e) = p

SignToken(e) ==
    /\ tokens' = [tokens EXCEPT ![e] = jwtExpiry]
    /\ UNCHANGED users

ValidateToken(t) == t # None /\ tokens[t] > 0

TokensAge ==
    /\ \E e \in Emails : tokens[e] > 0
    /\ tokens' = [e \in Emails |-> IF tokens[e] = 0 THEN 0 ELSE tokens[e] - 1]
    /\ UNCHANGED users
=============================================================================
