----------------------------- MODULE APIKeyCache -----------------------------
(***************************************************************************)
(* One API key: its row in the database and the copy of it that Validate   *)
(* of internal/service keeps in Redis for five minutes.  Validate and the  *)
(* administrator's Update and Delete are several commands each, to two     *)
(* stores, with no lock around them.  Update and Delete clear the copy     *)
(* first and then write the row.  Of the row only the tier and is_active   *)
(* matter; UpdateLastUsed writes another column and is left out.           *)
(***************************************************************************)
EXTENDS Naturals

CONSTANTS
    Validators,   \* requests that carry the key
    Admins,       \* administrators' requests
    Tiers,
    TTL           \* how long a copy is kept, in clock units

ASSUME CacheAssumption == TTL \in Nat \ {0}

Rows == [tier : Tiers, active : BOOLEAN]

(* An absent row (before Create, after Delete), and a missing copy.  A copy   *)
(* cleared by invalidateCache is the empty string, and has no expiry.         *)
Absent == [absent |-> TRUE]
Missing == [missing |-> TRUE]
Cleared == [cleared |-> TRUE]

VARIABLES
    row,
    created,     \* Create has returned the key
    cache,
    ttl,         \* what is left of the copy's time, 0 without an expiry
    pc, held,    \* each Validate: its place and the row it has read
    admin,       \* each administrator's request: its place,
    wanted,      \*   the fields to set ({} means Delete)
    clears       \*   and the invalidateCache calls to come

rowVars == <<row, created>>
cacheVars == <<cache, ttl>>
validateVars == <<pc, held>>
adminVars == <<admin, wanted, clears>>
vars == <<rowVars, cacheVars, validateVars, adminVars>>

Init ==
    /\ row = Absent
    /\ created = FALSE
    /\ cache = Missing
    /\ ttl = 0
    /\ pc = [v \in Validators |-> "idle"]
    /\ held = [v \in Validators |-> Absent]
    /\ admin = [a \in Admins |-> "idle"]
    /\ wanted = [a \in Admins |-> {}]
    /\ clears = [a \in Admins |-> 0]

(* Keys are random, so a key is created once. *)
Create ==
    /\ ~created
    /\ created' = TRUE
    /\ \E t \in Tiers : row' = [tier |-> t, active |-> TRUE]
    /\ UNCHANGED <<cacheVars, validateVars, adminVars>>

-----------------------------------------------------------------------------
(* Validate *)

Finish(v) ==
    /\ pc' = [pc EXCEPT ![v] = "idle"]
    /\ held' = [held EXCEPT ![v] = Absent]

(* Fault: a hit gives the copy another five minutes. *)
HitRenewing(v) ==
    /\ created
    /\ pc[v] = "idle"
    /\ cache \in Rows
    /\ ttl' = TTL
    /\ UNCHANGED <<rowVars, cache, validateVars, adminVars>>

Hit(v) ==
    /\ created
    /\ pc[v] = "idle"
    /\ cache \in Rows
    /\ UNCHANGED vars

(* The copy is missing or cleared, or Redis fails. *)
Miss(v) ==
    /\ created
    /\ pc[v] = "idle"
    /\ pc' = [pc EXCEPT ![v] = "query"]
    /\ UNCHANGED <<rowVars, cacheVars, held, adminVars>>

(* Fault: is_active is not part of the query. *)
FindByHashAny(v) ==
    /\ pc[v] = "query"
    /\ \/ /\ row \in Rows
          /\ held' = [held EXCEPT ![v] = row]
          /\ pc' = [pc EXCEPT ![v] = "fill"]
       \/ Finish(v)
    /\ UNCHANGED <<rowVars, cacheVars, adminVars>>

(* Only an active row is found; otherwise, and on an error, a 401. *)
FindByHash(v) ==
    /\ pc[v] = "query"
    /\ \/ /\ row \in Rows
          /\ row.active
          /\ held' = [held EXCEPT ![v] = row]
          /\ pc' = [pc EXCEPT ![v] = "fill"]
       \/ Finish(v)
    /\ UNCHANGED <<rowVars, cacheVars, adminVars>>

(* The result of Set is not looked at. *)
Fill(v) ==
    /\ pc[v] = "fill"
    /\ \/ cache' = held[v] /\ ttl' = TTL
       \/ UNCHANGED cacheVars
    /\ Finish(v)
    /\ UNCHANGED <<rowVars, adminVars>>

-----------------------------------------------------------------------------
(* Update and Delete *)

(* The handler turns down an update without fields.  invalidateCache is       *)
(* called once for tier and once for is_active.                               *)
StartUpdate(a) ==
    /\ created
    /\ admin[a] = "idle"
    /\ \E fields \in SUBSET {"tier", "active"} \ {{}} :
        /\ wanted' = [wanted EXCEPT ![a] = fields]
        /\ clears' = [clears EXCEPT ![a] = IF fields = {"tier", "active"} THEN 2 ELSE 1]
    /\ admin' = [admin EXCEPT ![a] = "find"]
    /\ UNCHANGED <<rowVars, cacheVars, validateVars>>

StartDelete(a) ==
    /\ created
    /\ admin[a] = "idle"
    /\ wanted' = [wanted EXCEPT ![a] = {}]
    /\ clears' = [clears EXCEPT ![a] = 1]
    /\ admin' = [admin EXCEPT ![a] = "find"]
    /\ UNCHANGED <<rowVars, cacheVars, validateVars>>

ClearDone(a) ==
    /\ clears' = [clears EXCEPT ![a] = @ - 1]
    /\ admin' = [admin EXCEPT ![a] = IF clears[a] > 1 THEN "find" ELSE "write"]

(* invalidateCache looks the hash up by id; without a row, or on an error, it *)
(* gives up and the update goes on.                                           *)
FindByID(a) ==
    /\ admin[a] = "find"
    /\ \/ row # Absent /\ admin' = [admin EXCEPT ![a] = "clear"] /\ UNCHANGED clears
       \/ ClearDone(a)
    /\ UNCHANGED <<rowVars, cacheVars, validateVars, wanted>>

Clear(a) ==
    /\ admin[a] = "clear"
    /\ \/ cache' = Cleared /\ ttl' = 0
       \/ UNCHANGED cacheVars
    /\ ClearDone(a)
    /\ UNCHANGED <<rowVars, validateVars, wanted>>

(* The row is written, unless it is gone or the database fails. *)
Write(a) ==
    /\ admin[a] = "write"
    /\ \/ UNCHANGED row
       \/ wanted[a] = {} /\ row' = Absent
       \/ /\ wanted[a] # {}
          /\ row \in Rows
          /\ row' \in {new \in Rows :
                /\ "tier" \notin wanted[a] => new.tier = row.tier
                /\ "active" \notin wanted[a] => new.active = row.active}
    /\ admin' = [admin EXCEPT ![a] = "idle"]
    /\ wanted' = [wanted EXCEPT ![a] = {}]
    /\ UNCHANGED <<created, cacheVars, validateVars, clears>>

(* Time passes and Redis drops the copy when its time is up. *)
Tick ==
    /\ ttl > 0
    /\ ttl' = ttl - 1
    /\ cache' = IF ttl = 1 THEN Missing ELSE cache
    /\ UNCHANGED <<rowVars, validateVars, adminVars>>

Validate(v) == Hit(v) \/ Miss(v) \/ FindByHash(v) \/ Fill(v)
Administer(a) == StartUpdate(a) \/ StartDelete(a) \/ FindByID(a) \/ Clear(a) \/ Write(a)

Next ==
    \/ Create
    \/ \E v \in Validators : Validate(v)
    \/ \E a \in Admins : Administer(a)
    \/ Tick

Spec == Init /\ [][Next]_vars

(* Time passes and every command to either store ends. *)
FairSpec ==
    /\ Spec
    /\ WF_vars(Tick)
    /\ \A v \in Validators : WF_vars(FindByHash(v) \/ Fill(v))

-----------------------------------------------------------------------------
(* Type invariant.  Only active rows are ever copied or held, so a hit needs  *)
(* no check of is_active, and every copy has an expiry.                       *)
TypeOK ==
    /\ row \in Rows \cup {Absent}
    /\ created \in BOOLEAN
    /\ cache \in {Missing, Cleared} \cup {c \in Rows : c.active}
    /\ ttl \in 0..TTL
    /\ ttl > 0 <=> cache \in Rows
    /\ pc \in [Validators -> {"idle", "query", "fill"}]
    /\ held \in [Validators -> {Absent} \cup {c \in Rows : c.active}]
    /\ admin \in [Admins -> {"idle", "find", "clear", "write"}]
    /\ wanted \in [Admins -> SUBSET {"tier", "active"}]
    /\ clears \in [Admins -> 0..2]

Agrees == cache \in Rows => cache = row

(* Once the row is no longer written, the copy that Validate answers from     *)
(* agrees with it for good: failed and badly timed invalidations, and slow    *)
(* validations that put an old row back, cost at most one life of the copy.   *)
CopyConverges ==
    <>[][row' = row]_vars => <>[]Agrees
=============================================================================
