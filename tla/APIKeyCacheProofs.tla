-------------------------- MODULE APIKeyCacheProofs --------------------------
(***************************************************************************)
(* The cached copy of an API key, for any number of validations and        *)
(* administrators' requests: Validate copies active rows only, so a hit    *)
(* needs no check of is_active, and a copy never lives without an expiry.  *)
(***************************************************************************)
EXTENDS APIKeyCache, TLAPS

ActiveRows == {c \in Rows : c.active}

(* A validation about to fill the cache has read a row; invalidateCache is    *)
(* still to be called as often as the administrator's request counts.         *)
FillHoldsRow == \A v \in Validators : pc[v] = "fill" => held[v] \in ActiveRows

ClearsToCome == \A a \in Admins : admin[a] \in {"find", "clear"} => clears[a] \in 1..2

Inv == TypeOK /\ FillHoldsRow /\ ClearsToCome

(* Neither a missing nor a cleared copy, nor an absent row, is a row. *)
LEMMA NotRows == Absent \notin Rows /\ Missing \notin Rows /\ Cleared \notin Rows
<1>1. \A c \in Rows : DOMAIN c = {"tier", "active"}
  BY DEF Rows
<1>2. DOMAIN Absent = {"absent"} /\ DOMAIN Missing = {"missing"} /\ DOMAIN Cleared = {"cleared"}
  BY DEF Absent, Missing, Cleared
<1>3. QED
  BY <1>1, <1>2

(* Before Create there is nothing. *)
LEMMA InitInv == Init => Inv
<1> SUFFICES ASSUME Init PROVE Inv
  OBVIOUS
<1>1. created \in BOOLEAN
  BY Zenon DEF Init
<1>2. TypeOK
  BY <1>1, NotRows, CacheAssumption DEF Init, TypeOK
<1>3. QED
  BY <1>2 DEF Init, Inv, FillHoldsRow, ClearsToCome

(* The part of the invariant about the row and the copy. *)
LEMMA CacheNext ==
    ASSUME Inv, Next
    PROVE  /\ row' \in Rows \cup {Absent}
           /\ cache' \in {Missing, Cleared} \cup ActiveRows
           /\ ttl' \in 0..TTL
           /\ ttl' > 0 <=> cache' \in Rows
<1>1. /\ row \in Rows \cup {Absent} /\ TTL \in Nat \ {0} /\ ttl \in 0..TTL
      /\ cache \in {Missing, Cleared} \cup ActiveRows
      /\ ttl > 0 <=> cache \in Rows
  BY CacheAssumption DEF Inv, TypeOK, ActiveRows
<1>2. CASE Create
  BY <1>1, <1>2 DEF Create, Rows, cacheVars
<1>3. ASSUME NEW v \in Validators, Fill(v)
      PROVE  /\ cache' \in {Missing, Cleared} \cup ActiveRows
             /\ ttl' \in 0..TTL /\ (ttl' > 0 <=> cache' \in Rows) /\ row' = row
  BY <1>1, <1>3 DEF Inv, FillHoldsRow, ActiveRows, Fill, cacheVars, rowVars
<1>4. ASSUME NEW a \in Admins, Clear(a)
      PROVE  /\ cache' \in {Missing, Cleared} \cup ActiveRows
             /\ ttl' \in 0..TTL /\ (ttl' > 0 <=> cache' \in Rows) /\ row' = row
  BY <1>1, <1>4, NotRows DEF Clear, cacheVars, rowVars
<1>5. ASSUME NEW a \in Admins, Write(a)
      PROVE  row' \in Rows \cup {Absent} /\ UNCHANGED cacheVars
  BY <1>1, <1>5 DEF Write
<1>6. CASE Tick
  BY <1>1, <1>6, NotRows DEF Tick, rowVars
<1>7. ASSUME NEW v \in Validators, Hit(v) \/ Miss(v) \/ FindByHash(v)
      PROVE  UNCHANGED <<row, cacheVars>>
  BY <1>7 DEF Hit, Miss, FindByHash, vars, rowVars
<1>8. ASSUME NEW a \in Admins, StartUpdate(a) \/ StartDelete(a) \/ FindByID(a)
      PROVE  UNCHANGED <<row, cacheVars>>
  BY <1>8 DEF StartUpdate, StartDelete, FindByID, rowVars
<1>9. QED
  BY <1>1, <1>2, <1>3, <1>4, <1>5, <1>6, <1>7, <1>8 DEF Next, Validate, Administer, cacheVars

(* The part about the validations. *)
LEMMA ValidateNext ==
    ASSUME Inv, Next
    PROVE  /\ pc' \in [Validators -> {"idle", "query", "fill"}]
           /\ held' \in [Validators -> {Absent} \cup ActiveRows]
           /\ FillHoldsRow'
<1>1. /\ pc \in [Validators -> {"idle", "query", "fill"}]
      /\ held \in [Validators -> {Absent} \cup ActiveRows]
      /\ FillHoldsRow
  BY DEF Inv, TypeOK, ActiveRows
<1>2. CASE UNCHANGED validateVars
  BY <1>1, <1>2 DEF validateVars, FillHoldsRow
<1>3. ASSUME NEW v \in Validators, Miss(v)
      PROVE  /\ pc' = [pc EXCEPT ![v] = "query"] /\ held' = held
  BY <1>3 DEF Miss
<1>4. ASSUME NEW v \in Validators, FindByHash(v) \/ Fill(v)
      PROVE  \/ \E c \in ActiveRows : /\ held' = [held EXCEPT ![v] = c]
                                      /\ pc' = [pc EXCEPT ![v] = "fill"]
             \/ Finish(v)
  BY <1>4 DEF FindByHash, Fill, ActiveRows
<1>5. ASSUME NEW v \in Validators, Hit(v)
      PROVE  UNCHANGED validateVars
  BY <1>5 DEF Hit, vars, validateVars
<1>6. CASE Create \/ Tick \/ \E a \in Admins : Administer(a)
  <2>1. UNCHANGED validateVars
    BY <1>6 DEF Create, Tick, Administer, StartUpdate, StartDelete, FindByID, Clear, Write
  <2>2. QED
    BY <1>2, <2>1
<1>7. ASSUME NEW v \in Validators, Validate(v)
      PROVE  /\ pc' \in [Validators -> {"idle", "query", "fill"}]
             /\ held' \in [Validators -> {Absent} \cup ActiveRows]
             /\ FillHoldsRow'
  BY <1>1, <1>2, <1>3, <1>4, <1>5, <1>7 DEF Validate, Finish, FillHoldsRow
<1>8. QED
  BY <1>6, <1>7 DEF Next

(* The part about the administrators' requests. *)
LEMMA AdminNext ==
    ASSUME Inv, Next
    PROVE  /\ admin' \in [Admins -> {"idle", "find", "clear", "write"}]
           /\ wanted' \in [Admins -> SUBSET {"tier", "active"}]
           /\ clears' \in [Admins -> 0..2]
           /\ ClearsToCome'
<1> DEFINE Typed == /\ admin \in [Admins -> {"idle", "find", "clear", "write"}]
                    /\ wanted \in [Admins -> SUBSET {"tier", "active"}]
                    /\ clears \in [Admins -> 0..2]
                    /\ ClearsToCome
<1>1. Typed
  BY DEF Inv, TypeOK
<1>2. CASE UNCHANGED adminVars
  BY <1>1, <1>2 DEF adminVars, ClearsToCome
<1>3. ASSUME NEW a \in Admins, StartUpdate(a) \/ StartDelete(a) PROVE Typed'
  <2>1. PICK fields \in SUBSET {"tier", "active"}, n \in 1..2 :
          /\ wanted' = [wanted EXCEPT ![a] = fields]
          /\ clears' = [clears EXCEPT ![a] = n]
          /\ admin' = [admin EXCEPT ![a] = "find"]
    <3>1. CASE StartDelete(a)
      <4>1. {} \in SUBSET {"tier", "active"} /\ 1 \in 1..2
        OBVIOUS
      <4>2. QED
        BY <3>1, <4>1, Zenon DEF StartDelete
    <3>2. CASE StartUpdate(a)
      <4>1. PICK fields \in SUBSET {"tier", "active"} :
              /\ wanted' = [wanted EXCEPT ![a] = fields]
              /\ clears' = [clears EXCEPT ![a] = IF fields = {"tier", "active"} THEN 2 ELSE 1]
        BY <3>2 DEF StartUpdate
      <4>2. (IF fields = {"tier", "active"} THEN 2 ELSE 1) \in 1..2
        OBVIOUS
      <4>3. QED
        BY <3>2, <4>1, <4>2, Zenon DEF StartUpdate
    <3>3. QED
      BY <1>3, <3>1, <3>2
  <2>2. QED
    BY <1>1, <2>1 DEF ClearsToCome
<1>4. ASSUME NEW a \in Admins, admin[a] \in {"find", "clear"}, ClearDone(a), UNCHANGED wanted
      PROVE  Typed'
  BY <1>1, <1>4 DEF ClearDone, ClearsToCome
<1>5. ASSUME NEW a \in Admins, FindByID(a) \/ Clear(a) PROVE Typed'
  <2>1. CASE ClearDone(a)
    BY <1>4, <1>5, <2>1 DEF FindByID, Clear
  <2>2. CASE admin' = [admin EXCEPT ![a] = "clear"] /\ UNCHANGED <<clears, wanted>> /\ admin[a] = "find"
    BY <1>1, <2>2 DEF ClearsToCome
  <2>3. QED
    BY <1>5, <2>1, <2>2 DEF FindByID, Clear
<1>6. ASSUME NEW a \in Admins, Write(a) PROVE Typed'
  BY <1>1, <1>6 DEF Write, ClearsToCome
<1>7. CASE Create \/ Tick \/ \E v \in Validators : Validate(v)
  <2>1. UNCHANGED adminVars
    BY <1>7 DEF Create, Tick, Validate, Hit, Miss, FindByHash, Fill, vars
  <2>2. QED
    BY <1>2, <2>1
<1>8. QED
  BY <1>3, <1>5, <1>6, <1>7 DEF Next, Administer

(* Only active rows are ever copied or held, and every copy has an expiry:    *)
(* whatever the order of Validate, Update and Delete and whichever of their   *)
(* commands fail, Validate never answers from the copy of an inactive row.    *)
THEOREM TypeCorrect == Spec => []TypeOK
<1>1. Inv /\ Next => Inv'
  <2> SUFFICES ASSUME Inv, Next PROVE Inv'
    OBVIOUS
  <2>1. created' \in BOOLEAN
    <3>1. created \in BOOLEAN
      BY DEF Inv, TypeOK
    <3>2. created' = TRUE \/ created' = created
      BY DEF Next, Create, Tick, Validate, Hit, Miss, FindByHash, Fill, Administer, StartUpdate,
         StartDelete, FindByID, Clear, Write, vars, rowVars
    <3>3. QED
      BY <3>1, <3>2, Zenon
  <2>2. TypeOK'
    BY <2>1, CacheNext, ValidateNext, AdminNext DEF TypeOK, ActiveRows
  <2>3. QED
    BY <2>2, ValidateNext, AdminNext DEF Inv
<1>2. Inv /\ UNCHANGED vars => Inv'
  BY DEF Inv, TypeOK, FillHoldsRow, ClearsToCome, vars, rowVars, cacheVars, validateVars, adminVars
<1>3. Inv => TypeOK
  BY DEF Inv
<1>4. QED
  BY <1>1, <1>2, <1>3, InitInv, PTL DEF Spec
=============================================================================
