---------------------------- MODULE MCAPIKeyCache ----------------------------
(* Remembers whether Redis has failed to store or to clear the copy. *)
EXTENDS APIKeyCache

VARIABLE failed

MCVars == <<vars, failed>>
MCInit == Init /\ failed = FALSE

ClearFails(a) ==
    \/ admin[a] = "clear" /\ cache' # Cleared
    \/ admin[a] = "find" /\ row # Absent /\ admin'[a] # "clear"

MCNext == Next /\ failed' = (failed \/ \E a \in Admins : ClearFails(a) /\ admin'[a] # admin[a])

MCSpec == MCInit /\ [][MCNext]_MCVars

(* "Invalidate cache if tier or is_active is updated": when no administrator  *)
(* is at work and none of their commands failed, no outdated copy is left.    *)
UpdateInvalidates ==
    ~failed /\ (\A a \in Admins : admin[a] = "idle") => Agrees
=============================================================================
