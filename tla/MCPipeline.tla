----------------------------- MODULE MCPipeline ------------------------------
(* Two requests at a time, one email and two passwords: enough for two
   registrations of one account, for a login between them, and for a token that
   expires while a request that holds it is on its way. *)
EXTENDS Pipeline, TLC

In(route, key, token, body) ==
    [route |-> route, options |-> FALSE, key |-> key, token |-> token, body |-> body]

Body(p) == [email |-> CHOOSE e \in Emails : TRUE, password |-> p]

MCInputs ==
    {In(rt, "absent", None, b) : rt \in {"register", "login"},
                                 b \in {None} \cup {Body(p) : p \in Passwords}}
    \cup {In("admin", "absent", t, None) : t \in Emails \cup {None}}
    \cup {In("proxy", k, None, None) : k \in {"absent", "valid", "invalid"}}
    \cup {In(rt, "absent", None, None) : rt \in {"health", "me", "none", "slash"}}
    \cup {[In(rt, "valid", None, None) EXCEPT !.options = TRUE] : rt \in {"proxy", "slash"}}

Symmetry == Permutations(Requests) \cup Permutations(Passwords)
=============================================================================
