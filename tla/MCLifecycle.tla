----------------------------- MODULE MCLifecycle -----------------------------
(* Two services with paths of their own, with one path, or of which one makes
   no proxy; and configurations that are turned down. *)
EXTENDS Lifecycle

Config(services) == [complete |-> TRUE, routable |-> TRUE, services |-> services]
Svc(path, targets, builds) == [path |-> path, targets |-> targets, builds |-> builds]

MCConfigs ==
    {Config(<<Svc("/users", 2, TRUE), Svc(p, n, b)>>) :
        p \in {"/users", "/orders", ""}, n \in 0..1, b \in BOOLEAN}
    \cup {Config(<<>>),
          [Config(<<Svc("/users", 1, TRUE)>>) EXCEPT !.complete = FALSE],
          [Config(<<Svc("/admin", 1, TRUE)>>) EXCEPT !.routable = FALSE]}
=============================================================================
