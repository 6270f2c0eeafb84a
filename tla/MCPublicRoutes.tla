--------------------------- MODULE MCPublicRoutes ---------------------------
(* Small instances of PublicRoutes. *)
EXTENDS PublicRoutes, TLC

RouteSymmetry ==
    Permutations(Project) \cup Permutations(Hostname) \cup Permutations(Worker)
=============================================================================
