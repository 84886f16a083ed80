----------------------------- MODULE MCServices -----------------------------
(* Model values and a small instance of each of the services. *)
EXTENDS Services, TLC

CONSTANTS w1, w2, s1, s2, e1, e2, h1, h2, h3, n1, n2, t1, t2, u1, u2, r1, r2

TwoHandlers == {w1, w2}
TwoStamps == {t1, t2}
TwoSites == {s1, s2}
ThreeHosts == {h1, h2, h3}
TwoServers == {n1, n2}
TwoEmails == {e1, e2}
TwoUpstreams == {u1, u2}
TwoRuns == {r1, r2}
OneOrTwo == {1, 2}
ThreeLists == {e1 :> "owner", e1 :> "editor", e1 :> "editor" @@ e2 :> "owner"}

Symmetry == Permutations(TwoHandlers) \cup Permutations(TwoSites) \cup Permutations(ThreeHosts)
            \cup Permutations(TwoServers) \cup Permutations(TwoRuns)
=============================================================================
