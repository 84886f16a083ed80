---------------------------- MODULE MCDeployment ----------------------------
(* Model values and small instances of Deployment. *)
EXTENDS Deployment, TLC

CONSTANTS d1, d2, d3, t1, t2, h1, h2, c1, c2, task

TwoDeps == {d1, d2}
ThreeDeps == {d1, d2, d3}
OneTheme == {t1}
TwoThemes == {t1, t2}
OneDomain == {h1}
TwoDomains == {h1, h2}
NoConsole == {}
OneConsole == {c1}
Symmetry == Permutations({d1, d2, d3}) \cup Permutations({c1, c2})
=============================================================================
