--------------------------- MODULE MCThemeBinding ---------------------------
(* Model values and small instances of ThemeBinding. *)
EXTENDS ThemeBinding, TLC

CONSTANTS d1, d2, d3, a1, a2, a3, task, console

ThreeDeps == {d1, d2, d3}
TheUuids == {a1, a2, a3}
TaskAndConsole == {task, console}
=============================================================================
