----------------------- MODULE MCLauncherPreparation -----------------------
(* Bounds for model-checking LauncherPreparation. *)
EXTENDS LauncherPreparation

CONSTANTS ble, button

\* The firmware has exactly these two calling threads.
MCCallers == {ble, button}
============================================================================
