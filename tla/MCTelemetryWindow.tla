------------------------- MODULE MCTelemetryWindow -------------------------
(* Threads for model checking TelemetryWindow.                              *)
EXTENDS TelemetryWindow

CONSTANTS t1, t2

NoThreads == {}
OneThread == {t1}
TwoThreads == {t1, t2}
=============================================================================
