--------------------------- MODULE MCTestHarness ---------------------------
(* Small instances of TestHarness for TLC.                                 *)
EXTENDS TestHarness

T(payload, times) == [payload |-> payload, times |-> times]

(* Two suites; a test that expects nothing; a suite without tests.         *)
MCPlans == { << <<T("a", 1), T("b", 2)>>, <<T("a", 1)>> >>,
             << <<T("a", 0), T("a", 1)>> >>,
             << <<T("b", 1)>>, <<>> >> }
=============================================================================
