---------------------------- MODULE MCTestRunner ----------------------------
(* Small instances of TestRunner for TLC.                                  *)
EXTENDS TestRunner

CONSTANTS suite1, suite2, example1, example2, w1, w2

MCJobs == <<suite1, suite2, example1, example2>>
=============================================================================
