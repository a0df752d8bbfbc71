------------------------------ MODULE MCJobLog ------------------------------
(* Model-checking instances of JobLog.                                     *)
EXTENDS JobLog
=============================================================================
