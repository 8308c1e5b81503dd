------------------------------ MODULE MCLogger ------------------------------
(* Model-checking instance of Logger.  Nothing need happen when all lines  *)
(* are logged, so that logger.cfg does not check for deadlock.             *)
EXTENDS Logger

\* Lines that fit, and a line longer than the limit.
Lengths == {1, MaxFileSize + 1}
=============================================================================
