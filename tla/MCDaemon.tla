------------------------------ MODULE MCDaemon ------------------------------
(***************************************************************************)
(* The daemon for TLC.  Two attempts to start it and two process ids: one  *)
(* attempt can meet the other at every point of its life, find the pidfile *)
(* of one that was killed, and get, or see an unrelated process get, the   *)
(* process id that a stale pidfile names.                                  *)
(***************************************************************************)
EXTENDS Daemon

(* The pidfile guards, and the launcher is told the truth.                 *)
AsDesigned ==
  [haveOnExit |-> TRUE, endings |-> {"exit"},
   relative |-> FALSE, serial |-> TRUE, writeMayFail |-> FALSE]

(* The default build, started at any time, on a machine where all fails.   *)
AsBuilt ==
  [haveOnExit |-> FALSE, endings |-> {"exit", "return"},
   relative |-> FALSE, serial |-> FALSE, writeMayFail |-> TRUE]

BothConditions == {AsDesigned, AsBuilt}
OnlyBuilt == {AsBuilt}
=============================================================================
