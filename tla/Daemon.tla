------------------------------- MODULE Daemon -------------------------------
(***************************************************************************)
(* DaemonImpl on Unix (daemon_unix.cc): several attempts to start one      *)
(* program as a daemon, on one machine.  Every attempt is a process that   *)
(* daemonizes: it forks, the parent (the launcher) waits on a pipe for the *)
(* child's status, and the child guards itself with a pidfile, goes to the *)
(* background and runs.  Between any two system calls another process may  *)
(* run, or this one may be killed.                                         *)
(***************************************************************************)
EXTENDS Naturals, FiniteSets

CONSTANTS
  Starts,        \* the attempts to start the program
  Pids,          \* the process ids the children can get
  Conditions     \* the conditions the program can be started under

(* haveOnExit: HAVE_ON_EXIT, exit handlers are given the exit status       *)
(* endings: how the application ends, "exit" or "return" from main         *)
(* relative: the pidfile's name is relative                                *)
(* serial: nobody starts it while it is being started                      *)
(* writeMayFail: opening the pidfile for writing can fail                  *)
Condition ==
  [haveOnExit : BOOLEAN, endings : SUBSET {"exit", "return"},
   relative : BOOLEAN, serial : BOOLEAN, writeMayFail : BOOLEAN]

ASSUME DaemonAssumption ==
  /\ Conditions \subseteq Condition
  /\ Pids \cap {"absent", "empty"} = {}

VARIABLES
  cond,        \* the condition
  stage,          \* the statement a daemon process is at
  pid,         \* its process id
  cwd,         \* its working directory
  pidFromFile, \* what it read from the pidfile
  havePidfile, haveParent,
  linked,      \* the pidfile it opened still is the one of that name
  status,      \* what shutdown() was given
  pipe,        \* the status in the pipe to the launcher
  launcher,    \* state of the launcher, "none" if there is none
  file,        \* content of the pidfile, in each directory
  foreign,     \* pids of processes that have nothing to do with the program
  ok, ended    \* history: startup completed, application ended by itself
               \* with status 0

procVars == <<pid, cwd, pidFromFile, havePidfile, haveParent, linked>>
sysVars == <<pipe, launcher, file, foreign>>
daemonVars == <<cond, stage, procVars, status, sysVars, ok, ended>>

Dirs == {"run", "root"}
Startup == {"check", "probe", "write", "fill", "chdir", "redirect", "starting"}
Up == {"chdir", "redirect", "starting", "devnull", "running"}
Down == {"unlink", "notify"}
Alive(s) == stage[s] \in Startup \cup Up \cup Down

Running(p) == p \in foreign \/ \E s \in Starts : Alive(s) /\ pid[s] = p

(* Where the pidfile's name leads the process now.                         *)
Place(s) == IF cond.relative THEN cwd[s] ELSE "run"

Goto(s, label) == stage' = [stage EXCEPT ![s] = label]

-----------------------------------------------------------------------------
DaemonInit ==
  /\ cond \in Conditions
  /\ stage = [s \in Starts |-> "new"]
  /\ pid \in [Starts -> {CHOOSE p \in Pids : TRUE}]
  /\ cwd \in [Starts -> IF cond.relative THEN Dirs ELSE {"run"}]
  /\ pidFromFile = [s \in Starts |-> "empty"]
  /\ havePidfile = [s \in Starts |-> FALSE]
  /\ haveParent = [s \in Starts |-> FALSE]
  /\ linked = [s \in Starts |-> FALSE]
  /\ status = [s \in Starts |-> "none"]
  /\ pipe = [s \in Starts |-> "none"]
  /\ launcher = [s \in Starts |-> "none"]
  /\ file = [d \in Dirs |-> "absent"]
  /\ foreign = {}
  /\ ok = [s \in Starts |-> FALSE]
  /\ ended = [s \in Starts |-> FALSE]

(* The program is started and daemonize() called; unless it is to stay in  *)
(* the foreground it forks, and the launcher goes on to read the pipe.     *)
Launch(s) ==
  /\ stage[s] = "new"
  /\ cond.serial =>
       \A t \in Starts : stage[t] \notin {"check", "probe", "write", "fill"}
  /\ \E p \in Pids : ~Running(p) /\ pid' = [pid EXCEPT ![s] = p]
  /\ Goto(s, "check")
  /\ \E foreground \in BOOLEAN :
       /\ haveParent' = [haveParent EXCEPT ![s] = ~foreground]
       /\ launcher' = [launcher EXCEPT ![s] =
                         IF foreground THEN "none" ELSE "waiting"]
  /\ UNCHANGED <<cwd, pidFromFile, havePidfile, linked, status, pipe, file,
                 foreign, ok, ended>>

(* pipe() or fork() fails in the launcher.                                 *)
ForkFails(s) ==
  /\ stage[s] = "new"
  /\ Goto(s, "gone")
  /\ launcher' = [launcher EXCEPT ![s] = "bad"]
  /\ UNCHANGED <<procVars, status, pipe, file, foreign, ok, ended>>

(* Wrong variant: the exit handler always reports success.                 *)
Told_AlwaysOk(how, st) == "ok"

(* What shutdown() is given when the process ends with status st: ~Daemon, *)
(* which runs when main returns, and atexit's handler know nothing of st.  *)
Told(how, st) == IF cond.haveOnExit /\ how = "exit" THEN st ELSE "ok"

(* ::exit(-1) in DaemonImpl.                                               *)
Quit(s) ==
  /\ Goto(s, "unlink")
  /\ status' = [status EXCEPT ![s] = Told("exit", "bad")]

-----------------------------------------------------------------------------
(* checkPidfileOrShutdown                                                  *)

ReadPidfile(s) ==
  /\ stage[s] = "check"
  /\ pidFromFile' = [pidFromFile EXCEPT ![s] =
       IF file[Place(s)] = "absent" THEN "empty" ELSE file[Place(s)]]
  /\ Goto(s, IF pidFromFile'[s] = "empty" THEN "write" ELSE "probe")
  /\ UNCHANGED <<pid, cwd, havePidfile, haveParent, linked, status, sysVars,
                 ok, ended>>

(* Wrong variant: a running process does not stop the second one.          *)
ProbePid_NoExit(s) ==
  /\ stage[s] = "probe"
  /\ Goto(s, "write")
  /\ UNCHANGED <<procVars, status, sysVars, ok, ended>>

(* kill(pidFromFile, 0): a process of another user counts as well.         *)
ProbePid(s) ==
  /\ stage[s] = "probe"
  /\ \/ Running(pidFromFile[s]) /\ Quit(s)
     \/ ~Running(pidFromFile[s]) /\ Goto(s, "write") /\ UNCHANGED status
  /\ UNCHANGED <<procVars, sysVars, ok, ended>>

-----------------------------------------------------------------------------
(* writePidfile                                                            *)

OpenPidfile(s) ==
  /\ stage[s] = "write"
  /\ Goto(s, "fill")
  /\ file' = [file EXCEPT ![Place(s)] = "empty"]
  /\ linked' = [linked EXCEPT ![s] = TRUE]
  /\ UNCHANGED <<pid, cwd, pidFromFile, havePidfile, haveParent, status,
                 pipe, launcher, foreign, ok, ended>>

(* An ofstream that cannot be opened throws nothing.                       *)
OpenPidfileFails(s) ==
  /\ stage[s] = "write" /\ cond.writeMayFail
  /\ Goto(s, "chdir")
  /\ havePidfile' = [havePidfile EXCEPT ![s] = TRUE]
  /\ UNCHANGED <<pid, cwd, pidFromFile, haveParent, linked, status, sysVars,
                 ok, ended>>

FillPidfile(s) ==
  /\ stage[s] = "fill"
  /\ Goto(s, "chdir")
  /\ file' = IF linked[s] THEN [file EXCEPT ![Place(s)] = pid[s]] ELSE file
  /\ havePidfile' = [havePidfile EXCEPT ![s] = TRUE]
  /\ UNCHANGED <<pid, cwd, pidFromFile, haveParent, linked, status, pipe,
                 launcher, foreign, ok, ended>>

-----------------------------------------------------------------------------
(* The rest of daemonize, runningOk and the application.                   *)

Chdir(s) ==
  /\ stage[s] = "chdir"
  /\ Goto(s, "redirect")
  /\ cwd' = [cwd EXCEPT ![s] = IF cond.relative THEN "root" ELSE "run"]
  /\ UNCHANGED <<pid, pidFromFile, havePidfile, haveParent, linked, status,
                 sysVars, ok, ended>>

(* redirectStreamsTo(_tracefile), or syslog instead.                       *)
Redirect(s) ==
  /\ stage[s] = "redirect"
  /\ Goto(s, "starting")
  /\ UNCHANGED <<procVars, status, sysVars, ok, ended>>

(* setsid, stat, chdir or opening a stream fails.                          *)
SetupFails(s) ==
  /\ stage[s] \in {"check", "chdir", "redirect", "devnull"}
  /\ Quit(s)
  /\ UNCHANGED <<procVars, sysVars, ok, ended>>

(* notifyParent: SIGPIPE ends the process when the launcher is gone.       *)
Notify(s, st, next) ==
  \/ ~haveParent[s] /\ Goto(s, next) /\ UNCHANGED <<haveParent, pipe>>
  \/ /\ haveParent[s]
     /\ haveParent' = [haveParent EXCEPT ![s] = FALSE]
     /\ \/ launcher[s] = "waiting" /\ Goto(s, next)
             /\ pipe' = [pipe EXCEPT ![s] = st]
        \/ launcher[s] # "waiting" /\ Goto(s, "gone") /\ UNCHANGED pipe

RunningOk(s) ==
  /\ stage[s] = "starting"
  /\ Notify(s, "ok", "devnull")
  /\ ok' = [ok EXCEPT ![s] = TRUE]
  /\ UNCHANGED <<pid, cwd, pidFromFile, havePidfile, linked, status,
                 launcher, file, foreign, ended>>

(* The last statement of runningOk: streams go to /dev/null under syslog.  *)
DevNull(s) ==
  /\ stage[s] = "devnull"
  /\ Goto(s, "running")
  /\ UNCHANGED <<procVars, status, sysVars, ok, ended>>

(* The application ends, during its startup or later.                      *)
AppEnds(s) ==
  /\ stage[s] \in {"starting", "running"}
  /\ Goto(s, "unlink")
  /\ \E how \in cond.endings, st \in {"ok", "bad"} :
       /\ status' = [status EXCEPT ![s] = Told(how, st)]
       /\ ended' = [ended EXCEPT ![s] = st = "ok"]
  /\ UNCHANGED <<procVars, sysVars, ok>>

-----------------------------------------------------------------------------
(* shutdown                                                                *)

(* Wrong variant: the name is removed by whoever ends.                     *)
Unlink_AnyProcess(s) ==
  /\ stage[s] = "unlink"
  /\ Goto(s, "notify")
  /\ file' = [file EXCEPT ![Place(s)] = "absent"]
  /\ havePidfile' = [havePidfile EXCEPT ![s] = FALSE]
  /\ linked' = [t \in Starts |-> linked[t] /\ Place(t) # Place(s)]
  /\ UNCHANGED <<pid, cwd, pidFromFile, haveParent, status, pipe, launcher,
                 foreign, ok, ended>>

(* Wrong variant: the pidfile stays.                                       *)
Unlink_Skipped(s) ==
  /\ stage[s] = "unlink"
  /\ Goto(s, "notify")
  /\ havePidfile' = [havePidfile EXCEPT ![s] = FALSE]
  /\ UNCHANGED <<pid, cwd, pidFromFile, haveParent, linked, status, sysVars,
                 ok, ended>>

Unlink(s) ==
  /\ stage[s] = "unlink"
  /\ Goto(s, "notify")
  /\ havePidfile' = [havePidfile EXCEPT ![s] = FALSE]
  /\ \/ /\ ~havePidfile[s]
        /\ UNCHANGED <<file, linked, status>>
     \/ /\ havePidfile[s] /\ file[Place(s)] = "absent"
        /\ status' = [status EXCEPT ![s] = "bad"]
        /\ UNCHANGED <<file, linked>>
     \/ /\ havePidfile[s] /\ file[Place(s)] # "absent"
        /\ file' = [file EXCEPT ![Place(s)] = "absent"]
        /\ linked' = [t \in Starts |-> linked[t] /\ Place(t) # Place(s)]
        /\ UNCHANGED status
  /\ UNCHANGED <<pid, cwd, pidFromFile, haveParent, pipe, launcher, foreign,
                 ok, ended>>

NotifyParent(s) ==
  /\ stage[s] = "notify"
  /\ Notify(s, status[s], "gone")
  /\ UNCHANGED <<pid, cwd, pidFromFile, havePidfile, linked, status,
                 launcher, file, foreign, ok, ended>>

-----------------------------------------------------------------------------
(* The launcher and the rest of the machine.                               *)

(* Wrong variant: the launcher keeps its own write end of the pipe open.   *)
WaitForChild_NoEof(s) ==
  /\ launcher[s] = "waiting"
  /\ pipe[s] # "none" /\ launcher' = [launcher EXCEPT ![s] = pipe[s]]
  /\ UNCHANGED <<stage, procVars, status, pipe, file, foreign, ok, ended>>

(* waitForChild: the status in the pipe, or -1 when the pipe is closed     *)
(* with nothing in it.                                                     *)
WaitForChild(s) ==
  /\ launcher[s] = "waiting"
  /\ \/ pipe[s] # "none" /\ launcher' = [launcher EXCEPT ![s] = pipe[s]]
     \/ /\ pipe[s] = "none" /\ ~(Alive(s) /\ haveParent[s])
        /\ launcher' = [launcher EXCEPT ![s] = "bad"]
  /\ UNCHANGED <<stage, procVars, status, pipe, file, foreign, ok, ended>>

(* SIGKILL, to the daemon or to the launcher.                              *)
Kill(s) ==
  /\ Alive(s)
  /\ Goto(s, "gone")
  /\ UNCHANGED <<procVars, status, sysVars, ok, ended>>

KillLauncher(s) ==
  /\ launcher[s] = "waiting"
  /\ launcher' = [launcher EXCEPT ![s] = "killed"]
  /\ UNCHANGED <<stage, procVars, status, pipe, file, foreign, ok, ended>>

(* An unrelated process begins or ends: pids are used again.               *)
Foreign(p) ==
  /\ \/ ~Running(p) /\ foreign' = foreign \cup {p}
     \/ p \in foreign /\ foreign' = foreign \ {p}
  /\ UNCHANGED <<stage, procVars, status, pipe, launcher, file, ok, ended>>

-----------------------------------------------------------------------------
Starting(s) ==
  \/ ReadPidfile(s) \/ ProbePid(s)
  \/ OpenPidfile(s) \/ OpenPidfileFails(s) \/ FillPidfile(s)
  \/ Chdir(s) \/ Redirect(s) \/ SetupFails(s)
  \/ RunningOk(s) \/ DevNull(s)
  \/ stage[s] = "starting" /\ AppEnds(s)

ShuttingDown(s) == Unlink(s) \/ NotifyParent(s)

DaemonNext ==
  /\ \/ \E s \in Starts :
          \/ Launch(s) \/ ForkFails(s)
          \/ Starting(s) \/ ShuttingDown(s)
          \/ stage[s] = "running" /\ AppEnds(s)
          \/ WaitForChild(s)
          \/ Kill(s) \/ KillLauncher(s)
     \/ \E p \in Pids : Foreign(p)
  /\ UNCHANGED cond

DaemonSpec == DaemonInit /\ [][DaemonNext]_daemonVars

(* The scheduler runs every process; the application's startup comes to an *)
(* end, one way or the other.                                              *)
Fairness ==
  \A s \in Starts :
    /\ WF_daemonVars(Starting(s) /\ UNCHANGED cond)
    /\ WF_daemonVars(ShuttingDown(s) /\ UNCHANGED cond)
    /\ WF_daemonVars(WaitForChild(s) /\ UNCHANGED cond)

FairSpec == DaemonSpec /\ Fairness

-----------------------------------------------------------------------------
Labels == {"new", "gone"} \cup Startup \cup Up \cup Down
Statuses == {"none", "ok", "bad"}

DaemonTypeOK ==
  /\ cond \in Conditions
  /\ stage \in [Starts -> Labels]
  /\ pid \in [Starts -> Pids] /\ cwd \in [Starts -> Dirs]
  /\ pidFromFile \in [Starts -> Pids \cup {"empty"}]
  /\ {havePidfile, haveParent, linked, ok, ended} \subseteq [Starts -> BOOLEAN]
  /\ {status, pipe} \subseteq [Starts -> Statuses]
  /\ launcher \in [Starts -> Statuses \cup {"waiting", "killed"}]
  /\ file \in [Dirs -> Pids \cup {"absent", "empty"}]
  /\ foreign \subseteq Pids

(* A launcher that exits with 0 tells the truth: the daemon completed its  *)
(* startup, or the application ended by itself with success; if exit       *)
(* handlers learn the status and main does not return.                     *)
LauncherTellsTruth ==
  cond.haveOnExit /\ cond.endings = {"exit"} =>
    \A s \in Starts : launcher[s] = "ok" => ok[s] \/ ended[s]

(* daemon.h: the status tells that the daemon has started successfully.    *)
StatusTellsSuccess ==
  \A s \in Starts : launcher[s] = "ok" => ok[s] \/ ended[s]

(* When a pidfile can guard at all: one start after the other, all of them *)
(* leading to the same file, which can be written.                         *)
Guarded == cond.serial /\ ~cond.relative /\ ~cond.writeMayFail

(* Never two daemons past the pidfile check and not yet shutting down.     *)
OneDaemon ==
  Guarded => \A s, t \in Starts : stage[s] \in Up /\ stage[t] \in Up => s = t

(* As long as a daemon runs, the pidfile names it, whoever else was        *)
(* started, was turned away, crashed or ended in the meantime.             *)
PidfileNamesDaemon ==
  Guarded => \A s \in Starts : stage[s] \in Up => file["run"] = pid[s]

(* A daemon that was up and ends in an orderly way leaves no pidfile with  *)
(* its process id behind.                                                  *)
CleanExitLeavesNoPidfile ==
  Guarded => \A s \in Starts, d \in Dirs :
    stage[s] = "notify" /\ ok[s] => file[d] # pid[s]

(* A launcher does not wait for ever: the daemon reports or is gone.       *)
LauncherReturns ==
  \A s \in Starts : launcher[s] = "waiting" ~> launcher[s] # "waiting"
=============================================================================
