--------------------------- MODULE ExclusionProofs ---------------------------
(***************************************************************************)
(* Theorems about the two parts that exclude each other from something:    *)
(* daemons, by their pidfile, for any number of starts, process ids and    *)
(* conditions; and threads, by mutexes with levels, for any number of      *)
(* threads, mutexes, levels and lockers, when lockers are objects of       *)
(* nested blocks.                                                          *)
(***************************************************************************)
EXTENDS Daemon, LevelMutex, FiniteSetTheorems, TLAPS

(***************************************************************************)
(* Daemons: the pidfile names the one that is up and goes with it, and     *)
(* launchers are told the truth.                                           *)
(***************************************************************************)

-----------------------------------------------------------------------------
(* The inductive invariant.                                                *)

Critical == {"check", "probe", "write", "fill"}

SomePid == CHOOSE p \in Pids : TRUE

DaemonTypes ==
  /\ cond \in Condition
  /\ stage \in [Starts -> Labels]
  /\ pid \in [Starts -> Pids \cup {SomePid}]
  /\ \A s \in Starts : Alive(s) => pid[s] \in Pids
  /\ cwd \in [Starts -> Dirs]
  /\ pidFromFile \in [Starts -> Pids \cup {"empty"}]
  /\ havePidfile \in [Starts -> BOOLEAN]
  /\ haveParent \in [Starts -> BOOLEAN]
  /\ linked \in [Starts -> BOOLEAN]
  /\ ok \in [Starts -> BOOLEAN]
  /\ ended \in [Starts -> BOOLEAN]
  /\ status \in [Starts -> Statuses]
  /\ pipe \in [Starts -> Statuses]
  /\ launcher \in [Starts -> Statuses \cup {"waiting", "killed"}]
  /\ file \in [Dirs -> Pids \cup {"absent", "empty"}]
  /\ foreign \subseteq Pids

(* No two processes of the machine have one process id.                    *)
PidsDiffer ==
  /\ \A s, t \in Starts : Alive(s) /\ Alive(t) /\ pid[s] = pid[t] => s = t
  /\ \A s \in Starts : Alive(s) => pid[s] \notin foreign

(* The process has written the pidfile and is to remove it.                *)
Owns(s) == havePidfile[s] /\ stage[s] \in Up \cup {"unlink"}

(* Who may write the pidfile, and what is in it.                           *)
FileOK ==
  /\ \A s, t \in Starts : stage[s] \in Critical /\ stage[t] \in Critical => s = t
  /\ \A s \in Starts :
       /\ stage[s] \in Critical \cup {"new"} => ~havePidfile[s] /\ ~ok[s]
       /\ stage[s] \in Up => havePidfile[s]
       /\ stage[s] = "unlink" /\ ok[s] => havePidfile[s]
       /\ Owns(s) => file["run"] = pid[s]
       /\ stage[s] = "fill" => linked[s]
       /\ stage[s] = "notify" /\ ok[s] => file["run"] # pid[s]
  /\ \A s, t \in Starts : stage[s] = "probe" /\ Owns(t) => pidFromFile[s] = pid[t]
  /\ \A s, t \in Starts : stage[s] \in {"write", "fill"} => ~Owns(t)
  /\ file["root"] = "absent"

Honest == cond.haveOnExit /\ cond.endings = {"exit"}

(* What the launcher was told, will read, or will be told.                 *)
TruthOK ==
  \A s \in Starts :
    /\ launcher[s] = "ok" => ok[s] \/ ended[s]
    /\ pipe[s] = "ok" => ok[s] \/ ended[s]
    /\ status[s] = "ok" => ended[s]
    /\ ended[s] => stage[s] \in Down \cup {"gone"}

DaemonInv ==
  /\ DaemonTypes
  /\ PidsDiffer
  /\ Guarded => FileOK
  /\ Honest => TruthOK

USE DEF Labels, Startup, Up, Down

-----------------------------------------------------------------------------
LEMMA InvInit == DaemonInit => DaemonInv
<1> SUFFICES ASSUME DaemonInit PROVE DaemonInv
  OBVIOUS
<1>1. \A s \in Starts : stage[s] = "new"
  BY DEF DaemonInit
<1>2. DaemonTypes
  BY <1>1, DaemonAssumption DEF DaemonInit, DaemonTypes, SomePid, Statuses, Dirs, Alive
<1>3. PidsDiffer
  BY <1>1 DEF PidsDiffer, Alive
<1>4. FileOK
  BY <1>1 DEF DaemonInit, FileOK, Owns, Critical, Dirs
<1>5. TruthOK
  BY <1>1 DEF DaemonInit, TruthOK
<1> QED
  BY <1>2, <1>3, <1>4, <1>5 DEF DaemonInv

-----------------------------------------------------------------------------
(* As long as no process begins, process ids stay apart.                   *)
LEMMA PidsStillDiffer ==
  ASSUME DaemonInv, pid' = pid, foreign' = foreign,
         \A t \in Starts : Alive(t)' => Alive(t)
  PROVE  PidsDiffer'
BY DEF DaemonInv, PidsDiffer

LEMMA OthersPid ==
  ASSUME DaemonInv, NEW s \in Starts, NEW t \in Starts, s # t, Alive(s), Alive(t)
  PROVE  pid[s] # pid[t] /\ pid[s] \in Pids
BY DEF DaemonInv, PidsDiffer, DaemonTypes

-----------------------------------------------------------------------------
(* Every action keeps the invariant.                                       *)
LEMMA ReadPidfileKeeps ==
  ASSUME DaemonInv, NEW s \in Starts, ReadPidfile(s), cond' = cond
  PROVE  DaemonInv'
<1>1. DaemonTypes'
  BY DEF ReadPidfile, Goto, Place, procVars, sysVars, DaemonInv, DaemonTypes, Alive,
         Statuses, Dirs
<1>2. PidsDiffer'
  <2>1. pid' = pid /\ foreign' = foreign /\ \A t \in Starts : Alive(t)' => Alive(t)
    BY DEF ReadPidfile, Goto, Place, procVars, sysVars, DaemonInv, DaemonTypes, Alive
  <2> QED
    BY <2>1, PidsStillDiffer
<1>3. ASSUME Guarded PROVE FileOK'
  <2>1. stage' = [stage EXCEPT ![s] = IF file["run"] \in {"absent", "empty"}
                               THEN "write" ELSE "probe"]
    BY <1>3, DaemonAssumption
    DEF ReadPidfile, Goto, Place, Guarded, DaemonInv, DaemonTypes, Dirs
  <2>2. \A t \in Starts : Owns(t)' <=> Owns(t)
    BY <2>1 DEF ReadPidfile, Owns, DaemonInv, DaemonTypes
  <2>3. stage'[s] = "probe" => pidFromFile'[s] = file["run"]
    BY <1>3, <2>1 DEF ReadPidfile, Place, Guarded, DaemonInv, DaemonTypes
  <2>4. stage'[s] = "write" => \A t \in Starts : ~Owns(t)
    BY <1>3, <2>1, DaemonAssumption DEF DaemonInv, FileOK, DaemonTypes, Owns, Alive
  <2> QED
    BY <1>3, <2>1, <2>2, <2>3, <2>4
    DEF ReadPidfile, sysVars, DaemonInv, DaemonTypes, FileOK, Owns, Critical
<1>4. ASSUME Honest PROVE TruthOK'
  BY <1>4
  DEF ReadPidfile, Goto, Place, procVars, sysVars, DaemonInv, DaemonTypes, TruthOK, Honest
<1> QED
  BY <1>1, <1>2, <1>3, <1>4 DEF DaemonInv, Guarded, Honest

LEMMA ProbePidKeeps ==
  ASSUME DaemonInv, NEW s \in Starts, ProbePid(s), cond' = cond
  PROVE  DaemonInv'
<1>1. DaemonTypes'
  BY DEF ProbePid, Goto, Quit, Told, Running, procVars, sysVars, DaemonInv, DaemonTypes,
         Alive, Statuses, Dirs
<1>2. PidsDiffer'
  <2>1. pid' = pid /\ foreign' = foreign /\ \A t \in Starts : Alive(t)' => Alive(t)
    BY DEF ProbePid, Goto, Quit, Told, Running, procVars, sysVars, DaemonInv,
           DaemonTypes, Alive
  <2> QED
    BY <2>1, PidsStillDiffer
<1>3. ASSUME Guarded PROVE FileOK'
  BY SMTT(30), <1>3, OthersPid
  DEF ProbePid, Goto, Quit, Told, Running, procVars, sysVars, DaemonInv, DaemonTypes,
      FileOK, Owns, Critical, Alive, Guarded
<1>4. ASSUME Honest PROVE TruthOK'
  BY <1>4
  DEF ProbePid, Goto, Quit, Told, Running, procVars, sysVars, DaemonInv, DaemonTypes,
      TruthOK, Honest
<1> QED
  BY <1>1, <1>2, <1>3, <1>4 DEF DaemonInv, Guarded, Honest

LEMMA OpenPidfileKeeps ==
  ASSUME DaemonInv, NEW s \in Starts, OpenPidfile(s), cond' = cond
  PROVE  DaemonInv'
<1>1. DaemonTypes'
  BY DEF OpenPidfile, Goto, Place, procVars, sysVars, DaemonInv, DaemonTypes, Alive,
         Statuses, Dirs
<1>2. PidsDiffer'
  <2>1. pid' = pid /\ foreign' = foreign /\ \A t \in Starts : Alive(t)' => Alive(t)
    BY DEF OpenPidfile, Goto, Place, procVars, sysVars, DaemonInv, DaemonTypes, Alive
  <2> QED
    BY <2>1, PidsStillDiffer
<1>3. ASSUME Guarded PROVE FileOK'
  <2>1. /\ file'["run"] = "empty" /\ file'["root"] = "absent"
        /\ \A t \in Starts : ~Owns(t)
        /\ stage' = [stage EXCEPT ![s] = "fill"]
        /\ linked' = [linked EXCEPT ![s] = TRUE]
    BY <1>3 DEF OpenPidfile, Goto, Place, Guarded, DaemonInv, DaemonTypes, FileOK, Dirs
  <2>2. \A t \in Starts : ~Owns(t)'
    BY <2>1 DEF OpenPidfile, Owns, DaemonInv, DaemonTypes
  <2>3. \A t \in Starts : Alive(t) => pid[t] # "empty"
    BY DaemonAssumption DEF DaemonInv, DaemonTypes
  <2> QED
    BY <1>3, <2>1, <2>2, <2>3
    DEF OpenPidfile, DaemonInv, DaemonTypes, FileOK, Owns, Critical, Alive
<1>4. ASSUME Honest PROVE TruthOK'
  BY <1>4
  DEF OpenPidfile, Goto, Place, procVars, sysVars, DaemonInv, DaemonTypes, TruthOK, Honest
<1> QED
  BY <1>1, <1>2, <1>3, <1>4 DEF DaemonInv, Guarded, Honest

LEMMA OpenPidfileFailsKeeps ==
  ASSUME DaemonInv, NEW s \in Starts, OpenPidfileFails(s), cond' = cond
  PROVE  DaemonInv'
<1>1. DaemonTypes'
  BY DEF OpenPidfileFails, Goto, procVars, sysVars, DaemonInv, DaemonTypes, Alive,
         Statuses, Dirs
<1>2. PidsDiffer'
  <2>1. pid' = pid /\ foreign' = foreign /\ \A t \in Starts : Alive(t)' => Alive(t)
    BY DEF OpenPidfileFails, Goto, procVars, sysVars, DaemonInv, DaemonTypes, Alive
  <2> QED
    BY <2>1, PidsStillDiffer
<1>3. ASSUME Guarded PROVE FileOK'
  BY <1>3, OthersPid
  DEF OpenPidfileFails, Goto, procVars, sysVars, DaemonInv, DaemonTypes, FileOK, Owns,
      Critical, Alive, Guarded
<1>4. ASSUME Honest PROVE TruthOK'
  BY <1>4
  DEF OpenPidfileFails, Goto, procVars, sysVars, DaemonInv, DaemonTypes, TruthOK, Honest
<1> QED
  BY <1>1, <1>2, <1>3, <1>4 DEF DaemonInv, Guarded, Honest

LEMMA FillPidfileKeeps ==
  ASSUME DaemonInv, NEW s \in Starts, FillPidfile(s), cond' = cond
  PROVE  DaemonInv'
<1>1. DaemonTypes'
  BY DEF FillPidfile, Goto, Place, procVars, sysVars, DaemonInv, DaemonTypes, Alive,
         Statuses, Dirs
<1>2. PidsDiffer'
  <2>1. pid' = pid /\ foreign' = foreign /\ \A t \in Starts : Alive(t)' => Alive(t)
    BY DEF FillPidfile, Goto, Place, procVars, sysVars, DaemonInv, DaemonTypes, Alive
  <2> QED
    BY <2>1, PidsStillDiffer
<1>3. ASSUME Guarded PROVE FileOK'
  <2>1. /\ file'["run"] = pid[s] /\ file'["root"] = "absent"
        /\ \A t \in Starts : ~Owns(t)
        /\ stage' = [stage EXCEPT ![s] = "chdir"]
    BY <1>3 DEF FillPidfile, Goto, Place, Guarded, DaemonInv, DaemonTypes, FileOK, Dirs
  <2>2. \A t \in Starts : Owns(t)' => t = s
    BY <2>1 DEF FillPidfile, Owns, DaemonInv, DaemonTypes
  <2>3. \A t \in Starts : t # s /\ stage[t] = "notify" => pid[t] # pid[s]
    BY OthersPid DEF FillPidfile, Alive
  <2>4. \A t \in Starts : t # s => stage[t] \notin Critical
    BY <1>3 DEF FillPidfile, DaemonInv, FileOK, Critical
  <2> QED
    BY <1>3, <2>1, <2>2, <2>3, <2>4
    DEF FillPidfile, DaemonInv, DaemonTypes, FileOK, Owns, Critical
<1>4. ASSUME Honest PROVE TruthOK'
  BY <1>4
  DEF FillPidfile, Goto, Place, procVars, sysVars, DaemonInv, DaemonTypes, TruthOK, Honest
<1> QED
  BY <1>1, <1>2, <1>3, <1>4 DEF DaemonInv, Guarded, Honest

LEMMA ChdirKeeps ==
  ASSUME DaemonInv, NEW s \in Starts, Chdir(s), cond' = cond
  PROVE  DaemonInv'
<1>1. DaemonTypes'
  BY DEF Chdir, Goto, procVars, sysVars, DaemonInv, DaemonTypes, Alive, Statuses, Dirs
<1>2. PidsDiffer'
  <2>1. pid' = pid /\ foreign' = foreign /\ \A t \in Starts : Alive(t)' => Alive(t)
    BY DEF Chdir, Goto, procVars, sysVars, DaemonInv, DaemonTypes, Alive
  <2> QED
    BY <2>1, PidsStillDiffer
<1>3. ASSUME Guarded PROVE FileOK'
  BY <1>3, OthersPid
  DEF Chdir, Goto, procVars, sysVars, DaemonInv, DaemonTypes, FileOK, Owns, Critical,
      Alive, Guarded
<1>4. ASSUME Honest PROVE TruthOK'
  BY <1>4 DEF Chdir, Goto, procVars, sysVars, DaemonInv, DaemonTypes, TruthOK, Honest
<1> QED
  BY <1>1, <1>2, <1>3, <1>4 DEF DaemonInv, Guarded, Honest

LEMMA RedirectKeeps ==
  ASSUME DaemonInv, NEW s \in Starts, Redirect(s), cond' = cond
  PROVE  DaemonInv'
<1>1. DaemonTypes'
  BY DEF Redirect, Goto, procVars, sysVars, DaemonInv, DaemonTypes, Alive, Statuses, Dirs
<1>2. PidsDiffer'
  <2>1. pid' = pid /\ foreign' = foreign /\ \A t \in Starts : Alive(t)' => Alive(t)
    BY DEF Redirect, Goto, procVars, sysVars, DaemonInv, DaemonTypes, Alive
  <2> QED
    BY <2>1, PidsStillDiffer
<1>3. ASSUME Guarded PROVE FileOK'
  BY <1>3, OthersPid
  DEF Redirect, Goto, procVars, sysVars, DaemonInv, DaemonTypes, FileOK, Owns, Critical,
      Alive, Guarded
<1>4. ASSUME Honest PROVE TruthOK'
  BY <1>4 DEF Redirect, Goto, procVars, sysVars, DaemonInv, DaemonTypes, TruthOK, Honest
<1> QED
  BY <1>1, <1>2, <1>3, <1>4 DEF DaemonInv, Guarded, Honest

LEMMA SetupFailsKeeps ==
  ASSUME DaemonInv, NEW s \in Starts, SetupFails(s), cond' = cond
  PROVE  DaemonInv'
<1>1. DaemonTypes'
  BY DEF SetupFails, Goto, Quit, Told, procVars, sysVars, DaemonInv, DaemonTypes, Alive,
         Statuses, Dirs
<1>2. PidsDiffer'
  <2>1. pid' = pid /\ foreign' = foreign /\ \A t \in Starts : Alive(t)' => Alive(t)
    BY DEF SetupFails, Goto, Quit, Told, procVars, sysVars, DaemonInv, DaemonTypes, Alive
  <2> QED
    BY <2>1, PidsStillDiffer
<1>3. ASSUME Guarded PROVE FileOK'
  BY <1>3, OthersPid
  DEF SetupFails, Goto, Quit, Told, procVars, sysVars, DaemonInv, DaemonTypes, FileOK,
      Owns, Critical, Alive, Guarded
<1>4. ASSUME Honest PROVE TruthOK'
  BY <1>4
  DEF SetupFails, Goto, Quit, Told, procVars, sysVars, DaemonInv, DaemonTypes, TruthOK,
      Honest
<1> QED
  BY <1>1, <1>2, <1>3, <1>4 DEF DaemonInv, Guarded, Honest

LEMMA RunningOkKeeps ==
  ASSUME DaemonInv, NEW s \in Starts, RunningOk(s), cond' = cond
  PROVE  DaemonInv'
<1>0. PICK l \in {"devnull", "gone"} : stage' = [stage EXCEPT ![s] = l]
  BY DEF RunningOk, Notify, Goto
<1>1. /\ stage[s] = "starting" /\ ok' = [ok EXCEPT ![s] = TRUE]
      /\ pid' = pid /\ cwd' = cwd /\ pidFromFile' = pidFromFile
      /\ havePidfile' = havePidfile /\ linked' = linked /\ status' = status
      /\ launcher' = launcher /\ file' = file /\ foreign' = foreign /\ ended' = ended
      /\ haveParent' = haveParent \/ haveParent' = [haveParent EXCEPT ![s] = FALSE]
      /\ pipe' = pipe \/ pipe' = [pipe EXCEPT ![s] = "ok"]
  BY DEF RunningOk, Notify
<1>2. \A t \in Starts : Alive(t)' => Alive(t)
  BY <1>0, <1>1 DEF DaemonInv, DaemonTypes, Alive
<1>3. DaemonTypes'
  <2>1. stage' \in [Starts -> Labels] /\ haveParent' \in [Starts -> BOOLEAN]
    BY <1>0, <1>1 DEF DaemonInv, DaemonTypes
  <2>2. pipe' \in [Starts -> Statuses] /\ ok' \in [Starts -> BOOLEAN]
    BY <1>1 DEF DaemonInv, DaemonTypes, Statuses
  <2> QED
    BY <1>1, <1>2, <2>1, <2>2 DEF DaemonInv, DaemonTypes
<1>4. PidsDiffer'
  BY <1>1, <1>2, PidsStillDiffer
<1>5. ASSUME Guarded PROVE FileOK'
  BY <1>0, <1>1, <1>5 DEF DaemonInv, DaemonTypes, FileOK, Owns, Critical
<1>6. ASSUME Honest PROVE TruthOK'
  BY <1>0, <1>1, <1>6 DEF DaemonInv, DaemonTypes, TruthOK
<1> QED
  BY <1>3, <1>4, <1>5, <1>6 DEF DaemonInv, Guarded, Honest

LEMMA DevNullKeeps ==
  ASSUME DaemonInv, NEW s \in Starts, DevNull(s), cond' = cond
  PROVE  DaemonInv'
<1>1. DaemonTypes'
  BY DEF DevNull, Goto, procVars, sysVars, DaemonInv, DaemonTypes, Alive, Statuses, Dirs
<1>2. PidsDiffer'
  <2>1. pid' = pid /\ foreign' = foreign /\ \A t \in Starts : Alive(t)' => Alive(t)
    BY DEF DevNull, Goto, procVars, sysVars, DaemonInv, DaemonTypes, Alive
  <2> QED
    BY <2>1, PidsStillDiffer
<1>3. ASSUME Guarded PROVE FileOK'
  BY <1>3, OthersPid
  DEF DevNull, Goto, procVars, sysVars, DaemonInv, DaemonTypes, FileOK, Owns, Critical,
      Alive, Guarded
<1>4. ASSUME Honest PROVE TruthOK'
  BY <1>4 DEF DevNull, Goto, procVars, sysVars, DaemonInv, DaemonTypes, TruthOK, Honest
<1> QED
  BY <1>1, <1>2, <1>3, <1>4 DEF DaemonInv, Guarded, Honest

LEMMA AppEndsKeeps ==
  ASSUME DaemonInv, NEW s \in Starts, AppEnds(s), cond' = cond
  PROVE  DaemonInv'
<1>1. DaemonTypes'
  BY DEF AppEnds, Goto, Told, procVars, sysVars, DaemonInv, DaemonTypes, Alive, Statuses,
         Dirs
<1>2. PidsDiffer'
  <2>1. pid' = pid /\ foreign' = foreign /\ \A t \in Starts : Alive(t)' => Alive(t)
    BY DEF AppEnds, Goto, Told, procVars, sysVars, DaemonInv, DaemonTypes, Alive
  <2> QED
    BY <2>1, PidsStillDiffer
<1>3. ASSUME Guarded PROVE FileOK'
  BY <1>3, OthersPid
  DEF AppEnds, Goto, Told, procVars, sysVars, DaemonInv, DaemonTypes, FileOK, Owns,
      Critical, Alive, Guarded
<1>4. ASSUME Honest PROVE TruthOK'
  <2>1. PICK st \in {"ok", "bad"} :
          /\ status' = [status EXCEPT ![s] = st]
          /\ ended' = [ended EXCEPT ![s] = st = "ok"]
    BY <1>4 DEF AppEnds, Told, Honest
  <2>2. ~ended[s]
    BY <1>4 DEF AppEnds, DaemonInv, TruthOK
  <2> QED
    BY <1>4, <2>1, <2>2
    DEF AppEnds, Goto, procVars, sysVars, DaemonInv, DaemonTypes, TruthOK
<1> QED
  BY <1>1, <1>2, <1>3, <1>4 DEF DaemonInv, Guarded, Honest

LEMMA UnlinkKeeps ==
  ASSUME DaemonInv, NEW s \in Starts, Unlink(s), cond' = cond
  PROVE  DaemonInv'
<1>1. DaemonTypes'
  <2>1. /\ stage' \in [Starts -> Labels] /\ havePidfile' \in [Starts -> BOOLEAN]
        /\ file' \in [Dirs -> Pids \cup {"absent", "empty"}]
        /\ status' \in [Starts -> Statuses]
    BY DEF Unlink, Goto, Place, DaemonInv, DaemonTypes, Statuses, Dirs
  <2>2. linked' \in [Starts -> BOOLEAN]
    <3>1. CASE linked' = linked
      BY <3>1 DEF DaemonInv, DaemonTypes
    <3>2. CASE linked' = [t \in Starts |-> linked[t] /\ Place(t) # Place(s)]
      BY <3>2 DEF DaemonInv, DaemonTypes
    <3> QED
      BY <3>1, <3>2 DEF Unlink
  <2>3. \A t \in Starts : Alive(t)' => Alive(t)
    BY DEF Unlink, Goto, DaemonInv, DaemonTypes, Alive
  <2> QED
    BY <2>1, <2>2, <2>3 DEF Unlink, DaemonInv, DaemonTypes
<1>2. PidsDiffer'
  <2>1. pid' = pid /\ foreign' = foreign /\ \A t \in Starts : Alive(t)' => Alive(t)
    BY DEF Unlink, Goto, Place, procVars, sysVars, DaemonInv, DaemonTypes, Alive
  <2> QED
    BY <2>1, PidsStillDiffer
<1>3. ASSUME Guarded PROVE FileOK'
  <2>1. /\ stage[s] = "unlink" /\ stage' = [stage EXCEPT ![s] = "notify"]
        /\ havePidfile' = [havePidfile EXCEPT ![s] = FALSE]
    BY DEF Unlink, Goto
  <2>2. CASE ~havePidfile[s]
    BY <1>3, <2>1, <2>2 DEF Unlink, DaemonInv, DaemonTypes, FileOK, Owns, Critical
  <2>3. CASE havePidfile[s]
    <3>1. file["run"] = pid[s] /\ pid[s] \in Pids
      BY <1>3, <2>1, <2>3 DEF DaemonInv, FileOK, DaemonTypes, Owns, Alive
    <3>2. file'["run"] = "absent" /\ file'["root"] = "absent"
      BY <1>3, <2>3, <3>1, DaemonAssumption
      DEF Unlink, Place, Guarded, DaemonInv, DaemonTypes, FileOK, Dirs
    <3>3. \A t \in Starts : t # s => ~Owns(t)
      BY <1>3, <2>1, <3>1, OthersPid DEF DaemonInv, FileOK, Owns, Alive
    <3>4. \A t \in Starts : stage[t] \notin {"write", "fill"}
      BY <1>3, <2>1, <2>3 DEF DaemonInv, FileOK, Owns
    <3>5. \A t \in Starts : stage[t] = "notify" => pid[t] # "absent"
      BY DaemonAssumption DEF DaemonInv, DaemonTypes, Alive
    <3>6. \A t \in Starts : ~Owns(t)'
      BY <2>1, <3>3 DEF Unlink, Owns, DaemonInv, DaemonTypes
    <3> QED
      BY <1>3, <2>1, <2>3, <3>1, <3>2, <3>4, <3>5, <3>6, DaemonAssumption
      DEF Unlink, DaemonInv, DaemonTypes, FileOK, Owns, Critical
  <2> QED
    BY <2>2, <2>3 DEF DaemonInv, DaemonTypes
<1>4. ASSUME Honest PROVE TruthOK'
  BY <1>4
  DEF Unlink, Goto, Place, procVars, sysVars, DaemonInv, DaemonTypes, TruthOK, Honest
<1> QED
  BY <1>1, <1>2, <1>3, <1>4 DEF DaemonInv, Guarded, Honest

LEMMA NotifyParentKeeps ==
  ASSUME DaemonInv, NEW s \in Starts, NotifyParent(s), cond' = cond
  PROVE  DaemonInv'
<1>0. stage' = [stage EXCEPT ![s] = "gone"]
  BY DEF NotifyParent, Notify, Goto
<1>1. /\ stage[s] = "notify" /\ ok' = ok
      /\ pid' = pid /\ cwd' = cwd /\ pidFromFile' = pidFromFile
      /\ havePidfile' = havePidfile /\ linked' = linked /\ status' = status
      /\ launcher' = launcher /\ file' = file /\ foreign' = foreign /\ ended' = ended
      /\ haveParent' = haveParent \/ haveParent' = [haveParent EXCEPT ![s] = FALSE]
      /\ pipe' = pipe \/ pipe' = [pipe EXCEPT ![s] = status[s]]
  BY DEF NotifyParent, Notify
<1>2. \A t \in Starts : Alive(t)' => Alive(t)
  BY <1>0, <1>1 DEF DaemonInv, DaemonTypes, Alive
<1>3. DaemonTypes'
  <2>1. stage' \in [Starts -> Labels] /\ haveParent' \in [Starts -> BOOLEAN]
    BY <1>0, <1>1 DEF DaemonInv, DaemonTypes
  <2>2. pipe' \in [Starts -> Statuses] /\ ok' \in [Starts -> BOOLEAN]
    BY <1>1 DEF DaemonInv, DaemonTypes, Statuses
  <2> QED
    BY <1>1, <1>2, <2>1, <2>2 DEF DaemonInv, DaemonTypes
<1>4. PidsDiffer'
  BY <1>1, <1>2, PidsStillDiffer
<1>5. ASSUME Guarded PROVE FileOK'
  BY <1>0, <1>1, <1>5 DEF DaemonInv, DaemonTypes, FileOK, Owns, Critical
<1>6. ASSUME Honest PROVE TruthOK'
  BY <1>0, <1>1, <1>6 DEF DaemonInv, DaemonTypes, TruthOK
<1> QED
  BY <1>3, <1>4, <1>5, <1>6 DEF DaemonInv, Guarded, Honest

LEMMA WaitForChildKeeps ==
  ASSUME DaemonInv, NEW s \in Starts, WaitForChild(s), cond' = cond
  PROVE  DaemonInv'
<1>1. DaemonTypes'
  BY DEF WaitForChild, Goto, procVars, sysVars, DaemonInv, DaemonTypes, Alive, Statuses,
         Dirs
<1>2. PidsDiffer'
  <2>1. pid' = pid /\ foreign' = foreign /\ \A t \in Starts : Alive(t)' => Alive(t)
    BY DEF WaitForChild, Goto, procVars, sysVars, DaemonInv, DaemonTypes, Alive
  <2> QED
    BY <2>1, PidsStillDiffer
<1>3. ASSUME Guarded PROVE FileOK'
  BY <1>3, OthersPid
  DEF WaitForChild, Goto, procVars, sysVars, DaemonInv, DaemonTypes, FileOK, Owns,
      Critical, Alive, Guarded
<1>4. ASSUME Honest PROVE TruthOK'
  BY <1>4 DEF WaitForChild, Goto, procVars, sysVars, DaemonInv, DaemonTypes, TruthOK, Honest
<1> QED
  BY <1>1, <1>2, <1>3, <1>4 DEF DaemonInv, Guarded, Honest

LEMMA KillKeeps ==
  ASSUME DaemonInv, NEW s \in Starts, Kill(s), cond' = cond
  PROVE  DaemonInv'
<1>1. DaemonTypes'
  BY DEF Kill, Goto, procVars, sysVars, DaemonInv, DaemonTypes, Alive, Statuses, Dirs
<1>2. PidsDiffer'
  <2>1. pid' = pid /\ foreign' = foreign /\ \A t \in Starts : Alive(t)' => Alive(t)
    BY DEF Kill, Goto, procVars, sysVars, DaemonInv, DaemonTypes, Alive
  <2> QED
    BY <2>1, PidsStillDiffer
<1>3. ASSUME Guarded PROVE FileOK'
  BY <1>3, OthersPid
  DEF Kill, Goto, procVars, sysVars, DaemonInv, DaemonTypes, FileOK, Owns, Critical,
      Alive, Guarded
<1>4. ASSUME Honest PROVE TruthOK'
  BY <1>4 DEF Kill, Goto, procVars, sysVars, DaemonInv, DaemonTypes, TruthOK, Honest
<1> QED
  BY <1>1, <1>2, <1>3, <1>4 DEF DaemonInv, Guarded, Honest

LEMMA KillLauncherKeeps ==
  ASSUME DaemonInv, NEW s \in Starts, KillLauncher(s), cond' = cond
  PROVE  DaemonInv'
<1>1. DaemonTypes'
  BY DEF KillLauncher, Goto, procVars, sysVars, DaemonInv, DaemonTypes, Alive, Statuses,
         Dirs
<1>2. PidsDiffer'
  <2>1. pid' = pid /\ foreign' = foreign /\ \A t \in Starts : Alive(t)' => Alive(t)
    BY DEF KillLauncher, Goto, procVars, sysVars, DaemonInv, DaemonTypes, Alive
  <2> QED
    BY <2>1, PidsStillDiffer
<1>3. ASSUME Guarded PROVE FileOK'
  BY <1>3, OthersPid
  DEF KillLauncher, Goto, procVars, sysVars, DaemonInv, DaemonTypes, FileOK, Owns,
      Critical, Alive, Guarded
<1>4. ASSUME Honest PROVE TruthOK'
  BY <1>4 DEF KillLauncher, Goto, procVars, sysVars, DaemonInv, DaemonTypes, TruthOK, Honest
<1> QED
  BY <1>1, <1>2, <1>3, <1>4 DEF DaemonInv, Guarded, Honest

LEMMA ForkFailsKeeps ==
  ASSUME DaemonInv, NEW s \in Starts, ForkFails(s), cond' = cond
  PROVE  DaemonInv'
<1>1. DaemonTypes'
  BY DEF ForkFails, Goto, procVars, sysVars, DaemonInv, DaemonTypes, Alive, Statuses, Dirs
<1>2. PidsDiffer'
  <2>1. pid' = pid /\ foreign' = foreign /\ \A t \in Starts : Alive(t)' => Alive(t)
    BY DEF ForkFails, Goto, procVars, sysVars, DaemonInv, DaemonTypes, Alive
  <2> QED
    BY <2>1, PidsStillDiffer
<1>3. ASSUME Guarded PROVE FileOK'
  BY <1>3, OthersPid
  DEF ForkFails, Goto, procVars, sysVars, DaemonInv, DaemonTypes, FileOK, Owns, Critical,
      Alive, Guarded
<1>4. ASSUME Honest PROVE TruthOK'
  BY <1>4 DEF ForkFails, Goto, procVars, sysVars, DaemonInv, DaemonTypes, TruthOK, Honest
<1> QED
  BY <1>1, <1>2, <1>3, <1>4 DEF DaemonInv, Guarded, Honest
LEMMA LaunchKeeps ==
  ASSUME DaemonInv, NEW s \in Starts, Launch(s), cond' = cond
  PROVE  DaemonInv'
<1>1. PICK p \in Pids : ~Running(p) /\ pid' = [pid EXCEPT ![s] = p]
  BY DEF Launch
<1>2. /\ stage[s] = "new" /\ stage' = [stage EXCEPT ![s] = "check"]
      /\ haveParent' \in [Starts -> BOOLEAN]
      /\ launcher' \in [Starts -> Statuses \cup {"waiting", "killed"}]
      /\ \A t \in Starts : t # s => launcher'[t] = launcher[t]
      /\ launcher'[s] # "ok"
  BY DEF Launch, Goto, DaemonInv, DaemonTypes, Statuses
<1>3. /\ Alive(s)' /\ pid'[s] = p
      /\ \A t \in Starts : t # s => (Alive(t)' <=> Alive(t)) /\ pid'[t] = pid[t]
  BY <1>1, <1>2 DEF DaemonInv, DaemonTypes, Alive
<1>4. DaemonTypes'
  BY <1>1, <1>2, <1>3 DEF Launch, DaemonInv, DaemonTypes
<1>5. PidsDiffer'
  BY <1>1, <1>3 DEF Launch, Running, DaemonInv, PidsDiffer
<1>6. ASSUME Guarded PROVE FileOK'
  <2>1. \A t \in Starts : stage[t] \notin Critical
    BY <1>6 DEF Launch, Guarded, Critical
  <2>2. \A t \in Starts : Owns(t)' <=> Owns(t) /\ t # s
    BY <1>2 DEF Launch, Owns, DaemonInv, DaemonTypes
  <2>3. \A t \in Starts : stage'[t] \in Critical => t = s /\ stage'[t] = "check"
    BY <1>2, <2>1 DEF DaemonInv, DaemonTypes, Critical
  <2>4. ~havePidfile[s] /\ ~ok[s]
    BY <1>2, <1>6 DEF DaemonInv, FileOK
  <2> QED
    BY <1>2, <1>3, <1>6, <2>2, <2>3, <2>4
    DEF Launch, DaemonInv, DaemonTypes, FileOK, Owns, Critical
<1>7. ASSUME Honest PROVE TruthOK'
  BY <1>2, <1>7 DEF Launch, DaemonInv, DaemonTypes, TruthOK
<1> QED
  BY <1>4, <1>5, <1>6, <1>7 DEF DaemonInv, Guarded, Honest

LEMMA ForeignKeeps ==
  ASSUME DaemonInv, NEW p \in Pids, Foreign(p), cond' = cond
  PROVE  DaemonInv'
<1>1. DaemonTypes'
  BY DEF Foreign, procVars, DaemonInv, DaemonTypes, Alive
<1>2. PidsDiffer'
  BY DEF Foreign, procVars, Running, DaemonInv, PidsDiffer, Alive
<1>3. Guarded => FileOK'
  BY DEF Foreign, procVars, DaemonInv, FileOK, Owns
<1>4. Honest => TruthOK'
  BY DEF Foreign, DaemonInv, TruthOK
<1> QED
  BY <1>1, <1>2, <1>3, <1>4 DEF DaemonInv, Guarded, Honest

-----------------------------------------------------------------------------
LEMMA InvNext == DaemonInv /\ [DaemonNext]_daemonVars => DaemonInv'
<1> SUFFICES ASSUME DaemonInv, [DaemonNext]_daemonVars PROVE DaemonInv'
  OBVIOUS
<1>1. CASE UNCHANGED daemonVars
  BY <1>1 DEF daemonVars, procVars, sysVars, DaemonInv, DaemonTypes, PidsDiffer, FileOK, TruthOK,
              Owns, Alive, Guarded, Honest
<1>2. ASSUME NEW s \in Starts, Starting(s), cond' = cond PROVE DaemonInv'
  BY <1>2, ReadPidfileKeeps, ProbePidKeeps, OpenPidfileKeeps, OpenPidfileFailsKeeps,
     FillPidfileKeeps, ChdirKeeps, RedirectKeeps, SetupFailsKeeps, RunningOkKeeps,
     DevNullKeeps, AppEndsKeeps DEF Starting
<1>3. ASSUME NEW s \in Starts, ShuttingDown(s), cond' = cond PROVE DaemonInv'
  BY <1>3, UnlinkKeeps, NotifyParentKeeps DEF ShuttingDown
<1>4. ASSUME NEW s \in Starts, cond' = cond,
             \/ Launch(s) \/ ForkFails(s) \/ AppEnds(s)
             \/ WaitForChild(s) \/ Kill(s) \/ KillLauncher(s)
      PROVE  DaemonInv'
  BY <1>4, LaunchKeeps, ForkFailsKeeps, AppEndsKeeps, WaitForChildKeeps, KillKeeps,
     KillLauncherKeeps
<1>5. ASSUME NEW p \in Pids, Foreign(p), cond' = cond PROVE DaemonInv'
  BY <1>5, ForeignKeeps
<1> QED
  BY <1>1, <1>2, <1>3, <1>4, <1>5 DEF DaemonNext

LEMMA InvHolds == DaemonSpec => []DaemonInv
BY InvInit, InvNext, PTL DEF DaemonSpec

-----------------------------------------------------------------------------
(* Guarded by one pidfile, there are never two daemons past its check      *)
(* (daemon_unix.cc:280-357), even if daemons were killed before and their  *)
(* process ids were given to others: an owner's pid is in the file, and    *)
(* two owners would be one process.                                        *)
THEOREM NeverTwoDaemons == DaemonSpec => []OneDaemon
<1>1. DaemonInv => OneDaemon
  <2> SUFFICES ASSUME DaemonInv, Guarded, NEW s \in Starts, NEW t \in Starts,
                      stage[s] \in Up, stage[t] \in Up
               PROVE  s = t
    BY DEF OneDaemon
  <2>1. pid[s] = file["run"] /\ pid[t] = file["run"]
    BY DEF DaemonInv, FileOK, Owns
  <2> QED
    BY <2>1, OthersPid DEF Alive
<1> QED
  BY <1>1, InvHolds, PTL

(* While a daemon is up its pidfile names it: nobody else writes or        *)
(* removes the file meanwhile (daemon_unix.cc:218-227 and 335-357).        *)
THEOREM PidfileNamesIt == DaemonSpec => []PidfileNamesDaemon
<1>1. DaemonInv => PidfileNamesDaemon
  BY DEF DaemonInv, FileOK, Owns, PidfileNamesDaemon
<1> QED
  BY <1>1, InvHolds, PTL

(* A daemon that was up removes its pid with the pidfile before it reports *)
(* (shutdown, daemon_unix.cc:218-244), and no later daemon writes it again *)
(* as long as the process exists.                                          *)
THEOREM PidfileGoesWithDaemon == DaemonSpec => []CleanExitLeavesNoPidfile
<1>1. DaemonInv => CleanExitLeavesNoPidfile
  <2> SUFFICES ASSUME DaemonInv, Guarded, NEW s \in Starts, NEW d \in Dirs,
                      stage[s] = "notify", ok[s]
               PROVE  file[d] # pid[s]
    BY DEF CleanExitLeavesNoPidfile
  <2>1. file["run"] # pid[s] /\ file["root"] = "absent" /\ pid[s] \in Pids
    BY DEF DaemonInv, FileOK, DaemonTypes, Alive
  <2> QED
    BY <2>1, DaemonAssumption DEF Dirs
<1> QED
  BY <1>1, InvHolds, PTL

(* If exit handlers are given the status and main does not return, a       *)
(* launcher that exits with 0 tells the truth about its daemon, whatever   *)
(* the pidfile does (runningOk, shutdown and waitForChild).                *)
THEOREM LaunchersTellTruth == DaemonSpec => []LauncherTellsTruth
<1>1. DaemonInv => LauncherTellsTruth
  BY DEF DaemonInv, Honest, TruthOK, LauncherTellsTruth
<1> QED
  BY <1>1, InvHolds, PTL

(***************************************************************************)
(* Threads and their mutexes.                                              *)
(***************************************************************************)

USE MutexAssumption
HIDE DEF Labels, Startup, Up, Down

-----------------------------------------------------------------------------
(* The invariant.                                                          *)

\* What a call holds together: its mutexes have one level, and something is
\* left to do.
CallOK(t) ==
  LET c == call[t] IN
  IF pc[t] = "idle" THEN c = NoCall
  ELSE /\ c.all \in Containers
       /\ c.todo \subseteq c.all /\ c.todo # {}
       /\ \A m, n \in c.all : Level[m] = Level[n]
       /\ ~c.multi => \E m \in Mutexes : c.all = {m}
       /\ pc[t] \in {"lock", "post"} => c.how \in Ways
       /\ pc[t] \in {"unlock", "release"} => c.how \in {"unlock", "undo"}

\* A thread has the pthread mutexes of its list, and the one in its hand.
HeldOK(t) ==
  /\ \A m \in Mutexes : owner[m] = t <=> m \in Listed(t) \/ m \in InHand(t)
  /\ Listed(t) \cap InHand(t) = {}

\* The list goes upwards in the order of locking.
OrderOK(t) ==
  \A i, j \in 1..Len(list[t]) : i < j => Above(list[t][j], list[t][i])

\* The mutexes of the list that have the level of m.
SameLevel(t, m) == {n \in Listed(t) : Level[n] = Level[m]}

\* No locker uses the level of the call.
NoLocker(t) ==
  \A m \in call[t].all : \A i \in 1..Len(lockers[t]) :
     \A n \in lockers[t][i].set : Level[n] # Level[m]

\* What is locked already comes before what is still to be locked, and has
\* that level for itself.
LockingOK(t) ==
  pc[t] \in {"lock", "post"} =>
     /\ \A m \in call[t].all : SameLevel(t, m) = call[t].all \ call[t].todo
     /\ \A m \in call[t].todo : \A n \in Listed(t) : Above(n, m)
     /\ NoLocker(t)

\* A level is unlocked when no locker uses it any more: then it is the last
\* of the list, and all of it is to be unlocked.
LastUse(t) ==
  /\ \A m \in call[t].all : SameLevel(t, m) = Pending(t)
  /\ NoLocker(t)

\* Otherwise some locker holds all of it.
StillUsed(t) ==
  /\ pc[t] = "unlock"
  /\ call[t].todo \subseteq Listed(t)
  /\ \A m \in call[t].all :
        \E i \in 1..Len(lockers[t]) : lockers[t][i].set = SameLevel(t, m)

UnlockingOK(t) ==
  pc[t] \in {"unlock", "release"} =>
     /\ \A m \in call[t].all : \A n \in Listed(t) : Level[n] >= Level[m]
     /\ LastUse(t) \/ StillUsed(t)

\* Lockers hold mutexes of the list, later ones none of a higher level than
\* earlier ones.  A container is a whole level, and each level was locked by
\* a locker that holds all of it.
LockerOK(t, i) ==
  /\ lockers[t][i].set \subseteq Listed(t)
  /\ \A m, n \in lockers[t][i].set : Level[m] = Level[n]
  /\ ~lockers[t][i].multi => \E m \in Mutexes : lockers[t][i].set = {m}
  /\ lockers[t][i].multi =>
        \A m \in lockers[t][i].set : lockers[t][i].set = SameLevel(t, m)
  /\ \A m \in lockers[t][i].set :
        \E b \in 1..i : lockers[t][b].set = SameLevel(t, m)
  /\ \A j \in 1..i : \A m \in lockers[t][i].set : \A n \in lockers[t][j].set :
        Level[m] <= Level[n]

LockersOK(t) == \A i \in 1..Len(lockers[t]) : LockerOK(t, i)

\* A mutex is in the list because of a locker, or of the call.
CoveredOK(t) ==
  Listed(t) \subseteq
     Pending(t) \cup UNION {lockers[t][i].set : i \in 1..Len(lockers[t])}

\* Mutexes of a list are counted, all others have not been.
CountOK ==
  \A m \in Mutexes :
     /\ \A t \in Threads : m \in Listed(t) => count[m] = Uses(t, m)
     /\ (\A t \in Threads : m \notin Listed(t)) => count[m] = 0

ThreadOK(t) ==
  /\ CallOK(t)
  /\ HeldOK(t)
  /\ OrderOK(t)
  /\ LockingOK(t)
  /\ UnlockingOK(t)
  /\ LockersOK(t)
  /\ CoveredOK(t)

Inv ==
  /\ TypeOK
  /\ \A t \in Threads : ThreadOK(t)
  /\ CountOK

-----------------------------------------------------------------------------
(* The order of locking.                                                   *)

LEMMA AboveIsOrder ==
  ASSUME NEW m \in Mutexes, NEW n \in Mutexes
  PROVE  /\ ~Above(m, m)
         /\ Above(m, n) => ~Above(n, m)
         /\ m # n => Above(m, n) \/ Above(n, m)
         /\ Level[m] \in Nat /\ m \in Nat
  BY DEF Above

LEMMA LowestExists ==
  ASSUME NEW S \in SUBSET Mutexes, S # {}
  PROVE  \E last \in S : \A m \in S \ {last} : Above(m, last)
  BY OrderAssumption

\* Among mutexes of one level, the first and the last are those with the
\* smallest and the greatest address.
LEMMA FirstIsFirst ==
  ASSUME NEW S \in SUBSET Mutexes, S # {},
         \A m, n \in S : Level[m] = Level[n]
  PROVE  First(S) \in S /\ \A n \in S : First(S) <= n
  <1>1. PICK f \in S : \A m \in S \ {f} : Above(f, m)
    BY OrderAssumption
  <1>2. \A n \in S : f <= n
    BY <1>1, AboveIsOrder DEF Above
  <1> QED BY <1>2 DEF First

LEMMA LastIsLast ==
  ASSUME NEW S \in SUBSET Mutexes, S # {},
         \A m, n \in S : Level[m] = Level[n]
  PROVE  Last(S) \in S /\ \A n \in S : n <= Last(S)
  <1>1. PICK f \in S : \A m \in S \ {f} : Above(m, f)
    BY LowestExists
  <1>2. \A n \in S : n <= f
    BY <1>1, AboveIsOrder DEF Above
  <1> QED BY <1>2 DEF Last

-----------------------------------------------------------------------------
(* The list of a thread.                                                   *)

LEMMA ListedTypes ==
  ASSUME TypeOK, NEW t \in Threads
  PROVE  /\ list[t] \in Seq(Mutexes) /\ Len(list[t]) \in Nat
         /\ \A i \in 1..Len(list[t]) : list[t][i] \in Mutexes
         /\ Listed(t) \subseteq Mutexes
         /\ list[t] # <<>> => 1 \in 1..Len(list[t])
         /\ list[t] = <<>> => Listed(t) = {}
  <1>1. list[t] \in Seq(Mutexes) BY DEF TypeOK
  <1> QED BY <1>1 DEF Listed

\* Its head has the lowest level.
LEMMA HeadIsLowest ==
  ASSUME TypeOK, NEW t \in Threads, OrderOK(t), list[t] # <<>>
  PROVE  /\ list[t][1] \in Listed(t)
         /\ \A n \in Listed(t) : n # list[t][1] => Above(n, list[t][1])
         /\ \A n \in Listed(t) : Level[n] >= Level[list[t][1]]
  <1>1. list[t][1] \in Listed(t) /\ list[t][1] \in Mutexes
    BY ListedTypes DEF Listed
  <1>2. \A n \in Listed(t) : n # list[t][1] => Above(n, list[t][1])
    <2> SUFFICES ASSUME NEW i \in 1..Len(list[t]), list[t][i] # list[t][1]
                 PROVE  Above(list[t][i], list[t][1])
      BY DEF Listed
    <2>1. 1 < i /\ 1 \in 1..Len(list[t]) BY ListedTypes
    <2> QED BY <2>1 DEF OrderOK
  <1>3. \A n \in Listed(t) : Level[n] >= Level[list[t][1]]
    <2> TAKE n \in Listed(t)
    <2>1. n \in Mutexes BY ListedTypes
    <2>2. CASE n = list[t][1] BY <2>1, <2>2, AboveIsOrder
    <2>3. CASE n # list[t][1]
      <3>1. Above(n, list[t][1]) BY <1>2, <2>3
      <3>2. Level[n] \in Nat /\ Level[list[t][1]] \in Nat
        BY <1>1, <2>1, AboveIsOrder
      <3> QED BY <3>1, <3>2 DEF Above
    <2> QED BY <2>2, <2>3
  <1> QED BY <1>1, <1>2, <1>3

\* The recent mutexes are all those of the current level.
LEMMA RecentIsLevel ==
  ASSUME TypeOK, NEW t \in Threads, OrderOK(t), list[t] # <<>>
  PROVE  Recent(t) = SameLevel(t, list[t][1])
  <1> DEFINE h == list[t][1]
  <1>1. Recent(t) \subseteq SameLevel(t, h)
    <2> SUFFICES ASSUME NEW i \in 1..Len(list[t]),
                        \A k \in 1..i : AtCurrentLevel(t, list[t][k])
                 PROVE  list[t][i] \in SameLevel(t, h)
      BY DEF Recent
    <2>1. i \in 1..i /\ list[t][i] \in Listed(t) BY DEF Listed
    <2>2. AtCurrentLevel(t, list[t][i]) BY <2>1
    <2> QED BY <2>1, <2>2 DEF AtCurrentLevel, SameLevel
  <1>2. SameLevel(t, h) \subseteq Recent(t)
    <2> SUFFICES ASSUME NEW n \in Listed(t), Level[n] = Level[h]
                 PROVE  n \in Recent(t)
      BY DEF SameLevel
    <2>1. PICK i \in 1..Len(list[t]) : n = list[t][i] BY DEF Listed
    <2>2. ASSUME NEW k \in 1..i PROVE AtCurrentLevel(t, list[t][k])
      <3>1. /\ k \in 1..Len(list[t]) /\ list[t][k] \in Mutexes
            /\ n \in Mutexes /\ list[t][k] \in Listed(t)
        BY ListedTypes DEF Listed
      <3>2. Level[list[t][k]] >= Level[h] BY <3>1, HeadIsLowest
      <3>3. k < i => Above(n, list[t][k]) BY <2>1, <3>1 DEF OrderOK
      <3>4. Level[n] \in Nat /\ Level[list[t][k]] \in Nat
        BY <3>1, AboveIsOrder
      <3>5. k = i \/ k < i OBVIOUS
      <3>6. Level[n] >= Level[list[t][k]] BY <2>1, <3>3, <3>4, <3>5 DEF Above
      <3>7. Level[list[t][k]] = Level[h] BY <3>2, <3>4, <3>6
      <3> QED BY <3>7 DEF AtCurrentLevel
    <2> QED BY <2>1, <2>2 DEF Recent
  <1> QED BY <1>1, <1>2

-----------------------------------------------------------------------------
(* Steps of one thread leave the others as they are.                       *)

Untouched(u) ==
  /\ list'[u] = list[u] /\ pc'[u] = pc[u]
  /\ call'[u] = call[u] /\ lockers'[u] = lockers[u]
  /\ \A m \in Mutexes : owner'[m] = u <=> owner[m] = u

Frame(t) == \A u \in Threads : u # t => Untouched(u)

LEMMA SameView ==
  ASSUME NEW u \in Threads, Untouched(u)
  PROVE  /\ Listed(u)' = Listed(u) /\ InHand(u)' = InHand(u)
         /\ Pending(u)' = Pending(u)
         /\ \A m : SameLevel(u, m)' = SameLevel(u, m)
         /\ \A m : Uses(u, m)' = Uses(u, m)
  <1>1. /\ list'[u] = list[u] /\ pc'[u] = pc[u]
        /\ call'[u] = call[u] /\ lockers'[u] = lockers[u]
    BY DEF Untouched
  <1>2. Listed(u)' = Listed(u) BY <1>1 DEF Listed
  <1>3. InHand(u)' = InHand(u) BY <1>1 DEF InHand
  <1>4. Pending(u)' = Pending(u) BY <1>1 DEF Pending
  <1>5. \A m : SameLevel(u, m)' = SameLevel(u, m) BY <1>2 DEF SameLevel
  <1>6. \A m : Holding(u, m)' = Holding(u, m) BY <1>1 DEF Holding
  <1>7. \A m : Uses(u, m)' = Uses(u, m) BY <1>4, <1>6 DEF Uses
  <1> QED BY <1>2, <1>3, <1>4, <1>5, <1>7

LEMMA UntouchedStaysOK ==
  ASSUME NEW u \in Threads, Untouched(u), ThreadOK(u)
  PROVE  ThreadOK(u)'
  <1>1. /\ list'[u] = list[u] /\ pc'[u] = pc[u]
        /\ call'[u] = call[u] /\ lockers'[u] = lockers[u]
        /\ \A m \in Mutexes : owner'[m] = u <=> owner[m] = u
    BY DEF Untouched
  <1>2. /\ Listed(u)' = Listed(u) /\ InHand(u)' = InHand(u)
        /\ Pending(u)' = Pending(u)
        /\ \A m : SameLevel(u, m)' = SameLevel(u, m)
    BY SameView
  <1>3. CallOK(u)' BY <1>1 DEF ThreadOK, CallOK
  <1>4. HeldOK(u)' BY <1>1, <1>2 DEF ThreadOK, HeldOK
  <1>5. OrderOK(u)' BY <1>1 DEF ThreadOK, OrderOK, Above
  <1>6. NoLocker(u)' <=> NoLocker(u) BY <1>1 DEF NoLocker
  <1>7. LockingOK(u)'
    BY <1>1, <1>2, <1>6 DEF ThreadOK, LockingOK, Above
  <1>8. LastUse(u)' <=> LastUse(u) BY <1>1, <1>2, <1>6 DEF LastUse
  <1>9. StillUsed(u)' <=> StillUsed(u) BY <1>1, <1>2 DEF StillUsed
  <1>10. UnlockingOK(u)'
    BY <1>1, <1>2, <1>8, <1>9 DEF ThreadOK, UnlockingOK
  <1>11. LockersOK(u)'
    <2>1. \A i : LockerOK(u, i)' <=> LockerOK(u, i)
      BY <1>1, <1>2 DEF LockerOK
    <2> QED BY <1>1, <2>1 DEF ThreadOK, LockersOK
  <1>12. CoveredOK(u)' BY <1>1, <1>2 DEF ThreadOK, CoveredOK
  <1> QED BY <1>3, <1>4, <1>5, <1>7, <1>10, <1>11, <1>12 DEF ThreadOK

\* What a step of a thread has to do to the counts.
CountStep(t) ==
  /\ \A m \in Mutexes : m \in Listed(t)' => count'[m] = Uses(t, m)'
  /\ \A m \in Mutexes : m \notin Listed(t) /\ m \notin Listed(t)'
        => count'[m] = count[m]
  /\ \A m \in Mutexes : m \in Listed(t) /\ m \notin Listed(t)'
        => count'[m] = 0

LEMMA StepKeepsInv ==
  ASSUME Inv, NEW t \in Threads, TypeOK', Frame(t), ThreadOK(t)', CountStep(t)
  PROVE  Inv'
  <1>1. \A u \in Threads : ThreadOK(u)'
    BY UntouchedStaysOK DEF Inv, Frame
  <1>2. CountOK'
    <2> SUFFICES ASSUME NEW m \in Mutexes
                 PROVE  /\ \A u \in Threads :
                             m \in Listed(u)' => count'[m] = Uses(u, m)'
                        /\ (\A u \in Threads : m \notin Listed(u)')
                             => count'[m] = 0
      BY DEF CountOK
    <2>1. ASSUME NEW u \in Threads, m \in Listed(u)'
          PROVE  count'[m] = Uses(u, m)'
      <3>1. CASE u = t BY <2>1, <3>1 DEF CountStep
      <3>2. CASE u # t
        <4>1. m \in Listed(u) /\ Uses(u, m)' = Uses(u, m)
          BY <2>1, <3>2, SameView DEF Frame
        <4>2. owner[m] = u /\ owner'[m] = u
          BY <1>1, <2>1, <4>1 DEF Inv, ThreadOK, HeldOK
        <4>3. m \notin Listed(t) /\ m \notin Listed(t)'
          BY <1>1, <3>2, <4>2 DEF Inv, ThreadOK, HeldOK
        <4> QED BY <4>1, <4>3 DEF CountStep, Inv, CountOK
      <3> QED BY <3>1, <3>2
    <2>2. ASSUME \A u \in Threads : m \notin Listed(u)'
          PROVE  count'[m] = 0
      <3>1. \A u \in Threads : u # t => m \notin Listed(u)
        BY <2>2, SameView DEF Frame
      <3>2. CASE m \in Listed(t) BY <2>2, <3>2 DEF CountStep
      <3>3. CASE m \notin Listed(t)
        BY <2>2, <3>1, <3>3 DEF CountStep, Inv, CountOK
      <3> QED BY <3>2, <3>3
    <2> QED BY <2>1, <2>2
  <1> QED BY <1>1, <1>2 DEF Inv

-----------------------------------------------------------------------------
(* Calls and lockers.                                                      *)

LEMMA CallFacts ==
  ASSUME TypeOK, NEW t \in Threads, CallOK(t), pc[t] # "idle"
  PROVE  /\ call[t].all \in SUBSET Mutexes /\ call[t].all # {}
         /\ call[t].todo \subseteq call[t].all /\ call[t].todo # {}
         /\ \A m, n \in call[t].all : Level[m] = Level[n]
         /\ First(call[t].todo) \in call[t].todo
         /\ \A n \in call[t].todo : First(call[t].todo) <= n
         /\ Last(call[t].todo) \in call[t].todo
         /\ \A n \in call[t].todo : n <= Last(call[t].todo)
         /\ call[t].multi \in BOOLEAN
         /\ call[t].how \in Ways \cup {"none", "unlock", "undo"}
  <1>1. /\ call[t].all \in SUBSET Mutexes /\ call[t].all # {}
        /\ call[t].todo \subseteq call[t].all /\ call[t].todo # {}
        /\ \A m, n \in call[t].all : Level[m] = Level[n]
    BY DEF CallOK, Containers
  <1>2. call[t] \in Calls BY DEF TypeOK
  <1>3. /\ call[t].multi \in BOOLEAN
        /\ call[t].how \in Ways \cup {"none", "unlock", "undo"}
    BY <1>2 DEF Calls
  <1>4. /\ call[t].todo \in SUBSET Mutexes
        /\ \A m, n \in call[t].todo : Level[m] = Level[n]
    BY <1>1
  <1>5. /\ First(call[t].todo) \in call[t].todo
        /\ \A n \in call[t].todo : First(call[t].todo) <= n
    BY <1>1, <1>4, FirstIsFirst
  <1>6. /\ Last(call[t].todo) \in call[t].todo
        /\ \A n \in call[t].todo : n <= Last(call[t].todo)
    BY <1>1, <1>4, LastIsLast
  <1> QED BY <1>1, <1>3, <1>5, <1>6

LEMMA LockerFacts ==
  ASSUME TypeOK, NEW t \in Threads
  PROVE  /\ lockers[t] \in Seq(Lockers) /\ Len(lockers[t]) \in Nat
         /\ \A i \in 1..Len(lockers[t]) :
              /\ lockers[t][i] \in Lockers
              /\ lockers[t][i].multi \in BOOLEAN
              /\ lockers[t][i].set \in SUBSET Mutexes
              /\ lockers[t][i].set # {}
  <1>1. lockers[t] \in Seq(Lockers) BY DEF TypeOK
  <1>2. ASSUME NEW i \in 1..Len(lockers[t])
        PROVE  /\ lockers[t][i] \in Lockers
               /\ lockers[t][i].multi \in BOOLEAN
               /\ lockers[t][i].set \in SUBSET Mutexes
               /\ lockers[t][i].set # {}
    <2>1. lockers[t][i] \in Lockers BY <1>1
    <2>2. PICK b \in BOOLEAN, c \in Containers :
             lockers[t][i] = [multi |-> b, set |-> c]
      BY <2>1 DEF Lockers
    <2> QED BY <2>1, <2>2 DEF Containers
  <1> QED BY <1>1, <1>2

LEMMA IntervalFinite ==
  ASSUME NEW n \in Nat PROVE IsFiniteSet(1..n)
  <1>1. 1 \in Int /\ n \in Int OBVIOUS
  <1> QED BY <1>1, FS_Interval

LEMMA UsesFacts ==
  ASSUME TypeOK, NEW t \in Threads, NEW m \in Mutexes
  PROVE  /\ IsFiniteSet(Holding(t, m)) /\ Cardinality(Holding(t, m)) \in Nat
         /\ Uses(t, m) \in Nat
         /\ Holding(t, m) = {} => Cardinality(Holding(t, m)) = 0
         /\ Holding(t, m) # {} => Cardinality(Holding(t, m)) >= 1
  <1>1. Len(lockers[t]) \in Nat BY LockerFacts
  <1>2. IsFiniteSet(1..Len(lockers[t])) BY <1>1, IntervalFinite
  <1>3. Holding(t, m) \subseteq 1..Len(lockers[t]) BY DEF Holding
  <1>4. IsFiniteSet(Holding(t, m)) BY <1>2, <1>3, FS_Subset
  <1>5. Cardinality(Holding(t, m)) \in Nat BY <1>4, FS_CardinalityType
  <1>6. Cardinality(Holding(t, m)) = 0 <=> Holding(t, m) = {}
    BY <1>4, FS_EmptySet
  <1> QED BY <1>4, <1>5, <1>6 DEF Uses

\* A locker more is one use more of its mutexes.
LEMMA NewLockerHolds ==
  ASSUME TypeOK, NEW t \in Threads, NEW m \in Mutexes, NEW l \in Lockers,
         lockers'[t] = Append(lockers[t], l)
  PROVE  /\ m \in l.set => Cardinality(Holding(t, m))' =
                             Cardinality(Holding(t, m)) + 1
         /\ m \notin l.set => Holding(t, m)' = Holding(t, m)
  <1> DEFINE n == Len(lockers[t])
  <1>1. /\ lockers[t] \in Seq(Lockers) /\ n \in Nat BY LockerFacts
  <1>2. /\ Len(lockers'[t]) = n + 1 /\ lockers'[t][n + 1] = l
        /\ \A i \in 1..n : lockers'[t][i] = lockers[t][i]
    BY <1>1
  <1>3. CASE m \in l.set
    <2>1. Holding(t, m)' = Holding(t, m) \cup {n + 1}
      <3>1. Holding(t, m)' \subseteq Holding(t, m) \cup {n + 1}
        <4> SUFFICES ASSUME NEW i \in 1..(n + 1), m \in lockers'[t][i].set,
                            i # n + 1
                     PROVE  i \in Holding(t, m)
          BY <1>2 DEF Holding
        <4>1. i \in 1..n BY <1>1
        <4> QED BY <1>2, <4>1 DEF Holding
      <3>2. Holding(t, m) \cup {n + 1} \subseteq Holding(t, m)'
        BY <1>1, <1>2, <1>3 DEF Holding
      <3> QED BY <3>1, <3>2
    <2>2. n + 1 \notin Holding(t, m) BY <1>1 DEF Holding
    <2>3. IsFiniteSet(Holding(t, m)) BY <1>1, UsesFacts
    <2>4. Cardinality(Holding(t, m) \cup {n + 1}) = Cardinality(Holding(t, m)) + 1
      BY <2>2, <2>3, FS_AddElement
    <2> QED BY <1>3, <2>1, <2>4
  <1>4. CASE m \notin l.set
    <2>1. Holding(t, m)' \subseteq Holding(t, m)
      <3> SUFFICES ASSUME NEW i \in 1..(n + 1), m \in lockers'[t][i].set
                   PROVE  i \in Holding(t, m)
        BY <1>2 DEF Holding
      <3>1. i # n + 1 BY <1>2, <1>4
      <3>2. i \in 1..n BY <1>1, <3>1
      <3> QED BY <1>2, <3>2 DEF Holding
    <2>2. Holding(t, m) \subseteq Holding(t, m)'
      BY <1>1, <1>2 DEF Holding
    <2> QED BY <1>4, <2>1, <2>2
  <1> QED BY <1>3, <1>4

\* The last locker gone, its mutexes are used once less.
LEMMA LastLockerHeld ==
  ASSUME TypeOK, NEW t \in Threads, NEW m \in Mutexes, lockers[t] # <<>>,
         lockers'[t] = SubSeq(lockers[t], 1, Len(lockers[t]) - 1)
  PROVE  /\ m \in lockers[t][Len(lockers[t])].set =>
              Cardinality(Holding(t, m))' = Cardinality(Holding(t, m)) - 1
         /\ m \notin lockers[t][Len(lockers[t])].set =>
              Holding(t, m)' = Holding(t, m)
  <1> DEFINE n == Len(lockers[t])
  <1>1. /\ lockers[t] \in Seq(Lockers) /\ n \in Nat \ {0} BY LockerFacts
  <1>2. /\ Len(lockers'[t]) = n - 1
        /\ \A i \in 1..(n - 1) : lockers'[t][i] = lockers[t][i]
    BY <1>1
  <1>3. Holding(t, m)' = Holding(t, m) \ {n}
    <2>1. Holding(t, m)' \subseteq Holding(t, m) \ {n}
      BY <1>1, <1>2 DEF Holding
    <2>2. Holding(t, m) \ {n} \subseteq Holding(t, m)'
      <3> SUFFICES ASSUME NEW i \in 1..n, m \in lockers[t][i].set, i # n
                   PROVE  i \in Holding(t, m)'
        BY DEF Holding
      <3>1. i \in 1..(n - 1) BY <1>1
      <3> QED BY <1>2, <3>1 DEF Holding
    <2> QED BY <2>1, <2>2
  <1>4. n \in Holding(t, m) <=> m \in lockers[t][n].set
    BY <1>1 DEF Holding
  <1>5. CASE m \in lockers[t][n].set
    <2>1. IsFiniteSet(Holding(t, m)) BY <1>1, UsesFacts
    <2>2. Cardinality(Holding(t, m) \ {n}) = Cardinality(Holding(t, m)) - 1
      BY <1>4, <1>5, <2>1, FS_RemoveElement
    <2> QED BY <1>3, <1>5, <2>2
  <1>6. CASE m \notin lockers[t][n].set
    BY <1>3, <1>4, <1>6
  <1> QED BY <1>5, <1>6

-----------------------------------------------------------------------------
(* Steps that leave lists alone.                                           *)

LEMMA IdleFacts ==
  ASSUME NEW t \in Threads, pc[t] = "idle"
  PROVE  InHand(t) = {} /\ Pending(t) = {}
  BY DEF InHand, Pending

LEMMA SameList ==
  ASSUME NEW t \in Threads, list'[t] = list[t]
  PROVE  /\ Listed(t)' = Listed(t)
         /\ \A m : SameLevel(t, m)' = SameLevel(t, m)
         /\ OrderOK(t) => OrderOK(t)'
  <1>1. Listed(t)' = Listed(t) BY DEF Listed
  <1> QED BY <1>1 DEF SameLevel, OrderOK, Above

\* Lockers and list the same: what is said of lockers stays true.
LEMMA SameLockers ==
  ASSUME NEW t \in Threads, list'[t] = list[t], lockers'[t] = lockers[t],
         LockersOK(t)
  PROVE  /\ LockersOK(t)'
         /\ \A m : Holding(t, m)' = Holding(t, m)
  <1>1. Listed(t)' = Listed(t) /\ \A m : SameLevel(t, m)' = SameLevel(t, m)
    BY SameList
  <1>2. ASSUME NEW i PROVE LockerOK(t, i)' <=> LockerOK(t, i)
    BY ZenonT(40), <1>1 DEF LockerOK
  <1>3. LockersOK(t)' BY <1>2 DEF LockersOK
  <1> QED BY <1>3 DEF Holding

\* Nor is anything lost by a locker whose mutexes stay listed, and alone with
\* those of their level.
LEMMA KeptLocker ==
  ASSUME NEW t \in Threads, NEW i \in Nat, i \in 1..i, LockerOK(t, i),
         \A j \in 1..i : lockers'[t][j] = lockers[t][j],
         \A n \in lockers[t][i].set :
            n \in Listed(t)' /\ SameLevel(t, n)' = SameLevel(t, n)
  PROVE  LockerOK(t, i)'
  <1>1. lockers'[t][i] = lockers[t][i] OBVIOUS
  <1>2. (lockers[t][i].set \subseteq Listed(t))' BY <1>1
  <1>3. (\A m, n \in lockers[t][i].set : Level[m] = Level[n])'
    BY <1>1 DEF LockerOK
  <1>4. (~lockers[t][i].multi => \E m \in Mutexes : lockers[t][i].set = {m})'
    BY <1>1 DEF LockerOK
  <1>5. (lockers[t][i].multi =>
            \A m \in lockers[t][i].set : lockers[t][i].set = SameLevel(t, m))'
    BY <1>1 DEF LockerOK
  <1>6. (\A m \in lockers[t][i].set :
            \E b \in 1..i : lockers[t][b].set = SameLevel(t, m))'
    BY <1>1 DEF LockerOK
  <1>7. (\A j \in 1..i : \A m \in lockers[t][i].set :
            \A n \in lockers[t][j].set : Level[m] <= Level[n])'
    BY <1>1 DEF LockerOK
  <1> QED BY <1>2, <1>3, <1>4, <1>5, <1>6, <1>7 DEF LockerOK

LEMMA RelockFacts ==
  ASSUME Inv, NEW t \in Threads, NEW multi \in BOOLEAN,
         NEW S \in Containers, Relock(t, multi, S)
  PROVE  /\ S \in SUBSET Mutexes /\ S # {} /\ pc[t] = "idle"
         /\ list[t] # <<>>
         /\ S \subseteq SameLevel(t, list[t][1])
         /\ multi => S = SameLevel(t, list[t][1])
         /\ ~multi => \E m \in Mutexes : S = {m}
  <1>1. S \in SUBSET Mutexes /\ S # {} BY DEF Containers
  <1>2. pc[t] = "idle" /\ (~multi => \E m \in S : S = {m}) BY DEF Relock, Begins
  <1>3. TypeOK /\ OrderOK(t) BY DEF Inv, ThreadOK
  <1>4. CASE multi
    <2>1. S = Recent(t) BY <1>4 DEF Relock, MayRelock
    <2>2. list[t] # <<>>
      <3> SUFFICES ASSUME list[t] = <<>> PROVE FALSE OBVIOUS
      <3>1. Len(list[t]) = 0 BY <1>3, ListedTypes
      <3> QED BY <1>1, <2>1, <3>1 DEF Recent
    <2> QED BY <1>1, <1>2, <1>3, <1>4, <2>1, <2>2, RecentIsLevel
  <1>5. CASE ~multi
    <2>1. \A m \in S : AtCurrentLevel(t, m) /\ m \in Listed(t)
      BY <1>5 DEF Relock, MayRelock
    <2> QED BY <1>1, <1>2, <1>5, <2>1 DEF AtCurrentLevel, SameLevel
  <1> QED BY <1>4, <1>5

LEMMA RelockKeepsLockers ==
  ASSUME Inv, NEW t \in Threads, NEW multi \in BOOLEAN,
         NEW S \in Containers, Relock(t, multi, S)
  PROVE  LockersOK(t)'
  <1> DEFINE l == [multi |-> multi, set |-> S]
  <1>0. PICK n \in Nat : n = Len(lockers[t]) BY LockerFacts DEF Inv
  <1>1. TypeOK /\ OrderOK(t) /\ LockersOK(t) /\ CoveredOK(t)
    BY DEF Inv, ThreadOK
  <1>2. /\ lockers'[t] = Append(lockers[t], l) /\ list'[t] = list[t]
    BY <1>1 DEF Relock, TypeOK
  <1>3. /\ Listed(t)' = Listed(t)
        /\ \A m : SameLevel(t, m)' = SameLevel(t, m)
    BY <1>2, SameList
  <1>4. /\ n \in Nat /\ Len(lockers'[t]) = n + 1 /\ lockers'[t][n + 1] = l
        /\ \A i \in 1..n : lockers'[t][i] = lockers[t][i]
    BY <1>0, <1>1, <1>2, LockerFacts
  <1>5. ASSUME NEW i \in 1..n PROVE LockerOK(t, i)'
    <2>1. /\ lockers'[t][i] = lockers[t][i]
          /\ \A j \in 1..i : lockers'[t][j] = lockers[t][j]
      BY <1>4
    <2>2. LockerOK(t, i) BY <1>0, <1>1 DEF LockersOK
    <2> QED BY <1>3, <2>1, <2>2 DEF LockerOK
  <1>6. LockerOK(t, n + 1)'
    <2>1. /\ S \in SUBSET Mutexes /\ S # {} /\ pc[t] = "idle"
          /\ list[t] # <<>>
          /\ S \subseteq SameLevel(t, list[t][1])
          /\ multi => S = SameLevel(t, list[t][1])
          /\ ~multi => \E m \in Mutexes : S = {m}
      BY RelockFacts
    <2>2. list[t][1] \in Listed(t)
            /\ \A m \in Listed(t) : Level[m] >= Level[list[t][1]]
      BY <1>1, <2>1, HeadIsLowest
    <2>3. l.set = S /\ l.multi = multi OBVIOUS
    <2>4. \A m \in S : m \in Listed(t) /\ SameLevel(t, m) = SameLevel(t, list[t][1])
      BY <2>1 DEF SameLevel
    <2>5. \A m, k \in S : Level[m] = Level[k] BY <2>1 DEF SameLevel
    <2>6. ASSUME NEW m \in S
          PROVE  \E b \in 1..(n + 1) : lockers'[t][b].set = SameLevel(t, m)
      <3>1. CASE multi
        BY <1>4, <2>1, <2>3, <2>4, <3>1
      <3>2. CASE ~multi
        <4>1. m \in Listed(t) /\ Pending(t) = {}
          BY <2>1, <2>4, IdleFacts
        <4>2. PICK i \in 1..n : m \in lockers[t][i].set
          BY <1>0, <1>1, <4>1 DEF CoveredOK
        <4>3. PICK b \in 1..i : lockers[t][b].set = SameLevel(t, m)
          BY <1>0, <1>1, <4>2 DEF LockersOK, LockerOK
        <4>4. b \in 1..n /\ b \in 1..(n + 1) BY <1>4
        <4> QED BY <1>4, <4>3, <4>4
      <3> QED BY <3>1, <3>2
    <2>7. ASSUME NEW j \in 1..(n + 1), NEW m \in S, NEW k \in lockers'[t][j].set
          PROVE  Level[m] <= Level[k]
      <3>0. m \in Mutexes /\ Level[m] \in Nat BY <2>1, AboveIsOrder
      <3>1. CASE j = n + 1
        <4>1. k \in S BY <1>4, <2>3, <3>1
        <4> QED BY <2>5, <3>0, <4>1
      <3>2. CASE j \in 1..n
        <4>1. k \in Listed(t) BY <1>0, <1>1, <1>4, <3>2 DEF LockersOK, LockerOK
        <4>2. Level[k] >= Level[list[t][1]] BY <2>2, <4>1
        <4>3. Level[m] = Level[list[t][1]] BY <2>1 DEF SameLevel
        <4> QED BY <4>2, <4>3
      <3> QED BY <1>4, <3>1, <3>2
    <2>8. S \subseteq Listed(t) BY <2>4
    <2>9. multi => \A m \in S : S = SameLevel(t, m) BY <2>1, <2>4
    <2>10. lockers'[t][n + 1].set = S /\ lockers'[t][n + 1].multi = multi
      BY <1>4, <2>3
    <2> HIDE DEF l
    <2>11. S \subseteq Listed(t)' BY <1>3, <2>8
    <2>12. multi => \A m \in S : S = SameLevel(t, m)' BY <1>3, <2>9
    <2>13. \A m \in S :
             \E b \in 1..(n + 1) : lockers'[t][b].set = SameLevel(t, m)'
      BY <1>3, <2>6
    <2>14. ~multi => \E m \in Mutexes : S = {m} BY <2>1
    <2> QED BY <2>5, <2>7, <2>10, <2>11, <2>12, <2>13, <2>14
         DEF LockerOK
  <1> SUFFICES ASSUME NEW i \in 1..Len(lockers'[t]) PROVE LockerOK(t, i)'
    BY DEF LockersOK
  <1>7. i \in 1..n \/ i = n + 1 BY <1>4
  <1> QED BY <1>5, <1>6, <1>7

LEMMA RelockKeepsInv ==
  ASSUME Inv, NEW t \in Threads, NEW multi \in BOOLEAN,
         NEW S \in Containers, Relock(t, multi, S)
  PROVE  Inv'
  <1> DEFINE l == [multi |-> multi, set |-> S]
  <1>1. TypeOK /\ ThreadOK(t) BY DEF Inv
  <1>2. /\ S \in SUBSET Mutexes /\ S # {} /\ pc[t] = "idle"
        /\ list[t] # <<>>
        /\ S \subseteq SameLevel(t, list[t][1])
    BY RelockFacts
  <1>3. /\ lockers' = [lockers EXCEPT ![t] = Append(@, l)]
        /\ count' = [m \in Mutexes |->
                       IF m \in S THEN count[m] + 1 ELSE count[m]]
        /\ UNCHANGED <<owner, list, pc, call>>
    BY DEF Relock
  <1>4. l \in Lockers BY DEF Lockers
  <1>5. lockers'[t] = Append(lockers[t], l) BY <1>1, <1>3 DEF TypeOK
  <1>6. TypeOK'
    <2>1. count' \in [Mutexes -> Nat] BY <1>1, <1>3 DEF TypeOK
    <2>2. lockers' \in [Threads -> Seq(Lockers)]
      BY <1>1, <1>3, <1>4 DEF TypeOK
    <2> QED BY <1>1, <1>3, <2>1, <2>2 DEF TypeOK
  <1>7. Frame(t) BY <1>1, <1>3 DEF Frame, Untouched, TypeOK
  <1>8. /\ Listed(t)' = Listed(t) /\ InHand(t)' = InHand(t)
        /\ Pending(t)' = {} /\ Pending(t) = {}
        /\ OrderOK(t)'
    BY <1>1, <1>2, <1>3, SameList, IdleFacts DEF InHand, Pending, ThreadOK
  <1>9. ThreadOK(t)'
    <2>1. CallOK(t)' BY <1>1, <1>3 DEF ThreadOK, CallOK
    <2>2. HeldOK(t)' BY <1>1, <1>3, <1>8 DEF ThreadOK, HeldOK
    <2>3. LockingOK(t)' /\ UnlockingOK(t)'
      BY <1>2, <1>3 DEF LockingOK, UnlockingOK
    <2>4. LockersOK(t)' BY RelockKeepsLockers
    <2>5. CoveredOK(t)'
      <3> SUFFICES ASSUME NEW m \in Listed(t)
                   PROVE  \E i \in 1..Len(lockers'[t]) : m \in lockers'[t][i].set
        BY <1>8 DEF CoveredOK
      <3>1. PICK i \in 1..Len(lockers[t]) : m \in lockers[t][i].set
        BY <1>1, <1>8 DEF ThreadOK, CoveredOK
      <3>2. i \in 1..Len(lockers'[t]) /\ lockers'[t][i] = lockers[t][i]
        BY <1>1, <1>5, LockerFacts
      <3> QED BY <3>1, <3>2
    <2> QED BY <1>8, <2>1, <2>2, <2>3, <2>4, <2>5 DEF ThreadOK
  <1>10. CountStep(t)
    <2>1. ASSUME NEW m \in Mutexes, m \in Listed(t)
          PROVE  count'[m] = Uses(t, m)'
      <3>1. count[m] = Uses(t, m) BY <2>1 DEF Inv, CountOK
      <3> DEFINE c == Cardinality(Holding(t, m))
      <3>2. c \in Nat BY <1>1, UsesFacts
      <3>3. c' = IF m \in S THEN c + 1 ELSE c
        BY <1>1, <1>4, <1>5, NewLockerHolds
      <3>4. Uses(t, m) = c + 0 /\ Uses(t, m)' = c' + 0 BY <1>8 DEF Uses
      <3>5. count'[m] = IF m \in S THEN count[m] + 1 ELSE count[m] BY <1>3
      <3> HIDE DEF c
      <3> QED BY <3>1, <3>2, <3>3, <3>4, <3>5
    <2>2. \A m \in Mutexes : m \notin Listed(t) => count'[m] = count[m]
      BY <1>2, <1>3 DEF SameLevel
    <2> QED BY <1>8, <2>1, <2>2 DEF CountStep
  <1> QED BY <1>6, <1>7, <1>9, <1>10, StepKeepsInv

LEMMA LockKeepsInv ==
  ASSUME Inv, NEW t \in Threads, NEW multi \in BOOLEAN,
         NEW S \in Containers, NEW how \in Ways, Lock(t, multi, S, how)
  PROVE  Inv'
  <1> DEFINE c == [multi |-> multi, all |-> S, todo |-> S, how |-> how]
  <1>1. TypeOK /\ ThreadOK(t) BY DEF Inv
  <1>2. S \in SUBSET Mutexes /\ S # {} BY DEF Containers
  <1>3. /\ pc[t] = "idle"
        /\ ~multi => \E m \in S : S = {m}
        /\ \A m \in S : BelowCurrentLevel(t, m)
        /\ \A m, n \in S : Level[m] = Level[n]
        /\ pc' = [pc EXCEPT ![t] = "lock"]
        /\ call' = [call EXCEPT ![t] = c]
        /\ UNCHANGED <<owner, count, list, lockers>>
    BY DEF Lock, Begins, MayLock
  <1>4. c \in Calls BY <1>2 DEF Calls
  <1>5. /\ pc'[t] = "lock" /\ call'[t] = c BY <1>1, <1>3 DEF TypeOK
  <1>6. /\ c.all = S /\ c.todo = S /\ c.multi = multi /\ c.how = how OBVIOUS
  <1> HIDE DEF c
  <1>7. TypeOK' BY <1>1, <1>3, <1>4 DEF TypeOK
  <1>8. Frame(t) BY <1>1, <1>3 DEF Frame, Untouched, TypeOK
  <1>9. /\ Listed(t)' = Listed(t) /\ OrderOK(t)'
        /\ \A m : SameLevel(t, m)' = SameLevel(t, m)
    BY <1>1, <1>3, SameList DEF ThreadOK
  <1>10. InHand(t)' = {} /\ InHand(t) = {}
    BY <1>3, <1>5, IdleFacts DEF InHand
  <1>11. Pending(t)' = {} /\ Pending(t) = {}
    BY <1>3, <1>5, <1>6, IdleFacts DEF Pending
  <1>12. \A m \in S : \A n \in Listed(t) : Level[n] > Level[m]
    <2> TAKE m \in S
    <2> TAKE n \in Listed(t)
    <2>1. list[t] # <<>> BY <1>1, ListedTypes
    <2>2. Level[m] < Level[list[t][1]] BY <1>3, <2>1 DEF BelowCurrentLevel
    <2>3. Level[n] >= Level[list[t][1]] /\ list[t][1] \in Listed(t)
      BY <1>1, <2>1, HeadIsLowest DEF ThreadOK
    <2>4. /\ Level[n] \in Nat /\ Level[m] \in Nat /\ Level[list[t][1]] \in Nat
      BY <1>1, <1>2, <2>3, ListedTypes, AboveIsOrder
    <2> QED BY <2>2, <2>3, <2>4
  <1>13. ThreadOK(t)'
    <2>1. CallOK(t)' BY <1>2, <1>3, <1>5, <1>6 DEF CallOK
    <2>2. HeldOK(t)' BY <1>1, <1>3, <1>9, <1>10 DEF ThreadOK, HeldOK
    <2>3. LockingOK(t)'
      <3>1. \A m \in S : SameLevel(t, m)' = {}
        <4> SUFFICES ASSUME NEW m \in S, NEW n \in Listed(t), Level[n] = Level[m]
                     PROVE  FALSE
          BY <1>9 DEF SameLevel
        <4>1. Level[n] \in Nat /\ Level[n] > Level[m]
          BY <1>1, <1>12, ListedTypes, AboveIsOrder
        <4> QED BY <4>1
      <3>2. S \ S = {} OBVIOUS
      <3>3. \A m \in S : \A n \in Listed(t)' : Above(n, m)'
        BY <1>9, <1>12 DEF Above
      <3>4. \A m \in S : \A i \in 1..Len(lockers[t]) :
              \A n \in lockers[t][i].set : Level[n] # Level[m]
        <4> SUFFICES ASSUME NEW m \in S, NEW i \in 1..Len(lockers[t]),
                            NEW n \in lockers[t][i].set, Level[n] = Level[m]
                     PROVE  FALSE
          OBVIOUS
        <4>1. n \in Listed(t)
          BY <1>1 DEF ThreadOK, LockersOK, LockerOK
        <4>2. Level[n] \in Nat /\ Level[n] > Level[m]
          BY <1>1, <1>12, <4>1, ListedTypes, AboveIsOrder
        <4> QED BY <4>2
      <3>5. NoLocker(t)' BY <1>3, <1>5, <1>6, <3>4 DEF NoLocker
      <3> QED BY <1>5, <1>6, <3>1, <3>2, <3>3, <3>5 DEF LockingOK
    <2>4. UnlockingOK(t)' BY <1>5 DEF UnlockingOK
    <2>5. LockersOK(t)' BY <1>1, <1>3, SameLockers DEF ThreadOK
    <2>6. CoveredOK(t)' BY <1>1, <1>3, <1>9, <1>11 DEF ThreadOK, CoveredOK
    <2> QED BY <1>9, <2>1, <2>2, <2>3, <2>4, <2>5, <2>6 DEF ThreadOK
  <1>14. CountStep(t)
    <2>1. \A m : Uses(t, m)' = Uses(t, m)
      <3>1. \A m : Holding(t, m)' = Holding(t, m)
        BY <1>1, <1>3, SameLockers DEF ThreadOK
      <3> QED BY <1>11, <3>1 DEF Uses
    <2> QED BY <1>3, <1>9, <2>1 DEF CountStep, Inv, CountOK
  <1> QED BY <1>7, <1>8, <1>13, <1>14, StepKeepsInv

LEMMA AcquireKeepsInv ==
  ASSUME Inv, NEW t \in Threads, Acquire(t)
  PROVE  Inv'
  <1>1. TypeOK /\ ThreadOK(t) BY DEF Inv
  <1>2. PICK x \in Mutexes : x = First(call[t].todo) /\ x \in call[t].todo
    BY <1>1, CallFacts DEF Acquire, ThreadOK
  <1>3. /\ pc[t] = "lock" /\ owner[x] = Nobody
        /\ owner' = [owner EXCEPT ![x] = t]
        /\ pc' = [pc EXCEPT ![t] = "post"]
        /\ UNCHANGED <<count, list, call, lockers>>
    BY <1>2 DEF Acquire
  <1>4. pc'[t] = "post" BY <1>1, <1>3 DEF TypeOK
  <1>5. TypeOK' BY <1>1, <1>2, <1>3 DEF TypeOK
  <1>6. Frame(t) BY <1>1, <1>2, <1>3 DEF Frame, Untouched, TypeOK
  <1>7. /\ Listed(t)' = Listed(t) /\ OrderOK(t)'
        /\ \A m : SameLevel(t, m)' = SameLevel(t, m)
    BY <1>1, <1>3, SameList DEF ThreadOK
  <1>8. InHand(t)' = {x} /\ InHand(t) = {}
    BY <1>2, <1>3, <1>4 DEF InHand
  <1>9. Pending(t)' = Pending(t) BY <1>3, <1>4 DEF Pending
  <1>10. ThreadOK(t)'
    <2>1. CallOK(t)' BY <1>1, <1>3, <1>4 DEF ThreadOK, CallOK
    <2>2. HeldOK(t)'
      <3>1. x \notin Listed(t) BY <1>1, <1>2, <1>3 DEF ThreadOK, HeldOK
      <3>2. \A m \in Mutexes : owner'[m] = t <=> owner[m] = t \/ m = x
        BY <1>1, <1>2, <1>3 DEF TypeOK
      <3> QED BY <1>1, <1>7, <1>8, <3>1, <3>2 DEF ThreadOK, HeldOK
    <2>3. NoLocker(t)' <=> NoLocker(t) BY <1>3 DEF NoLocker
    <2>4. LockingOK(t)'
      BY <1>1, <1>3, <1>7, <2>3 DEF ThreadOK, LockingOK, Above
    <2>5. UnlockingOK(t)' BY <1>4 DEF UnlockingOK
    <2>6. LockersOK(t)' BY <1>1, <1>3, SameLockers DEF ThreadOK
    <2>7. CoveredOK(t)' BY <1>1, <1>3, <1>7, <1>9 DEF ThreadOK, CoveredOK
    <2> QED BY <1>7, <2>1, <2>2, <2>4, <2>5, <2>6, <2>7 DEF ThreadOK
  <1>11. CountStep(t)
    <2>1. \A m : Uses(t, m)' = Uses(t, m)
      <3>1. \A m : Holding(t, m)' = Holding(t, m)
        BY <1>1, <1>3, SameLockers DEF ThreadOK
      <3> QED BY <1>9, <3>1 DEF Uses
    <2> QED BY <1>3, <1>7, <2>1 DEF CountStep, Inv, CountOK
  <1> QED BY <1>5, <1>6, <1>10, <1>11, StepKeepsInv

LEMMA GiveUpKeepsInv ==
  ASSUME Inv, NEW t \in Threads, GiveUp(t)
  PROVE  Inv'
  <1>1. TypeOK /\ ThreadOK(t) BY DEF Inv
  <1>2. pc[t] = "lock" BY DEF GiveUp
  <1>3. /\ call[t].all \in SUBSET Mutexes /\ call[t].all # {}
        /\ call[t].todo \subseteq call[t].all /\ call[t].todo # {}
        /\ \A m, n \in call[t].all : Level[m] = Level[n]
        /\ call[t] \in Calls
    BY <1>1, <1>2, CallFacts DEF ThreadOK, TypeOK
  <1>4. PICK L \in SUBSET Mutexes : L = call[t].all \ call[t].todo
    BY <1>3
  <1>5. PICK c \in Calls :
           /\ c = [multi |-> call[t].multi, all |-> call[t].all,
                   todo |-> L, how |-> "undo"]
           /\ c.all = call[t].all /\ c.todo = L
           /\ c.multi = call[t].multi /\ c.how = "undo"
    <2> DEFINE r == [multi |-> call[t].multi, all |-> call[t].all,
                     todo |-> L, how |-> "undo"]
    <2>1. call[t].multi \in BOOLEAN BY <1>3 DEF Calls
    <2>2. r \in Calls BY <1>3, <2>1 DEF Calls
    <2>3. /\ r.all = call[t].all /\ r.todo = L
          /\ r.multi = call[t].multi /\ r.how = "undo"
      OBVIOUS
    <2> QED BY <2>2, <2>3
  <1>6. /\ pc' = [pc EXCEPT ![t] = IF L = {} THEN "idle" ELSE "unlock"]
        /\ call' = [call EXCEPT ![t] = IF L = {} THEN NoCall ELSE c]
        /\ UNCHANGED <<owner, count, list, lockers>>
    BY <1>4, <1>5 DEF GiveUp
  <1>7. NoCall \in Calls BY DEF NoCall, Calls
  <1>8. TypeOK' BY <1>1, <1>6, <1>7 DEF TypeOK
  <1>9. Frame(t) BY <1>1, <1>6 DEF Frame, Untouched, TypeOK
  <1>10. /\ Listed(t)' = Listed(t) /\ OrderOK(t)'
         /\ \A m : SameLevel(t, m)' = SameLevel(t, m)
    BY <1>1, <1>6, SameList DEF ThreadOK
  <1>11. /\ pc'[t] = IF L = {} THEN "idle" ELSE "unlock"
         /\ call'[t] = IF L = {} THEN NoCall ELSE c
    BY <1>1, <1>6 DEF TypeOK
  <1>12. InHand(t)' = {} /\ InHand(t) = {}
    BY <1>2, <1>11 DEF InHand
  <1>13. Pending(t)' = L /\ Pending(t) = L
    BY <1>2, <1>4, <1>5, <1>11 DEF Pending
  <1>14. ThreadOK(t)'
    <2>1. CallOK(t)'
      <3>1. CASE L = {} BY <1>11, <3>1 DEF CallOK
      <3>2. CASE L # {}
        <4>1. pc'[t] = "unlock" /\ call'[t] = c BY <1>11, <3>2
        <4>2. ~call[t].multi => \E m \in Mutexes : call[t].all = {m}
          BY <1>1, <1>2 DEF ThreadOK, CallOK
        <4> QED BY <1>3, <1>4, <1>5, <3>2, <4>1, <4>2 DEF CallOK, Containers
      <3> QED BY <3>1, <3>2
    <2>2. HeldOK(t)' BY <1>1, <1>6, <1>10, <1>12 DEF ThreadOK, HeldOK
    <2>3. LockingOK(t)' BY <1>11 DEF LockingOK
    <2>4. UnlockingOK(t)'
      <3> SUFFICES ASSUME L # {}
                   PROVE  /\ \A m \in c.all : \A n \in Listed(t) :
                               Level[n] >= Level[m]
                          /\ LastUse(t)'
        BY <1>10, <1>11 DEF UnlockingOK
      <3>1. call'[t] = c BY <1>11
      <3>2. /\ \A m \in call[t].all : SameLevel(t, m) = L
            /\ \A m \in call[t].todo : \A n \in Listed(t) : Above(n, m)
            /\ NoLocker(t)
        BY <1>1, <1>2, <1>4 DEF ThreadOK, LockingOK
      <3>3. NoLocker(t)' BY <1>5, <1>6, <3>1, <3>2 DEF NoLocker
      <3>4. LastUse(t)' BY <1>5, <1>10, <1>13, <3>1, <3>2, <3>3 DEF LastUse
      <3>5. ASSUME NEW m \in c.all, NEW n \in Listed(t)
            PROVE  Level[n] >= Level[m]
        <4>1. PICK x \in call[t].todo : Above(n, x) BY <1>3, <3>2
        <4>2. Level[x] = Level[m] BY <1>3, <1>5
        <4>3. n \in Mutexes /\ Level[n] \in Nat /\ m \in Mutexes /\ Level[m] \in Nat
          BY <1>1, <1>3, <1>5, ListedTypes, AboveIsOrder
        <4> QED BY <4>1, <4>2, <4>3 DEF Above
      <3> QED BY <3>4, <3>5
    <2>5. LockersOK(t)' BY <1>1, <1>6, SameLockers DEF ThreadOK
    <2>6. CoveredOK(t)' BY <1>1, <1>6, <1>10, <1>13 DEF ThreadOK, CoveredOK
    <2> QED BY <1>10, <2>1, <2>2, <2>3, <2>4, <2>5, <2>6 DEF ThreadOK
  <1>15. CountStep(t)
    <2>1. \A m : Uses(t, m)' = Uses(t, m)
      <3>1. \A m : Holding(t, m)' = Holding(t, m)
        BY <1>1, <1>6, SameLockers DEF ThreadOK
      <3> QED BY <1>13, <3>1 DEF Uses
    <2> QED BY <1>6, <1>10, <2>1 DEF CountStep, Inv, CountOK
  <1> QED BY <1>8, <1>9, <1>14, <1>15, StepKeepsInv

-----------------------------------------------------------------------------
(* PostLock.                                                               *)

LEMMA PostLockFacts ==
  ASSUME Inv, NEW t \in Threads, PostLock(t)
  PROVE  \E x \in call[t].todo :
           /\ x \in Mutexes /\ x = First(call[t].todo)
           /\ \A n \in call[t].todo : x <= n
           /\ x \notin Listed(t) /\ owner[x] = t
           /\ list'[t] = <<x>> \o list[t]
           /\ Len(list'[t]) = Len(list[t]) + 1
           /\ list'[t][1] = x
           /\ \A i \in 1..Len(list[t]) : list'[t][i + 1] = list[t][i]
           /\ \A i \in 2..(Len(list[t]) + 1) : list'[t][i] = list[t][i - 1]
           /\ Listed(t)' = Listed(t) \cup {x}
  <1>1. TypeOK /\ ThreadOK(t) BY DEF Inv
  <1>2. pc[t] = "post" BY DEF PostLock
  <1>3. PICK x \in call[t].todo :
           /\ x \in Mutexes /\ x = First(call[t].todo)
           /\ \A n \in call[t].todo : x <= n
    BY <1>1, <1>2, CallFacts DEF ThreadOK
  <1>4. x \in InHand(t) BY <1>2, <1>3 DEF InHand
  <1>5. x \notin Listed(t) /\ owner[x] = t
    BY <1>1, <1>3, <1>4 DEF ThreadOK, HeldOK
  <1>6. list'[t] = <<x>> \o list[t] BY <1>1, <1>3 DEF PostLock, TypeOK
  <1>7. list[t] \in Seq(Mutexes) /\ Len(list[t]) \in Nat BY <1>1, ListedTypes
  <1>8. /\ Len(list'[t]) = Len(list[t]) + 1 /\ list'[t][1] = x
        /\ \A i \in 1..Len(list[t]) : list'[t][i + 1] = list[t][i]
        /\ \A i \in 2..(Len(list[t]) + 1) : list'[t][i] = list[t][i - 1]
    BY <1>3, <1>6, <1>7
  <1>9. Listed(t)' = Listed(t) \cup {x}
    <2>1. Listed(t)' \subseteq Listed(t) \cup {x}
      <3> SUFFICES ASSUME NEW i \in 1..Len(list'[t])
                   PROVE  list'[t][i] \in Listed(t) \cup {x}
        BY DEF Listed
      <3>0. CASE i = 1 BY <1>8, <3>0
      <3>1. CASE i # 1
        <4>1. i \in 2..(Len(list[t]) + 1) /\ i - 1 \in 1..Len(list[t])
          BY <1>7, <1>8, <3>1
        <4> QED BY <1>8, <4>1 DEF Listed
      <3> QED BY <3>0, <3>1
    <2>2. Listed(t) \subseteq Listed(t)'
      <3> SUFFICES ASSUME NEW i \in 1..Len(list[t])
                   PROVE  list[t][i] \in Listed(t)'
        BY DEF Listed
      <3>1. i + 1 \in 1..Len(list'[t]) BY <1>7, <1>8
      <3> QED BY <1>8, <3>1 DEF Listed
    <2>3. x \in Listed(t)'
      <3>1. 1 \in 1..Len(list'[t]) BY <1>7, <1>8
      <3> QED BY <1>8, <3>1 DEF Listed
    <2> QED BY <2>1, <2>2, <2>3
  <1> QED BY <1>3, <1>5, <1>6, <1>8, <1>9

\* The level of the call has one mutex more, other levels are as before.
LEMMA PostLockLevels ==
  ASSUME Inv, NEW t \in Threads, PostLock(t), NEW x \in Mutexes,
         x = First(call[t].todo), NEW m \in Mutexes
  PROVE  /\ Level[m] = Level[x] => SameLevel(t, m)' = SameLevel(t, m) \cup {x}
         /\ Level[m] # Level[x] => SameLevel(t, m)' = SameLevel(t, m)
  <1>1. Listed(t)' = Listed(t) \cup {x} BY PostLockFacts
  <1> QED BY <1>1 DEF SameLevel

LEMMA PostLockCall ==
  ASSUME Inv, NEW t \in Threads, PostLock(t), NEW x \in Mutexes,
         x = First(call[t].todo)
  PROVE  /\ call[t].all \in SUBSET Mutexes /\ call[t].all # {}
         /\ call[t].todo \subseteq call[t].all /\ x \in call[t].todo
         /\ \A m, n \in call[t].all : Level[m] = Level[n]
         /\ ~call[t].multi => \E m \in Mutexes : call[t].all = {m}
         /\ call[t].multi \in BOOLEAN /\ call[t].all \in Containers
         /\ \A m \in call[t].all : SameLevel(t, m) = call[t].all \ call[t].todo
         /\ \A m \in call[t].todo : \A n \in Listed(t) : Above(n, m)
         /\ NoLocker(t)
         /\ Pending(t) = call[t].all \ call[t].todo
         /\ call[t].how \in Ways
  <1>1. TypeOK /\ ThreadOK(t) BY DEF Inv
  <1>2. pc[t] = "post" BY DEF PostLock
  <1>3. /\ call[t].all \in SUBSET Mutexes /\ call[t].all # {}
        /\ call[t].todo \subseteq call[t].all /\ x \in call[t].todo
        /\ \A m, n \in call[t].all : Level[m] = Level[n]
        /\ call[t].multi \in BOOLEAN
    BY <1>1, <1>2, CallFacts DEF ThreadOK
  <1>4. /\ ~call[t].multi => \E m \in Mutexes : call[t].all = {m}
        /\ call[t].how \in Ways
    BY <1>1, <1>2 DEF ThreadOK, CallOK
  <1>5. call[t].all \in Containers BY <1>3 DEF Containers
  <1>6. /\ \A m \in call[t].all : SameLevel(t, m) = call[t].all \ call[t].todo
        /\ \A m \in call[t].todo : \A n \in Listed(t) : Above(n, m)
        /\ NoLocker(t)
    BY <1>1, <1>2 DEF ThreadOK, LockingOK
  <1>7. Pending(t) = call[t].all \ call[t].todo BY <1>2 DEF Pending
  <1> QED BY <1>3, <1>4, <1>5, <1>6, <1>7

\* What is said of the lockers the thread had before is still true.
LEMMA PostLockOldLockers ==
  ASSUME Inv, NEW t \in Threads, PostLock(t), NEW i \in 1..Len(lockers[t]),
         \A j \in 1..i : lockers'[t][j] = lockers[t][j]
  PROVE  LockerOK(t, i)'
  <1>1. TypeOK /\ LockersOK(t) BY DEF Inv, ThreadOK
  <1>2. PICK x \in Mutexes : /\ x = First(call[t].todo) /\ x \in call[t].todo
                             /\ Listed(t)' = Listed(t) \cup {x}
    BY PostLockFacts
  <1>3. \A k \in 1..Len(lockers[t]) :
          \A n \in lockers[t][k].set : Level[n] # Level[x]
    <2>1. NoLocker(t) /\ x \in call[t].all BY <1>2, PostLockCall
    <2> QED BY <2>1 DEF NoLocker
  <1>4. i \in 1..i /\ \A j \in 1..i : j \in 1..Len(lockers[t])
    BY <1>1, LockerFacts
  <1>5. \A n \in lockers[t][i].set :
          n \in Mutexes /\ SameLevel(t, n)' = SameLevel(t, n)
    BY <1>1, <1>2, <1>3, LockerFacts, PostLockLevels
  <1>6. LockerOK(t, i) BY <1>1 DEF LockersOK
  <1>7. \A n \in lockers[t][i].set : n \in Listed(t)'
    BY <1>2, <1>6 DEF LockerOK
  <1>8. i \in Nat BY <1>1, LockerFacts
  <1> QED BY <1>4, <1>5, <1>6, <1>7, <1>8, KeptLocker

LEMMA PostLockKeepsLockers ==
  ASSUME Inv, NEW t \in Threads, PostLock(t)
  PROVE  LockersOK(t)'
  <1>0. PICK n \in Nat : n = Len(lockers[t]) BY LockerFacts DEF Inv
  <1>1. TypeOK /\ LockersOK(t) BY DEF Inv, ThreadOK
  <1>2. PICK x \in Mutexes : /\ x = First(call[t].todo) /\ x \in call[t].todo
                             /\ Listed(t)' = Listed(t) \cup {x}
    BY PostLockFacts
  <1>3. CASE call[t].todo \ {x} # {}
    <2>1. lockers'[t] = lockers[t] BY <1>1, <1>2, <1>3 DEF PostLock, TypeOK
    <2>2. \A i \in 1..Len(lockers[t]) : LockerOK(t, i)'
      BY <2>1, PostLockOldLockers
    <2> QED BY <2>1, <2>2 DEF LockersOK
  <1>4. CASE call[t].todo \ {x} = {}
    <2> DEFINE l == [multi |-> call[t].multi, set |-> call[t].all]
    <2>1. lockers'[t] = Append(lockers[t], l)
      BY <1>1, <1>2, <1>4 DEF PostLock, TypeOK
    <2>2. /\ Len(lockers'[t]) = n + 1 /\ lockers'[t][n + 1] = l
          /\ \A i \in 1..n : lockers'[t][i] = lockers[t][i]
      BY <1>0, <1>1, <2>1, LockerFacts
    <2>3. \A i \in 1..n : LockerOK(t, i)'
      BY <1>0, <2>2, PostLockOldLockers
    <2>4. PICK A \in SUBSET Mutexes : A = call[t].all
      BY <1>2, PostLockCall
    <2>5. /\ \A m, k \in A : Level[m] = Level[k]
          /\ ~call[t].multi => \E m \in Mutexes : A = {m}
          /\ \A m \in A : SameLevel(t, m) = A \ {x}
          /\ \A k \in Listed(t) : Above(k, x)
          /\ x \in A
      <3>1. call[t].todo = {x} BY <1>2, <1>4
      <3>2. /\ \A m, k \in A : Level[m] = Level[k]
            /\ ~call[t].multi => \E m \in Mutexes : A = {m}
            /\ x \in A
        BY <1>2, <2>4, PostLockCall
      <3>3. /\ \A m \in A : SameLevel(t, m) = A \ call[t].todo
            /\ \A m \in call[t].todo : \A k \in Listed(t) : Above(k, m)
        BY <1>2, <2>4, PostLockCall
      <3> QED BY <3>1, <3>2, <3>3
    <2>6. l.set = A /\ l.multi = call[t].multi BY <2>4
    <2>7. lockers'[t][n + 1].set = A /\ lockers'[t][n + 1].multi = call[t].multi
      BY <2>2, <2>6
    <2> HIDE DEF l
    <2>8. \A m \in A : SameLevel(t, m)' = A
      <3> TAKE m \in A
      <3>1. SameLevel(t, m)' = SameLevel(t, m) \cup {x}
        BY <1>2, <2>5, PostLockLevels
      <3> QED BY <2>5, <3>1
    <2>9. LockerOK(t, n + 1)'
      <3>1. A \subseteq Listed(t)'
        <4> SUFFICES ASSUME NEW m \in A PROVE m \in Listed(t)' OBVIOUS
        <4>1. m \in SameLevel(t, m)' BY <2>8
        <4> QED BY <4>1 DEF SameLevel
      <3>2. n + 1 \in 1..(n + 1) OBVIOUS
      <3>3. \A m \in A :
              \E b \in 1..(n + 1) : lockers'[t][b].set = SameLevel(t, m)'
        BY <2>7, <2>8, <3>2
      <3>4. ASSUME NEW j \in 1..(n + 1), NEW m \in A, NEW k \in lockers'[t][j].set
            PROVE  Level[m] <= Level[k]
        <4>0. Level[m] \in Nat /\ Level[m] = Level[x]
          BY <2>5, AboveIsOrder
        <4>1. CASE j = n + 1
          <5>1. k \in A BY <2>7, <4>1
          <5>2. Level[k] = Level[m] BY <2>5, <5>1
          <5> QED BY <4>0, <5>2
        <4>2. CASE j \in 1..n
          <5>1. k \in Listed(t)
            BY <1>0, <1>1, <2>2, <4>2 DEF LockersOK, LockerOK
          <5>2. Above(k, x) /\ k \in Mutexes BY <1>1, <2>5, <5>1, ListedTypes
          <5>3. Level[k] \in Nat BY <5>2, AboveIsOrder
          <5> QED BY <4>0, <5>2, <5>3 DEF Above
        <4> QED BY <4>1, <4>2
      <3> QED BY <2>5, <2>7, <2>8, <3>1, <3>3, <3>4 DEF LockerOK
    <2> SUFFICES ASSUME NEW i \in 1..Len(lockers'[t]) PROVE LockerOK(t, i)'
      BY DEF LockersOK
    <2>10. i \in 1..n \/ i = n + 1 BY <2>2
    <2> QED BY <2>3, <2>9, <2>10
  <1> QED BY <1>3, <1>4

LEMMA PostLockKeepsInv ==
  ASSUME Inv, NEW t \in Threads, PostLock(t)
  PROVE  Inv'
  <1>1. TypeOK /\ ThreadOK(t) BY DEF Inv
  <1>2. PICK x \in Mutexes :
           /\ x = First(call[t].todo) /\ x \in call[t].todo
           /\ \A n \in call[t].todo : x <= n
           /\ x \notin Listed(t) /\ owner[x] = t
           /\ list'[t] = <<x>> \o list[t]
           /\ Len(list'[t]) = Len(list[t]) + 1
           /\ list'[t][1] = x
           /\ \A i \in 2..(Len(list[t]) + 1) : list'[t][i] = list[t][i - 1]
           /\ Listed(t)' = Listed(t) \cup {x}
    BY PostLockFacts
  <1>3. PICK A \in SUBSET Mutexes, R \in SUBSET Mutexes :
           A = call[t].all /\ R = call[t].todo \ {x}
    BY <1>2, PostLockCall
  <1>4. /\ x \in A /\ x \notin R /\ R \subseteq A
        /\ \A m, k \in A : Level[m] = Level[k]
        /\ A \ call[t].todo = A \ (R \cup {x})
    BY <1>2, <1>3, PostLockCall
  <1>5. /\ call[t].multi \in BOOLEAN /\ A \in Containers
        /\ ~call[t].multi => \E m \in Mutexes : A = {m}
        /\ call[t].how \in Ways
    BY <1>2, <1>3, PostLockCall
  <1>6. /\ \A m \in A : SameLevel(t, m) = A \ (R \cup {x})
        /\ \A m \in R \cup {x} : \A n \in Listed(t) : Above(n, m)
        /\ NoLocker(t)
        /\ Pending(t) = A \ (R \cup {x})
    <2>1. call[t].todo = R \cup {x} BY <1>2, <1>3
    <2>2. /\ \A m \in A : SameLevel(t, m) = A \ call[t].todo
          /\ \A m \in call[t].todo : \A n \in Listed(t) : Above(n, m)
      BY <1>2, <1>3, PostLockCall
    <2>3. NoLocker(t) /\ Pending(t) = A \ call[t].todo
      BY <1>2, <1>3, PostLockCall
    <2> QED BY <2>1, <2>2, <2>3
  <1>7. PICK c \in Calls : /\ c = [call[t] EXCEPT !.todo = R]
                           /\ c.all = A /\ c.todo = R
                           /\ c.multi = call[t].multi /\ c.how = call[t].how
    <2> DEFINE r == [call[t] EXCEPT !.todo = R]
    <2>1. call[t] \in Calls BY <1>1 DEF TypeOK
    <2>2. r \in Calls BY <2>1, <1>3 DEF Calls
    <2>3. /\ r.all = A /\ r.todo = R
          /\ r.multi = call[t].multi /\ r.how = call[t].how
      BY <1>3, <2>1 DEF Calls
    <2> QED BY <2>2, <2>3
  <1>8. PICK l \in Lockers : /\ l = [multi |-> call[t].multi, set |-> A]
                             /\ l.set = A
    <2> DEFINE r == [multi |-> call[t].multi, set |-> A]
    <2>1. r \in Lockers BY <1>5 DEF Lockers
    <2>2. r.set = A OBVIOUS
    <2> QED BY <2>1, <2>2
  <1>9. /\ pc[t] = "post"
        /\ count' = [count EXCEPT ![x] = 1]
        /\ list' = [list EXCEPT ![t] = <<x>> \o @]
        /\ pc' = [pc EXCEPT ![t] = IF R = {} THEN "idle" ELSE "lock"]
        /\ call' = [call EXCEPT ![t] = IF R = {} THEN NoCall ELSE c]
        /\ lockers' = [lockers EXCEPT ![t] = IF R = {} THEN Append(@, l) ELSE @]
        /\ UNCHANGED owner
    BY <1>2, <1>3, <1>7, <1>8 DEF PostLock, Continues
  <1>10. NoCall \in Calls BY DEF NoCall, Calls
  <1>11. TypeOK'
    <2>1. count' \in [Mutexes -> Nat] BY <1>1, <1>9 DEF TypeOK
    <2>2. list' \in [Threads -> Seq(Mutexes)]
      <3>1. <<x>> \o list[t] \in Seq(Mutexes) BY <1>1, ListedTypes
      <3> QED BY <1>1, <1>9, <3>1 DEF TypeOK
    <2>3. lockers' \in [Threads -> Seq(Lockers)]
      BY <1>1, <1>9 DEF TypeOK
    <2>4. call' \in [Threads -> Calls] BY <1>1, <1>9, <1>10 DEF TypeOK
    <2> QED BY <1>1, <1>9, <2>1, <2>2, <2>3, <2>4 DEF TypeOK
  <1>12. Frame(t) BY <1>1, <1>9 DEF Frame, Untouched, TypeOK
  <1>13. /\ pc'[t] = IF R = {} THEN "idle" ELSE "lock"
         /\ call'[t] = IF R = {} THEN NoCall ELSE c
         /\ lockers'[t] = IF R = {} THEN Append(lockers[t], l) ELSE lockers[t]
    BY <1>1, <1>9 DEF TypeOK
  <1>14. InHand(t)' = {} /\ InHand(t) = {x}
    BY <1>2, <1>9, <1>13 DEF InHand
  <1>15. Pending(t)' = IF R = {} THEN {} ELSE A \ R
    BY <1>7, <1>13 DEF Pending
  <1>16. \A m \in A : SameLevel(t, m)' = A \ R
    <2> TAKE m \in A
    <2>1. m \in Mutexes /\ Level[m] = Level[x] BY <1>4
    <2>2. x = First(call[t].todo) BY <1>2
    <2>3. SameLevel(t, m)' = SameLevel(t, m) \cup {x}
      BY <2>1, <2>2, PostLockLevels
    <2>4. SameLevel(t, m) = A \ (R \cup {x}) BY <1>6
    <2> QED BY <1>4, <2>3, <2>4
  <1>17. CallOK(t)'
    <2>1. CASE R = {} BY <1>13, <2>1 DEF CallOK
    <2>2. CASE R # {}
      <3>1. pc'[t] = "lock" /\ call'[t] = c BY <1>13, <2>2
      <3> QED BY <1>4, <1>5, <1>7, <2>2, <3>1 DEF CallOK
    <2> QED BY <2>1, <2>2
  <1>18. HeldOK(t)' BY <1>1, <1>2, <1>9, <1>14 DEF ThreadOK, HeldOK
  <1>19. OrderOK(t)'
    <2>0. list[t] \in Seq(Mutexes) /\ Len(list[t]) \in Nat BY <1>1, ListedTypes
    <2> SUFFICES ASSUME NEW i \in 1..(Len(list[t]) + 1),
                        NEW j \in 1..(Len(list[t]) + 1), i < j
                 PROVE  Above(list'[t][j], list'[t][i])
      BY <1>2 DEF OrderOK, Above
    <2>1. /\ j \in 2..(Len(list[t]) + 1) /\ j - 1 \in 1..Len(list[t])
          /\ list'[t][j] = list[t][j - 1]
      BY <1>2, <2>0
    <2>2. CASE i = 1
      <3>1. list[t][j - 1] \in Listed(t) BY <2>1 DEF Listed
      <3> QED BY <1>2, <1>6, <2>1, <2>2, <3>1
    <2>3. CASE i # 1
      <3>1. /\ i \in 2..(Len(list[t]) + 1) /\ i - 1 \in 1..Len(list[t])
            /\ list'[t][i] = list[t][i - 1] /\ i - 1 < j - 1
        BY <1>2, <2>0, <2>3
      <3> QED BY <1>1, <2>1, <3>1 DEF ThreadOK, OrderOK
    <2> QED BY <2>2, <2>3
  <1>20. LockingOK(t)'
    <2> SUFFICES ASSUME R # {}
                 PROVE  /\ \A m \in A : SameLevel(t, m)' = A \ R
                        /\ \A m \in R : \A n \in Listed(t)' : Above(n, m)
                        /\ NoLocker(t)'
      BY <1>7, <1>13 DEF LockingOK, Above
    <2>1. \A m \in R : Above(x, m)
      <3> TAKE m \in R
      <3>1. x <= m /\ x # m /\ m \in Mutexes /\ Level[x] = Level[m]
        BY <1>2, <1>3, <1>4
      <3> QED BY <3>1, AboveIsOrder DEF Above
    <2>2. call'[t].all = call[t].all /\ lockers'[t] = lockers[t]
      BY <1>3, <1>7, <1>13
    <2>3. NoLocker(t)' BY <1>6, <2>2 DEF NoLocker
    <2> QED BY <1>2, <1>6, <1>16, <2>1, <2>3
  <1>21. UnlockingOK(t)' BY <1>13 DEF UnlockingOK
  <1>22. LockersOK(t)' BY PostLockKeepsLockers
  <1>23. PICK n \in Nat : n = Len(lockers[t]) BY <1>1, LockerFacts
  <1>24. /\ \A i \in 1..n : i \in 1..Len(lockers'[t])
                            /\ lockers'[t][i] = lockers[t][i]
         /\ R = {} => n + 1 \in 1..Len(lockers'[t]) /\ lockers'[t][n + 1] = l
    BY <1>1, <1>13, <1>23, LockerFacts
  <1>25. CoveredOK(t)'
    <2> SUFFICES ASSUME NEW m \in Listed(t) \cup {x}, m \notin Pending(t)'
                 PROVE  \E i \in 1..Len(lockers'[t]) : m \in lockers'[t][i].set
      BY <1>2 DEF CoveredOK
    <2>1. CASE m \in A
      <3>1. m \notin R
        <4>1. m \in SameLevel(t, m)' BY <1>2, <2>1 DEF SameLevel
        <4> QED BY <1>16, <2>1, <4>1
      <3>2. R = {} BY <1>15, <2>1, <3>1
      <3> QED BY <1>8, <1>24, <2>1, <3>2
    <2>2. CASE m \notin A
      <3>1. m \in Listed(t) /\ m \notin Pending(t) BY <1>4, <1>6, <2>2
      <3>2. PICK i \in 1..n : m \in lockers[t][i].set
        BY <1>1, <1>23, <3>1 DEF ThreadOK, CoveredOK
      <3> QED BY <1>24, <3>2
    <2> QED BY <2>1, <2>2
  <1>26. ThreadOK(t)'
    BY <1>17, <1>18, <1>19, <1>20, <1>21, <1>22, <1>25 DEF ThreadOK
  <1>27. CountStep(t)
    <2>1. ASSUME NEW m \in Listed(t)' PROVE count'[m] = Uses(t, m)'
      <3>0. m \in Mutexes /\ (m = x \/ m \in Listed(t))
        BY <1>1, <1>2, <2>1, ListedTypes
      <3> DEFINE h == Cardinality(Holding(t, m))
      <3>1. h \in Nat BY <1>1, <3>0, UsesFacts
      <3>2. h' = IF R = {} /\ m \in A THEN h + 1 ELSE h
        <4>1. CASE R = {}
          <5>1. lockers'[t] = Append(lockers[t], l) BY <1>13, <4>1
          <5> QED BY <1>1, <1>8, <3>0, <4>1, <5>1, NewLockerHolds
        <4>2. CASE R # {}
          <5>1. lockers'[t] = lockers[t] BY <1>13, <4>2
          <5>2. Holding(t, m)' = Holding(t, m) BY <5>1 DEF Holding
          <5> QED BY <4>2, <5>2
        <4> QED BY <4>1, <4>2
      <3>3. Uses(t, m) = h + (IF m \in Pending(t) THEN 1 ELSE 0) BY DEF Uses
      <3>4. Uses(t, m)' = h' + (IF m \in Pending(t)' THEN 1 ELSE 0) BY DEF Uses
      <3>5. CASE m = x
        <4>1. h = 0
          <5>1. Holding(t, x) = {}
            <6>1. x \in call[t].all BY <1>3, <1>4
            <6> QED BY <1>6, <6>1 DEF Holding, NoLocker
          <5> QED BY <1>1, <3>5, <5>1, UsesFacts
        <4>2. count'[m] = 1 BY <1>1, <1>9, <3>0, <3>5 DEF TypeOK
        <4> HIDE DEF h
        <4> QED BY <1>4, <1>15, <3>2, <3>4, <3>5, <4>1, <4>2
      <3>6. CASE m # x
        <4>1. m \in Listed(t) BY <3>0, <3>6
        <4>2. count'[m] = count[m] BY <1>1, <1>9, <3>0, <3>6 DEF TypeOK
        <4>3. count[m] = Uses(t, m) BY <3>0, <4>1 DEF Inv, CountOK
        <4>4. m \in A => m \notin R
          <5> SUFFICES ASSUME m \in A PROVE m \notin R OBVIOUS
          <5>1. m \in SameLevel(t, m) BY <4>1 DEF SameLevel
          <5> QED BY <1>6, <5>1
        <4> HIDE DEF h
        <4> QED BY <1>6, <1>15, <3>1, <3>2, <3>3, <3>4, <3>6, <4>2, <4>3, <4>4
      <3> QED BY <3>5, <3>6
    <2>2. \A m \in Mutexes : m \notin Listed(t)' => count'[m] = count[m]
      BY <1>1, <1>2, <1>9 DEF TypeOK
    <2> QED BY <1>2, <2>1, <2>2 DEF CountStep
  <1> QED BY <1>11, <1>12, <1>26, <1>27, StepKeepsInv

-----------------------------------------------------------------------------
(* Unlocking.                                                              *)

LEMMA UnlockFacts ==
  ASSUME Inv, NEW t \in Threads, NEW multi \in BOOLEAN,
         NEW S \in SUBSET Mutexes, S # {}, MayUnlock(t, multi, S)
  PROVE  \A m \in S : /\ m \in Listed(t)
                      /\ \A n \in Listed(t) : Level[n] >= Level[m]
  <1>1. TypeOK /\ OrderOK(t) BY DEF Inv, ThreadOK
  <1>2. list[t] # <<>> /\ S \subseteq SameLevel(t, list[t][1])
    <2>1. CASE multi
      <3>1. S = Recent(t) BY <2>1 DEF MayUnlock
      <3>2. list[t] # <<>>
        <4> SUFFICES ASSUME list[t] = <<>> PROVE FALSE OBVIOUS
        <4>1. Len(list[t]) = 0 BY <1>1, ListedTypes
        <4> QED BY <3>1, <4>1 DEF Recent
      <3> QED BY <1>1, <3>1, <3>2, RecentIsLevel
    <2>2. CASE ~multi
      <3>1. \A m \in S : AtCurrentLevel(t, m) /\ m \in Listed(t)
        BY <2>2 DEF MayUnlock
      <3> QED BY <3>1 DEF AtCurrentLevel, SameLevel
    <2> QED BY <2>1, <2>2
  <1>3. \A n \in Listed(t) : Level[n] >= Level[list[t][1]]
    BY <1>1, <1>2, HeadIsLowest
  <1> QED BY <1>2, <1>3 DEF SameLevel

LEMMA UnlockKeepsInv ==
  ASSUME Inv, Nested, NEW t \in Threads, NEW i \in 1..Len(lockers[t]),
         Unlock(t, i)
  PROVE  Inv'
  <1>1. TypeOK /\ ThreadOK(t) BY DEF Inv
  <1>2. PICK n \in Nat \ {0} : n = Len(lockers[t]) /\ i = n
    BY <1>1, LockerFacts DEF Unlock
  <1>3. PICK S \in SUBSET Mutexes : S = lockers[t][n].set /\ S # {}
    BY <1>1, <1>2, LockerFacts
  <1>4. PICK multi \in BOOLEAN : multi = lockers[t][n].multi
    BY <1>1, <1>2, LockerFacts
  <1>5. PICK c \in Calls : /\ c = [multi |-> multi, all |-> S,
                                   todo |-> S, how |-> "unlock"]
                           /\ c.all = S /\ c.todo = S
                           /\ c.multi = multi /\ c.how = "unlock"
    <2> DEFINE r == [multi |-> multi, all |-> S, todo |-> S, how |-> "unlock"]
    <2>1. r \in Calls BY DEF Calls
    <2>2. r.all = S /\ r.todo = S /\ r.multi = multi /\ r.how = "unlock" OBVIOUS
    <2> QED BY <2>1, <2>2
  <1>6. PICK s \in Seq(Lockers) :
           /\ s = Without(lockers[t], n) /\ s = SubSeq(lockers[t], 1, n - 1)
           /\ Len(s) = n - 1 /\ \A j \in 1..(n - 1) : s[j] = lockers[t][j]
    <2>1. lockers[t] \in Seq(Lockers) BY <1>1, LockerFacts
    <2>2. SubSeq(lockers[t], n + 1, Len(lockers[t])) = <<>> BY <1>2, <2>1
    <2> DEFINE q == SubSeq(lockers[t], 1, n - 1)
    <2>3. /\ q \in Seq(Lockers) /\ Len(q) = n - 1
          /\ \A j \in 1..(n - 1) : q[j] = lockers[t][j]
      BY <1>2, <2>1
    <2>4. q \o <<>> = q BY <2>3
    <2> HIDE DEF q
    <2>5. Without(lockers[t], n) = q BY <2>2, <2>4 DEF Without, q
    <2> QED BY <2>3, <2>5 DEF q
  <1>7. /\ pc[t] = "idle" /\ MayUnlock(t, multi, S)
        /\ pc' = [pc EXCEPT ![t] = "unlock"]
        /\ call' = [call EXCEPT ![t] = c]
        /\ lockers' = [lockers EXCEPT ![t] = s]
        /\ UNCHANGED <<owner, count, list>>
    <2>1. lockers' = [lockers EXCEPT ![t] = Without(lockers[t], n)]
      BY <1>1, <1>2 DEF Unlock, TypeOK
    <2> QED BY <1>2, <1>3, <1>4, <1>5, <1>6, <2>1 DEF Unlock
  <1>8. pc'[t] = "unlock" /\ call'[t] = c /\ lockers'[t] = s
    BY <1>1, <1>7 DEF TypeOK
  <1>8a. Len(s) = n - 1 /\ \A j \in 1..(n - 1) : s[j] = lockers[t][j]
    BY <1>6
  <1>9. TypeOK' BY <1>1, <1>7 DEF TypeOK
  <1>10. Frame(t) BY <1>1, <1>7 DEF Frame, Untouched, TypeOK
  <1>11. /\ Listed(t)' = Listed(t) /\ OrderOK(t)'
         /\ \A m : SameLevel(t, m)' = SameLevel(t, m)
    BY <1>1, <1>7, SameList DEF ThreadOK
  <1>12. /\ InHand(t) = {} /\ InHand(t)' = {} /\ Pending(t) = {}
         /\ Pending(t)' = S
    BY <1>5, <1>7, <1>8, IdleFacts DEF InHand, Pending
  <1>13. LockerOK(t, n) BY <1>1, <1>2 DEF ThreadOK, LockersOK
  <1>14. \A m \in S : /\ m \in Listed(t)
                      /\ \A k \in Listed(t) : Level[k] >= Level[m]
    BY <1>3, <1>7, UnlockFacts
  <1>15. CallOK(t)'
    <2>1. \A m, k \in S : Level[m] = Level[k] BY <1>3, <1>13 DEF LockerOK
    <2>2. ~multi => \E m \in Mutexes : S = {m}
      BY <1>3, <1>4, <1>13 DEF LockerOK
    <2> QED BY <1>3, <1>5, <1>8, <2>1, <2>2 DEF CallOK, Containers
  <1>16. HeldOK(t)' BY <1>1, <1>7, <1>11, <1>12 DEF ThreadOK, HeldOK
  <1>17. LockingOK(t)' BY <1>8 DEF LockingOK
  <1>18. UnlockingOK(t)'
    <2>1. PICK m \in S : TRUE BY <1>3
    <2>2. \A k \in S : SameLevel(t, k) = SameLevel(t, m)
      BY <1>3, <1>13, <2>1 DEF LockerOK, SameLevel
    <2>3. PICK b \in 1..n : lockers[t][b].set = SameLevel(t, m)
      BY <1>3, <1>13, <2>1 DEF LockerOK
    <2>4. CASE \E j \in 1..(n - 1) : lockers[t][j].set = SameLevel(t, m)
      <3>1. PICK j \in 1..(n - 1) : lockers[t][j].set = SameLevel(t, m)
        BY <2>4
      <3>2. j \in 1..Len(s) /\ s[j].set = SameLevel(t, m) BY <1>6, <3>1
      <3>3. StillUsed(t)'
        BY <1>5, <1>8, <1>11, <1>14, <2>2, <3>2 DEF StillUsed
      <3> QED BY <1>5, <1>8, <1>11, <1>14, <3>3 DEF UnlockingOK
    <2>5. CASE \A j \in 1..(n - 1) : lockers[t][j].set # SameLevel(t, m)
      <3>1. b = n BY <2>3, <2>5
      <3>2. \A k \in S : SameLevel(t, k) = S BY <1>3, <2>2, <2>3, <3>1
      <3>3. ASSUME NEW k \in S, NEW j \in 1..(n - 1),
                   NEW a \in lockers[t][j].set, Level[a] = Level[k]
            PROVE  FALSE
        <4>1. j \in 1..n /\ LockerOK(t, j)
          BY <1>1, <1>2 DEF ThreadOK, LockersOK
        <4>2. PICK d \in 1..j : lockers[t][d].set = SameLevel(t, a)
          BY <4>1 DEF LockerOK
        <4>3. SameLevel(t, a) = SameLevel(t, m)
          BY <2>2, <3>3 DEF SameLevel
        <4>4. d \in 1..(n - 1) OBVIOUS
        <4> QED BY <2>5, <4>2, <4>3, <4>4
      <3>4. NoLocker(t)'
        <4>1. \A k \in S : \A j \in 1..(n - 1) :
                \A a \in s[j].set : Level[a] # Level[k]
          BY <3>3, <1>8a
        <4> QED BY <1>5, <1>8, <1>8a, <4>1 DEF NoLocker
      <3>5. LastUse(t)' BY <1>5, <1>8, <1>11, <1>12, <3>2, <3>4 DEF LastUse
      <3> QED BY <1>5, <1>8, <1>11, <1>14, <3>5 DEF UnlockingOK
    <2> QED BY <2>4, <2>5
  <1>19. LockersOK(t)'
    <2> SUFFICES ASSUME NEW j \in 1..(n - 1) PROVE LockerOK(t, j)'
      BY <1>6, <1>8 DEF LockersOK
    <2>1. /\ j \in Nat /\ j \in 1..j /\ j \in 1..n
          /\ \A k \in 1..j : lockers'[t][k] = lockers[t][k]
      BY <1>6, <1>8
    <2>2. LockerOK(t, j) BY <1>1, <1>2, <2>1 DEF ThreadOK, LockersOK
    <2>3. \A k \in lockers[t][j].set :
             k \in Listed(t)' /\ SameLevel(t, k)' = SameLevel(t, k)
      BY <1>11, <2>2 DEF LockerOK
    <2> QED BY <2>1, <2>2, <2>3, KeptLocker
  <1>20. CoveredOK(t)'
    <2> SUFFICES ASSUME NEW m \in Listed(t), m \notin S
                 PROVE  \E j \in 1..(n - 1) : m \in s[j].set
      BY <1>6, <1>8, <1>11, <1>12 DEF CoveredOK
    <2>1. PICK j \in 1..n : m \in lockers[t][j].set
      BY <1>1, <1>2, <1>12 DEF ThreadOK, CoveredOK
    <2>2. j # n BY <1>3, <2>1
    <2>3. j \in 1..(n - 1) BY <2>2
    <2> QED BY <1>8a, <2>1, <2>3
  <1>21. ThreadOK(t)'
    BY <1>11, <1>15, <1>16, <1>17, <1>18, <1>19, <1>20 DEF ThreadOK
  <1>22. CountStep(t)
    <2>1. ASSUME NEW m \in Mutexes PROVE Uses(t, m)' = Uses(t, m)
      <3>1. /\ lockers[t] # <<>>
            /\ lockers'[t] = SubSeq(lockers[t], 1, Len(lockers[t]) - 1)
        BY <1>2, <1>6, <1>8
      <3> DEFINE h == Cardinality(Holding(t, m))
      <3>2. h \in Nat BY <1>1, UsesFacts
      <3>3. h' = IF m \in S THEN h - 1 ELSE h
        BY <1>1, <1>2, <1>3, <3>1, LastLockerHeld
      <3>4. Uses(t, m) = h + 0 BY <1>12 DEF Uses
      <3>5. Uses(t, m)' = h' + (IF m \in S THEN 1 ELSE 0) BY <1>12 DEF Uses
      <3> HIDE DEF h
      <3> QED BY <3>2, <3>3, <3>4, <3>5
    <2>2. Listed(t) \subseteq Mutexes BY <1>1, ListedTypes
    <2> QED BY <1>7, <1>11, <2>1, <2>2 DEF CountStep, Inv, CountOK
  <1> QED BY <1>9, <1>10, <1>21, <1>22, StepKeepsInv

\* The mutex that is unlocked next, and how often it is still used.
LEMMA NextToUnlock ==
  ASSUME Inv, NEW t \in Threads, pc[t] \in {"unlock", "release"}
  PROVE  \E x \in call[t].todo :
           /\ x \in Mutexes /\ x = Last(call[t].todo)
           /\ \A n \in call[t].todo : n <= x
           /\ call[t].todo \subseteq call[t].all
           /\ pc[t] = "unlock" => x \in Listed(t)
           /\ pc[t] = "unlock" /\ LastUse(t) => count[x] = 1
           /\ pc[t] = "unlock" /\ StillUsed(t) => count[x] >= 2
           /\ LastUse(t) \/ StillUsed(t)
  <1>1. TypeOK /\ ThreadOK(t) BY DEF Inv
  <1>2. PICK x \in call[t].todo :
           /\ x \in Mutexes /\ x = Last(call[t].todo)
           /\ \A n \in call[t].todo : n <= x
           /\ call[t].todo \subseteq call[t].all
    BY <1>1, CallFacts DEF ThreadOK
  <1>3. LastUse(t) \/ StillUsed(t) BY <1>1 DEF ThreadOK, UnlockingOK
  <1>4. /\ IsFiniteSet(Holding(t, x)) /\ Cardinality(Holding(t, x)) \in Nat
        /\ Holding(t, x) = {} => Cardinality(Holding(t, x)) = 0
        /\ Holding(t, x) # {} => Cardinality(Holding(t, x)) >= 1
    BY <1>1, <1>2, UsesFacts
  <1> SUFFICES ASSUME pc[t] = "unlock"
               PROVE  /\ x \in Listed(t)
                      /\ LastUse(t) => count[x] = 1
                      /\ StillUsed(t) => count[x] >= 2
    BY <1>2, <1>3
  <1>5. Pending(t) = call[t].todo BY DEF Pending
  <1>6. x \in Listed(t)
    <2>1. CASE LastUse(t)
      BY <1>2, <1>5, <2>1 DEF LastUse, SameLevel
    <2>2. CASE StillUsed(t) BY <1>2, <2>2 DEF StillUsed
    <2> QED BY <1>3, <2>1, <2>2
  <1>7. count[x] = Uses(t, x) BY <1>2, <1>6 DEF Inv, CountOK
  <1>8. Uses(t, x) = Cardinality(Holding(t, x)) + 1 BY <1>2, <1>5 DEF Uses
  <1>9. ASSUME LastUse(t) PROVE count[x] = 1
    <2>1. Holding(t, x) = {}
      BY <1>2, <1>9 DEF LastUse, NoLocker, Holding
    <2> QED BY <1>4, <1>7, <1>8, <2>1
  <1>10. ASSUME StillUsed(t) PROVE count[x] >= 2
    <2>1. PICK i \in 1..Len(lockers[t]) : lockers[t][i].set = SameLevel(t, x)
      BY <1>2, <1>10 DEF StillUsed
    <2>2. i \in Holding(t, x) BY <1>6, <2>1 DEF Holding, SameLevel
    <2> QED BY <1>4, <1>7, <1>8, <2>2
  <1> QED BY <1>6, <1>9, <1>10

\* What Continues makes of a call that is unlocking.
LEMMA ContinuesFacts ==
  ASSUME TypeOK, NEW t \in Threads, NEW R \in SUBSET Mutexes, CallOK(t),
         pc[t] \in {"unlock", "release"}, R \subseteq call[t].todo,
         Continues(t, R, "unlock")
  PROVE  /\ pc' \in [Threads -> {"idle", "lock", "post", "unlock", "release"}]
         /\ call' \in [Threads -> Calls]
         /\ \A u \in Threads : u # t => pc'[u] = pc[u] /\ call'[u] = call[u]
         /\ pc'[t] = IF R = {} THEN "idle" ELSE "unlock"
         /\ R # {} => call'[t].all = call[t].all /\ call'[t].todo = R
         /\ CallOK(t)' /\ LockingOK(t)'
         /\ InHand(t)' = {} /\ Pending(t)' = R
  <1>1. PICK c \in Calls : /\ c = [call[t] EXCEPT !.todo = R]
                           /\ c.all = call[t].all /\ c.todo = R
                           /\ c.multi = call[t].multi /\ c.how = call[t].how
    <2> DEFINE r == [call[t] EXCEPT !.todo = R]
    <2>1. call[t] \in Calls BY DEF TypeOK
    <2>2. r \in Calls BY <2>1 DEF Calls
    <2>3. /\ r.all = call[t].all /\ r.todo = R
          /\ r.multi = call[t].multi /\ r.how = call[t].how
      BY <2>1 DEF Calls
    <2> QED BY <2>2, <2>3
  <1>2. /\ pc' = [pc EXCEPT ![t] = IF R = {} THEN "idle" ELSE "unlock"]
        /\ call' = [call EXCEPT ![t] = IF R = {} THEN NoCall ELSE c]
    BY <1>1 DEF Continues
  <1>3. NoCall \in Calls BY DEF NoCall, Calls
  <1>4. /\ pc'[t] = IF R = {} THEN "idle" ELSE "unlock"
        /\ call'[t] = IF R = {} THEN NoCall ELSE c
        /\ \A u \in Threads : u # t => pc'[u] = pc[u] /\ call'[u] = call[u]
    BY <1>2 DEF TypeOK
  <1>5. /\ pc' \in [Threads -> {"idle", "lock", "post", "unlock", "release"}]
        /\ call' \in [Threads -> Calls]
    BY <1>2, <1>3 DEF TypeOK
  <1>6. CallOK(t)'
    <2>1. CASE R = {} BY <1>4, <2>1 DEF CallOK
    <2>2. CASE R # {}
      <3>1. pc'[t] = "unlock" /\ call'[t] = c BY <1>4, <2>2
      <3> QED BY <1>1, <2>2, <3>1 DEF CallOK
    <2> QED BY <2>1, <2>2
  <1>7. LockingOK(t)' BY <1>4 DEF LockingOK
  <1>8. InHand(t)' = {} BY <1>4 DEF InHand
  <1>9. Pending(t)' = R BY <1>1, <1>4 DEF Pending
  <1> QED BY <1>1, <1>4, <1>5, <1>6, <1>7, <1>8, <1>9

LEMMA DecrementKeepsInv ==
  ASSUME Inv, NEW t \in Threads, Decrement(t)
  PROVE  Inv'
  <1>1. TypeOK /\ ThreadOK(t) BY DEF Inv
  <1>2. pc[t] = "unlock" BY DEF Decrement
  <1>3. PICK x \in call[t].todo :
           /\ x \in Mutexes /\ x = Last(call[t].todo)
           /\ call[t].todo \subseteq call[t].all
           /\ x \in Listed(t)
           /\ LastUse(t) => count[x] = 1
           /\ LastUse(t) \/ StillUsed(t)
    BY <1>2, NextToUnlock
  <1>4. /\ count[x] > 1 /\ count' = [count EXCEPT ![x] = @ - 1]
        /\ Continues(t, call[t].todo \ {x}, "unlock")
        /\ UNCHANGED <<owner, list, lockers>>
    BY <1>3 DEF Decrement
  <1>5. StillUsed(t) BY <1>3, <1>4
  <1>6. PICK R \in SUBSET Mutexes : R = call[t].todo \ {x}
    BY <1>1, <1>2, CallFacts DEF ThreadOK
  <1>7. /\ pc' \in [Threads -> {"idle", "lock", "post", "unlock", "release"}]
        /\ call' \in [Threads -> Calls]
        /\ \A u \in Threads : u # t => pc'[u] = pc[u] /\ call'[u] = call[u]
        /\ pc'[t] = IF R = {} THEN "idle" ELSE "unlock"
        /\ R # {} => call'[t].all = call[t].all /\ call'[t].todo = R
        /\ CallOK(t)' /\ LockingOK(t)'
        /\ InHand(t)' = {} /\ Pending(t)' = R
    BY <1>1, <1>2, <1>4, <1>6, ContinuesFacts DEF ThreadOK
  <1>8. InHand(t) = {} /\ Pending(t) = R \cup {x}
    BY <1>2, <1>3, <1>6 DEF InHand, Pending
  <1>9. count[x] \in Nat /\ count[x] - 1 \in Nat
    <2>1. count[x] \in Nat BY <1>1, <1>3 DEF TypeOK
    <2> QED BY <1>4, <2>1
  <1>10. TypeOK' BY <1>1, <1>4, <1>7, <1>9 DEF TypeOK
  <1>11. Frame(t) BY <1>4, <1>7 DEF Frame, Untouched
  <1>12. /\ Listed(t)' = Listed(t) /\ OrderOK(t)'
         /\ \A m : SameLevel(t, m)' = SameLevel(t, m)
    BY <1>1, <1>4, SameList DEF ThreadOK
  <1>13. HeldOK(t)' BY <1>1, <1>4, <1>7, <1>8, <1>12 DEF ThreadOK, HeldOK
  <1>14. UnlockingOK(t)'
    <2> SUFFICES ASSUME R # {}
                 PROVE  /\ \A m \in call[t].all : \A n \in Listed(t) :
                              Level[n] >= Level[m]
                        /\ StillUsed(t)'
      BY <1>7, <1>12 DEF UnlockingOK
    <2>1. StillUsed(t)' BY <1>4, <1>5, <1>6, <1>7, <1>12 DEF StillUsed
    <2> QED BY <1>1, <1>2, <2>1 DEF ThreadOK, UnlockingOK
  <1>15. LockersOK(t)' BY <1>1, <1>4, SameLockers DEF ThreadOK
  <1>16. CoveredOK(t)'
    <2>1. PICK i \in 1..Len(lockers[t]) : lockers[t][i].set = SameLevel(t, x)
      BY <1>3, <1>5 DEF StillUsed
    <2>2. x \in lockers[t][i].set BY <1>3, <2>1 DEF SameLevel
    <2> QED BY <1>1, <1>4, <1>7, <1>8, <1>12, <2>2 DEF ThreadOK, CoveredOK
  <1>17. ThreadOK(t)' BY <1>7, <1>12, <1>13, <1>14, <1>15, <1>16 DEF ThreadOK
  <1>18. CountStep(t)
    <2>1. ASSUME NEW m \in Listed(t) PROVE count'[m] = Uses(t, m)'
      <3>0. m \in Mutexes BY <1>1, ListedTypes
      <3>1. Holding(t, m)' = Holding(t, m) BY <1>4 DEF Holding
      <3>2. Cardinality(Holding(t, m)) \in Nat BY <1>1, <3>0, UsesFacts
      <3>3. count[m] = Uses(t, m) BY <3>0 DEF Inv, CountOK
      <3>4. count'[m] = IF m = x THEN count[m] - 1 ELSE count[m]
        BY <1>1, <1>4, <3>0 DEF TypeOK
      <3>5. x \notin R BY <1>6
      <3> QED BY <1>7, <1>8, <3>1, <3>2, <3>3, <3>4, <3>5 DEF Uses
    <2>2. \A m \in Mutexes : m \notin Listed(t) => count'[m] = count[m]
      BY <1>1, <1>3, <1>4 DEF TypeOK
    <2> QED BY <1>12, <2>1, <2>2 DEF CountStep
  <1> QED BY <1>10, <1>11, <1>17, <1>18, StepKeepsInv

LEMMA ReleaseKeepsInv ==
  ASSUME Inv, NEW t \in Threads, Release(t)
  PROVE  Inv'
  <1>1. TypeOK /\ ThreadOK(t) BY DEF Inv
  <1>2. pc[t] = "release" BY DEF Release
  <1>3. PICK x \in call[t].todo :
           /\ x \in Mutexes /\ x = Last(call[t].todo)
           /\ call[t].todo \subseteq call[t].all
           /\ LastUse(t) \/ StillUsed(t)
    BY <1>2, NextToUnlock
  <1>4. /\ owner' = [owner EXCEPT ![x] = Nobody]
        /\ Continues(t, call[t].todo \ {x}, "unlock")
        /\ UNCHANGED <<count, list, lockers>>
    BY <1>3 DEF Release
  <1>5. LastUse(t) BY <1>2, <1>3 DEF StillUsed
  <1>6. PICK R \in SUBSET Mutexes : R = call[t].todo \ {x}
    BY <1>1, <1>2, CallFacts DEF ThreadOK
  <1>7. /\ pc' \in [Threads -> {"idle", "lock", "post", "unlock", "release"}]
        /\ call' \in [Threads -> Calls]
        /\ \A u \in Threads : u # t => pc'[u] = pc[u] /\ call'[u] = call[u]
        /\ pc'[t] = IF R = {} THEN "idle" ELSE "unlock"
        /\ R # {} => call'[t].all = call[t].all /\ call'[t].todo = R
        /\ CallOK(t)' /\ LockingOK(t)'
        /\ InHand(t)' = {} /\ Pending(t)' = R
    BY <1>1, <1>2, <1>4, <1>6, ContinuesFacts DEF ThreadOK
  <1>8. InHand(t) = {x} /\ Pending(t) = R
    BY <1>2, <1>3, <1>6 DEF InHand, Pending
  <1>9. owner[x] = t /\ x \notin Listed(t)
    BY <1>1, <1>3, <1>8 DEF ThreadOK, HeldOK
  <1>10. TypeOK' BY <1>1, <1>3, <1>4, <1>7 DEF TypeOK
  <1>11. Frame(t)
    <2>1. ASSUME NEW u \in Threads, u # t, NEW m \in Mutexes
          PROVE  owner'[m] = u <=> owner[m] = u
      BY <1>1, <1>4, <1>9, <2>1 DEF TypeOK
    <2> QED BY <1>4, <1>7, <2>1 DEF Frame, Untouched
  <1>12. /\ Listed(t)' = Listed(t) /\ OrderOK(t)'
         /\ \A m : SameLevel(t, m)' = SameLevel(t, m)
    BY <1>1, <1>4, SameList DEF ThreadOK
  <1>13. HeldOK(t)'
    <2>1. \A m \in Mutexes : owner'[m] = t <=> owner[m] = t /\ m # x
      BY <1>1, <1>3, <1>4 DEF TypeOK
    <2> QED BY <1>1, <1>7, <1>8, <1>9, <1>12, <2>1 DEF ThreadOK, HeldOK
  <1>14. UnlockingOK(t)'
    <2> SUFFICES ASSUME R # {}
                 PROVE  /\ \A m \in call[t].all : \A n \in Listed(t) :
                              Level[n] >= Level[m]
                        /\ LastUse(t)'
      BY <1>7, <1>12 DEF UnlockingOK
    <2>1. NoLocker(t)' BY <1>4, <1>5, <1>7 DEF LastUse, NoLocker
    <2>2. LastUse(t)' BY <1>5, <1>7, <1>8, <1>12, <2>1 DEF LastUse
    <2> QED BY <1>1, <1>2, <2>2 DEF ThreadOK, UnlockingOK
  <1>15. LockersOK(t)' BY <1>1, <1>4, SameLockers DEF ThreadOK
  <1>16. CoveredOK(t)' BY <1>1, <1>4, <1>7, <1>8, <1>12 DEF ThreadOK, CoveredOK
  <1>17. ThreadOK(t)' BY <1>7, <1>12, <1>13, <1>14, <1>15, <1>16 DEF ThreadOK
  <1>18. CountStep(t)
    <2>1. \A m : Uses(t, m)' = Uses(t, m)
      <3>1. \A m : Holding(t, m)' = Holding(t, m)
        BY <1>1, <1>4, SameLockers DEF ThreadOK
      <3> QED BY <1>7, <1>8, <3>1 DEF Uses
    <2> QED BY <1>4, <1>12, <2>1 DEF CountStep, Inv, CountOK
  <1> QED BY <1>10, <1>11, <1>17, <1>18, StepKeepsInv

\* What PreUnlock takes is the head of the list.
LEMMA PreUnlockTakesHead ==
  ASSUME Inv, NEW t \in Threads, pc[t] = "unlock", LastUse(t),
         NEW x \in Mutexes, x \in Listed(t), x \in call[t].todo,
         \A n \in call[t].todo : n <= x
  PROVE  /\ list[t] # <<>> /\ list[t][1] = x
         /\ Previous(list[t], x) = Tail(list[t])
  <1>1. TypeOK /\ ThreadOK(t) BY DEF Inv
  <1>2. /\ list[t] \in Seq(Mutexes) /\ list[t] # <<>>
        /\ Len(list[t]) \in Nat /\ 1 \in 1..Len(list[t])
    BY <1>1, ListedTypes
  <1>3. PICK h \in Listed(t) : h = list[t][1] /\ h \in Mutexes
    BY <1>2 DEF Listed
  <1>4. h = x
    <2> SUFFICES ASSUME h # x PROVE FALSE OBVIOUS
    <2>1. Above(x, h) BY <1>1, <1>2, <1>3, HeadIsLowest DEF ThreadOK
    <2>2. x \in call[t].all /\ Pending(t) = call[t].todo
      BY <1>1, CallFacts DEF ThreadOK, Pending
    <2>3. Level[h] >= Level[x] BY <1>1, <1>3, <2>2 DEF ThreadOK, UnlockingOK
    <2>4. Level[h] \in Nat /\ Level[x] \in Nat /\ h \in Nat /\ x \in Nat
      BY <1>3, AboveIsOrder
    <2>5. Level[h] = Level[x] /\ x < h BY <2>1, <2>3, <2>4 DEF Above
    <2>6. h \in call[t].todo BY <1>3, <2>2, <2>5 DEF LastUse, SameLevel
    <2>7. h <= x BY <2>6
    <2> QED BY <2>4, <2>5, <2>7
  <1>5. \A j \in 1..Len(list[t]) : list[t][j] = x => j = 1
    <2> SUFFICES ASSUME NEW j \in 1..Len(list[t]), list[t][j] = x, j # 1
                 PROVE  FALSE
      OBVIOUS
    <2>1. 1 < j OBVIOUS
    <2>2. Above(x, x) BY <1>1, <1>2, <1>3, <1>4, <2>1 DEF ThreadOK, OrderOK
    <2> QED BY <2>2, AboveIsOrder
  <1>6. (CHOOSE j \in 1..Len(list[t]) : list[t][j] = x) = 1
    BY <1>2, <1>3, <1>4, <1>5
  <1>7. Previous(list[t], x) = SubSeq(list[t], 1 + 1, Len(list[t]))
    BY <1>6, Zenon DEF Previous
  <1>8. SubSeq(list[t], 1 + 1, Len(list[t])) = Tail(list[t]) BY <1>2
  <1> QED BY <1>2, <1>3, <1>4, <1>7, <1>8

LEMMA PreUnlockKeepsInv ==
  ASSUME Inv, NEW t \in Threads, PreUnlock(t)
  PROVE  Inv'
  <1>1. TypeOK /\ ThreadOK(t) BY DEF Inv
  <1>2. pc[t] = "unlock" BY DEF PreUnlock
  <1>3. PICK x \in call[t].todo :
           /\ x \in Mutexes /\ x = Last(call[t].todo)
           /\ \A n \in call[t].todo : n <= x
           /\ call[t].todo \subseteq call[t].all
           /\ x \in Listed(t)
           /\ StillUsed(t) => count[x] >= 2
           /\ LastUse(t) \/ StillUsed(t)
    BY <1>2, NextToUnlock
  <1>4. /\ count[x] <= 1 /\ count' = [count EXCEPT ![x] = 0]
        /\ list' = [list EXCEPT ![t] = Previous(@, x)]
        /\ pc' = [pc EXCEPT ![t] = "release"]
        /\ UNCHANGED <<owner, call, lockers>>
    BY <1>3 DEF PreUnlock
  <1>5. LastUse(t)
    <2>1. count[x] \in Nat BY <1>1, <1>3 DEF TypeOK
    <2> QED BY <1>3, <1>4, <2>1
  <1>6. /\ list[t] # <<>> /\ list[t][1] = x
        /\ Previous(list[t], x) = Tail(list[t])
    BY <1>2, <1>3, <1>5, PreUnlockTakesHead
  <1>7. PICK n \in Nat : n = Len(list[t]) - 1
    <2>1. Len(list[t]) \in Nat /\ 1 \in 1..Len(list[t])
      BY <1>1, <1>6, ListedTypes
    <2> QED BY SMTT(30), <2>1
  <1>8. /\ list'[t] = Tail(list[t]) /\ list' = [list EXCEPT ![t] = Tail(@)]
        /\ list'[t] \in Seq(Mutexes)
        /\ Len(list'[t]) = n
        /\ \A i \in 1..n : list'[t][i] = list[t][i + 1]
        /\ Len(list[t]) = n + 1
    <2>1. list[t] \in Seq(Mutexes) BY <1>1, ListedTypes
    <2>2. list' = [list EXCEPT ![t] = Tail(@)] BY <1>1, <1>4, <1>6 DEF TypeOK
    <2>3. list'[t] = Tail(list[t]) BY <1>1, <2>2 DEF TypeOK
    <2>4. Tail(list[t]) \in Seq(Mutexes) /\ Len(Tail(list[t])) = n
      BY <1>6, <1>7, <2>1
    <2>5. \A i \in 1..n : Tail(list[t])[i] = list[t][i + 1]
      BY <1>6, <1>7, <2>1
    <2>6. Len(list[t]) = n + 1 BY <1>7, <2>1
    <2> QED BY <2>2, <2>3, <2>4, <2>5, <2>6
  <1>9. PICK T \in SUBSET Mutexes : T = call[t].todo \ {x}
    BY <1>1, <1>2, CallFacts DEF ThreadOK
  <1>10. /\ pc'[t] = "release" /\ call'[t] = call[t] /\ lockers'[t] = lockers[t]
    BY <1>1, <1>4 DEF TypeOK
  <1>11. /\ InHand(t)' = {x} /\ InHand(t) = {}
         /\ Pending(t)' = T /\ Pending(t) = T \cup {x} /\ x \notin T
    BY <1>2, <1>3, <1>9, <1>10 DEF InHand, Pending
  <1>12. \A i \in 1..n : i + 1 \in 1..(n + 1) OBVIOUS
  <1>13. x \notin Listed(t)' /\ Listed(t)' \subseteq Listed(t)
    <2> SUFFICES ASSUME NEW i \in 1..n
                 PROVE  list'[t][i] # x /\ list'[t][i] \in Listed(t)
      <3>1. Len(list'[t]) = n BY <1>8
      <3> QED BY <3>1 DEF Listed
    <2>1. i + 1 \in 1..(n + 1) /\ 1 \in 1..(n + 1) /\ 1 < i + 1 OBVIOUS
    <2>2. list'[t][i] \in Listed(t) BY <1>8, <2>1 DEF Listed
    <2>3. Above(list'[t][i], x)
      BY <1>1, <1>6, <1>8, <2>1 DEF ThreadOK, OrderOK
    <2> QED BY <1>3, <2>2, <2>3, AboveIsOrder
  <1>14. Listed(t) \subseteq Listed(t)' \cup {x}
    <2> SUFFICES ASSUME NEW i \in 1..(n + 1), list[t][i] # x
                 PROVE  list[t][i] \in Listed(t)'
      BY <1>8 DEF Listed
    <2>1. i - 1 \in 1..n /\ (i - 1) + 1 = i BY <1>6
    <2> QED BY <1>8, <2>1 DEF Listed
  <1>15. Listed(t)' = Listed(t) \ {x} BY <1>13, <1>14
  <1>16. \A m : SameLevel(t, m)' = SameLevel(t, m) \ {x}
    BY <1>15 DEF SameLevel
  <1>17. TypeOK'
    <2>1. count' \in [Mutexes -> Nat] BY <1>1, <1>4 DEF TypeOK
    <2>2. list' \in [Threads -> Seq(Mutexes)] BY <1>1, <1>8 DEF TypeOK
    <2> QED BY <1>1, <1>4, <2>1, <2>2 DEF TypeOK
  <1>18. Frame(t) BY <1>1, <1>4, <1>8 DEF Frame, Untouched, TypeOK
  <1>19. CallOK(t)' BY <1>1, <1>2, <1>10 DEF ThreadOK, CallOK
  <1>20. HeldOK(t)'
    <2>1. owner' = owner BY <1>4
    <2> QED BY <1>1, <1>3, <1>11, <1>15, <2>1 DEF ThreadOK, HeldOK
  <1>21. OrderOK(t)'
    <2> SUFFICES ASSUME NEW i \in 1..n, NEW j \in 1..n, i < j
                 PROVE  Above(list'[t][j], list'[t][i])
      BY <1>8 DEF OrderOK, Above
    <2>1. i + 1 \in 1..(n + 1) /\ j + 1 \in 1..(n + 1) /\ i + 1 < j + 1
      OBVIOUS
    <2> QED BY <1>1, <1>8, <2>1 DEF ThreadOK, OrderOK
  <1>22. LockingOK(t)' BY <1>10 DEF LockingOK
  <1>23. NoLocker(t) /\ x \in call[t].all BY <1>3, <1>5 DEF LastUse
  <1>24. UnlockingOK(t)'
    <2>1. \A m \in call[t].all : \A k \in Listed(t)' : Level[k] >= Level[m]
      BY <1>1, <1>2, <1>15 DEF ThreadOK, UnlockingOK
    <2>2. NoLocker(t)' BY <1>10, <1>23 DEF NoLocker
    <2>3. \A m \in call[t].all : SameLevel(t, m)' = T
      <3> TAKE m \in call[t].all
      <3>1. SameLevel(t, m) = T \cup {x} BY <1>5, <1>11 DEF LastUse
      <3>2. SameLevel(t, m)' = SameLevel(t, m) \ {x} BY <1>16
      <3> QED BY <1>11, <3>1, <3>2
    <2>4. LastUse(t)' BY <1>10, <1>11, <2>2, <2>3 DEF LastUse
    <2> QED BY <1>10, <2>1, <2>4 DEF UnlockingOK
  <1>25. LockersOK(t)'
    <2> SUFFICES ASSUME NEW i \in 1..Len(lockers[t]) PROVE LockerOK(t, i)'
      BY <1>10 DEF LockersOK
    <2>1. /\ i \in Nat /\ i \in 1..i
          /\ \A j \in 1..i : lockers'[t][j] = lockers[t][j]
      BY <1>1, <1>10, LockerFacts
    <2>2. LockerOK(t, i) BY <1>1 DEF ThreadOK, LockersOK
    <2>3. ASSUME NEW k \in lockers[t][i].set
          PROVE  k \in Listed(t)' /\ SameLevel(t, k)' = SameLevel(t, k)
      <3>1. k \in Listed(t) BY <2>2 DEF LockerOK
      <3>2. Level[k] # Level[x] BY <1>23 DEF NoLocker
      <3> QED BY <1>15, <1>16, <3>1, <3>2 DEF SameLevel
    <2> QED BY <2>1, <2>2, <2>3, KeptLocker
  <1>26. CoveredOK(t)'
    BY <1>1, <1>10, <1>11, <1>15 DEF ThreadOK, CoveredOK
  <1>27. ThreadOK(t)'
    BY <1>19, <1>20, <1>21, <1>22, <1>24, <1>25, <1>26 DEF ThreadOK
  <1>28. CountStep(t)
    <2>1. ASSUME NEW m \in Mutexes, m \in Listed(t)' PROVE count'[m] = Uses(t, m)'
      <3>1. m \in Listed(t) /\ m # x BY <1>15, <2>1
      <3>2. Holding(t, m)' = Holding(t, m) BY <1>10 DEF Holding
      <3>3. Uses(t, m)' = Uses(t, m) BY <1>11, <3>1, <3>2 DEF Uses
      <3>4. count'[m] = count[m] BY <1>1, <1>4, <3>1 DEF TypeOK
      <3> QED BY <3>1, <3>3, <3>4 DEF Inv, CountOK
    <2>2. \A m \in Mutexes : m \notin Listed(t) => count'[m] = count[m]
      BY <1>1, <1>3, <1>4 DEF TypeOK
    <2>3. count'[x] = 0 BY <1>1, <1>3, <1>4 DEF TypeOK
    <2> QED BY <1>15, <2>1, <2>2, <2>3 DEF CountStep
  <1> QED BY <1>17, <1>18, <1>27, <1>28, StepKeepsInv

-----------------------------------------------------------------------------
(* The invariant holds.                                                    *)

LEMMA InitInv ==
  ASSUME Init
  PROVE  Inv
  <1>1. TypeOK
    <2>1. NoCall \in Calls BY DEF NoCall, Calls
    <2>2. <<>> \in Seq(Mutexes) /\ <<>> \in Seq(Lockers) OBVIOUS
    <2> QED BY <2>1, <2>2 DEF Init, TypeOK
  <1>2. ASSUME NEW t \in Threads PROVE ThreadOK(t) /\ Listed(t) = {}
    <2>1. /\ pc[t] = "idle" /\ call[t] = NoCall
          /\ list[t] = <<>> /\ lockers[t] = <<>>
          /\ \A m \in Mutexes : owner[m] # t
      BY DEF Init
    <2>2. Len(list[t]) = 0 /\ Len(lockers[t]) = 0 BY <2>1
    <2>3. 1..Len(list[t]) = {} /\ 1..Len(lockers[t]) = {} BY <2>2
    <2>4. Listed(t) = {} BY <2>3 DEF Listed
    <2>5. InHand(t) = {} /\ Pending(t) = {} BY <2>1, IdleFacts
    <2>6. CallOK(t) BY <2>1 DEF CallOK
    <2>7. HeldOK(t) BY <2>1, <2>4, <2>5 DEF HeldOK
    <2>8. OrderOK(t) BY <2>3 DEF OrderOK
    <2>9. LockingOK(t) /\ UnlockingOK(t) BY <2>1 DEF LockingOK, UnlockingOK
    <2>10. LockersOK(t) BY <2>3 DEF LockersOK
    <2>11. CoveredOK(t) BY <2>4 DEF CoveredOK
    <2> QED BY <2>4, <2>6, <2>7, <2>8, <2>9, <2>10, <2>11 DEF ThreadOK
  <1>3. CountOK BY <1>2 DEF CountOK, Init
  <1> QED BY <1>1, <1>2, <1>3 DEF Inv

LEMMA StutterKeepsInv ==
  ASSUME Inv, UNCHANGED vars
  PROVE  Inv'
  <1>1. /\ owner' = owner /\ count' = count /\ list' = list
        /\ pc' = pc /\ call' = call /\ lockers' = lockers
    BY DEF vars
  <1>2. TypeOK' BY <1>1 DEF Inv, TypeOK
  <1>3. \A t \in Threads : Untouched(t) BY <1>1 DEF Untouched
  <1>4. \A t \in Threads : ThreadOK(t)' BY <1>3, UntouchedStaysOK DEF Inv
  <1>5. CountOK' BY <1>1, <1>3, SameView DEF Inv, CountOK
  <1> QED BY <1>2, <1>4, <1>5 DEF Inv

LEMMA NextKeepsInv ==
  ASSUME Inv, Nested, [Next]_vars
  PROVE  Inv'
  <1>1. CASE UNCHANGED vars BY <1>1, StutterKeepsInv
  <1>2. ASSUME NEW t \in Threads, NEW multi \in BOOLEAN, NEW S \in Containers,
               Relock(t, multi, S)
        PROVE  Inv'
    BY <1>2, RelockKeepsInv
  <1>3. ASSUME NEW t \in Threads, NEW multi \in BOOLEAN, NEW S \in Containers,
               NEW how \in Ways, Lock(t, multi, S, how)
        PROVE  Inv'
    BY <1>3, LockKeepsInv
  <1>4. ASSUME NEW t \in Threads, NEW i \in 1..Len(lockers[t]), Unlock(t, i)
        PROVE  Inv'
    BY <1>4, UnlockKeepsInv
  <1>5. ASSUME NEW t \in Threads, Proceed(t)
        PROVE  Inv'
    <2>1. CASE Acquire(t) BY <2>1, AcquireKeepsInv
    <2>2. CASE PostLock(t) BY <2>2, PostLockKeepsInv
    <2>3. CASE GiveUp(t) BY <2>3, GiveUpKeepsInv
    <2>4. CASE Decrement(t) BY <2>4, DecrementKeepsInv
    <2>5. CASE PreUnlock(t) BY <2>5, PreUnlockKeepsInv
    <2>6. CASE Release(t) BY <2>6, ReleaseKeepsInv
    <2> QED BY <1>5, <2>1, <2>2, <2>3, <2>4, <2>5, <2>6 DEF Proceed
  <1> QED BY <1>1, <1>2, <1>3, <1>4, <1>5 DEF Next

\* In programs whose lockers are objects of nested blocks, the invariant
\* holds, however many threads and mutexes there are.
THEOREM Invariance ==
  ASSUME Nested
  PROVE  Spec => []Inv
  <1>1. Init => Inv BY InitInv
  <1>2. Inv /\ [Next]_vars => Inv' BY NextKeepsInv
  <1> QED BY <1>1, <1>2, PTL DEF Spec

-----------------------------------------------------------------------------
(* What follows from it.                                                   *)

\* Variables keep their types.
THEOREM TypesHold ==
  ASSUME Nested
  PROVE  Spec => []TypeOK
  <1>1. Inv => TypeOK BY DEF Inv
  <1> QED BY <1>1, Invariance, PTL

\* The list of a thread has what it locked, in the order of locking
\* (LevelMutex.h:104-108; ListsAreHeld).
THEOREM ListsStayHeld ==
  ASSUME Nested
  PROVE  Spec => []ListsAreHeld
  <1>1. ASSUME Inv PROVE ListsAreHeld
    <2> SUFFICES ASSUME NEW t \in Threads
                 PROVE  /\ {m \in Mutexes : owner[m] = t} = Listed(t) \cup InHand(t)
                        /\ Listed(t) \cap InHand(t) = {}
                        /\ \A i, j \in 1..Len(list[t]) :
                              i < j => Above(list[t][j], list[t][i])
      BY DEF ListsAreHeld
    <2>1. TypeOK /\ CallOK(t) /\ HeldOK(t) /\ OrderOK(t)
      BY <1>1 DEF Inv, ThreadOK
    <2>2. InHand(t) \subseteq Mutexes BY <2>1, CallFacts DEF InHand
    <2>3. Listed(t) \subseteq Mutexes BY <2>1, ListedTypes
    <2> QED BY <2>1, <2>2, <2>3 DEF HeldOK, OrderOK
  <1> QED BY <1>1, Invariance, PTL

\* A mutex is in the list of its owner only, and of no use to others.
LEMMA NotListedNotUsed ==
  ASSUME Inv, NEW t \in Threads, NEW m \in Mutexes, m \notin Listed(t)
  PROVE  Uses(t, m) = 0
  <1>1. TypeOK /\ ThreadOK(t) BY DEF Inv
  <1>2. Holding(t, m) = {}
    BY <1>1 DEF ThreadOK, LockersOK, LockerOK, Holding
  <1>3. m \notin Pending(t)
    <2>1. CASE pc[t] = "idle" BY <2>1, IdleFacts
    <2>2. CASE pc[t] # "idle"
      <3>1. PICK k \in call[t].all : TRUE BY <1>1, <2>2, CallFacts DEF ThreadOK
      <3>2. CASE pc[t] \in {"lock", "post"}
        <4>1. Pending(t) = SameLevel(t, k)
          BY <1>1, <3>2 DEF Pending, ThreadOK, LockingOK
        <4> QED BY <4>1 DEF SameLevel
      <3>3. CASE pc[t] \in {"unlock", "release"}
        <4>1. CASE LastUse(t) BY <4>1 DEF LastUse, SameLevel
        <4>2. CASE StillUsed(t) BY <4>2 DEF StillUsed, Pending
        <4> QED BY <1>1, <3>3, <4>1, <4>2 DEF ThreadOK, UnlockingOK
      <3>4. pc[t] \in {"idle", "lock", "post", "unlock", "release"}
        BY <1>1 DEF TypeOK
      <3> QED BY <2>2, <3>2, <3>3, <3>4
    <2> QED BY <2>1, <2>2
  <1>4. Cardinality(Holding(t, m)) = 0 BY <1>1, <1>2, UsesFacts
  <1> QED BY <1>3, <1>4 DEF Uses

LEMMA ListedByOwner ==
  ASSUME Inv, NEW t \in Threads, NEW m \in Listed(t)
  PROVE  /\ m \in Mutexes /\ owner[m] = t /\ count[m] = Uses(t, m)
         /\ \A u \in Threads \ {t} : m \notin Listed(u)
  <1>1. m \in Mutexes BY ListedTypes DEF Inv
  <1>2. \A u \in Threads : m \in Listed(u) => owner[m] = u
    BY <1>1 DEF Inv, ThreadOK, HeldOK
  <1> QED BY <1>1, <1>2 DEF Inv, CountOK

\* m_count tells how many lockers hold the mutex (CountsAreLockers).
THEOREM CountsStayTrue ==
  ASSUME Nested
  PROVE  Spec => []CountsAreLockers
  <1>1. ASSUME Inv PROVE CountsAreLockers
    <2> SUFFICES ASSUME NEW m \in Mutexes
                 PROVE  /\ owner[m] = Nobody =>
                             count[m] = 0 /\ \A t \in Threads : Uses(t, m) = 0
                        /\ \A t \in Threads : owner[m] = t =>
                             /\ count[m] = Uses(t, m)
                             /\ \A u \in Threads \ {t} : Uses(u, m) = 0
      BY DEF CountsAreLockers
    <2>1. \A t \in Threads : m \in Listed(t) => owner[m] = t
      BY <1>1, ListedByOwner
    <2>2. \A t \in Threads : owner[m] # t => Uses(t, m) = 0
      BY <1>1, <2>1, NotListedNotUsed
    <2>3. (\A t \in Threads : m \notin Listed(t)) => count[m] = 0
      BY <1>1 DEF Inv, CountOK
    <2>4. ASSUME owner[m] = Nobody
          PROVE  count[m] = 0 /\ \A t \in Threads : Uses(t, m) = 0
      BY <2>1, <2>2, <2>3, <2>4
    <2>5. ASSUME NEW t \in Threads, owner[m] = t
          PROVE  count[m] = Uses(t, m)
      <3>1. CASE m \in Listed(t) BY <1>1, <3>1, ListedByOwner
      <3>2. CASE m \notin Listed(t)
        <4>1. Uses(t, m) = 0 BY <1>1, <3>2, NotListedNotUsed
        <4>2. count[m] = 0 BY <2>1, <2>3, <2>5, <3>2
        <4> QED BY <4>1, <4>2
      <3> QED BY <3>1, <3>2
    <2> QED BY <2>2, <2>4, <2>5
  <1> QED BY <1>1, Invariance, PTL

\* The locker of the innermost block is never refused to unlock
\* (LevelMutex.cpp:1072-1079, :1151-1158; LastLockerLetsGo).
THEOREM InnermostLockerLetsGo ==
  ASSUME Nested
  PROVE  Spec => []LastLockerLetsGo
  <1>1. ASSUME Inv PROVE LastLockerLetsGo
    <2> SUFFICES ASSUME NEW t \in Threads, pc[t] = "idle", lockers[t] # <<>>
                 PROVE  MayUnlock(t, lockers[t][Len(lockers[t])].multi,
                                  lockers[t][Len(lockers[t])].set)
      BY DEF LastLockerLetsGo
    <2>1. TypeOK /\ ThreadOK(t) BY <1>1 DEF Inv
    <2>2. PICK n \in 1..Len(lockers[t]) : n = Len(lockers[t])
      BY <2>1, LockerFacts
    <2>3. PICK S \in SUBSET Mutexes : S = lockers[t][n].set /\ S # {}
      BY <2>1, LockerFacts
    <2>4. LockerOK(t, n) BY <2>1 DEF ThreadOK, LockersOK
    <2>5. S \subseteq Listed(t) BY <2>3, <2>4 DEF LockerOK
    <2>6. list[t] # <<>> BY <2>1, <2>3, <2>5, ListedTypes
    <2>7. PICK h \in Listed(t) : h = list[t][1]
      BY <2>1, <2>6, HeadIsLowest DEF ThreadOK
    <2>8. \A m \in S : Level[m] = Level[h]
      <3> TAKE m \in S
      <3>1. PICK j \in 1..Len(lockers[t]) : h \in lockers[t][j].set
        BY <2>1, IdleFacts DEF ThreadOK, CoveredOK
      <3>2. j \in 1..n BY <2>2
      <3>3. Level[m] <= Level[h] BY <2>3, <2>4, <3>1, <3>2 DEF LockerOK
      <3>4. Level[m] >= Level[h]
        BY <2>1, <2>5, <2>6, <2>7, HeadIsLowest DEF ThreadOK
      <3>5. h \in Mutexes /\ Level[h] \in Nat /\ Level[m] \in Nat
        BY <2>1, ListedTypes, AboveIsOrder
      <3> QED BY <3>3, <3>4, <3>5
    <2>9. CASE lockers[t][n].multi
      <3>1. PICK m \in S : TRUE BY <2>3
      <3>2. S = SameLevel(t, m) BY <2>3, <2>4, <2>9 DEF LockerOK
      <3>3. SameLevel(t, m) = SameLevel(t, h) BY <2>8 DEF SameLevel
      <3>4. Recent(t) = SameLevel(t, h)
        BY <2>1, <2>6, <2>7, RecentIsLevel DEF ThreadOK
      <3> QED BY <2>2, <2>3, <2>9, <3>2, <3>3, <3>4 DEF MayUnlock
    <2>10. CASE ~lockers[t][n].multi
      <3>1. ASSUME NEW m \in S
            PROVE  count[m] > 0 /\ AtCurrentLevel(t, m) /\ m \in Listed(t)
        <4>1. m \in Listed(t) /\ AtCurrentLevel(t, m)
          BY <2>5, <2>6, <2>7, <2>8 DEF AtCurrentLevel
        <4>2. n \in Holding(t, m) BY <2>3 DEF Holding
        <4>3. /\ Cardinality(Holding(t, m)) \in Nat
              /\ Cardinality(Holding(t, m)) >= 1
          BY <2>1, <4>2, UsesFacts
        <4>4. count[m] = Uses(t, m) BY <1>1, <4>1, ListedByOwner
        <4> QED BY <4>1, <4>3, <4>4 DEF Uses
      <3> QED BY <2>2, <2>3, <2>10, <3>1 DEF MayUnlock
    <2> QED BY <2>9, <2>10
  <1> QED BY <1>1, Invariance, PTL

\* Threads never wait for one another in a circle: of the mutexes they wait
\* for, one is the last in the order of locking, and its owner waits for one
\* that is later (LevelMutex.h:621-630; NoDeadlock).
THEOREM DeadlockFreedom ==
  ASSUME Nested
  PROVE  Spec => []NoDeadlock
  <1>1. ASSUME Inv PROVE NoDeadlock
    <2> SUFFICES ASSUME NEW T \in SUBSET Threads, T # {},
                        \A t \in T : \E m \in Mutexes :
                                        Waits(t, m) /\ owner[m] \in T
                 PROVE  FALSE
      BY DEF NoDeadlock
    <2> DEFINE S == {m \in Mutexes : \E t \in T : Waits(t, m)}
    <2>1. S \in SUBSET Mutexes /\ S # {} OBVIOUS
    <2>2. PICK z \in S : \A m \in S \ {z} : Above(m, z)
      BY <2>1, LowestExists
    <2>3. PICK t \in T : Waits(t, z) /\ owner[z] \in T BY <2>2 DEF Waits
    <2>4. PICK u \in T : owner[z] = u /\ u \in Threads BY <2>3
    <2>5. TypeOK /\ ThreadOK(u) BY <1>1, <2>4 DEF Inv
    <2>6. PICK m \in S : Waits(u, m) BY <2>4
    <2>7. pc[u] = "lock" /\ m = First(call[u].todo) BY <2>6 DEF Waits
    <2>8. z \in Listed(u)
      BY <2>2, <2>4, <2>5, <2>7 DEF ThreadOK, HeldOK, InHand
    <2>9. m \in call[u].todo BY <2>5, <2>7, CallFacts DEF ThreadOK
    <2>10. Above(z, m) BY <2>5, <2>7, <2>8, <2>9 DEF ThreadOK, LockingOK
    <2>11. z \in Mutexes /\ m \in Mutexes BY <2>2, <2>6
    <2>12. m # z /\ ~Above(m, z) BY <2>10, <2>11, AboveIsOrder
    <2> QED BY <2>2, <2>6, <2>12
  <1> QED BY <1>1, Invariance, PTL

-----------------------------------------------------------------------------
(* The refinement.                                                         *)

\* How deep t is inside m.
Depth(t, m) == IF m \in Listed(t) THEN count[m] ELSE 0

LEMMA InitRefines ==
  ASSUME Init
  PROVE  Locks!Init
  <1>1. \A t \in Threads : \A m \in Mutexes : m \notin Listed(t)
    <2> TAKE t \in Threads
    <2>1. list[t] = <<>> BY DEF Init
    <2>2. 1..Len(list[t]) = {} BY <2>1
    <2> QED BY <2>2 DEF Listed
  <1>2. \A t \in Threads : [m \in Mutexes |->
           IF m \in Listed(t) THEN count[m] ELSE 0] = [m \in Mutexes |-> 0]
    BY <1>1
  <1> QED BY <1>2 DEF Locks!Init

\* A step after which t is deeper inside some mutexes that it is alone in.
LEMMA EnterRefines ==
  ASSUME NEW t \in Threads, NEW S \in SUBSET Mutexes,
         \A m \in S : \A u \in Threads \ {t} : Depth(u, m) = 0,
         \A m \in Mutexes :
            Depth(t, m)' = IF m \in S THEN Depth(t, m) + 1 ELSE Depth(t, m),
         \A u \in Threads \ {t} : \A m \in Mutexes : Depth(u, m)' = Depth(u, m)
  PROVE  Locks!Next
  <1>1. Locks!Enter(t, S) BY DEF Locks!Enter, Depth
  <1> QED BY <1>1 DEF Locks!Next

LEMMA LeaveRefines ==
  ASSUME NEW t \in Threads, NEW x \in Mutexes, Depth(t, x) > 0,
         \A m \in Mutexes :
            Depth(t, m)' = IF m = x THEN Depth(t, m) - 1 ELSE Depth(t, m),
         \A u \in Threads \ {t} : \A m \in Mutexes : Depth(u, m)' = Depth(u, m)
  PROVE  Locks!Next
  <1>1. Locks!Leave(t, x) BY DEF Locks!Leave, Depth
  <1> QED BY <1>1 DEF Locks!Next

\* A step that is none of the locks'.
LEMMA StutterRefines ==
  ASSUME UNCHANGED <<list, count>>
  PROVE  UNCHANGED [t \in Threads |-> [m \in Mutexes |->
                      IF m \in Listed(t) THEN count[m] ELSE 0]]
  <1>1. \A t : Listed(t)' = Listed(t) BY DEF Listed
  <1> QED BY <1>1

\* What a step does to counts of mutexes that others have is nothing.
LEMMA OthersKeepDepth ==
  ASSUME Inv, NEW t \in Threads, NEW S \in SUBSET Mutexes,
         \A m \in S : owner[m] = t,
         \A u \in Threads \ {t} : list'[u] = list[u],
         \A m \in Mutexes \ S : count'[m] = count[m]
  PROVE  /\ \A u \in Threads \ {t} : \A m \in Mutexes : Depth(u, m)' = Depth(u, m)
         /\ \A u \in Threads \ {t} : \A m \in S : Depth(u, m) = 0
  <1>1. \A u \in Threads \ {t} : Listed(u)' = Listed(u) BY DEF Listed
  <1>2. \A u \in Threads \ {t} : \A m \in S : m \notin Listed(u)
    BY ListedByOwner
  <1> QED BY <1>1, <1>2 DEF Depth

LEMMA HeadAndTail ==
  ASSUME TypeOK, NEW t \in Threads, list[t] # <<>>, list'[t] = Tail(list[t])
  PROVE  Listed(t) = Listed(t)' \cup {list[t][1]}
  <1>1. PICK n \in Nat : n = Len(list[t]) - 1
    <2>1. Len(list[t]) \in Nat /\ 1 \in 1..Len(list[t]) BY ListedTypes
    <2>2. Len(list[t]) - 1 \in Nat BY <2>1
    <2> QED BY <2>2
  <1>2. /\ Len(list[t]) = n + 1 /\ Len(list'[t]) = n
        /\ \A i \in 1..n : list'[t][i] = list[t][i + 1]
    <2>1. list[t] \in Seq(Mutexes) /\ Len(list[t]) \in Nat BY ListedTypes
    <2>2. Len(list[t]) = n + 1 BY <1>1, <2>1
    <2>3. Tail(list[t]) \in Seq(Mutexes) /\ Len(Tail(list[t])) = n
      BY <2>1, <2>2
    <2>4. \A i \in 1..n : Tail(list[t])[i] = list[t][i + 1] BY <2>1, <2>2
    <2> QED BY <2>2, <2>3, <2>4
  <1>3. Listed(t) \subseteq Listed(t)' \cup {list[t][1]}
    <2> SUFFICES ASSUME NEW i \in 1..(n + 1), i # 1
                 PROVE  list[t][i] \in Listed(t)'
      BY <1>2 DEF Listed
    <2>1. i - 1 \in 1..n /\ (i - 1) + 1 = i OBVIOUS
    <2> QED BY <1>2, <2>1 DEF Listed
  <1>4. Listed(t)' \cup {list[t][1]} \subseteq Listed(t)
    <2>1. 1 \in 1..(n + 1) /\ \A i \in 1..n : i + 1 \in 1..(n + 1) OBVIOUS
    <2> QED BY <1>2, <2>1 DEF Listed
  <1> QED BY <1>3, <1>4

LEMMA StepRefines ==
  ASSUME Inv, Nested, Inv', Next
  PROVE  \/ Locks!Next
         \/ UNCHANGED [t \in Threads |-> [m \in Mutexes |->
                         IF m \in Listed(t) THEN count[m] ELSE 0]]
  <1>0. TypeOK BY DEF Inv
  <1>1. ASSUME NEW t \in Threads, NEW multi \in BOOLEAN, NEW S \in Containers,
               Relock(t, multi, S)
        PROVE  Locks!Next
    <2>1. S \in SUBSET Mutexes /\ S \subseteq Listed(t)
      BY <1>1, RelockFacts DEF SameLevel
    <2>2. /\ \A m \in S : owner[m] = t
          /\ \A u \in Threads : list'[u] = list[u]
          /\ \A m \in Mutexes : count'[m] = IF m \in S THEN count[m] + 1
                                                       ELSE count[m]
      BY <1>1, <2>1, ListedByOwner DEF Relock
    <2>3. Listed(t)' = Listed(t) BY <2>2, SameList
    <2>4. \A m \in Mutexes :
             Depth(t, m)' = IF m \in S THEN Depth(t, m) + 1 ELSE Depth(t, m)
      BY <2>1, <2>2, <2>3 DEF Depth
    <2>5. /\ \A u \in Threads \ {t} :
                \A m \in Mutexes : Depth(u, m)' = Depth(u, m)
          /\ \A u \in Threads \ {t} : \A m \in S : Depth(u, m) = 0
      BY <2>1, <2>2, OthersKeepDepth
    <2>6. S \in SUBSET Mutexes BY <2>1
    <2> QED BY <2>4, <2>5, <2>6, EnterRefines
  <1>2. ASSUME NEW t \in Threads, PostLock(t)
        PROVE  Locks!Next
    <2>1. PICK x \in Mutexes : /\ x = First(call[t].todo)
                               /\ x \notin Listed(t) /\ owner[x] = t
                               /\ Listed(t)' = Listed(t) \cup {x}
      BY <1>2, PostLockFacts
    <2>2. /\ \A u \in Threads \ {t} : list'[u] = list[u]
          /\ \A m \in Mutexes : count'[m] = IF m = x THEN 1 ELSE count[m]
      BY <1>0, <1>2, <2>1 DEF PostLock, TypeOK
    <2>3. PICK S \in SUBSET Mutexes : S = {x} BY <2>1
    <2>4. \A m \in Mutexes :
             Depth(t, m)' = IF m \in S THEN Depth(t, m) + 1 ELSE Depth(t, m)
      BY <2>1, <2>2, <2>3 DEF Depth
    <2>5. /\ \A u \in Threads \ {t} :
                \A m \in Mutexes : Depth(u, m)' = Depth(u, m)
          /\ \A u \in Threads \ {t} : \A m \in S : Depth(u, m) = 0
      BY <2>1, <2>2, <2>3, OthersKeepDepth
    <2> QED BY <2>4, <2>5, EnterRefines
  <1>3. ASSUME NEW t \in Threads, Decrement(t) \/ PreUnlock(t)
        PROVE  Locks!Next
    <2>1. pc[t] = "unlock" BY <1>3 DEF Decrement, PreUnlock
    <2>2. PICK x \in Mutexes :
             /\ x = Last(call[t].todo) /\ x \in call[t].todo
             /\ \A n \in call[t].todo : n <= x
             /\ x \in Listed(t)
             /\ LastUse(t) => count[x] = 1
             /\ StillUsed(t) => count[x] >= 2
             /\ LastUse(t) \/ StillUsed(t)
      BY <2>1, NextToUnlock
    <2>3. PICK S \in SUBSET Mutexes : S = {x} BY <2>2
    <2>4. /\ \A u \in Threads \ {t} : list'[u] = list[u]
          /\ \A m \in Mutexes \ S : count'[m] = count[m]
          /\ count[x] \in Nat /\ count[x] > 0
      <3>1. count[x] \in Nat BY <1>0 DEF TypeOK
      <3>2. count[x] > 0 BY <2>2, <3>1
      <3> QED BY <1>0, <1>3, <2>2, <2>3, <3>1, <3>2
           DEF Decrement, PreUnlock, TypeOK
    <2>5. \A u \in Threads \ {t} : \A m \in Mutexes : Depth(u, m)' = Depth(u, m)
      <3>1. \A m \in S : owner[m] = t BY <2>2, <2>3, ListedByOwner
      <3> QED BY <2>4, <3>1, OthersKeepDepth
    <2>6. Depth(t, x) > 0 BY <2>2, <2>4 DEF Depth
    <2>7. \A m \in Mutexes :
             Depth(t, m)' = IF m = x THEN Depth(t, m) - 1 ELSE Depth(t, m)
      <3>1. CASE Decrement(t)
        <4>1. list' = list /\ count'[x] = count[x] - 1
          BY <1>0, <2>2, <3>1 DEF Decrement, TypeOK
        <4>2. Listed(t)' = Listed(t) BY <4>1, SameList
        <4> QED BY <2>2, <2>3, <2>4, <4>1, <4>2 DEF Depth
      <3>2. CASE PreUnlock(t)
        <4>1. count[x] <= 1 /\ count'[x] = 0
          BY <1>0, <2>2, <3>2 DEF PreUnlock, TypeOK
        <4>2. LastUse(t) /\ count[x] = 1 BY <2>2, <2>4, <4>1
        <4>3. Previous(list[t], x) = Tail(list[t]) /\ list[t] # <<>>
                /\ list[t][1] = x
          BY <2>1, <2>2, <4>2, PreUnlockTakesHead
        <4>4. list'[t] = Tail(list[t])
          BY <1>0, <2>2, <3>2, <4>3 DEF PreUnlock, TypeOK
        <4>5. Listed(t) = Listed(t)' \cup {x}
          BY <1>0, <4>3, <4>4, HeadAndTail
        <4>6. Depth(t, x) = 1 /\ Depth(t, x)' = 0
          BY <2>2, <4>1, <4>2 DEF Depth
        <4>7. \A m \in Mutexes : m # x => Depth(t, m)' = Depth(t, m)
          BY <2>3, <2>4, <4>5 DEF Depth
        <4> QED BY <4>6, <4>7
      <3> QED BY <1>3, <3>1, <3>2
    <2> QED BY <2>5, <2>6, <2>7, LeaveRefines
  <1>4. ASSUME UNCHANGED <<list, count>>
        PROVE  UNCHANGED [t \in Threads |-> [m \in Mutexes |->
                            IF m \in Listed(t) THEN count[m] ELSE 0]]
    BY <1>4, StutterRefines
  <1>5. ASSUME NEW t \in Threads
        PROVE  /\ \A multi \in BOOLEAN, S \in Containers, how \in Ways :
                     Lock(t, multi, S, how) => UNCHANGED <<list, count>>
               /\ \A i \in 1..Len(lockers[t]) :
                     Unlock(t, i) => UNCHANGED <<list, count>>
               /\ Acquire(t) \/ GiveUp(t) \/ Release(t)
                     => UNCHANGED <<list, count>>
    BY DEF Lock, Unlock, Acquire, GiveUp, Release
  <1> QED BY <1>1, <1>2, <1>3, <1>4, <1>5 DEF Next, Proceed

\* Whatever levels, lists and waiting do, a thread inside a mutex is there
\* alone, and leaves it as often as it went in (ImplementsLocks).
THEOREM Refinement ==
  ASSUME Nested
  PROVE  Spec => ImplementsLocks
  <1>1. Init => Locks!Init BY InitRefines
  <1>2. Inv /\ Inv' /\ [Next]_vars =>
          [Locks!Next]_([t \in Threads |-> [m \in Mutexes |->
                           IF m \in Listed(t) THEN count[m] ELSE 0]])
    <2> SUFFICES ASSUME Inv, Inv', [Next]_vars
                 PROVE  \/ Locks!Next
                        \/ UNCHANGED [t \in Threads |-> [m \in Mutexes |->
                             IF m \in Listed(t) THEN count[m] ELSE 0]]
      OBVIOUS
    <2>1. CASE Next BY <2>1, StepRefines
    <2>2. CASE UNCHANGED vars BY <2>2, StutterRefines DEF vars
    <2> QED BY <2>1, <2>2
  <1> QED BY <1>1, <1>2, Invariance, PTL DEF Spec, ImplementsLocks, Locks!Spec
==============================================================================
