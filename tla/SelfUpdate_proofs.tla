-------------------------- MODULE SelfUpdate_proofs --------------------------
(* As long as no process dies, the lock file keeps the runs of self-update   *)
(* apart, and what a run records is what the install root holds.             *)
(* The second half is about Outreach, the other program that a timer starts: *)
(* the greeter's pass welcomes a newcomer once, and a newcomer's joins ask   *)
(* nobody twice.  OutInv counts the request a join may still send.           *)
EXTENDS SelfUpdate, Outreach, TLAPS

\* The records of the runs are of their type.
Shaped ==
    run \in [Runs -> [at : {"idle", "ask", "lock", "takeover", "relock"} \cup Holding,
                     from : 0..latest, to : 0..latest]]

\* A run that has come past its check has something to install.
Aims(r) == run[r].at \notin {"idle", "ask"} => run[r].to \in 1..latest

\* Without deaths the lock is never old, so that nobody takes it over, and it
\* is there exactly while one run holds it.
Apart ==
    /\ lock # "old"
    /\ \A r \in Runs : run[r].at \notin {"takeover", "relock"}
    /\ lock = "held" <=> \E r \in Runs : run[r].at \in Holding
    /\ \A r, s \in Runs : run[r].at \in Holding /\ run[s].at \in Holding => r = s
    /\ \A r \in Runs : run[r].at = "record" => sound /\ tree = run[r].to

TypeInv == TypeOK /\ \A r \in Runs : Aims(r)
IInv == TypeInv /\ (cuts = 0 => Apart)

---------------------------------------------------------------------------
(* Types                                                                    *)

\* The first state is well typed.
LEMMA InitType == Init => TypeInv
<1> SUFFICES ASSUME Init PROVE TypeInv
    OBVIOUS
<1> USE MajorAssumption, RootAssumption, BoundAssumption DEF Init
<1>1. major \in Seq(Nat) /\ Len(major) \in Nat /\ Len(major) > 0
    OBVIOUS
<1>2. 1 \in Releases
    BY <1>1 DEF Releases
<1>3. Idle \in [at : {"idle", "ask", "lock", "takeover", "relock"} \cup Holding,
                from : 0..latest, to : 0..latest]
    BY DEF Idle
<1>4. Shaped
    BY <1>3 DEF Shaped
<1>6. daemon \in [at : {"down", "remove", "create", "ack", "up"}, runs : 0..latest]
    BY <1>2
<1>7. faults \in 0..MaxFaults /\ cuts \in 0..MaxCuts
    OBVIOUS
<1>8. /\ tree \in 1..latest /\ known \in 0..latest /\ told \in 0..latest
      /\ root \in {"own", "checkout", "system", "readonly"}
    OBVIOUS
<1>9. TypeOK
    BY <1>2, <1>4, <1>6, <1>7, <1>8 DEF TypeOK, Shaped, Schedulers
<1>5. \A r \in Runs : Aims(r)
    BY DEF Aims, Idle
<1> QED
    BY <1>5, <1>9 DEF TypeInv

\* What a step leaves alone keeps its type.
LEMMA FrameType ==
    ASSUME TypeInv, UNCHANGED vars
    PROVE  TypeInv'
BY DEF TypeInv, TypeOK, Aims, Releases, vars, files, config, cron, history, setting

\* The steps of a run, but for the death of its process.
RunStep(r) == Start(r) \/ SelfUpdate(r)

\* A run that goes on or ends keeps its type, whatever it goes to.
LEMMA GoesType ==
    ASSUME TypeInv, NEW r \in Runs, UNCHANGED latest,
           NEW at \in {"idle", "ask", "lock", "takeover", "relock"} \cup Holding,
           \/ Ends(r)
           \/ Goes(r, at) /\ run[r].at \notin {"idle", "ask"}
    PROVE  Shaped' /\ \A s \in Runs : Aims(s)'
<1> USE DEF TypeInv, TypeOK, Aims, Shaped
<1>1. latest \in Nat /\ latest >= 1
    BY DEF Releases
<1>2. CASE Ends(r)
    BY <1>1, <1>2 DEF Ends, Idle
<1>3. CASE Goes(r, at) /\ run[r].at \notin {"idle", "ask"}
    BY <1>3 DEF Goes
<1> QED
    BY <1>2, <1>3

\* The rest of the type invariant, where the runs are left aside.
Others ==
    /\ major \in MajorsOf /\ latest \in Releases /\ tree \in 1..latest /\ known \in 0..latest
    /\ sound \in BOOLEAN /\ acked \in BOOLEAN /\ missed \in BOOLEAN
    /\ lock \in {"free", "held", "old"}
    /\ mode \in {"auto", "notify", "off"}
    /\ root \in {"own", "checkout", "system", "readonly"}
    /\ scheduler \in Schedulers
    /\ job \in {"none", "old", "current"}
    /\ daemon \in [at : {"down", "remove", "create", "ack", "up"}, runs : 0..latest]
    /\ agent \in {"idle", "told", "migrated"}
    /\ told \in 0..latest /\ faults \in 0..MaxFaults /\ cuts \in 0..MaxCuts

\* The parts are the whole.
LEMMA Whole == TypeInv <=> Others /\ Shaped /\ \A r \in Runs : Aims(r)
BY DEF TypeInv, TypeOK, Others, Shaped

\* A query of the registry that failed is counted.
LEMMA FaultType ==
    ASSUME Others, Fault \/ NoFault
    PROVE  faults' \in 0..MaxFaults
BY BoundAssumption DEF Others, Fault, NoFault

\* No step of a run installs what the registry has not named.
LEMMA RunType ==
    ASSUME TypeInv, NEW r \in Runs, RunStep(r) \/ CutRun(r)
    PROVE  TypeInv'
<1>o. Others /\ Shaped /\ Aims(r) /\ latest \in Nat /\ latest >= 1
    BY Whole DEF Others, Releases
<1>w. ASSUME Others', Shaped', \A s \in Runs : Aims(s)' PROVE TypeInv'
    BY <1>w DEF TypeInv, TypeOK, Others, Shaped
<1> USE DEF Releases, files, config, cron, history, setting
<1>1. CASE Start(r)
  <2>1. Others'
      BY <1>o, <1>1 DEF Start, Others
  <2>2. Shaped'
      BY <1>o, <1>1 DEF Start, Shaped, Others
  <2>3. \A s \in Runs : Aims(s)'
      BY <1>1, Whole DEF Start, Aims, Shaped
  <2> QED
      BY <1>w, <2>1, <2>2, <2>3
<1>2. CASE CheckLatest(r)
  <2> PICK v \in 0..latest :
         /\ Checked(v) /\ known' = v
         /\ IF Newer(r, v) /\ ~StandsDown(r, v) /\ SelfUpdatable
            THEN run' = [run EXCEPT ![r].at = "lock", ![r].to = v]
            ELSE Ends(r)
      BY <1>2 DEF CheckLatest
  <2>1. faults' \in 0..MaxFaults
      BY <1>o, FaultType DEF Checked
  <2>2. UNCHANGED <<latest, files, acked, cron, daemon, told, cuts, setting>>
      BY <1>2 DEF CheckLatest
  <2>3. Others'
      BY <1>o, <2>1, <2>2 DEF Others
  <2>4. CASE run' = [run EXCEPT ![r].at = "lock", ![r].to = v] /\ Newer(r, v)
    <3>1. v \in 1..latest
        BY <1>o, <2>4 DEF Newer, Shaped
    <3>2. Shaped' /\ \A s \in Runs : Aims(s)'
        BY <1>o, <2>2, <2>4, <3>1, Whole DEF Shaped, Aims
    <3> QED
        BY <1>w, <2>3, <3>2
  <2>5. CASE Ends(r)
      BY <1>w, <2>2, <2>3, <2>5, GoesType
  <2> QED
      BY <2>4, <2>5
<1>3. CASE AcquireLock(r) \/ TakeOver(r) \/ AcquireAgain(r)
  <2>1. Others'
    <3>1. UNCHANGED <<latest, tree, sound, config, cron, daemon, history, setting>>
        BY <1>3 DEF AcquireLock, TakeOver, AcquireAgain
    <3>2. lock' \in {"free", "held", "old"}
      <4>1. CASE AcquireLock(r)
          BY <1>o, <4>1 DEF AcquireLock, Others
      <4>2. CASE TakeOver(r)
          BY <4>2 DEF TakeOver
      <4>3. CASE AcquireAgain(r)
          BY <1>o, <4>3 DEF AcquireAgain, Others
      <4> QED
          BY <1>3, <4>1, <4>2, <4>3
    <3> QED
        BY <1>o, <3>1, <3>2 DEF Others
  <2>2. /\ UNCHANGED latest /\ run[r].at \notin {"idle", "ask"}
        /\ Ends(r) \/ Goes(r, "install") \/ Goes(r, "takeover") \/ Goes(r, "relock")
      BY <1>o, <1>3 DEF AcquireLock, TakeOver, AcquireAgain, Others
  <2>3. Shaped' /\ \A s \in Runs : Aims(s)'
    <3>1. CASE Ends(r)
        BY <2>2, <3>1, GoesType
    <3>2. CASE Goes(r, "install")
        BY <2>2, <3>2, GoesType DEF Holding
    <3>3. CASE Goes(r, "takeover")
        BY <2>2, <3>3, GoesType
    <3>4. CASE Goes(r, "relock")
        BY <2>2, <3>4, GoesType
    <3> QED
        BY <2>2, <3>1, <3>2, <3>3, <3>4
  <2> QED
      BY <1>w, <2>1, <2>3
<1>4. CASE Install(r)
  <2>1. run[r].to \in 1..latest
      BY <1>o, <1>4 DEF Install, Aims
  <2>2. faults' \in 0..MaxFaults
      BY <1>o, <1>4, FaultType DEF Install
  <2>3. tree' \in 1..latest /\ sound' \in BOOLEAN
      BY <1>o, <1>4, <2>1 DEF Install, Others
  <2>4. UNCHANGED <<latest, lock, config, cron, daemon, told, cuts, setting>>
      BY <1>4 DEF Install
  <2>5. Others'
      BY <1>o, <2>2, <2>3, <2>4 DEF Others
  <2>6. Shaped' /\ \A s \in Runs : Aims(s)'
      BY <1>4, GoesType DEF Install, Holding
  <2> QED
      BY <1>w, <2>5, <2>6
<1>5. CASE Verify(r)
  <2>1. Others'
      BY <1>o, <1>5 DEF Verify, Others
  <2>2. Shaped' /\ \A s \in Runs : Aims(s)'
      BY <1>5, GoesType DEF Verify, Holding
  <2> QED
      BY <1>w, <2>1, <2>2
<1>6. CASE Record(r)
  <2>1. Others'
      BY <1>o, <1>6 DEF Record, Others, Shaped
  <2>2. Shaped' /\ \A s \in Runs : Aims(s)'
      BY <1>6, GoesType DEF Record, Holding
  <2> QED
      BY <1>w, <2>1, <2>2
<1>7. CASE Release(r)
  <2>1. Others'
      BY <1>o, <1>7 DEF Release, Others
  <2>2. Shaped' /\ \A s \in Runs : Aims(s)'
      BY <1>7, GoesType DEF Release
  <2> QED
      BY <1>w, <2>1, <2>2
<1>8. CASE CutRun(r)
  <2>1. Others'
      BY <1>o, <1>8, BoundAssumption DEF CutRun, Others
  <2>2. Shaped' /\ \A s \in Runs : Aims(s)'
      BY <1>8, GoesType DEF CutRun
  <2> QED
      BY <1>w, <2>1, <2>2
<1> QED
    BY <1>1, <1>2, <1>3, <1>4, <1>5, <1>6, <1>7, <1>8 DEF RunStep, SelfUpdate

\* The steps of the daemon, the nudges and the agent.
OtherStep ==
    \/ DaemonStarts \/ RemoveJob \/ CreateJob \/ AckPrompt
    \/ DriftCheck \/ Watch \/ CutDaemon
    \/ UpdateNudge \/ NotifierNudge \/ Migrate \/ AgentAcks \/ AgentForgets

\* None of them touches the install, its lock or a run.
LEMMA OtherLeaves ==
    ASSUME OtherStep
    PROVE  UNCHANGED <<latest, files, run, setting>>
BY DEF OtherStep, DaemonStarts, RemoveJob, CreateJob, AckPrompt, DriftCheck, Watch,
       CutDaemon, UpdateNudge, NotifierNudge, Migrate, AgentAcks, AgentForgets,
       files, config, cron, history, setting

\* They keep the types.
LEMMA OtherType ==
    ASSUME TypeInv, OtherStep
    PROVE  TypeInv'
<1>a. Others /\ Shaped /\ \A r \in Runs : Aims(r)
    BY Whole
<1>b. UNCHANGED <<latest, files, run, setting>>
    BY OtherLeaves
<1>c. Shaped' /\ \A r \in Runs : Aims(r)'
    BY <1>a, <1>b DEF Shaped, Aims
<1>d. SUFFICES Others'
    BY <1>c DEF TypeInv, TypeOK, Others, Shaped
<1>0. latest \in Nat /\ latest >= 1
    BY <1>a DEF Others, Releases
<1>f. Fault \/ NoFault => faults' \in 0..MaxFaults
    BY <1>a, FaultType
<1> USE DEF Others, Releases, files, config, cron, history, setting
<1>1. CASE DaemonStarts
  <2>1. daemon' \in [at : {"down", "remove", "create", "ack", "up"}, runs : 0..latest]
      BY <1>a, <1>0, <1>1 DEF DaemonStarts, EnsureNotifierCron
  <2>2. faults' \in 0..MaxFaults /\ missed' \in BOOLEAN
      BY <1>a, <1>f, <1>1 DEF DaemonStarts
  <2> QED
      BY <1>a, <1>1, <2>1, <2>2 DEF DaemonStarts
<1>2. CASE RemoveJob \/ CreateJob
  <2>1. faults' \in 0..MaxFaults
      BY <1>2, <1>f DEF RemoveJob, CreateJob
  <2>2. daemon' \in [at : {"down", "remove", "create", "ack", "up"}, runs : 0..latest]
    <3>1. /\ \E at \in {"create", "ack", "up"} : daemon' = [daemon EXCEPT !.at = at]
          /\ daemon \in [at : {"down", "remove", "create", "ack", "up"}, runs : 0..latest]
        BY <1>a, <1>2 DEF RemoveJob, CreateJob
    <3> QED
        BY <3>1
  <2>3. job' \in {"none", "old", "current"} /\ missed' \in BOOLEAN
      BY <1>a, <1>2 DEF RemoveJob, CreateJob
  <2>4. UNCHANGED <<latest, files, config, agent, told, cuts, setting>>
      BY <1>2 DEF RemoveJob, CreateJob
  <2> QED
      BY <1>a, <2>1, <2>2, <2>3, <2>4
<1>4. CASE AckPrompt
    BY <1>a, <1>4 DEF AckPrompt
<1>5. CASE DriftCheck
    BY <1>a, <1>5 DEF DriftCheck
<1>6. CASE Watch
    BY <1>a, <1>6, <1>f DEF Watch, Checked
<1>7. CASE CutDaemon
  <2>1. cuts' \in 0..MaxCuts
      BY <1>a, <1>7, BoundAssumption DEF CutDaemon
  <2> QED
      BY <1>a, <1>7, <2>1 DEF CutDaemon
<1>8. CASE UpdateNudge
    BY <1>a, <1>8 DEF UpdateNudge
<1>9. CASE NotifierNudge
    BY <1>a, <1>9 DEF NotifierNudge
<1>10. CASE Migrate
    BY <1>a, <1>10 DEF Migrate
<1>11. CASE AgentAcks
    BY <1>a, <1>11 DEF AgentAcks
<1>12. CASE AgentForgets
    BY <1>a, <1>12, <1>f DEF AgentForgets
<1> QED
    BY <1>1, <1>2, <1>4, <1>5, <1>6, <1>7, <1>8, <1>9, <1>10, <1>11, <1>12 DEF OtherStep

\* A release more, and a lock that ages.
LEMMA TimeType ==
    ASSUME TypeInv, Publish \/ Age
    PROVE  TypeInv'
<1> USE DEF TypeInv, TypeOK, Releases, files, config, cron, history, setting
<1>0. latest \in Nat /\ latest >= 1
    OBVIOUS
<1>1. CASE Publish
  <2>1. latest' \in 1..Len(major) /\ latest' = latest + 1
      BY <1>0, <1>1, MajorAssumption DEF Publish
  <2>2. 1..latest \subseteq 1..latest' /\ 0..latest \subseteq 0..latest'
      BY <1>0, <2>1
  <2>3. UNCHANGED <<files, run, config, cron, daemon, history, setting>>
      BY <1>1 DEF Publish
  <2>4. \A r \in Runs : Aims(r)'
      BY <2>2, <2>3 DEF Aims
  <2>5. run' \in [Runs -> [at : {"idle", "ask", "lock", "takeover", "relock"} \cup Holding,
                           from : 0..latest', to : 0..latest']]
    <3>1. \A r \in Runs : run[r] \in [at : {"idle", "ask", "lock", "takeover", "relock"} \cup Holding,
                                      from : 0..latest', to : 0..latest']
        BY <2>2
    <3> QED
        BY <2>3, <3>1
  <2>6. daemon' \in [at : {"down", "remove", "create", "ack", "up"}, runs : 0..latest']
      BY <2>2, <2>3
  <2> QED
      BY <2>1, <2>2, <2>3, <2>4, <2>5, <2>6
<1>2. CASE Age
    BY <1>2 DEF Age, Aims
<1> QED
    BY <1>1, <1>2

\* Every step keeps the types.
LEMMA NextType == TypeInv /\ [Next]_vars => TypeInv'
<1> SUFFICES ASSUME TypeInv, [Next]_vars PROVE TypeInv'
    OBVIOUS
<1>1. CASE Publish \/ Age
    BY <1>1, TimeType
<1>2. ASSUME NEW r \in Runs, Start(r) \/ SelfUpdate(r) \/ CutRun(r) PROVE TypeInv'
    BY <1>2, RunType DEF RunStep
<1>3. CASE OtherStep
    BY <1>3, OtherType
<1>4. CASE UNCHANGED vars
    BY <1>4, FrameType
<1> QED
    BY <1>1, <1>2, <1>3, <1>4 DEF Next, OtherStep

---------------------------------------------------------------------------
(* The lock                                                                 *)

\* Where no run, no lock and no file changes, the runs stay apart.
LEMMA FrameApart ==
    ASSUME Apart, UNCHANGED <<files, run>>
    PROVE  Apart'
BY DEF Apart, files

\* A run that is not where the lock matters, before or after, changes nothing.
LEMMA OutsideApart ==
    ASSUME Apart, TypeOK, NEW r \in Runs, UNCHANGED files,
           run[r].at \notin Holding,
           run' = [run EXCEPT ![r] = run'[r]],
           run'[r].at \in {"idle", "ask", "lock"}
    PROVE  Apart'
<1>1. \A s \in Runs : s # r => run'[s] = run[s]
    BY DEF TypeOK
<1>2. \A s \in Runs : run'[s].at \in Holding <=> run[s].at \in Holding
    BY <1>1 DEF Holding
<1>3. \A s \in Runs : run'[s].at = "record" => s # r
    OBVIOUS
<1>4. \A s \in Runs : run'[s].at \notin {"takeover", "relock"}
    BY <1>1 DEF Apart
<1> QED
    BY <1>1, <1>2, <1>3, <1>4 DEF Apart, files

\* The run that holds the lock stays alone as long as it holds it.
LEMMA InsideApart ==
    ASSUME Apart, TypeOK, NEW r \in Runs, UNCHANGED lock,
           run[r].at \in Holding,
           run' = [run EXCEPT ![r] = run'[r]],
           run'[r].at \in Holding,
           run'[r].at = "record" => sound' /\ tree' = run'[r].to
    PROVE  Apart'
<1>1. \A s \in Runs : s # r => run'[s] = run[s] /\ run[s].at \notin Holding
    BY DEF TypeOK, Apart
<1> QED
    BY <1>1 DEF Apart, Holding

\* Every step of a run keeps it apart from the others.
LEMMA RunApart ==
    ASSUME TypeInv, Apart, NEW r \in Runs, RunStep(r)
    PROVE  Apart'
<1> USE DEF TypeInv
<1>0. /\ run[r].at \notin {"takeover", "relock"} /\ lock # "old"
      /\ run \in [Runs -> [at : {"idle", "ask", "lock", "takeover", "relock"} \cup Holding,
                           from : 0..latest, to : 0..latest]]
    BY DEF Apart, TypeOK
<1>1. CASE Start(r)
  <2>1. run' = [run EXCEPT ![r] = run'[r]] /\ run'[r].at = "ask" /\ run[r].at = "idle"
      BY <1>0, <1>1 DEF Start
  <2> QED
      BY <1>1, <2>1, OutsideApart DEF Start, Holding
<1>2. CASE CheckLatest(r)
  <2>1. run' = [run EXCEPT ![r] = run'[r]] /\ run'[r].at \in {"idle", "lock"} /\ run[r].at = "ask"
      BY <1>0, <1>2 DEF CheckLatest, Ends, Idle
  <2> QED
      BY <1>2, <2>1, OutsideApart DEF CheckLatest, Holding
<1>3. CASE AcquireLock(r)
  <2>1. CASE lock = "free"
    <3>1. lock' = "held" /\ run' = [run EXCEPT ![r].at = "install"] /\ UNCHANGED <<tree, sound>>
        BY <1>3, <2>1 DEF AcquireLock, Goes
    <3>2. \A s \in Runs : run[s].at \notin Holding
        BY <2>1 DEF Apart
    <3>3. /\ run'[r].at = "install"
          /\ \A s \in Runs : s # r => run'[s] = run[s]
        BY <1>0, <3>1
    <3> QED
        BY <3>1, <3>2, <3>3 DEF Apart, Holding
  <2>2. CASE lock = "held"
    <3>1. run' = [run EXCEPT ![r] = run'[r]] /\ run'[r].at = "idle" /\ run[r].at = "lock"
        BY <1>0, <1>3, <2>2 DEF AcquireLock, Ends, Idle
    <3> QED
        BY <1>3, <2>2, <3>1, OutsideApart DEF AcquireLock, Holding, files
  <2> QED
      BY <1>0, <2>1, <2>2 DEF TypeOK
<1>4. CASE TakeOver(r) \/ AcquireAgain(r)
    BY <1>0, <1>4 DEF TakeOver, AcquireAgain
<1>5. CASE Install(r)
  <2>1. /\ run[r].at = "install" /\ run' = [run EXCEPT ![r] = run'[r]]
        /\ run'[r].at \in {"verify", "release"} /\ UNCHANGED lock
      BY <1>0, <1>5 DEF Install, Goes
  <2> QED
      BY <2>1, InsideApart DEF Holding
<1>6. CASE Verify(r)
  <2>1. /\ run[r].at = "verify" /\ run' = [run EXCEPT ![r] = run'[r]] /\ UNCHANGED files
        /\ run'[r].at \in {"record", "release"} /\ run'[r].to = run[r].to
        /\ run'[r].at = "record" => Answers(r)
      BY <1>0, <1>6 DEF Verify, Goes
  <2> QED
      BY <2>1, InsideApart DEF Holding, Answers, files
<1>7. CASE Record(r)
  <2>1. /\ run[r].at = "record" /\ run' = [run EXCEPT ![r] = run'[r]]
        /\ run'[r].at = "release" /\ UNCHANGED files
      BY <1>0, <1>7 DEF Record, Goes
  <2> QED
      BY <2>1, InsideApart DEF Holding, files
<1>8. CASE Release(r)
  <2>1. /\ run[r].at = "release" /\ lock' = "free" /\ UNCHANGED <<tree, sound>>
        /\ run'[r].at = "idle" /\ \A s \in Runs : s # r => run'[s] = run[s]
      BY <1>0, <1>8 DEF Release, Ends, Idle
  <2>2. \A s \in Runs : s # r => run[s].at \notin Holding
      BY <2>1 DEF Apart, Holding
  <2> QED
      BY <2>1, <2>2 DEF Apart, Holding
<1> QED
    BY <1>1, <1>2, <1>3, <1>4, <1>5, <1>6, <1>7, <1>8 DEF RunStep, SelfUpdate

\* The deaths are counted.
LEMMA CutsGrow ==
    ASSUME TypeInv, [Next]_vars, cuts' = 0
    PROVE  cuts = 0 /\ ~CutDaemon /\ \A r \in Runs : ~CutRun(r)
<1> cuts \in Nat
    BY BoundAssumption DEF TypeInv, TypeOK
<1>1. /\ ~CutDaemon
      /\ \A r \in Runs : ~CutRun(r)
    BY DEF CutDaemon, CutRun
<1>2. CASE UNCHANGED vars
    BY <1>1, <1>2 DEF vars, history
<1>3. CASE Publish \/ Age
    BY <1>1, <1>3 DEF Publish, Age, history
<1>4. ASSUME NEW r \in Runs, Start(r) \/ SelfUpdate(r) PROVE cuts' = cuts
    BY <1>4 DEF Start, SelfUpdate, CheckLatest, AcquireLock, TakeOver, AcquireAgain, Install,
                Verify, Record, Release, history
<1>5. CASE OtherStep
    BY <1>1, <1>5 DEF OtherStep, DaemonStarts, RemoveJob, CreateJob, AckPrompt, DriftCheck, Watch,
       UpdateNudge, NotifierNudge, Migrate, AgentAcks, AgentForgets, history
<1> QED
    BY <1>1, <1>2, <1>3, <1>4, <1>5 DEF Next, OtherStep

---------------------------------------------------------------------------
(* The inductive invariant                                                  *)

\* Nobody holds the lock at first.
LEMMA InitInv == Init => IInv
<1> SUFFICES ASSUME Init PROVE IInv
    OBVIOUS
<1>1. Apart
    BY DEF Init, Apart, Idle, Holding
<1> QED
    BY <1>1, InitType DEF IInv

\* Every step keeps the invariant.
LEMMA NextInv == IInv /\ [Next]_vars => IInv'
<1> SUFFICES ASSUME IInv, [Next]_vars PROVE IInv'
    OBVIOUS
<1>1. TypeInv'
    BY NextType DEF IInv
<1>2. ASSUME cuts' = 0 PROVE Apart'
  <2>1. cuts = 0 /\ ~CutDaemon /\ \A r \in Runs : ~CutRun(r)
      BY <1>2, CutsGrow DEF IInv
  <2>2. TypeInv /\ Apart
      BY <2>1 DEF IInv
  <2>3. CASE Publish \/ UNCHANGED vars
      BY <2>2, <2>3, FrameApart DEF Publish, vars
  <2>4. CASE Age
      BY <2>2, <2>4 DEF Age, Apart
  <2>5. ASSUME NEW r \in Runs, Start(r) \/ SelfUpdate(r) PROVE Apart'
      BY <2>2, <2>5, RunApart DEF RunStep
  <2>6. CASE OtherStep
      BY <2>2, <2>6, OtherLeaves, FrameApart
  <2> QED
      BY <2>1, <2>3, <2>4, <2>5, <2>6 DEF Next, OtherStep
<1> QED
    BY <1>1, <1>2 DEF IInv

\* The invariant holds always.
THEOREM Invariance == Spec => []IInv
<1>1. IInv /\ [Next]_vars => IInv'
    BY NextInv
<1> QED
    BY <1>1, InitInv, PTL DEF Spec

\* The install, its configuration and the runs keep their shape; nothing is
\* installed or told of that the registry has not named (selfUpdate).
THEOREM TypeCorrect == Spec => []TypeOK
<1>1. IInv => TypeOK
    BY DEF IInv, TypeInv
<1> QED
    BY <1>1, Invariance, PTL

\* Two runs install at once only after the death of a process (acquireLock).
THEOREM OneInstalls == Spec => []InstallsAlone
<1>1. IInv => InstallsAlone
    BY DEF IInv, Apart, InstallsAlone
<1> QED
    BY <1>1, Invariance, PTL

\* What a run records as installed is in the install root (performUpdate).
THEOREM RecordedIsThere == Spec => []RecordsWhatRuns
<1>1. IInv => RecordsWhatRuns
    BY DEF IInv, Apart, RecordsWhatRuns
<1> QED
    BY <1>1, Invariance, PTL

-----------------------------------------------------------------------------
(* The greeter's passes and the newcomers' joins (Outreach).                *)


\* The counters are numbers.
CountersTyped ==
    /\ welcomes \in [Newcomers -> Nat]
    /\ DOMAIN asked = Newcomers /\ DOMAIN parted = Newcomers /\ DOMAIN late = Newcomers
    /\ \A n \in Newcomers : /\ asked[n] \in [Members(n) -> Nat]
                            /\ parted[n] \in [Members(n) -> Nat]
                            /\ late[n] \in [Members(n) -> Nat]

\* A pass goes through its lists once: whom it looks at is on none of them
\* any more, and it has something to deliver at their end.
PassKeepsCount ==
    /\ DOMAIN pass = {"at", "who", "pending", "friends", "out"}
    /\ pass.pending \cap pass.friends = {} /\ pass.friends \cap ledger = {}
    /\ pass.at \in {"welcome", "record"} => pass.who \notin pass.friends
    /\ pass.at = "record" => pass.who \notin ledger
    /\ pass.at = "welcome" /\ pass.out = <<>> => pass.who \notin ledger
    /\ pass.at = "next" /\ pass.out = <<>> => pass.pending \cup pass.friends # {}

\* A welcome that waits for its delivery is the only one there is.
Waiting(n) == {i \in DOMAIN pass.out : pass.out[i] = <<"welcome", n>>}
OneWelcome ==
    \A n \in Newcomers :
        /\ welcomes[n] <= 1
        /\ welcomes[n] = 1 => n \in ledger /\ Waiting(n) = {}
        /\ Waiting(n) # {} => n \in ledger
        /\ \A i, j \in Waiting(n) : i = j

\* The decisions against each other and the requests that were late leave room
\* for one request to each member that a join may ask now, and one for a
\* rejection on its way.
MayBeAsked(n, m) == peer[n][m] \in {"none", "rejected", "revoked"}
Room(n, m) ==
    (IF MayBeAsked(n, m) THEN 1 ELSE 0)
    + (IF m = Greeter /\ <<"reject", n>> \in answers THEN 1 ELSE 0)
RoomToAsk ==
    \A n \in Newcomers : \A m \in Members(n) :
        asked[n][m] + Room(n, m) <= 1 + parted[n][m] + late[n][m]

\* What a join that sends has seen of its member is that it may be asked.
JoinTyped(n, j) ==
    /\ DOMAIN join[n][j] = {"at", "todo", "deliver", "seen"}
    /\ join[n][j].at \in {"idle", "look", "send", "deliver"}
    /\ join[n][j].todo \in Seq(Members(n)) /\ join[n][j].deliver \in BOOLEAN
    /\ join[n][j].seen \in {"none", "rejected", "revoked"}
    /\ join[n][j].at = "idle" <=> join[n][j].todo = <<>>

JoinsTyped ==
    /\ candidate \in [Newcomers -> {"none", "open", "approved"}]
    /\ DOMAIN join = Newcomers
    /\ \A n \in Newcomers : DOMAIN join[n] = Shells
    /\ \A n \in Newcomers : \A j \in Shells : JoinTyped(n, j)

OutInv ==
    /\ OutreachTypeOK
    /\ CountersTyped
    /\ JoinsTyped
    /\ PassKeepsCount
    /\ OneWelcome
    /\ RoomToAsk

PeersTyped ==
    /\ DOMAIN peer = Newcomers
    /\ \A n \in Newcomers : peer[n] \in [Members(n) -> States]
GreeterTyped ==
    /\ contact \in [Newcomers -> States] /\ ledger \subseteq Newcomers
    /\ pass.at \in {"idle", "next", "welcome", "record"}
    /\ pass.who \in Newcomers \cup {Greeter}
    /\ pass.pending \subseteq Newcomers /\ pass.friends \subseteq Newcomers
    /\ pass.out \in Seq({"accept", "welcome"} \X Newcomers)
MailTyped == requests \subseteq Newcomers /\ answers \subseteq Kinds \X Newcomers

-----------------------------------------------------------------------------
\* The type invariant, in the parts that a step can change.
LEMMA OutParts ==
    OutInv <=> /\ PeersTyped /\ JoinsTyped /\ GreeterTyped /\ MailTyped
               /\ CountersTyped /\ PassKeepsCount /\ OneWelcome /\ RoomToAsk
<1> {"none", "rejected", "revoked"} \subseteq States
    BY DEF States
<1>1. JoinsTyped =>
        /\ candidate \in [Newcomers -> {"none", "open", "approved"}]
        /\ DOMAIN join = Newcomers
        /\ \A n \in Newcomers : DOMAIN join[n] = Shells
        /\ \A n \in Newcomers : \A j \in Shells :
             /\ join[n][j].at \in {"idle", "look", "send", "deliver"}
             /\ join[n][j].todo \in Seq(Members(n))
             /\ join[n][j].deliver \in BOOLEAN /\ join[n][j].seen \in States
             /\ join[n][j].at = "idle" <=> join[n][j].todo = <<>>
    BY DEF JoinsTyped, JoinTyped
<1>2. OutreachTypeOK => PeersTyped /\ GreeterTyped /\ MailTyped
    BY DEF OutreachTypeOK, PeersTyped, GreeterTyped, MailTyped
<1>3. PeersTyped /\ JoinsTyped /\ GreeterTyped /\ MailTyped => OutreachTypeOK
    BY <1>1 DEF OutreachTypeOK, PeersTyped, GreeterTyped, MailTyped
<1> QED
    BY <1>2, <1>3 DEF OutInv

LEMMA PartsNext ==
    /\ PeersTyped' /\ JoinsTyped' /\ GreeterTyped' /\ MailTyped'
    /\ CountersTyped' /\ PassKeepsCount' /\ OneWelcome' /\ RoomToAsk'
    => OutInv'
    BY OutParts, PTL

LEMMA FramePass ==
    ASSUME OutInv, UNCHANGED <<contact, ledger, pass, welcomes>>
    PROVE  GreeterTyped' /\ PassKeepsCount' /\ OneWelcome'
<1>1. GreeterTyped /\ PassKeepsCount /\ OneWelcome
    BY OutParts
<1> QED
  <2>1. GreeterTyped' /\ PassKeepsCount'
    BY <1>1 DEF GreeterTyped, PassKeepsCount
  <2>2. OneWelcome'
    BY <1>1 DEF OneWelcome, Waiting
  <2> QED
    BY <2>1, <2>2

LEMMA FrameJoins ==
    ASSUME OutInv, UNCHANGED <<peer, candidate, join>>
    PROVE  PeersTyped' /\ JoinsTyped'
<1>1. PeersTyped /\ JoinsTyped
    BY OutParts
<1> QED
    BY <1>1 DEF PeersTyped, JoinsTyped, JoinTyped

LEMMA FrameMail ==
    ASSUME OutInv, UNCHANGED <<requests, answers>>
    PROVE  MailTyped'
    BY OutParts DEF MailTyped

LEMMA FrameCounters ==
    ASSUME OutInv, UNCHANGED <<asked, late, parted, welcomes>>
    PROVE  CountersTyped'
    BY OutParts DEF CountersTyped

LEMMA FrameRoom ==
    ASSUME OutInv, UNCHANGED <<peer, answers, asked, late, parted>>
    PROVE  RoomToAsk'
    BY OutParts DEF RoomToAsk, Room, MayBeAsked

\* What leaves no more room to be taken, leaves enough.
LEMMA RoomKept ==
    ASSUME OutInv, UNCHANGED <<asked, late, parted>>,
           \A n \in Newcomers : \A m \in Members(n) : MayBeAsked(n, m)' => MayBeAsked(n, m),
           \A n \in Newcomers : <<"reject", n>> \in answers' => <<"reject", n>> \in answers
    PROVE  RoomToAsk'
<1> SUFFICES ASSUME NEW n \in Newcomers, NEW m \in Members(n)
             PROVE  asked[n][m] + Room(n, m)' <= 1 + parted[n][m] + late[n][m]
    BY DEF RoomToAsk
<1>1. asked[n][m] + Room(n, m) <= 1 + parted[n][m] + late[n][m]
      /\ asked[n][m] \in Nat /\ parted[n][m] \in Nat /\ late[n][m] \in Nat
    BY OutParts DEF RoomToAsk, CountersTyped
<1>2. Room(n, m) \in Nat /\ Room(n, m)' \in Nat /\ Room(n, m)' <= Room(n, m)
    BY DEF Room
<1> QED
    BY <1>1, <1>2

\* A list that is not empty: its head, and what is left without it.
LEMMA ListTail ==
    ASSUME NEW S, NEW q \in Seq(S), q # <<>>
    PROVE  /\ Len(q) \in Nat /\ Len(q) > 0 /\ Head(q) \in S /\ Head(q) = q[1]
           /\ Tail(q) \in Seq(S) /\ Len(Tail(q)) = Len(q) - 1
           /\ Len(q) # 1 => Tail(q) # <<>>
           /\ 1 \in DOMAIN q
           /\ \A i \in DOMAIN Tail(q) : i + 1 \in DOMAIN q /\ Tail(q)[i] = q[i + 1]
<1> DEFINE rest == Tail(q)
<1>1. /\ Len(q) \in Nat /\ Len(q) > 0 /\ Head(q) \in S /\ Head(q) = q[1]
      /\ rest \in Seq(S) /\ Len(rest) = Len(q) - 1 /\ 1 \in DOMAIN q
    OBVIOUS
<1>2. \A i \in DOMAIN rest : i + 1 \in DOMAIN q /\ rest[i] = q[i + 1]
    BY <1>1
<1> HIDE DEF rest
<1>3. rest = <<>> => Len(rest) = 0
    OBVIOUS
<1>4. Len(q) # 1 => rest # <<>>
    BY <1>1, <1>3
<1> QED
    BY <1>1, <1>2, <1>4 DEF rest

\* A step of one join leaves the others alone.
LEMMA OneJoinSteps ==
    ASSUME OutInv, NEW n \in Newcomers, NEW j \in Shells, candidate' = candidate,
           NEW e, join' = [join EXCEPT ![n][j] = e],
           JoinTyped(n, j)'
    PROVE  JoinsTyped'
<1>1. JoinsTyped
    BY OutParts
<1>2. ASSUME NEW k \in Newcomers, NEW i \in Shells
      PROVE  JoinTyped(k, i)'
  <2>1. CASE k = n /\ i = j
    BY <2>1
  <2>2. CASE k # n \/ i # j
    <3>1. join'[k][i] = join[k][i]
      BY <1>1, <2>2 DEF JoinsTyped
    <3>2. JoinTyped(k, i)
      BY <1>1 DEF JoinsTyped
    <3> QED
      BY <3>1, <3>2 DEF JoinTyped
  <2> QED
    BY <2>1, <2>2
<1>3. DOMAIN join' = Newcomers /\ \A k \in Newcomers : DOMAIN join'[k] = Shells
    BY <1>1 DEF JoinsTyped
<1> QED
    BY <1>1, <1>2, <1>3 DEF JoinsTyped

LEMMA ToNextEffect ==
    ASSUME OutInv, NEW n \in Newcomers, NEW j \in Shells, join[n][j].at # "idle",
           ToNextMember(n, j), candidate' = candidate
    PROVE  JoinsTyped'
<1> DEFINE old == join[n][j]
           new == IF Len(old.todo) = 1 THEN NoJoin
                  ELSE [old EXCEPT !.at = "look", !.todo = Tail(old.todo), !.seen = "none"]
<1>1. JoinsTyped /\ JoinTyped(n, j) /\ old.todo # <<>>
    BY OutParts DEF JoinsTyped, JoinTyped
<1>2. join' = [join EXCEPT ![n][j] = new]
    BY DEF ToNextMember
<1>3. join'[n][j] = new
    BY <1>1, <1>2 DEF JoinsTyped
<1>4. JoinTyped(n, j)'
  <2>1. CASE Len(old.todo) = 1
    <3>1. join'[n][j] = NoJoin
      BY <1>3, <2>1
    <3> QED
      BY <3>1 DEF JoinTyped, NoJoin
  <2>2. CASE Len(old.todo) # 1
    <3>1. Tail(old.todo) \in Seq(Members(n)) /\ Tail(old.todo) # <<>>
      BY <1>1, <2>2, ListTail DEF JoinTyped
    <3>2. /\ DOMAIN join'[n][j] = {"at", "todo", "deliver", "seen"}
          /\ join'[n][j].at = "look" /\ join'[n][j].todo = Tail(old.todo)
          /\ join'[n][j].deliver = old.deliver /\ join'[n][j].seen = "none"
      BY <1>1, <1>3, <2>2 DEF JoinTyped
    <3> QED
      BY <1>1, <3>1, <3>2 DEF JoinTyped
  <2> QED
    BY <2>1, <2>2
<1> HIDE DEF new
<1> QED
    BY <1>2, <1>4, OneJoinSteps

LEMMA AtEffect ==
    ASSUME OutInv, NEW n \in Newcomers, NEW j \in Shells, join[n][j].at # "idle",
           NEW at \in {"look", "send", "deliver"}, NEW seen \in {"none", "rejected", "revoked"},
           At(n, j, at, seen), candidate' = candidate
    PROVE  JoinsTyped'
<1> DEFINE new == [join[n][j] EXCEPT !.at = at, !.seen = seen]
<1>1. JoinsTyped /\ JoinTyped(n, j)
    BY OutParts DEF JoinsTyped
<1>2. join' = [join EXCEPT ![n][j] = new]
    BY <1>1 DEF At, JoinsTyped
<1>3. join'[n][j] = new
    BY <1>1, <1>2 DEF JoinsTyped
<1>4. /\ DOMAIN new = {"at", "todo", "deliver", "seen"}
      /\ new.at = at /\ new.todo = join[n][j].todo
      /\ new.deliver = join[n][j].deliver /\ new.seen = seen
    BY <1>1 DEF JoinTyped
<1> HIDE DEF new
<1>5. JoinTyped(n, j)'
    BY <1>1, <1>3, <1>4 DEF JoinTyped
<1> QED
    BY <1>2, <1>5, OneJoinSteps

LEMMA PackJoinStep ==
    ASSUME OutInv, NEW n \in Newcomers, NEW j \in Shells, NEW d \in BOOLEAN, PackJoin(n, j, d)
    PROVE  OutInv'
<1> DEFINE new == [NoJoin EXCEPT !.at = "look", !.todo = Packs[n], !.deliver = d]
<1>1. /\ UNCHANGED <<peer, candidate, contact, ledger, pass, requests, answers, asked, late,
                     parted, welcomes>>
      /\ join' = [join EXCEPT ![n][j] = new]
    BY DEF PackJoin, greeting, mail, parting
<1>2. PeersTyped /\ JoinsTyped /\ MailTyped
    BY OutParts
<1>3. Packs[n] \in Seq(Members(n)) /\ Packs[n] # <<>>
  <2>1. Packs[n] \in Seq(Members(n)) /\ Greeter \in Members(n)
    BY PackAssumption
  <2>2. PICK i \in DOMAIN Packs[n] : Packs[n][i] = Greeter
    BY <2>1 DEF Members, Range
  <2> QED
    BY <2>1, <2>2
<1>4. /\ DOMAIN new = {"at", "todo", "deliver", "seen"}
      /\ new.at = "look" /\ new.todo = Packs[n] /\ new.deliver = d /\ new.seen = "none"
    BY DEF NoJoin
<1>5. join'[n][j] = new
    BY <1>1, <1>2 DEF JoinsTyped
<1> HIDE DEF new
<1>6. JoinTyped(n, j)'
    BY <1>3, <1>4, <1>5 DEF JoinTyped
<1>7. JoinsTyped'
    BY <1>1, <1>6, OneJoinSteps
<1>8. PeersTyped' /\ MailTyped'
    BY <1>1, <1>2 DEF PeersTyped, MailTyped
<1> QED
    BY <1>1, <1>7, <1>8, FrameRoom, FramePass, FrameCounters, PartsNext

LEMMA LookAtStep ==
    ASSUME OutInv, NEW n \in Newcomers, NEW j \in Shells, LookAt(n, j)
    PROVE  OutInv'
<1> DEFINE m == Head(join[n][j].todo)
<1>1. /\ UNCHANGED <<peer, candidate, contact, ledger, pass, requests, answers, asked, late,
                     parted, welcomes>>
      /\ join[n][j].at = "look"
    BY DEF LookAt, greeting, mail, asking, parting
<1>2. /\ PeersTyped' /\ MailTyped'
      /\ JoinTyped(n, j) /\ peer[n] \in [Members(n) -> States]
    BY <1>1, OutParts DEF PeersTyped, MailTyped, JoinsTyped
<1>3. JoinsTyped'
  <2>1. CASE ToNextMember(n, j)
    BY <1>1, <2>1, ToNextEffect
  <2>2. CASE At(n, j, "send", peer[n][m]) /\ ~Skips(n, m)
    <3>1. m \in Members(n)
      BY <1>1, <1>2, ListTail DEF JoinTyped
    <3>2. peer[n][m] \in {"none", "rejected", "revoked"}
      BY <1>2, <2>2, <3>1 DEF Skips, States
    <3> QED
      BY <1>1, <2>2, <3>2, AtEffect
  <2> QED
    BY <2>1, <2>2 DEF LookAt
<1> QED
    BY <1>1, <1>2, <1>3, FrameRoom, FramePass, FrameCounters, PartsNext

LEMMA SendRequestStep ==
    ASSUME OutInv, NEW n \in Newcomers, NEW j \in Shells, SendRequest(n, j)
    PROVE  OutInv'
<1> DEFINE q == Head(join[n][j].todo)
<1>1. /\ UNCHANGED <<candidate, contact, ledger, pass, requests, answers, parted, welcomes>>
      /\ join[n][j].at = "send"
    BY DEF SendRequest, greeting, mail, parting
<1>2. /\ PeersTyped /\ MailTyped' /\ CountersTyped /\ JoinTyped(n, j) /\ q \in Members(n)
    BY <1>1, OutParts, ListTail DEF MailTyped, JoinsTyped, JoinTyped
<1>3. JoinsTyped'
    BY <1>1, ToNextEffect, AtEffect DEF SendRequest
<1>4. CASE UNCHANGED <<peer, asked, late>>
  <2>1. PeersTyped'
    BY <1>2, <1>4 DEF PeersTyped
  <2> QED
    BY <1>1, <1>2, <1>3, <1>4, <2>1, FrameRoom, FramePass, FrameCounters, PartsNext
<1>5. CASE /\ peer[n][q] # "blocked"
           /\ peer' = [peer EXCEPT ![n][q] = "request_sent"]
           /\ asked' = [asked EXCEPT ![n][q] = @ + 1]
           /\ late' = [late EXCEPT ![n][q] = IF IsLate(n, j, q) THEN @ + 1 ELSE @]
  <2>0. IsLate(n, j, q) \/ MayBeAsked(n, q)
    BY <1>2, <1>5 DEF IsLate, MayBeAsked, JoinTyped, PeersTyped, Skips, States
  <2> HIDE DEF q
  <2>1. PeersTyped'
    BY <1>2, <1>5 DEF PeersTyped, States
  <2>2. CountersTyped'
    BY <1>1, <1>2, <1>5 DEF CountersTyped
  <2>3. ASSUME NEW k \in Newcomers, NEW m \in Members(k)
        PROVE  asked'[k][m] + Room(k, m)' <= 1 + parted'[k][m] + late'[k][m]
    <3>1. /\ asked[k][m] + Room(k, m) <= 1 + parted[k][m] + late[k][m]
          /\ asked[k][m] \in Nat /\ parted[k][m] \in Nat /\ late[k][m] \in Nat
          /\ Room(k, m) \in Nat /\ Room(k, m)' \in Nat
      BY OutParts DEF RoomToAsk, CountersTyped, Room
    <3>2. CASE k = n /\ m = q
      <4>1. /\ asked'[k][m] = asked[k][m] + 1
            /\ late'[k][m] = IF IsLate(n, j, q) THEN late[k][m] + 1 ELSE late[k][m]
        BY <1>2, <1>5, <3>2 DEF CountersTyped
      <4>2. ~MayBeAsked(k, m)'
        BY <1>2, <1>5, <3>2 DEF MayBeAsked, PeersTyped
      <4>3. Room(k, m)' <= Room(k, m)
        BY <1>1, <4>2 DEF Room
      <4>4. CASE IsLate(n, j, q)
        BY <1>1, <3>1, <4>1, <4>3, <4>4
      <4>5. CASE ~IsLate(n, j, q)
        <5>1. MayBeAsked(k, m)
          BY <2>0, <3>2, <4>5
        <5>2. Room(k, m) = 1 + Room(k, m)'
          BY <1>1, <4>2, <5>1 DEF Room
        <5> QED
          BY <1>1, <3>1, <4>1, <4>5, <5>2
      <4> QED
        BY <4>4, <4>5
    <3>3. CASE ~(k = n /\ m = q)
      <4>1. asked'[k][m] = asked[k][m] /\ late'[k][m] = late[k][m] /\ peer'[k][m] = peer[k][m]
        BY <1>2, <1>5, <3>3 DEF CountersTyped, PeersTyped
      <4>2. Room(k, m)' <= Room(k, m)
        BY <1>1, <4>1 DEF Room, MayBeAsked
      <4> QED
        BY <1>1, <3>1, <4>1, <4>2
    <3> QED
      BY <3>2, <3>3
  <2> QED
    BY <1>1, <1>2, <1>3, <2>1, <2>2, <2>3, FramePass, PartsNext DEF RoomToAsk
<1> QED
    BY <1>4, <1>5 DEF SendRequest

LEMMA DeliverRequestStep ==
    ASSUME OutInv, NEW n \in Newcomers, NEW j \in Shells, DeliverPackRequest(n, j)
    PROVE  OutInv'
<1>1. /\ UNCHANGED <<peer, candidate, contact, ledger, pass, answers, asked, late, parted,
                     welcomes>>
      /\ requests' \in {requests, requests \cup {n}}
      /\ join[n][j].at = "deliver" /\ ToNextMember(n, j)
    BY DEF DeliverPackRequest, greeting, asking, parting
<1>2. JoinsTyped'
    BY <1>1, ToNextEffect
<1>3. PeersTyped' /\ MailTyped'
    BY <1>1, OutParts DEF PeersTyped, MailTyped
<1> QED
    BY <1>1, <1>2, <1>3, FrameRoom, FramePass, FrameCounters, PartsNext

LEMMA CutJoinStep ==
    ASSUME OutInv, NEW n \in Newcomers, NEW j \in Shells, CutJoin(n, j)
    PROVE  OutInv'
<1>1. /\ UNCHANGED <<peer, candidate, contact, ledger, pass, requests, answers, asked, late,
                     parted, welcomes>>
      /\ join' = [join EXCEPT ![n][j] = NoJoin]
    BY DEF CutJoin, greeting, mail, asking, parting
<1>2. PeersTyped /\ JoinsTyped /\ MailTyped
    BY OutParts
<1>3. PeersTyped' /\ MailTyped'
    BY <1>1, <1>2 DEF PeersTyped, MailTyped
<1>4. join'[n][j] = NoJoin
    BY <1>1, <1>2 DEF JoinsTyped
<1>5. JoinTyped(n, j)'
    BY <1>4 DEF JoinTyped, NoJoin
<1>6. JoinsTyped'
    BY <1>1, <1>5, OneJoinSteps
<1> QED
    BY <1>1, <1>3, <1>6, FrameRoom, FramePass, FrameCounters, PartsNext

\* A newcomer that asks by hand, or is asked, late, is not one to be asked by a join.
LEMMA MetStep ==
    ASSUME OutInv, NEW n \in Newcomers, NEW m \in Members(n),
           NEW state \in {"request_sent", "request_received", "friend"},
           peer' = [peer EXCEPT ![n][m] = state],
           UNCHANGED <<join, asked, late, parted>>,
           \A k \in Newcomers : <<"reject", k>> \in answers' => <<"reject", k>> \in answers
    PROVE  PeersTyped' /\ RoomToAsk'
<1>1. PeersTyped
    BY OutParts
<1>2. PeersTyped'
    BY <1>1 DEF PeersTyped, States
<1>3. \A k \in Newcomers : \A o \in Members(k) : MayBeAsked(k, o)' => MayBeAsked(k, o)
    BY <1>1 DEF MayBeAsked, PeersTyped
<1> QED
    BY <1>2, <1>3, RoomKept

LEMMA FriendRequestStep ==
    ASSUME OutInv, NEW n \in Newcomers, FriendRequest(n)
    PROVE  OutInv'
<1>1. /\ UNCHANGED <<join, contact, ledger, pass, answers, asked, late, parted, welcomes>>
      /\ peer' = [peer EXCEPT ![n][Greeter] = "request_sent"]
      /\ candidate' = [candidate EXCEPT ![n] = IF @ = "none" THEN @ ELSE "approved"]
      /\ requests' \in {requests, requests \cup {n}}
    BY DEF FriendRequest, greeting, MarkCandidateApproved, ToGreeter, parting
<1>2. Greeter \in Members(n)
    BY PackAssumption
<1>3. PeersTyped' /\ RoomToAsk'
    BY <1>1, <1>2, MetStep
<1>4. JoinsTyped' /\ MailTyped'
    BY <1>1, OutParts DEF JoinsTyped, JoinTyped, MailTyped
<1> QED
    BY <1>1, <1>3, <1>4, FramePass, FrameCounters, PartsNext

LEMMA DropCandidateStep ==
    ASSUME OutInv, NEW n \in Newcomers, DropCandidate(n)
    PROVE  OutInv'
<1>1. /\ UNCHANGED <<peer, join, contact, ledger, pass, requests, answers, asked, late, parted,
                     welcomes>>
      /\ candidate' = [candidate EXCEPT ![n] = "none"]
    BY DEF DropCandidate, greeting, mail, parting
<1>2. PeersTyped' /\ JoinsTyped' /\ MailTyped'
    BY <1>1, OutParts DEF PeersTyped, JoinsTyped, JoinTyped, MailTyped
<1> QED
    BY <1>1, <1>2, FrameRoom, FramePass, FrameCounters, PartsNext

LEMMA FollowInviteStep ==
    ASSUME OutInv, NEW n \in Newcomers, NEW m \in Members(n), FollowInvite(n, m)
    PROVE  OutInv'
<1>1. /\ UNCHANGED <<join, candidate, contact, ledger, pass, answers, asked, late, parted, welcomes>>
      /\ peer' = [peer EXCEPT ![n][m] = "request_sent"]
      /\ requests' \in {requests, requests \cup {n}}
    BY DEF FollowInvite, greeting, ToGreeter, parting
<1>2. PeersTyped' /\ RoomToAsk'
    BY <1>1, MetStep
<1>3. JoinsTyped' /\ MailTyped'
    BY <1>1, OutParts DEF JoinsTyped, JoinTyped, MailTyped
<1> QED
    BY <1>1, <1>2, <1>3, FramePass, FrameCounters, PartsNext

\* A request or an answer of another member, or the owner who accepts it.
LEMMA TurnsStep ==
    ASSUME OutInv, NEW n \in Newcomers, NEW m \in Members(n), UNCHANGED parted,
           NEW state \in {"request_received", "friend"}, Turns(n, m, state)
    PROVE  OutInv'
<1>1. /\ UNCHANGED <<join, candidate, contact, ledger, pass, requests, answers, asked, late,
                     welcomes>>
      /\ peer' = [peer EXCEPT ![n][m] = state]
    BY DEF Turns, greeting, mail, asking, parting
<1>2. PeersTyped' /\ RoomToAsk'
    BY <1>1, MetStep
<1>3. JoinsTyped' /\ MailTyped'
    BY <1>1, OutParts DEF JoinsTyped, JoinTyped, MailTyped
<1> QED
    BY <1>1, <1>2, <1>3, FramePass, FrameCounters, PartsNext

\* Who parts makes room for one more request, by one of the two ways.
LEMMA RoomMade ==
    ASSUME OutInv, NEW n \in Newcomers, NEW m \in Members(n),
           Parts(n, m), UNCHANGED <<asked, late>>,
           \A k \in Newcomers : \A o \in Members(k) :
               k # n \/ o # m => (MayBeAsked(k, o)' => MayBeAsked(k, o)),
           \A k \in Newcomers : k # n \/ m # Greeter =>
               (<<"reject", k>> \in answers' => <<"reject", k>> \in answers),
           \/ MayBeAsked(n, m)' => MayBeAsked(n, m)
           \/ <<"reject", n>> \in answers' => <<"reject", n>> \in answers
    PROVE  RoomToAsk'
<1> SUFFICES ASSUME NEW k \in Newcomers, NEW o \in Members(k)
             PROVE  asked[k][o] + Room(k, o)' <= 1 + parted'[k][o] + late[k][o]
    BY DEF RoomToAsk
<1>1. /\ asked[k][o] + Room(k, o) <= 1 + parted[k][o] + late[k][o]
      /\ asked[k][o] \in Nat /\ parted[k][o] \in Nat /\ late[k][o] \in Nat
      /\ DOMAIN parted = Newcomers /\ parted[n] \in [Members(n) -> Nat]
    BY OutParts DEF RoomToAsk, CountersTyped
<1>2. Room(k, o) \in Nat /\ Room(k, o)' \in Nat
    BY DEF Room
<1>3. CASE k = n /\ o = m
  <2>1. parted'[k][o] = parted[k][o] + 1
    BY <1>1, <1>3 DEF Parts
  <2>2. Room(k, o)' <= Room(k, o) + 1
    BY <1>3 DEF Room
  <2> QED
    BY <1>1, <1>2, <2>1, <2>2
<1>4. CASE k # n \/ o # m
  <2>1. parted'[k][o] = parted[k][o]
    BY <1>1, <1>4 DEF Parts
  <2>2. MayBeAsked(k, o)' => MayBeAsked(k, o)
    BY <1>4
  <2>3. o = Greeter /\ <<"reject", k>> \in answers' => <<"reject", k>> \in answers
    BY <1>4
  <2>4. Room(k, o)' <= Room(k, o)
    BY <2>2, <2>3 DEF Room
  <2> QED
    BY <1>1, <1>2, <2>1, <2>4
<1> QED
    BY <1>3, <1>4

LEMMA PartsCounted ==
    ASSUME OutInv, NEW n \in Newcomers, NEW m \in Members(n), Parts(n, m),
           UNCHANGED <<asked, late, welcomes>>
    PROVE  CountersTyped'
<1>1. CountersTyped
    BY OutParts
<1> QED
    BY <1>1 DEF CountersTyped, Parts

\* A contact that becomes one who may be asked is counted.
LEMMA PartingStep ==
    ASSUME OutInv, NEW n \in Newcomers, NEW m \in Members(n), Parts(n, m),
           NEW state \in {"rejected", "revoked", "blocked"}, Turns(n, m, state)
    PROVE  OutInv'
<1>1. /\ UNCHANGED <<candidate, join, contact, ledger, pass, requests, answers, asked, late,
                     welcomes>>
      /\ peer' = [peer EXCEPT ![n][m] = state]
    BY DEF Turns, greeting, mail, asking, parting
<1>2. PeersTyped
    BY OutParts
<1>3. PeersTyped'
    BY <1>1, <1>2 DEF PeersTyped, States
<1>4. JoinsTyped' /\ MailTyped'
    BY <1>1, OutParts DEF JoinsTyped, JoinTyped, MailTyped
<1>5. \A k \in Newcomers : \A o \in Members(k) :
          k # n \/ o # m => (MayBeAsked(k, o)' => MayBeAsked(k, o))
    BY <1>1, <1>2 DEF MayBeAsked, PeersTyped
<1>6. RoomToAsk'
    BY <1>1, <1>5, RoomMade
<1>7. CountersTyped'
    BY <1>1, PartsCounted
<1> QED
    BY <1>1, <1>3, <1>4, <1>6, <1>7, FramePass, PartsNext

\* What comes from another member, and what the owner decides about one.
LEMMA MemberStep ==
    ASSUME OutInv, NEW n \in Newcomers, NEW m \in Members(n),
           \/ MemberAsks(n, m) \/ MemberAnswers(n, m)
           \/ NewcomerAccepts(n, m) \/ NewcomerRejects(n, m) \/ NewcomerParts(n, m)
    PROVE  OutInv'
<1>1. \/ \E state \in {"request_received", "friend"} : Turns(n, m, state) /\ UNCHANGED parted
      \/ \E state \in {"rejected", "revoked", "blocked"} : Turns(n, m, state) /\ Parts(n, m)
    BY DEF MemberAsks, MemberAnswers, NewcomerAccepts, NewcomerRejects, NewcomerParts, parting
<1> QED
    BY <1>1, TurnsStep, PartingStep

LEMMA GreeterPartsStep ==
    ASSUME OutInv, NEW n \in Newcomers, GreeterParts(n)
    PROVE  OutInv'
<1>1. /\ UNCHANGED <<peer, candidate, join, ledger, pass, requests, asked, late, welcomes>>
      /\ Parts(n, Greeter)
    BY DEF GreeterParts, home, asking, parting
<1>2. Greeter \in Members(n)
    BY PackAssumption
<1>3. /\ \E state \in {"rejected", "revoked", "blocked"} :
             contact' = [contact EXCEPT ![n] = state]
      /\ answers' \in {answers, answers \cup {<<"reject", n>>}}
    BY DEF GreeterParts
<1>4. GreeterTyped /\ MailTyped /\ PassKeepsCount /\ OneWelcome
    BY OutParts
<1>5. GreeterTyped'
    BY <1>1, <1>3, <1>4 DEF GreeterTyped, States
<1>6. MailTyped'
    BY <1>1, <1>3, <1>4 DEF MailTyped, Kinds
<1>7. PassKeepsCount' /\ OneWelcome'
    BY <1>1, <1>4 DEF PassKeepsCount, OneWelcome, Waiting
<1>8. \A k \in Newcomers : \A o \in Members(k) : MayBeAsked(k, o)' => MayBeAsked(k, o)
    BY <1>1 DEF MayBeAsked
<1>9. \A k \in Newcomers : k # n =>
          (<<"reject", k>> \in answers' => <<"reject", k>> \in answers)
    BY <1>3
<1>10. RoomToAsk'
    BY <1>1, <1>2, <1>8, <1>9, RoomMade
<1>11. CountersTyped'
    BY <1>1, <1>2, PartsCounted
<1> QED
    BY <1>1, <1>5, <1>6, <1>7, <1>10, <1>11, FrameJoins, PartsNext

LEMMA ReceiveAnswerStep ==
    ASSUME OutInv, NEW n \in Newcomers, ReceiveAnswer(n)
    PROVE  OutInv'
<1>1. UNCHANGED <<candidate, join, contact, ledger, pass, requests, asked, late, parted, welcomes>>
    BY DEF ReceiveAnswer, greeting, asking, parting
<1>2. PICK kind \in Kinds :
        /\ <<kind, n>> \in answers
        /\ answers' = answers \ {<<kind, n>>}
        /\ \/ /\ kind \in {"accept", "reject"}
              /\ peer' = [peer EXCEPT ![n][Greeter] = IF kind = "accept" THEN "friend"
                                                      ELSE "rejected"]
           \/ UNCHANGED peer
    BY DEF ReceiveAnswer
<1>3. /\ Greeter \in Members(n) /\ PeersTyped
    BY OutParts, PackAssumption
<1>4. JoinsTyped' /\ MailTyped'
    BY <1>1, <1>2, OutParts DEF JoinsTyped, JoinTyped, MailTyped
<1>5. PeersTyped' /\ RoomToAsk'
  <2>1. CASE UNCHANGED peer
    <3>1. PeersTyped'
      BY <1>3, <2>1 DEF PeersTyped
    <3>2. \A k \in Newcomers : \A o \in Members(k) : MayBeAsked(k, o)' => MayBeAsked(k, o)
      BY <1>1, <2>1 DEF MayBeAsked
    <3> QED
      BY <1>1, <1>2, <3>1, <3>2, RoomKept
  <2>2. CASE kind = "accept" /\ peer' = [peer EXCEPT ![n][Greeter] = "friend"]
    BY <1>1, <1>2, <1>3, <2>2, MetStep
  <2>3. CASE kind = "reject" /\ peer' = [peer EXCEPT ![n][Greeter] = "rejected"]
    <3>1. PeersTyped'
      BY <1>3, <2>3 DEF PeersTyped, States
    <3>2. ASSUME NEW k \in Newcomers, NEW o \in Members(k)
          PROVE  asked[k][o] + Room(k, o)' <= 1 + parted[k][o] + late[k][o]
      <4>1. /\ asked[k][o] + Room(k, o) <= 1 + parted[k][o] + late[k][o]
            /\ asked[k][o] \in Nat /\ parted[k][o] \in Nat /\ late[k][o] \in Nat
        BY OutParts DEF RoomToAsk, CountersTyped
      <4>2. Room(k, o) \in Nat /\ Room(k, o)' \in Nat
        BY DEF Room
      <4>3. CASE k = n /\ o = Greeter
        <5>1. <<"reject", k>> \in answers /\ <<"reject", k>> \notin answers'
          BY <1>2, <2>3, <4>3
        <5>2. Room(k, o)' <= Room(k, o)
          BY <4>3, <5>1 DEF Room
        <5> QED
          BY <4>1, <4>2, <5>2
      <4>4. CASE k # n \/ o # Greeter
        <5>1. MayBeAsked(k, o)' => MayBeAsked(k, o)
          BY <1>1, <1>3, <2>3, <4>4 DEF MayBeAsked, PeersTyped
        <5>2. <<"reject", k>> \in answers' => <<"reject", k>> \in answers
          BY <1>2
        <5>3. Room(k, o)' <= Room(k, o)
          BY <5>1, <5>2 DEF Room
        <5> QED
          BY <4>1, <4>2, <5>3
      <4> QED
        BY <4>3, <4>4
    <3> QED
      BY <1>1, <3>1, <3>2 DEF RoomToAsk
  <2> QED
    BY <1>2, <2>1, <2>2, <2>3
<1> QED
    BY <1>1, <1>4, <1>5, FramePass, FrameCounters, PartsNext

LEMMA ReceiveRequestStep ==
    ASSUME OutInv, NEW n \in Newcomers, ReceiveRequest(n)
    PROVE  OutInv'
<1>1. /\ UNCHANGED <<peer, candidate, join, ledger, pass, answers, asked, late, parted, welcomes>>
      /\ requests' = requests \ {n}
      /\ \/ contact' = [contact EXCEPT ![n] = IF @ = "blocked" THEN @ ELSE "request_received"]
         \/ UNCHANGED contact
    BY DEF ReceiveRequest, home, asking, parting
<1>2. GreeterTyped /\ MailTyped /\ PassKeepsCount /\ OneWelcome
    BY OutParts
<1>3. GreeterTyped'
    BY <1>1, <1>2 DEF GreeterTyped, States
<1>4. MailTyped' /\ PassKeepsCount' /\ OneWelcome'
    BY <1>1, <1>2 DEF MailTyped, PassKeepsCount, OneWelcome, Waiting
<1> QED
    BY <1>1, <1>3, <1>4, FrameJoins, FrameCounters, FrameRoom, PartsNext

\* What a pass leaves alone: the homes of the newcomers and what they did.
LEMMA FrameOfPass ==
    ASSUME OutInv, UNCHANGED <<peer, candidate, join, requests, answers, asked, late, parted>>
    PROVE  PeersTyped' /\ JoinsTyped' /\ MailTyped' /\ RoomToAsk'
    BY FrameJoins, FrameMail, FrameRoom

LEMMA PassStopsStep ==
    ASSUME OutInv, PassStops,
           UNCHANGED <<peer, candidate, join, contact, ledger, requests, answers, asked, late,
                       parted, welcomes>>
    PROVE  OutInv'
<1>1. GreeterTyped /\ PassKeepsCount /\ OneWelcome
    BY OutParts
<1>2. pass' = NoPass
    BY DEF PassStops
<1>3. GreeterTyped'
    BY <1>1, <1>2 DEF GreeterTyped, NoPass
<1>4. PassKeepsCount'
    BY <1>2 DEF PassKeepsCount, NoPass
<1>5. \A n \in Newcomers : Waiting(n)' = {}
    BY <1>2 DEF Waiting, NoPass
<1>6. OneWelcome'
    BY <1>1, <1>5 DEF OneWelcome
<1> QED
    BY <1>3, <1>4, <1>6, FrameOfPass, FrameCounters, PartsNext

LEMMA RunGreeterPassStep ==
    ASSUME OutInv, RunGreeterPass
    PROVE  OutInv'
<1>1. /\ UNCHANGED <<peer, candidate, join, contact, ledger, requests, answers, asked, late,
                     parted, welcomes>>
      /\ Pending \cup Friends # {}
      /\ pass' = [NoPass EXCEPT !.at = "next", !.pending = Pending,
                                !.friends = Friends]
    BY DEF RunGreeterPass, home, mail, asking, parting
<1>2. /\ DOMAIN pass' = {"at", "who", "pending", "friends", "out"}
      /\ pass'.at = "next" /\ pass'.who = Greeter /\ pass'.out = <<>>
      /\ pass'.pending = Pending /\ pass'.friends = Friends
    BY <1>1 DEF NoPass
<1>3. GreeterTyped /\ OneWelcome
    BY OutParts
<1>4. GreeterTyped'
  <2>1. Pending \subseteq Newcomers /\ Friends \subseteq Newcomers
    BY DEF Pending, Friends
  <2>2. pass'.out \in Seq({"accept", "welcome"} \X Newcomers)
    BY <1>2
  <2>3. contact' \in [Newcomers -> States] /\ ledger' \subseteq Newcomers
    BY <1>1, <1>3 DEF GreeterTyped
  <2> QED
    BY <1>2, <2>1, <2>2, <2>3 DEF GreeterTyped
<1>5. PassKeepsCount'
    BY <1>1, <1>2 DEF PassKeepsCount, Pending, Friends
<1>6. \A n \in Newcomers : Waiting(n)' = {}
    BY <1>2 DEF Waiting
<1>7. OneWelcome'
    BY <1>1, <1>3, <1>6 DEF OneWelcome
<1> QED
    BY <1>1, <1>4, <1>5, <1>7, FrameOfPass, FrameCounters, PartsNext

\* What a sequence has at the places of a longer one.
LEMMA Appended ==
    ASSUME NEW S, NEW q \in Seq(S), NEW e \in S
    PROVE  /\ Append(q, e) \in Seq(S) /\ Append(q, e) # <<>>
           /\ \A i \in DOMAIN q : i \in DOMAIN Append(q, e) /\ Append(q, e)[i] = q[i]
           /\ \A i \in DOMAIN Append(q, e) : i \in DOMAIN q \/ Append(q, e)[i] = e
           /\ \A i, j \in DOMAIN Append(q, e) : i \notin DOMAIN q /\ j \notin DOMAIN q => i = j
<1> DEFINE r == Append(q, e)
<1>1. /\ r \in Seq(S) /\ Len(r) = Len(q) + 1 /\ Len(q) \in Nat
      /\ DOMAIN q = 1 .. Len(q) /\ DOMAIN r = 1 .. Len(r)
      /\ \A i \in 1 .. Len(q) : r[i] = q[i]
      /\ r[Len(q) + 1] = e
    OBVIOUS
<1> HIDE DEF r
<1>2. r # <<>>
    BY <1>1
<1> QED
    BY <1>1, <1>2 DEF r

LEMMA AcceptFriendStep ==
    ASSUME OutInv, NEW n \in Newcomers, AcceptFriend(n)
    PROVE  OutInv'
<1>1. /\ UNCHANGED <<peer, candidate, join, ledger, requests, answers, asked, late, parted, welcomes>>
      /\ pass.at = "next" /\ n \in pass.pending
    BY DEF AcceptFriend, home, mail, asking, parting
<1>2. CASE UNCHANGED contact /\ PassStops
    BY <1>1, <1>2, PassStopsStep
<1>3. CASE /\ contact' = [contact EXCEPT ![n] = "friend"]
           /\ pass' = [pass EXCEPT !.at = "welcome", !.who = n, !.pending = @ \ {n},
                                   !.out = Append(@, <<"accept", n>>)]
  <2>1. GreeterTyped /\ PassKeepsCount /\ OneWelcome
    BY OutParts
  <2> DEFINE e == <<"accept", n>>
  <2>2. /\ DOMAIN pass' = {"at", "who", "pending", "friends", "out"}
        /\ pass'.at = "welcome" /\ pass'.who = n /\ pass'.pending = pass.pending \ {n}
        /\ pass'.friends = pass.friends /\ pass'.out = Append(pass.out, e)
    BY <1>3, <2>1 DEF PassKeepsCount
  <2>3. /\ pass.out \in Seq({"accept", "welcome"} \X Newcomers)
        /\ e \in {"accept", "welcome"} \X Newcomers
    BY <2>1 DEF GreeterTyped
  <2>4. /\ \A k \in Newcomers : e # <<"welcome", k>>
    OBVIOUS
  <2> HIDE DEF e
  <2>5. GreeterTyped'
    BY <1>1, <1>3, <2>1, <2>2, <2>3, Appended DEF GreeterTyped, States
  <2>6. pass'.out # <<>>
    BY <2>2, <2>3, Appended
  <2>7. PassKeepsCount'
    BY <1>1, <2>1, <2>2, <2>6 DEF PassKeepsCount
  <2>8. \A k \in Newcomers : Waiting(k)' = Waiting(k)
    <3>1. TAKE k \in Newcomers
    <3>2. \A i \in Waiting(k) : i \in Waiting(k)'
      BY <2>2, <2>3, Appended DEF Waiting
    <3>3. \A i \in Waiting(k)' : i \in Waiting(k)
      BY <2>2, <2>3, <2>4, Appended DEF Waiting
    <3> QED
      BY <3>2, <3>3
  <2>9. OneWelcome'
    BY <1>1, <2>1, <2>8 DEF OneWelcome
  <2> QED
    BY <1>1, <2>5, <2>7, <2>9, FrameOfPass, FrameCounters, PartsNext
<1> QED
    BY <1>2, <1>3 DEF AcceptFriend

LEMMA LookAtFriendStep ==
    ASSUME OutInv, NEW n \in Newcomers, LookAtFriend(n)
    PROVE  OutInv'
<1>1. /\ UNCHANGED <<peer, candidate, join, contact, ledger, requests, answers, asked, late,
                     parted, welcomes>>
      /\ pass.at = "next" /\ n \in pass.friends
      /\ pass' = [pass EXCEPT !.at = "welcome", !.who = n, !.friends = @ \ {n}]
    BY DEF LookAtFriend, home, mail, asking, parting
<1>2. GreeterTyped /\ PassKeepsCount /\ OneWelcome
    BY OutParts
<1>3. /\ DOMAIN pass' = {"at", "who", "pending", "friends", "out"}
      /\ pass'.at = "welcome" /\ pass'.who = n /\ pass'.pending = pass.pending
      /\ pass'.friends = pass.friends \ {n} /\ pass'.out = pass.out
    BY <1>1, <1>2 DEF PassKeepsCount
<1>4. GreeterTyped'
    BY <1>1, <1>2, <1>3 DEF GreeterTyped
<1>5. PassKeepsCount'
    BY <1>1, <1>2, <1>3 DEF PassKeepsCount
<1>6. OneWelcome'
    BY <1>1, <1>2, <1>3 DEF OneWelcome, Waiting
<1> QED
    BY <1>1, <1>4, <1>5, <1>6, FrameOfPass, FrameCounters, PartsNext

LEMMA BuildWelcomeStep ==
    ASSUME OutInv, NEW n \in Newcomers, BuildWelcome(n)
    PROVE  OutInv'
<1>1. /\ UNCHANGED <<peer, candidate, join, contact, ledger, requests, answers, asked, late,
                     parted, welcomes>>
      /\ pass.at = "welcome" /\ pass.who = n
    BY DEF BuildWelcome, home, mail, asking, parting
<1>2. GreeterTyped /\ PassKeepsCount /\ OneWelcome
    BY OutParts
<1>3. CASE PassStops
    BY <1>1, <1>3, PassStopsStep
<1>4. CASE n \in ledger /\ pass' = [pass EXCEPT !.at = "next", !.who = Greeter]
  <2>1. /\ DOMAIN pass' = {"at", "who", "pending", "friends", "out"}
        /\ pass'.at = "next" /\ pass'.who = Greeter /\ pass'.pending = pass.pending
        /\ pass'.friends = pass.friends /\ pass'.out = pass.out
    BY <1>2, <1>4 DEF PassKeepsCount
  <2>2. GreeterTyped' /\ PassKeepsCount'
    BY <1>1, <1>2, <1>4, <2>1 DEF GreeterTyped, PassKeepsCount
  <2>3. OneWelcome'
    BY <1>1, <1>2, <2>1 DEF OneWelcome, Waiting
  <2> QED
    BY <1>1, <2>2, <2>3, FrameOfPass, FrameCounters, PartsNext
<1>5. CASE n \notin ledger /\ pass' = [pass EXCEPT !.at = "record"]
  <2>1. /\ DOMAIN pass' = {"at", "who", "pending", "friends", "out"}
        /\ pass'.at = "record" /\ pass'.who = n /\ pass'.pending = pass.pending
        /\ pass'.friends = pass.friends /\ pass'.out = pass.out
    BY <1>1, <1>2, <1>5 DEF PassKeepsCount
  <2>2. GreeterTyped' /\ PassKeepsCount'
    BY <1>1, <1>2, <1>5, <2>1 DEF GreeterTyped, PassKeepsCount
  <2>3. OneWelcome'
    BY <1>1, <1>2, <2>1 DEF OneWelcome, Waiting
  <2> QED
    BY <1>1, <2>2, <2>3, FrameOfPass, FrameCounters, PartsNext
<1> QED
    BY <1>3, <1>4, <1>5 DEF BuildWelcome

LEMMA RecordNotifiedStep ==
    ASSUME OutInv, NEW n \in Newcomers, RecordNotified(n)
    PROVE  OutInv'
<1> DEFINE e == <<"welcome", n>>
<1>1. /\ UNCHANGED <<peer, candidate, join, contact, requests, answers, asked, late, parted, welcomes>>
      /\ pass.at = "record" /\ pass.who = n /\ ledger' = ledger \cup {n}
      /\ pass' = [pass EXCEPT !.at = "next", !.who = Greeter, !.out = Append(@, e)]
    BY DEF RecordNotified, Recorded, home, mail, asking, parting
<1>2. GreeterTyped /\ PassKeepsCount /\ OneWelcome
    BY OutParts
<1>3. /\ DOMAIN pass' = {"at", "who", "pending", "friends", "out"}
      /\ pass'.at = "next" /\ pass'.who = Greeter /\ pass'.pending = pass.pending
      /\ pass'.friends = pass.friends /\ pass'.out = Append(pass.out, e)
    BY <1>1, <1>2 DEF PassKeepsCount
<1>4. /\ pass.out \in Seq({"accept", "welcome"} \X Newcomers)
      /\ e \in {"accept", "welcome"} \X Newcomers
    BY <1>2 DEF GreeterTyped
<1>5. \A k \in Newcomers : e = <<"welcome", k>> => k = n
    OBVIOUS
<1>6. n \notin ledger /\ Waiting(n) = {} /\ welcomes[n] # 1
    BY <1>1, <1>2 DEF PassKeepsCount, OneWelcome
<1> HIDE DEF e
<1>7. GreeterTyped'
    BY <1>1, <1>2, <1>3, <1>4, Appended DEF GreeterTyped
<1>8. pass'.out # <<>>
    BY <1>3, <1>4, Appended
<1>9. PassKeepsCount'
    BY <1>1, <1>2, <1>3, <1>8 DEF PassKeepsCount
<1>10. ASSUME NEW k \in Newcomers, k # n
       PROVE  Waiting(k)' = Waiting(k)
  <2>1. \A i \in Waiting(k) : i \in Waiting(k)'
    BY <1>3, <1>4, Appended DEF Waiting
  <2>2. \A i \in Waiting(k)' : i \in Waiting(k)
    BY <1>3, <1>4, <1>5, <1>10, Appended DEF Waiting
  <2> QED
    BY <2>1, <2>2
<1>11. \A i, j \in Waiting(n)' : i = j
  <2>1. \A i \in Waiting(n)' : i \notin DOMAIN pass.out /\ i \in DOMAIN Append(pass.out, e)
    <3>1. TAKE i \in Waiting(n)'
    <3>2. i \in DOMAIN Append(pass.out, e) /\ Append(pass.out, e)[i] = <<"welcome", n>>
      BY <1>3 DEF Waiting
    <3>3. ASSUME i \in DOMAIN pass.out  PROVE FALSE
      <4>1. pass.out[i] = <<"welcome", n>>
        BY <1>4, <3>2, <3>3, Appended
      <4> QED
        BY <1>6, <3>3, <4>1 DEF Waiting
    <3> QED
      BY <3>2, <3>3
  <2> QED
    BY <1>4, <2>1, Appended
<1>12. OneWelcome'
    BY <1>1, <1>2, <1>6, <1>10, <1>11 DEF OneWelcome
<1> QED
    BY <1>1, <1>7, <1>9, <1>12, FrameOfPass, FrameCounters, PartsNext

LEMMA DeliverNextStep ==
    ASSUME OutInv, DeliverNext
    PROVE  OutInv'
<1> DEFINE S == {"accept", "welcome"} \X Newcomers
<1>1. /\ UNCHANGED <<peer, candidate, join, contact, ledger, requests, asked, late, parted>>
      /\ pass.at = "next" /\ pass.pending = {} /\ pass.friends = {}
    BY DEF DeliverNext, home, asking, parting
<1>2. GreeterTyped /\ PassKeepsCount /\ OneWelcome /\ MailTyped /\ CountersTyped
    BY OutParts
<1>3. pass.out \in Seq(S) /\ pass.out # <<>>
    BY <1>1, <1>2 DEF GreeterTyped, PassKeepsCount
<1>4. CASE PassStops /\ UNCHANGED <<answers, welcomes>>
    BY <1>1, <1>4, PassStopsStep
<1>5. CASE /\ pass' = IF Len(pass.out) = 1 THEN NoPass
                      ELSE [pass EXCEPT !.out = Tail(@)]
           /\ answers' = answers \cup {<<Head(pass.out)[1], Head(pass.out)[2]>>}
           /\ welcomes' = [welcomes EXCEPT ![Head(pass.out)[2]] =
                              IF Head(pass.out)[1] = "welcome" THEN @ + 1 ELSE @]
  <2>1. Head(pass.out) \in S /\ Head(pass.out) = pass.out[1] /\ 1 \in DOMAIN pass.out
    BY <1>3, ListTail
  <2>2. PICK kind \in {"accept", "welcome"}, n \in Newcomers : pass.out[1] = <<kind, n>>
    BY <2>1
  <2>10. Head(pass.out)[1] = kind /\ Head(pass.out)[2] = n
    BY <2>1, <2>2
  <2>11. answers' = answers \cup {<<kind, n>>}
    BY <1>5, <2>10
  <2>12. welcomes' = [welcomes EXCEPT ![n] = IF kind = "welcome" THEN welcomes[n] + 1
                                            ELSE welcomes[n]]
    BY <1>5, <2>10
  <2>3. MailTyped' /\ CountersTyped'
    BY <1>1, <1>2, <2>11, <2>12 DEF MailTyped, CountersTyped, Kinds
  <2>4. RoomToAsk'
    <3>1. \A k \in Newcomers : \A m \in Members(k) : MayBeAsked(k, m)' => MayBeAsked(k, m)
      BY <1>1 DEF MayBeAsked
    <3>2. \A k \in Newcomers : <<"reject", k>> \in answers' => <<"reject", k>> \in answers
      BY <2>11
    <3> QED
      BY <1>1, <3>1, <3>2, RoomKept
  <2>5. GreeterTyped' /\ PassKeepsCount'
    <3>1. CASE Len(pass.out) = 1
      <4>1. pass' = NoPass
        BY <1>5, <3>1
      <4> QED
        BY <1>1, <1>2, <4>1 DEF GreeterTyped, PassKeepsCount, NoPass
    <3>2. CASE Len(pass.out) # 1
      <4>1. /\ DOMAIN pass' = {"at", "who", "pending", "friends", "out"}
            /\ pass'.at = pass.at /\ pass'.who = pass.who /\ pass'.pending = pass.pending
            /\ pass'.friends = pass.friends /\ pass'.out = Tail(pass.out)
        BY <1>2, <1>5, <3>2 DEF PassKeepsCount
      <4>2. Tail(pass.out) \in Seq(S) /\ Tail(pass.out) # <<>>
        BY <1>3, <3>2, ListTail
      <4>3. GreeterTyped'
        BY <1>1, <1>2, <4>1, <4>2 DEF GreeterTyped
      <4>4. PassKeepsCount'
        BY <1>1, <1>2, <4>1, <4>2 DEF PassKeepsCount
      <4> QED
        BY <4>3, <4>4
    <3> QED
      BY <3>1, <3>2
  <2>6. \A k \in Newcomers : \A i \in Waiting(k)' : i + 1 \in Waiting(k) /\ i \in Nat /\ i > 0
    <3>1. CASE Len(pass.out) = 1
      <4>1. pass'.out = <<>>
        BY <1>5, <3>1 DEF NoPass
      <4> QED
        BY <4>1 DEF Waiting
    <3>2. CASE Len(pass.out) # 1
      <4>1. pass'.out = Tail(pass.out)
        BY <1>2, <1>5, <3>2 DEF PassKeepsCount
      <4>2. Tail(pass.out) \in Seq(S)
        BY <1>3, ListTail
      <4>3. \A i \in DOMAIN Tail(pass.out) : i \in Nat /\ i > 0
        BY <4>2
      <4>4. \A i \in DOMAIN Tail(pass.out) : i + 1 \in DOMAIN pass.out
                                             /\ Tail(pass.out)[i] = pass.out[i + 1]
        BY <1>3, ListTail
      <4> QED
        BY <4>1, <4>3, <4>4 DEF Waiting
    <3> QED
      BY <3>1, <3>2
  <2>7. \A k \in Newcomers : \A i, j \in Waiting(k)' : i = j
    <3> SUFFICES ASSUME NEW k \in Newcomers, NEW i \in Waiting(k)', NEW j \in Waiting(k)'
                 PROVE  i = j
      OBVIOUS
    <3>1. /\ i + 1 \in Waiting(k) /\ j + 1 \in Waiting(k) /\ i \in Nat /\ j \in Nat
      BY <2>6
    <3>2. i + 1 = j + 1
      BY <1>2, <3>1 DEF OneWelcome
    <3> QED
      BY <3>1, <3>2
  <2>8. \A k \in Newcomers : Waiting(k)' # {} => Waiting(k) # {}
    BY <2>6
  <2>9. OneWelcome'
    <3>1. CASE kind = "welcome"
      <4>1. 1 \in Waiting(n)
        BY <2>1, <2>2, <3>1 DEF Waiting
      <4>2. n \in ledger /\ welcomes[n] # 1 /\ welcomes[n] <= 1 /\ welcomes[n] \in Nat
        BY <1>2, <2>2, <4>1 DEF OneWelcome, CountersTyped
      <4>3. welcomes'[n] = 1 /\ \A k \in Newcomers : k # n => welcomes'[k] = welcomes[k]
        <5>1. welcomes[n] = 0
          BY <4>2
        <5>2. welcomes' = [welcomes EXCEPT ![n] = 1]
          BY <2>12, <3>1, <5>1
        <5> QED
          BY <1>2, <5>2 DEF CountersTyped
      <4>4. Waiting(n)' = {}
        <5> SUFFICES ASSUME NEW i \in Waiting(n)'  PROVE FALSE
          OBVIOUS
        <5>1. i + 1 \in Waiting(n) /\ i \in Nat /\ i > 0
          BY <2>6
        <5>2. i + 1 = 1
          BY <1>2, <2>2, <4>1, <5>1 DEF OneWelcome
        <5> QED
          BY <5>1, <5>2
      <4> QED
        BY <1>1, <1>2, <2>2, <2>7, <2>8, <4>2, <4>3, <4>4 DEF OneWelcome
    <3>2. CASE kind = "accept"
      <4>1. \A k \in Newcomers : welcomes'[k] = welcomes[k]
        BY <1>2, <2>12, <3>2 DEF CountersTyped
      <4> QED
        BY <1>1, <1>2, <2>7, <2>8, <4>1 DEF OneWelcome
    <3> QED
      BY <2>2, <3>1, <3>2
  <2> QED
    BY <1>1, <2>3, <2>4, <2>5, <2>9, FrameJoins, PartsNext
<1> QED
    BY <1>4, <1>5 DEF DeliverNext

LEMMA CutPassStep ==
    ASSUME OutInv, CutPass
    PROVE  OutInv'
    BY PassStopsStep DEF CutPass, home, mail, asking, parting

-----------------------------------------------------------------------------
LEMMA OutInit ==
    OutreachInit => OutInv
<1> SUFFICES ASSUME OutreachInit
             PROVE  OutInv
    OBVIOUS
<1>1. PeersTyped
    BY DEF OutreachInit, PeersTyped, States
<1>2. JoinsTyped
  <2>1. candidate \in [Newcomers -> {"none", "open", "approved"}] /\ DOMAIN join = Newcomers
    BY DEF OutreachInit, WriteCandidate
  <2>2. ASSUME NEW n \in Newcomers, NEW j \in Shells  PROVE JoinTyped(n, j)
    <3>1. join[n][j] = NoJoin
      BY <2>2 DEF OutreachInit
    <3> QED
      BY <3>1 DEF JoinTyped, NoJoin
  <2>3. \A n \in Newcomers : DOMAIN join[n] = Shells
    BY DEF OutreachInit
  <2> QED
    BY <2>1, <2>2, <2>3 DEF JoinsTyped
<1>3. GreeterTyped
    BY DEF OutreachInit, GreeterTyped, NoPass, States
<1>4. MailTyped /\ CountersTyped
    BY DEF OutreachInit, MailTyped, CountersTyped
<1>5. PassKeepsCount
    BY DEF OutreachInit, PassKeepsCount, NoPass
<1>6. OneWelcome
    BY DEF OutreachInit, OneWelcome, Waiting, NoPass
<1>7. RoomToAsk
  <2> SUFFICES ASSUME NEW n \in Newcomers, NEW m \in Members(n)
               PROVE  asked[n][m] + Room(n, m) <= 1 + parted[n][m] + late[n][m]
    BY DEF RoomToAsk
  <2>1. asked[n][m] = 0 /\ parted[n][m] = 0 /\ late[n][m] = 0 /\ answers = {}
    BY DEF OutreachInit
  <2>2. Room(n, m) = 1 \/ Room(n, m) = 0
    BY <2>1 DEF Room
  <2> QED
    BY <2>1, <2>2
<1> QED
    BY <1>1, <1>2, <1>3, <1>4, <1>5, <1>6, <1>7, OutParts

LEMMA OutSteps ==
    OutInv /\ [OutreachNext]_outreachVars => OutInv'
<1> SUFFICES ASSUME OutInv, [OutreachNext]_outreachVars
             PROVE  OutInv'
    OBVIOUS
<1>1. ASSUME NEW n \in Newcomers, NEW j \in Shells, NEW deliver \in BOOLEAN,
             PackJoin(n, j, deliver)
      PROVE  OutInv'
    BY <1>1, PackJoinStep
<1>2. ASSUME NEW n \in Newcomers, NEW j \in Shells, JoinStep(n, j) \/ CutJoin(n, j)
      PROVE  OutInv'
    BY <1>2, LookAtStep, SendRequestStep, DeliverRequestStep, CutJoinStep DEF JoinStep
<1>3. ASSUME NEW n \in Newcomers, FriendRequest(n) \/ DropCandidate(n)
      PROVE  OutInv'
    BY <1>3, FriendRequestStep, DropCandidateStep
<1>4. ASSUME NEW n \in Newcomers, Arrives(n) \/ GreeterParts(n)
      PROVE  OutInv'
    BY <1>4, ReceiveRequestStep, ReceiveAnswerStep, GreeterPartsStep DEF Arrives
<1>5. ASSUME NEW n \in Newcomers, NEW m \in Members(n),
             \/ FollowInvite(n, m) \/ MemberAsks(n, m) \/ MemberAnswers(n, m)
             \/ NewcomerAccepts(n, m) \/ NewcomerRejects(n, m) \/ NewcomerParts(n, m)
      PROVE  OutInv'
    BY <1>5, FollowInviteStep, MemberStep
<1>6. ASSUME RunGreeterPass \/ DeliverNext \/ CutPass
      PROVE  OutInv'
    BY <1>6, RunGreeterPassStep, DeliverNextStep, CutPassStep
<1>7. ASSUME NEW n \in Newcomers,
             \/ AcceptFriend(n) \/ LookAtFriend(n)
             \/ BuildWelcome(n) \/ RecordNotified(n)
      PROVE  OutInv'
    BY <1>7, AcceptFriendStep, LookAtFriendStep, BuildWelcomeStep, RecordNotifiedStep
<1>8. ASSUME UNCHANGED outreachVars
      PROVE  OutInv'
    BY <1>8, FrameJoins, FrameMail, FrameCounters, FrameRoom, FramePass, PartsNext
       DEF outreachVars, home, greeting, mail, asking, parting
<1> QED
    BY <1>1, <1>2, <1>3, <1>4, <1>5, <1>6, <1>7, <1>8 DEF OutreachNext, PassStep

LEMMA OutInvariant == OutreachSpec => []OutInv
<1>1. OutInv /\ [OutreachNext]_outreachVars => OutInv'
    BY OutSteps
<1> QED
    BY OutInit, <1>1, PTL DEF OutreachSpec

\* However often the greeter passes, and wherever a pass is cut, a newcomer is
\* sent one welcome (runGreeterPass records the key before the delivery).
THEOREM WelcomesOnce == OutreachSpec => []WelcomedAtMostOnce
<1>1. OutInv => WelcomedAtMostOnce
    BY DEF OutInv, OneWelcome, WelcomedAtMostOnce
<1>2. OutreachSpec => []OutInv
    BY OutInvariant
<1> QED
    BY <1>1, <1>2, PTL

\* However many joins of a newcomer overlap, one asks a member again only after
\* the two have parted, or with a request that was late: the member had become
\* one to be skipped since that join looked (joinMember looks, sleeps and asks).
THEOREM JoinsAskOnce == OutreachSpec => []JoinAsksOnce
<1>1. OutInv => JoinAsksOnce
  <2> SUFFICES ASSUME OutInv, NEW n \in Newcomers, NEW m \in Members(n)
               PROVE  asked[n][m] <= 1 + parted[n][m] + late[n][m]
    BY DEF JoinAsksOnce
  <2>1. /\ asked[n][m] + Room(n, m) <= 1 + parted[n][m] + late[n][m]
        /\ asked[n][m] \in Nat /\ parted[n][m] \in Nat /\ late[n][m] \in Nat
    BY OutParts DEF RoomToAsk, CountersTyped
  <2>2. Room(n, m) \in Nat
    BY DEF Room
  <2> QED
    BY <2>1, <2>2
<1>2. OutreachSpec => []OutInv
    BY OutInvariant
<1> QED
    BY <1>1, <1>2, PTL

\* The contacts, the candidates and what is on its way keep their shape, and a
\* join is idle exactly when nothing of it is left to do.
THEOREM OutTypes == OutreachSpec => []OutreachTypeOK
<1>1. OutInv => OutreachTypeOK
    BY DEF OutInv
<1>2. OutreachSpec => []OutInv
    BY OutInvariant
<1> QED
    BY <1>1, <1>2, PTL
=============================================================================
