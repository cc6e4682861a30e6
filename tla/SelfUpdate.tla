------------------------------ MODULE SelfUpdate ------------------------------
(* The install of one host and what keeps it current: the runs of `edge-book *)
(* self-update` (the notifier cron's, every twenty minutes, and the owner's, *)
(* whenever it likes) share an install root and its lock file; the dial-out  *)
(* daemon leaves when the files under it are of another version, so that its *)
(* supervisor starts it on them, and at its start brings the cron's prompt   *)
(* up to date; the commands an owner or agent reads carry the nudges.        *)
(* Releases are numbered in the order they are published.                    *)
EXTENDS Naturals, Sequences

CONSTANTS
    MajorsOf,     \* what may be published: the major version of each release, in order
    Roots,        \* where the install may be
    MaxFaults,    \* registry, npm and scheduler commands that fail
    MaxCuts       \* processes that die

ASSUME MajorAssumption == \A m \in MajorsOf : m \in Seq(Nat) /\ Len(m) > 0
ASSUME RootAssumption == Roots \subseteq {"own", "checkout", "system", "readonly"}
ASSUME BoundAssumption == MaxFaults \in Nat /\ MaxCuts \in Nat

VARIABLES
    major,        \* major[v]: the major version of release v
    latest,       \* the release the registry names
    tree,         \* the release whose files are in the install root
    sound,        \* those files start and say that release
    lock,         \* .edge-book-self-update.lock: "free", "held", or "old": past LOCK_STALE_MS
    run,          \* run[r]: a self-update in progress
    mode,         \* config.auto_update
    known,        \* config.update_latest_known, 0 when absent
    acked,        \* config.notifier_prompt_ack is of this prompt
    root,         \* where the install is: "own", "checkout", "system" or "readonly"
    scheduler,    \* what the host runs its crons with
    job,          \* the notifier cron: "none", or the prompt it has
    daemon,       \* the dial-out process: where it is, the release it loaded
    agent,        \* an agent that follows the notifier nudge
    told,         \* the release the last update nudge named
    faults, cuts, \* faults and deaths so far
    missed        \* a command of the scheduler failed

files == <<tree, sound, lock>>
config == <<known, acked>>
cron == <<job, agent, missed>>
history == <<told, faults, cuts>>
setting == <<major, mode, root, scheduler>>
vars == <<latest, files, run, config, cron, daemon, history, setting>>

Releases == 1..Len(major)
Runs == {"cron", "owner"}
Holding == {"install", "verify", "record", "release"}
Idle == [at |-> "idle", from |-> 0, to |-> 0]

\* Hermes, which may not show the prompt of a job, or a scheduler that only the
\* agent can reach.
Schedulers == {"readable", "unreadable", "agent"}

\* Every variable keeps its type; in particular no run installs, and nothing
\* is known or told, beyond what the registry has named.
TypeOK ==
    /\ major \in MajorsOf /\ latest \in Releases /\ tree \in 1..latest /\ known \in 0..latest
    /\ sound \in BOOLEAN /\ acked \in BOOLEAN /\ missed \in BOOLEAN
    /\ lock \in {"free", "held", "old"}
    /\ run \in [Runs -> [at : {"idle", "ask", "lock", "takeover", "relock"} \cup Holding,
                         from : 0..latest, to : 0..latest]]
    /\ mode \in {"auto", "notify", "off"}
    /\ root \in {"own", "checkout", "system", "readonly"}
    /\ scheduler \in Schedulers
    /\ job \in {"none", "old", "current"}
    /\ daemon \in [at : {"down", "remove", "create", "ack", "up"}, runs : 0..latest]
    /\ agent \in {"idle", "told", "migrated"}
    /\ told \in 0..latest /\ faults \in 0..MaxFaults /\ cuts \in 0..MaxCuts

AutoUpdateAllowed(running, newest) ==
    major[running] = 0 \/ major[running] = major[newest]

Fault == faults < MaxFaults /\ faults' = faults + 1
NoFault == UNCHANGED faults
Goes(r, at) == run' = [run EXCEPT ![r].at = at]
Ends(r) == run' = [run EXCEPT ![r] = Idle]

Publish ==
    /\ latest < Len(major)
    /\ latest' = latest + 1
    /\ UNCHANGED <<files, run, config, cron, daemon, history, setting>>

---------------------------------------------------------------------------
(* selfUpdate                                                               *)

\* A process reads its own version once, from the files it was started from;
\* the cron runs the command when its prompt has the step.
Start(r) ==
    /\ run[r].at = "idle" /\ sound
    /\ r = "cron" => job = "current"
    /\ run' = [run EXCEPT ![r] = [at |-> "ask", from |-> tree, to |-> 0]]
    /\ UNCHANGED <<latest, files, config, cron, daemon, history, setting>>

\* checkLatest: a failed query leaves what was known.
Checked(v) ==
    \/ NoFault /\ v = latest
    \/ Fault /\ v = known

\* The cron's run (--if-stale) stands down where the owner has to decide.
StandsDown(r, to) ==
    r = "cron" /\ (mode # "auto" \/ ~AutoUpdateAllowed(run[r].from, to))

Newer(r, to) == to > run[r].from

\* Neither a checkout, nor a package manager's root, nor one that this process
\* may not write is installed into, whoever asks: the run ends in an error.
SelfUpdatable == root = "own"

CheckLatest(r) ==
    /\ run[r].at = "ask"
    /\ \E v \in 0..latest :
         /\ Checked(v)
         /\ known' = v
         /\ IF Newer(r, v) /\ ~StandsDown(r, v) /\ SelfUpdatable
            THEN run' = [run EXCEPT ![r].at = "lock", ![r].to = v]
            ELSE Ends(r)
    /\ UNCHANGED <<latest, files, acked, cron, daemon, told, cuts, setting>>

\* slip: the lock is written over, not created
AcquireOver(r) ==
    /\ run[r].at = "lock"
    /\ lock' = "held" /\ Goes(r, "install")
    /\ UNCHANGED <<latest, tree, sound, config, cron, daemon, history, setting>>

\* acquireLock: exclusive creation, or a look at the age of the lock.
AcquireLock(r) ==
    /\ run[r].at = "lock"
    /\ CASE lock = "free" -> lock' = "held" /\ Goes(r, "install")
         [] lock = "held" -> Ends(r) /\ UNCHANGED lock
         [] lock = "old"  -> Goes(r, "takeover") /\ UNCHANGED lock
    /\ UNCHANGED <<latest, tree, sound, config, cron, daemon, history, setting>>

\* fs.rm of the lock that was old when it was looked at, whoever's it is now.
TakeOver(r) ==
    /\ run[r].at = "takeover"
    /\ lock' = "free" /\ Goes(r, "relock")
    /\ UNCHANGED <<latest, tree, sound, config, cron, daemon, history, setting>>

AcquireAgain(r) ==
    /\ run[r].at = "relock"
    /\ CASE lock = "free" -> lock' = "held" /\ Goes(r, "install")
         [] lock = "held" -> Ends(r) /\ UNCHANGED lock
         [] lock = "old"  -> Ends(r) /\ lock' = "free"
    /\ UNCHANGED <<latest, tree, sound, config, cron, daemon, history, setting>>

\* npm install: nothing of the tree asked again once the lock is there; a
\* build that npm unpacked may still not start.
Install(r) ==
    /\ run[r].at = "install"
    /\ \/ tree' = run[r].to /\ sound' = TRUE /\ Goes(r, "verify") /\ NoFault
       \/ tree' = run[r].to /\ sound' = FALSE /\ Goes(r, "verify") /\ Fault
       \/ UNCHANGED <<tree, sound>> /\ Goes(r, "release") /\ Fault
    /\ UNCHANGED <<latest, lock, config, cron, daemon, told, cuts, setting>>

\* The new build is asked for its version; a wrong answer is a failed update,
\* with the files left as they are.
Answers(r) == sound /\ tree = run[r].to

Verify(r) ==
    /\ run[r].at = "verify"
    /\ Goes(r, IF Answers(r) THEN "record" ELSE "release")
    /\ UNCHANGED <<latest, files, config, cron, daemon, history, setting>>

Record(r) ==
    /\ run[r].at = "record"
    /\ known' = run[r].to /\ Goes(r, "release")
    /\ UNCHANGED <<latest, files, acked, cron, daemon, history, setting>>

\* finally: fs.rm of the lock file, whoever's it is.
Release(r) ==
    /\ run[r].at = "release"
    /\ lock' = "free" /\ Ends(r)
    /\ UNCHANGED <<latest, tree, sound, config, cron, daemon, history, setting>>

CutRun(r) ==
    /\ run[r].at # "idle" /\ cuts < MaxCuts
    /\ Ends(r) /\ cuts' = cuts + 1
    /\ UNCHANGED <<latest, files, config, cron, daemon, told, faults, setting>>

\* A run is over in less than the fifteen minutes after which its lock is old.
Age ==
    /\ lock = "held" /\ \A r \in Runs : run[r].at \notin Holding
    /\ lock' = "old"
    /\ UNCHANGED <<latest, tree, sound, run, config, cron, daemon, history, setting>>

SelfUpdate(r) ==
    \/ CheckLatest(r) \/ AcquireLock(r) \/ TakeOver(r) \/ AcquireAgain(r)
    \/ Install(r) \/ Verify(r) \/ Record(r) \/ Release(r)

---------------------------------------------------------------------------
(* The daemon: its start with ensureNotifierCron, its update monitor        *)

\* A job with a prompt that cannot be read is left alone.
EnsureNotifierCron ==
    CASE scheduler = "agent" -> "up"
      [] scheduler # "agent" /\ job = "none" -> "create"
      [] scheduler = "readable" /\ job = "old" -> "remove"
      [] OTHER -> "up"

\* The scheduler's commands that list and show the jobs may fail: the daemon
\* goes on without.
DaemonStarts ==
    /\ daemon.at = "down" /\ sound
    /\ \/ /\ NoFault /\ UNCHANGED missed
          /\ daemon' = [runs |-> tree, at |-> EnsureNotifierCron]
       \/ /\ scheduler # "agent" /\ Fault /\ missed' = TRUE
          /\ daemon' = [runs |-> tree, at |-> "up"]
    /\ UNCHANGED <<latest, files, run, config, job, agent, told, cuts, setting>>

RemoveJob ==
    /\ daemon.at = "remove"
    /\ \/ NoFault /\ job' = "none" /\ daemon' = [daemon EXCEPT !.at = "create"] /\ UNCHANGED missed
       \/ Fault /\ daemon' = [daemon EXCEPT !.at = "up"] /\ missed' = TRUE /\ UNCHANGED job
    /\ UNCHANGED <<latest, files, run, config, agent, told, cuts, setting>>

CreateJob ==
    /\ daemon.at = "create"
    /\ \/ NoFault /\ job' = "current" /\ daemon' = [daemon EXCEPT !.at = "ack"] /\ UNCHANGED missed
       \/ Fault /\ daemon' = [daemon EXCEPT !.at = "up"] /\ missed' = TRUE /\ UNCHANGED job
    /\ UNCHANGED <<latest, files, run, config, agent, told, cuts, setting>>

AckPrompt ==
    /\ daemon.at = "ack"
    /\ daemon' = [daemon EXCEPT !.at = "up"] /\ acked' = TRUE
    /\ UNCHANGED <<latest, files, run, known, cron, history, setting>>

\* slip: only an older install counts
DriftedBehind == tree < daemon.runs
Drifted == tree # daemon.runs

DriftCheck ==
    /\ daemon.at \in {"ack", "up"} /\ Drifted /\ mode = "auto"
    /\ daemon' = [daemon EXCEPT !.at = "down"]
    /\ UNCHANGED <<latest, files, run, config, cron, history, setting>>

\* The monitor's own query of the registry, every six hours.
Watch ==
    /\ daemon.at = "up"
    /\ \E v \in 0..latest : Checked(v) /\ known' = v
    /\ UNCHANGED <<latest, files, run, acked, cron, daemon, told, cuts, setting>>

CutDaemon ==
    /\ daemon.at # "down" /\ cuts < MaxCuts
    /\ daemon' = [daemon EXCEPT !.at = "down"] /\ cuts' = cuts + 1
    /\ UNCHANGED <<latest, files, run, config, cron, told, faults, setting>>

---------------------------------------------------------------------------
(* The nudges on the commands that an owner or agent reads                  *)

\* slip: every jump is left to the cron
AutomaticAcross == mode = "auto"
\* The automatic path owns the jump.
Automatic == mode = "auto" /\ AutoUpdateAllowed(tree, known)

UpdateNudge ==
    /\ sound /\ mode # "off" /\ known > tree /\ ~Automatic
    /\ told' = known
    /\ UNCHANGED <<latest, files, run, config, cron, daemon, faults, cuts, setting>>

\* slip: a job that is there is taken for one that was migrated
NudgeOnce == scheduler = "agent" /\ ~acked /\ job = "none"
MayNudge == scheduler = "agent" /\ ~acked

NotifierNudge ==
    /\ sound /\ agent = "idle" /\ MayNudge
    /\ agent' = "told"
    /\ UNCHANGED <<latest, files, run, config, job, missed, daemon, history, setting>>

\* The agent's own tool updates the job; then it acks. It may drop the task.
Migrate ==
    /\ agent = "told" /\ agent' = "migrated" /\ job' = "current"
    /\ UNCHANGED <<latest, files, run, config, missed, daemon, history, setting>>

AgentAcks ==
    /\ agent = "migrated" /\ sound /\ agent' = "idle" /\ acked' = TRUE
    /\ UNCHANGED <<latest, files, run, known, job, missed, daemon, history, setting>>

AgentForgets ==
    /\ agent # "idle" /\ agent' = "idle" /\ Fault
    /\ UNCHANGED <<latest, files, run, config, job, missed, daemon, told, cuts, setting>>

---------------------------------------------------------------------------
Init ==
    /\ major \in MajorsOf
    /\ latest = 1 /\ tree = 1 /\ sound = TRUE /\ lock = "free"
    /\ run = [r \in Runs |-> Idle]
    /\ mode \in {"auto", "notify", "off"}
    /\ root \in Roots
    /\ scheduler \in Schedulers
    /\ job \in {"none", "old"}
    /\ known = 0 /\ acked = FALSE
    /\ daemon = [at |-> "down", runs |-> 0] /\ agent = "idle"
    /\ told = 0 /\ faults = 0 /\ cuts = 0 /\ missed = FALSE

Next ==
    \/ Publish \/ Age
    \/ \E r \in Runs : Start(r) \/ SelfUpdate(r) \/ CutRun(r)
    \/ DaemonStarts \/ RemoveJob \/ CreateJob \/ AckPrompt
    \/ DriftCheck \/ Watch \/ CutDaemon
    \/ UpdateNudge \/ NotifierNudge \/ Migrate \/ AgentAcks \/ AgentForgets

\* A process that runs goes on, the cron fires every twenty minutes, a lock
\* ages, the supervisor restarts the daemon, its timer fires, and somebody
\* reads the commands that carry the nudges and follows the notifier's.
\* Nobody need run self-update by hand.
Fairness ==
    /\ WF_vars(Start("cron")) /\ WF_vars(Age)
    /\ \A r \in Runs : WF_vars(SelfUpdate(r))
    /\ WF_vars(DaemonStarts) /\ WF_vars(DriftCheck) /\ WF_vars(Watch)
    /\ WF_vars(RemoveJob \/ CreateJob \/ AckPrompt)
    /\ WF_vars(UpdateNudge) /\ WF_vars(NotifierNudge) /\ WF_vars(Migrate \/ AgentAcks)

Spec == Init /\ [][Next]_vars /\ Fairness

---------------------------------------------------------------------------
\* No two runs are between the creation of the lock and its removal, as long
\* as no process died: then the lock of a dead run is old for both of them,
\* and each may remove the other's (acquireLock, finally).
InstallsAlone ==
    cuts = 0 =>
        \A r, s \in Runs : run[r].at \in Holding /\ run[s].at \in Holding => r = s

\* A run records an update as made only while the files in the install root
\* are the release it says and do start, although others install there too.
RecordsWhatRuns ==
    \A r \in Runs :
        cuts = 0 /\ run[r].at = "record" => sound /\ tree = run[r].to

\* With the automatic path open to the cron, the daemon comes to run the
\* release the registry names, unless the jump is the owner's to decide, a build that
\* does not start is in the tree, or the root is not for it to write.
ReleaseReachesDaemon ==
    mode = "auto" /\ job = "current" ~>
        \/ daemon.at = "up" /\ daemon.runs = latest
        \/ ~AutoUpdateAllowed(tree, latest) \/ ~sound \/ ~SelfUpdatable

\* An owner whose install stays behind because the jump is left to it is told
\* of the latest release, unless it has switched updates off.
OwnerIsNudged ==
    \/ mode = "notify" /\ tree < latest
    \/ mode = "auto" /\ ~AutoUpdateAllowed(tree, latest)
    ~> told = latest \/ tree = latest \/ ~sound

\* The notifier comes to run the current prompt, whoever keeps the schedule,
\* unless a command of the scheduler failed, or cannot show the prompt it has.
NotifierMigrates ==
    sound ~> \/ job = "current" \/ scheduler = "unreadable" \/ missed \/ ~sound
=============================================================================
