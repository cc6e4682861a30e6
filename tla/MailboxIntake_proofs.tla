------------------------ MODULE MailboxIntake_proofs ------------------------
(***************************************************************************)
(* Proofs about MailboxIntake, for any set of messages and any bounds:     *)
(* that nothing is lost but what a crash catches between the mark and the  *)
(* application, however many handlers overlap; and that nothing is applied *)
(* or notified twice as long as they do not: the client then implements    *)
(* Receipt.  What overlapping handlers repeat is bounded by the connections*)
(* that could offer it again.                                              *)
(*                                                                         *)
(* The second half is about Inbound, the way of an envelope from a relay or*)
(* the mailbox through the inbound limits to the support inbox: that every *)
(* envelope is accounted for, that the limits hold but for what overlapping*)
(* handlers overwrite and exactly when handlers do not overlap, and that   *)
(* the inbox makes room in its order.  InInv holds the drains, the hits    *)
(* and the uses, BoxInv the support inbox.                                 *)
(***************************************************************************)
EXTENDS MailboxIntake, Inbound, Integers, FiniteSetTheorems, TLAPS

(* What became of an envelope the client need not see again.               *)
Settled(m) == m \in Refused \/ applied[m] > 0 \/ m \in Applying \cup orphaned

(* Only settled envelopes leave the host, are marked on disk, are in a copy*)
(* a handler will write back, or are about to be acked.                    *)
LossInv ==
    /\ \A m \in Messages \ queue : Settled(m)
    /\ \A m \in seen : Settled(m)
    /\ \A s \in Slots : At(s, "mark") => \A m \in job[s].snap : Settled(m)
    /\ \A s \in Slots : At(s, "ack") => Settled(job[s].msg)

(* With one handler at a time, the copy it writes back is the file, so no  *)
(* mark is ever undone and an envelope is marked before it is applied.     *)
Serial == \A s, t \in Slots : s = t

OnceInv ==
    /\ \A m \in Messages :
          /\ applied[m] <= 1 /\ notified[m] <= 1
          /\ applied[m] > 0 => m \in seen
          /\ notified[m] > 0 => applied[m] > 0
    /\ \A s \in Slots :
          /\ job[s].step \in {"idle", "verify", "mark", "apply"} => ~job[s].ok
          /\ At(s, "mark") => job[s].snap = seen /\ job[s].msg \notin seen
          /\ At(s, "apply") => job[s].msg \in seen /\ applied[job[s].msg] = 0
          /\ (At(s, "ack") /\ job[s].ok) \/ At(s, "notify") \/ At(s, "run")
                => applied[job[s].msg] > 0 /\ notified[job[s].msg] = 0

-----------------------------------------------------------------------------
(* Type correctness.                                                       *)

LEMMA IdleJob == Idle \in Job /\ Idle.step = "idle" /\ Idle.msg = NoMessage
BY DEF Idle, Job, Steps

(* A handler's job after an update of some of its fields.                  *)
LEMMA JobParts ==
    ASSUME TypeOK, NEW s \in Slots
    PROVE  /\ job[s] \in Job
           /\ job[s].step \in Steps /\ job[s].ok \in BOOLEAN
           /\ job[s].snap \subseteq Messages
           /\ ~At(s, "idle") => job[s].msg \in Messages
BY DEF TypeOK, Job, At

LEMMA JobChange ==
    ASSUME TypeOK, NEW s \in Slots, NEW j \in Job,
           j.step = "idle" <=> j.msg = NoMessage,
           job' = [job EXCEPT ![s] = j]
    PROVE  /\ job' \in [Slots -> Job]
           /\ \A t \in Slots : At(t, "idle")' <=> job'[t].msg = NoMessage
           /\ job'[s] = j
           /\ \A t \in Slots : t # s => job'[t] = job[t]
BY DEF TypeOK, At

LEMMA GotoChange ==
    ASSUME TypeOK, NEW s \in Slots, NEW step \in Steps \ {"idle"},
           ~At(s, "idle"), Goto(s, step)
    PROVE  /\ job' \in [Slots -> Job]
           /\ \A t \in Slots : At(t, "idle")' <=> job'[t].msg = NoMessage
           /\ \A t \in Slots : t # s => job'[t] = job[t]
           /\ job'[s].step = step /\ job'[s].msg = job[s].msg
           /\ job'[s].snap = job[s].snap /\ job'[s].ok = job[s].ok
<1> DEFINE j == [job[s] EXCEPT !.step = step]
<1>1. /\ j \in Job /\ j.step = step /\ j.msg = job[s].msg
      /\ j.snap = job[s].snap /\ j.ok = job[s].ok
    BY JobParts DEF Job
<1>2. job' = [job EXCEPT ![s] = j]
    BY DEF Goto
<1>3. j.msg # NoMessage
    BY <1>1, JobParts, MessagesAssumption
<1> HIDE DEF j
<1> QED BY <1>1, <1>2, <1>3, JobChange

LEMMA FinishChange ==
    ASSUME TypeOK, NEW s \in Slots, Finish(s)
    PROVE  /\ job' \in [Slots -> Job]
           /\ \A t \in Slots : At(t, "idle")' <=> job'[t].msg = NoMessage
           /\ \A t \in Slots : t # s => job'[t] = job[t]
           /\ job'[s] = Idle
BY IdleJob, JobChange DEF Finish

LEMMA AllIdle ==
    ASSUME job' = [s \in Slots |-> Idle]
    PROVE  /\ job' \in [Slots -> Job]
           /\ \A t \in Slots : job'[t] = Idle
           /\ \A t \in Slots : At(t, "idle")' <=> job'[t].msg = NoMessage
           /\ Applying' = {}
BY IdleJob DEF At, Applying

LEMMA SnapChange ==
    ASSUME TypeOK, NEW s \in Slots, NEW step \in Steps \ {"idle"},
           NEW snap \in SUBSET Messages, ~At(s, "idle"),
           job' = [job EXCEPT ![s].step = step, ![s].snap = snap]
    PROVE  /\ job' \in [Slots -> Job]
           /\ \A t \in Slots : At(t, "idle")' <=> job'[t].msg = NoMessage
           /\ \A t \in Slots : t # s => job'[t] = job[t]
           /\ job'[s].step = step /\ job'[s].msg = job[s].msg
           /\ job'[s].snap = snap /\ job'[s].ok = job[s].ok
<1> DEFINE j == [job[s] EXCEPT !.step = step, !.snap = snap]
<1>1. /\ j \in Job /\ j.step = step /\ j.msg = job[s].msg
      /\ j.snap = snap /\ j.ok = job[s].ok
    BY JobParts DEF Job
<1>2. job' = [job EXCEPT ![s] = j]
    OBVIOUS
<1>3. j.msg # NoMessage
    BY <1>1, JobParts, MessagesAssumption
<1> HIDE DEF j
<1> QED BY <1>1, <1>2, <1>3, JobChange

LEMMA DeliverChange ==
    ASSUME TypeOK, NEW s \in Slots, NEW m \in Messages, Deliver(s, m)
    PROVE  /\ job' \in [Slots -> Job]
           /\ \A t \in Slots : At(t, "idle")' <=> job'[t].msg = NoMessage
           /\ \A t \in Slots : t # s => job'[t] = job[t]
           /\ job'[s].step = "verify" /\ job'[s].msg = m
           /\ job'[s].ok = job[s].ok
<1> DEFINE j == [job[s] EXCEPT !.step = "verify", !.msg = m]
<1>1. j \in Job /\ j.step = "verify" /\ j.msg = m /\ j.ok = job[s].ok
    BY JobParts DEF Job, Steps
<1>2. job' = [job EXCEPT ![s] = j]
    BY DEF Deliver
<1>3. j.msg # NoMessage
    BY <1>1, MessagesAssumption
<1> HIDE DEF j
<1> QED BY <1>1, <1>2, <1>3, JobChange

LEMMA ApplyChange ==
    ASSUME TypeOK, NEW s \in Slots, Apply(s)
    PROVE  /\ job' \in [Slots -> Job]
           /\ \A t \in Slots : At(t, "idle")' <=> job'[t].msg = NoMessage
           /\ \A t \in Slots : t # s => job'[t] = job[t]
           /\ job'[s].step = "ack" /\ job'[s].msg = job[s].msg
           /\ job'[s].ok <=> job[s].msg \notin Refused
<1> DEFINE accepted == job[s].msg \notin Refused
           j == [job[s] EXCEPT !.step = "ack", !.ok = accepted]
<1>1. accepted \in BOOLEAN
    OBVIOUS
<1>2. /\ j \in Job /\ j.step = "ack" /\ j.msg = job[s].msg
      /\ j.ok <=> job[s].msg \notin Refused
    BY <1>1, JobParts DEF Job, Steps
<1>3. job' = [job EXCEPT ![s] = j] /\ ~At(s, "idle")
    BY DEF Apply, At
<1>4. j.msg # NoMessage
    BY <1>2, <1>3, JobParts, MessagesAssumption
<1> HIDE DEF j, accepted
<1> QED BY <1>2, <1>3, <1>4, JobChange

LEMMA CrashTypeOK == ASSUME TypeOK, Crash PROVE TypeOK'
<1>1. Applying \subseteq Messages
    BY JobParts DEF Applying, At
<1> QED BY <1>1, AllIdle DEF TypeOK, Crash, Links, host, files, telling

(* Every step of a handler keeps the files and the handlers well typed.    *)
LEMMA HandlerTypeOK ==
    ASSUME TypeOK, NEW s \in Slots, HandlerStep(s)
    PROVE  TypeOK'
<1> USE DEF host, files, history, faults, telling
<1>1. \A step \in Steps : At(s, step) /\ step # "idle" => ~At(s, "idle")
    BY DEF At
<1>2. CASE Verify(s)
    <2>1. /\ job' \in [Slots -> Job]
          /\ \A t \in Slots : At(t, "idle")' <=> job'[t].msg = NoMessage
        <3>1. ~At(s, "idle") /\ seen \in SUBSET Messages
            BY <1>2 DEF Verify, At, TypeOK
        <3>2. {"ack", "mark"} \subseteq Steps \ {"idle"}
            BY DEF Steps
        <3> QED BY <1>2, <3>1, <3>2, GotoChange, SnapChange DEF Verify
    <2> QED BY <1>2, <2>1 DEF Verify, TypeOK
<1>3. CASE Mark(s)
    <2>1. ~At(s, "idle") /\ "apply" \in Steps \ {"idle"}
        BY <1>3 DEF Mark, At, Steps
    <2>2. seen' \subseteq Messages
        BY <1>3, <2>1, JobParts DEF Mark
    <2> QED BY <1>3, <2>1, <2>2, GotoChange DEF Mark, TypeOK
<1>4. CASE Apply(s)
    <2>1. job[s].msg \in Messages
        BY <1>4, JobParts DEF Apply, At
    <2>2. applied' \in [Messages -> Nat]
        <3>1. CASE applied' = applied
            BY <3>1 DEF TypeOK
        <3>2. CASE applied' = [applied EXCEPT ![job[s].msg] = @ + 1]
            BY <2>1, <3>2 DEF TypeOK
        <3> QED BY <1>4, <3>1, <3>2 DEF Apply
    <2> QED BY <1>4, <2>2, ApplyChange DEF Apply, TypeOK
<1>5. CASE Ack(s)
    <2>1. ~At(s, "idle") /\ "notify" \in Steps \ {"idle"}
        BY <1>5 DEF Ack, At, Steps
    <2>2. queue' \subseteq Messages
        BY <1>5 DEF Ack, TypeOK
    <2> QED BY <1>5, <2>1, <2>2, GotoChange, FinishChange
            DEF Ack, AfterAck, TypeOK
<1>6. CASE AckOnConnecting(s)
    BY <1>6, CrashTypeOK DEF AckOnConnecting
<1>7. CASE Notify(s)
    <2>1. ~At(s, "idle") /\ "run" \in Steps \ {"idle"}
        BY <1>7 DEF Notify, At, Steps
    <2> QED BY <1>7, <2>1, GotoChange, FinishChange DEF Notify, TypeOK
<1>8. CASE RunCommand(s)
    <2>1. ~At(s, "idle") /\ "record" \in Steps \ {"idle"}
        BY <1>8 DEF RunCommand, At, Steps
    <2>2. notified' \in [Messages -> Nat]
        <3>1. job[s].msg \in Messages
            BY <2>1, JobParts
        <3>2. notified' = [notified EXCEPT ![job[s].msg] = @ + 1]
            BY <1>8 DEF RunCommand
        <3> QED BY <3>1, <3>2 DEF TypeOK
    <2> QED BY <1>8, <2>1, <2>2, GotoChange DEF RunCommand, TypeOK
<1>9. CASE FailCommand(s)
    <2>1. failed' \subseteq Messages
        BY <1>9, JobParts DEF FailCommand, TypeOK, At
    <2> QED BY <1>9, <2>1, FinishChange DEF FailCommand, TypeOK
<1>10. CASE Record(s)
    <2>1. /\ ~At(s, "idle") /\ {"store", "stamp"} \subseteq Steps \ {"idle"}
          /\ ledger \in SUBSET Messages
        BY <1>10 DEF Record, At, Steps, TypeOK
    <2> QED BY <1>10, <2>1, SnapChange, GotoChange DEF Record, TypeOK
<1>11. CASE Store(s)
    <2>1. /\ ledger' \subseteq Messages
          /\ ~At(s, "idle") /\ "stamp" \in Steps \ {"idle"}
        BY <1>11, JobParts DEF Store, At, Steps
    <2> QED BY <1>11, <2>1, GotoChange DEF Store, TypeOK
<1>12. CASE Stamp(s)
    <2>1. stamped' \subseteq Messages
        BY <1>12, JobParts DEF Stamp, At, TypeOK
    <2> QED BY <1>12, <2>1, FinishChange DEF Stamp, TypeOK
<1> QED BY <1>2, <1>3, <1>4, <1>5, <1>6, <1>7, <1>8, <1>9, <1>10, <1>11,
           <1>12
        DEF HandlerStep

(* The steps of the cron look at the stores and leave the handlers alone.  *)
CronChange ==
    /\ UNCHANGED <<queue, offered, link, seen, ledger, job, applied, notified,
                   orphaned, failed, drops, crashes>>
    /\ stamped' \subseteq Messages /\ told' \subseteq Messages
    /\ untold' \subseteq Messages /\ cuts' \in Nat
    /\ cron' \in [listed : SUBSET Messages, todo : SUBSET Messages]
    /\ cron'.todo \subseteq cron'.listed

LEMMA CronChanges == ASSUME TypeOK, CronStep \/ CutCron PROVE CronChange
<1> USE DEF host, files, history, faults, CronChange
<1>1. CASE CronLists
    BY <1>1 DEF CronLists, TypeOK
<1>2. ASSUME NEW m \in Messages, CronMarks(m)
      PROVE  CronChange
    BY <1>2 DEF CronMarks, TypeOK
<1>3. CASE CronReplies
    BY <1>3 DEF CronReplies, NoCron, TypeOK
<1>4. CASE CutCron
    BY <1>4 DEF CutCron, NoCron, TypeOK, BoundsAssumption
<1> QED BY <1>1, <1>2, <1>3, <1>4 DEF CronStep

LEMMA InitTypeOK == Init => TypeOK
BY IdleJob DEF Init, TypeOK, Links, At, NoCron

LEMMA NextTypeOK == TypeOK /\ [Next]_vars => TypeOK'
<1> SUFFICES ASSUME TypeOK, [Next]_vars PROVE TypeOK'
    OBVIOUS
<1> USE DEF host, files, history, faults, telling
<1>1. CASE Connect
    BY <1>1 DEF Connect, TypeOK, Links, At
<1>2. CASE Open
    BY <1>2 DEF Open, TypeOK, Links, At
<1>3. CASE Close
    BY <1>3 DEF Close, TypeOK, Links, At
<1>4. CASE Crash
    BY <1>4, CrashTypeOK
<1>5. ASSUME NEW s \in Slots, NEW m \in Messages, Deliver(s, m)
      PROVE  TypeOK'
    BY <1>5, DeliverChange DEF Deliver, TypeOK
<1>6. ASSUME NEW s \in Slots, HandlerStep(s)
      PROVE  TypeOK'
    BY <1>6, HandlerTypeOK
<1>7. CASE UNCHANGED vars
    BY <1>7 DEF vars, TypeOK, At
<1>8. CASE CronStep \/ CutCron
    BY <1>8, CronChanges DEF CronChange, TypeOK, At
<1> QED BY <1>1, <1>2, <1>3, <1>4, <1>5, <1>6, <1>7, <1>8 DEF Next

(* The host, the files and the handlers keep the shape the code gives them.*)
THEOREM TypeCorrect == Spec => []TypeOK
BY InitTypeOK, NextTypeOK, PTL DEF Spec

-----------------------------------------------------------------------------
(* Nothing is lost.                                                        *)

(* A settled envelope stays settled: applying it counts it, and a crash    *)
(* hands it over to orphaned.                                              *)
LEMMA KeptWhenNotApplying ==
    ASSUME NEW s \in Slots, ~At(s, "apply"),
           \A t \in Slots : t # s => job'[t] = job[t],
           applied' = applied, orphaned' = orphaned
    PROVE  \A m \in Messages : Settled(m) => Settled(m)'
<1>1. Applying \subseteq Applying'
    <2> SUFFICES ASSUME NEW t \in Slots, At(t, "apply")
                 PROVE  job[t].msg \in Applying'
        BY DEF Applying
    <2>1. job'[t] = job[t]
        BY DEF At
    <2> QED BY <2>1 DEF Applying, At
<1> QED BY <1>1 DEF Settled

LEMMA KeptByApply ==
    ASSUME TypeOK, NEW s \in Slots, Apply(s)
    PROVE  \A m \in Messages : Settled(m) => Settled(m)'
<1> DEFINE n == job[s].msg
<1>1. n \in Messages
    BY JobParts DEF Apply, At
<1>2. n \in Refused \/ applied' = [applied EXCEPT ![n] = @ + 1]
    BY DEF Apply
<1>3. n \notin Refused => applied'[n] > 0
    BY <1>1, <1>2 DEF TypeOK
<1>4. \A m \in Messages \ {n} : applied'[m] = applied[m]
    BY DEF Apply, TypeOK
<1>5. Applying \subseteq Applying' \cup {n}
    <2> SUFFICES ASSUME NEW t \in Slots, At(t, "apply"), t # s
                 PROVE  job[t].msg \in Applying'
        BY DEF Applying
    <2>1. job'[t] = job[t]
        BY ApplyChange
    <2> QED BY <2>1 DEF Applying, At
<1>6. orphaned' = orphaned
    BY DEF Apply
<1>7. ASSUME NEW m \in Messages, m = n PROVE Settled(m)'
    BY <1>3, <1>7 DEF Settled
<1> HIDE DEF n
<1>8. ASSUME NEW m \in Messages, Settled(m), m # n PROVE Settled(m)'
    BY <1>4, <1>5, <1>6, <1>8 DEF Settled
<1> QED BY <1>7, <1>8

LEMMA KeptByCrash ==
    ASSUME Crash PROVE \A m \in Messages : Settled(m) => Settled(m)'
<1>1. applied' = applied /\ orphaned' = orphaned \cup Applying
    BY DEF Crash
<1> QED BY <1>1 DEF Settled

(* A handler's step keeps LossInv if what it lets go, marks or copies is   *)
(* settled.                                                                *)
LEMMA LossStep ==
    ASSUME TypeOK, LossInv,
           \A m \in Messages : Settled(m) => Settled(m)',
           NEW s \in Slots,
           \A t \in Slots : t # s => job'[t] = job[t],
           \A m \in Messages \cap (queue \ queue') : Settled(m)',
           \A m \in seen' \ seen : Settled(m)',
           At(s, "mark")' => \A m \in job'[s].snap : Settled(m)',
           At(s, "ack")' => Settled(job[s].msg)'
    PROVE  LossInv'
<1>1. \A m \in Messages \ queue' : Settled(m)'
    BY DEF LossInv
<1>2. \A m \in seen' : Settled(m)'
    BY DEF LossInv, TypeOK
<1>3. ASSUME NEW t \in Slots, At(t, "mark")'
      PROVE  \A m \in job'[t].snap : Settled(m)'
    <2>1. CASE t = s
        BY <1>3, <2>1
    <2>2. CASE t # s
        <3>1. job'[t] = job[t] /\ At(t, "mark")
            BY <1>3, <2>2 DEF At
        <3>2. \A m \in job[t].snap : m \in Messages /\ Settled(m)
            BY <3>1, JobParts DEF LossInv
        <3> QED BY <3>1, <3>2
    <2> QED BY <2>1, <2>2
<1>4. ASSUME NEW t \in Slots, At(t, "ack")'
      PROVE  Settled(job[t].msg)'
    <2>1. CASE t = s
        BY <1>4, <2>1
    <2>2. CASE t # s
        <3>1. job'[t] = job[t] /\ At(t, "ack") /\ ~At(t, "idle")
            BY <1>4, <2>2 DEF At
        <3>2. job[t].msg \in Messages /\ Settled(job[t].msg)
            BY <3>1, JobParts DEF LossInv
        <3>3. Settled(job[t].msg)' <=>
                  \/ job[t].msg \in Refused \/ applied'[job[t].msg] > 0
                  \/ job[t].msg \in Applying' \cup orphaned'
            BY <3>1 DEF Settled
        <3>4. \A m \in Messages : Settled(m) =>
                  m \in Refused \/ applied'[m] > 0
                      \/ m \in Applying' \cup orphaned'
            BY DEF Settled
        <3> QED BY <3>2, <3>3, <3>4
    <2> QED BY <2>1, <2>2
<1> QED BY <1>1, <1>2, <1>3, <1>4 DEF LossInv

LEMMA CrashLoses == ASSUME TypeOK, LossInv, Crash PROVE LossInv'
<1>1. \A m \in Messages : Settled(m) => Settled(m)'
    BY KeptByCrash
<1>2. \A s \in Slots : ~At(s, "mark")' /\ ~At(s, "ack")'
    BY AllIdle, IdleJob DEF Crash, At
<1> QED BY <1>1, <1>2 DEF LossInv, Crash, TypeOK, host, files

LEMMA HandlerLoses ==
    ASSUME TypeOK, LossInv, NEW s \in Slots, HandlerStep(s)
    PROVE  LossInv'
<1> USE DEF host, files, history, faults, telling
<1>0. \A step \in Steps : At(s, step) /\ step # "idle" => ~At(s, "idle")
    BY DEF At
<1>1. CASE Verify(s)
    <2>1. /\ ~At(s, "idle") /\ ~At(s, "apply") /\ seen \in SUBSET Messages
          /\ {"ack", "mark"} \subseteq Steps \ {"idle"}
        BY <1>1 DEF Verify, At, TypeOK, Steps
    <2>2. /\ \A t \in Slots : t # s => job'[t] = job[t]
          /\ job'[s].msg = job[s].msg
          /\ At(s, "ack")' => job[s].msg \in seen \cup Refused
          /\ At(s, "mark")' => job'[s].snap = seen
        <3>1. CASE job[s].msg \in seen \cup Refused /\ Goto(s, "ack")
            BY <2>1, <3>1, GotoChange DEF At
        <3>2. CASE job' = [job EXCEPT ![s].step = "mark", ![s].snap = seen]
            <4>1. "mark" \in Steps \ {"idle"} /\ seen \in SUBSET Messages
                BY <2>1
            <4>2. /\ \A t \in Slots : t # s => job'[t] = job[t]
                  /\ job'[s].msg = job[s].msg /\ job'[s].step = "mark"
                  /\ job'[s].snap = seen
                BY <2>1, <3>2, <4>1, SnapChange
            <4> QED BY <4>2 DEF At
        <3> QED BY <1>1, <3>1, <3>2 DEF Verify
    <2>3. \A m \in Messages : Settled(m) => Settled(m)'
        BY <1>1, <2>1, <2>2, KeptWhenNotApplying DEF Verify
    <2>4. At(s, "ack")' => Settled(job[s].msg)'
        <3> SUFFICES ASSUME At(s, "ack")' PROVE Settled(job[s].msg)'
            OBVIOUS
        <3>1. job[s].msg \in Messages
            BY <2>1, JobParts
        <3>2. PICK m \in Messages : m = job[s].msg
            BY <3>1
        <3>3. Settled(m)
            BY <2>2, <3>2 DEF LossInv, Settled
        <3>4. Settled(m)' /\ job'[s].msg = m
            BY <2>2, <2>3, <3>2, <3>3
        <3> QED BY <3>4 DEF Settled
    <2>5. At(s, "mark")' => \A m \in job'[s].snap : Settled(m)'
        BY <2>1, <2>2, <2>3 DEF LossInv
    <2> QED BY <1>1, <2>2, <2>3, <2>4, <2>5, LossStep DEF Verify
<1>2. CASE Mark(s)
    <2>1. /\ ~At(s, "idle") /\ ~At(s, "apply") /\ At(s, "mark")
          /\ "apply" \in Steps \ {"idle"}
        BY <1>2 DEF Mark, At, Steps
    <2>2. /\ \A t \in Slots : t # s => job'[t] = job[t]
          /\ job'[s].msg = job[s].msg /\ job'[s].step = "apply"
        BY <1>2, <2>1, GotoChange DEF Mark
    <2>3. \A m \in Messages : Settled(m) => Settled(m)'
        BY <1>2, <2>1, <2>2, KeptWhenNotApplying DEF Mark
    <2>4. job[s].msg \in Applying'
        BY <2>2 DEF Applying, At
    <2>5. ASSUME NEW m \in seen' \ seen PROVE Settled(m)'
        <3>1. CASE m = job[s].msg
            BY <2>4, <3>1 DEF Settled
        <3>2. CASE m \in job[s].snap
            BY <2>1, <2>3, <3>2, JobParts DEF LossInv
        <3> QED BY <1>2, <3>1, <3>2 DEF Mark
    <2>6. ~At(s, "mark")' /\ ~At(s, "ack")'
        BY <2>2 DEF At
    <2> QED BY <1>2, <2>2, <2>3, <2>5, <2>6, LossStep DEF Mark
<1>3. CASE Apply(s)
    <2>1. /\ \A t \in Slots : t # s => job'[t] = job[t]
          /\ job'[s].msg = job[s].msg /\ job'[s].step = "ack"
          /\ job[s].msg \in Messages
        BY <1>3, ApplyChange, JobParts DEF Apply, At
    <2>2. \A m \in Messages : Settled(m) => Settled(m)'
        BY <1>3, KeptByApply
    <2>3. Settled(job[s].msg)'
        <3>1. PICK m \in Messages : m = job[s].msg /\ m = job'[s].msg
            BY <2>1
        <3>2. m \in Applying
            BY <1>3, <3>1 DEF Applying, Apply
        <3>3. Settled(m)'
            BY <2>2, <3>2 DEF Settled
        <3> QED BY <3>1, <3>3 DEF Settled
    <2>4. ~At(s, "mark")'
        BY <2>1 DEF At
    <2> QED BY <1>3, <2>1, <2>2, <2>3, <2>4, LossStep DEF Apply
<1>4. CASE Ack(s)
    <2>1. /\ ~At(s, "idle") /\ ~At(s, "apply") /\ At(s, "ack")
          /\ "notify" \in Steps \ {"idle"}
        BY <1>4 DEF Ack, At, Steps
    <2>2. /\ \A t \in Slots : t # s => job'[t] = job[t]
          /\ job'[s].step \in {"notify", "idle"}
        BY <1>4, <2>1, GotoChange, FinishChange, IdleJob DEF Ack, AfterAck
    <2>3. \A m \in Messages : Settled(m) => Settled(m)'
        BY <1>4, <2>1, <2>2, KeptWhenNotApplying DEF Ack
    <2>4. ASSUME NEW m \in Messages \cap (queue \ queue') PROVE Settled(m)'
        <3>1. m = job[s].msg
            BY <1>4 DEF Ack
        <3>2. Settled(m)
            BY <2>1, <3>1 DEF LossInv
        <3> QED BY <2>3, <3>2
    <2>5. ~At(s, "mark")' /\ ~At(s, "ack")'
        BY <2>2 DEF At
    <2> QED BY <1>4, <2>2, <2>3, <2>4, <2>5, LossStep DEF Ack
<1>5. CASE AckOnConnecting(s)
    BY <1>5, CrashLoses DEF AckOnConnecting
<1>6. CASE Notify(s) \/ RunCommand(s) \/ FailCommand(s) \/ Record(s)
              \/ Store(s) \/ Stamp(s)
    <2>1. /\ ~At(s, "idle") /\ ~At(s, "apply")
          /\ {"run", "record", "stamp"} \subseteq Steps \ {"idle"}
        BY <1>6 DEF Notify, RunCommand, FailCommand, Record, Store, Stamp, At,
                    Steps
    <2>2. /\ \A t \in Slots : t # s => job'[t] = job[t]
          /\ job'[s].step \in {"run", "record", "store", "stamp", "idle"}
        <3>1. CASE Finish(s)
            BY <3>1, FinishChange, IdleJob
        <3>2. CASE Goto(s, "run") \/ Goto(s, "record") \/ Goto(s, "stamp")
            BY <2>1, <3>2, GotoChange
        <3>3. CASE job' = [job EXCEPT ![s].step = "store", ![s].snap = ledger]
            <4>1. "store" \in Steps \ {"idle"} /\ ledger \in SUBSET Messages
                BY DEF Steps, TypeOK
            <4> QED BY <2>1, <3>3, <4>1, SnapChange
        <3> QED BY <1>6, <3>1, <3>2, <3>3
                DEF Notify, RunCommand, FailCommand, Record, Store, Stamp
    <2>3. applied' = applied /\ orphaned' = orphaned /\ queue' = queue
          /\ seen' = seen
        BY <1>6 DEF Notify, RunCommand, FailCommand, Record, Store, Stamp
    <2>4. \A m \in Messages : Settled(m) => Settled(m)'
        BY <2>1, <2>2, <2>3, KeptWhenNotApplying
    <2>5. ~At(s, "mark")' /\ ~At(s, "ack")'
        BY <2>2 DEF At
    <2> QED BY <2>2, <2>3, <2>4, <2>5, LossStep
<1> QED BY <1>1, <1>2, <1>3, <1>4, <1>5, <1>6 DEF HandlerStep

LEMMA NextLoses == TypeOK /\ LossInv /\ [Next]_vars => LossInv'
<1> SUFFICES ASSUME TypeOK, LossInv, [Next]_vars PROVE LossInv'
    OBVIOUS
<1> USE DEF host, files, history, faults, telling
<1>1. CASE Connect \/ Open \/ Close \/ UNCHANGED vars
    BY <1>1 DEF Connect, Open, Close, vars, LossInv, Settled, Applying, At
<1>2. CASE Crash
    BY <1>2, CrashLoses
<1>3. ASSUME NEW s \in Slots, NEW m \in Messages, Deliver(s, m)
      PROVE  LossInv'
    <2>1. ~At(s, "apply") /\ ~At(s, "mark")' /\ ~At(s, "ack")'
        BY <1>3, DeliverChange DEF Deliver, At
    <2>2. \A n \in Messages : Settled(n) => Settled(n)'
        BY <1>3, <2>1, DeliverChange, KeptWhenNotApplying DEF Deliver
    <2> QED BY <1>3, <2>1, <2>2, DeliverChange, LossStep DEF Deliver
<1>4. ASSUME NEW s \in Slots, HandlerStep(s)
      PROVE  LossInv'
    BY <1>4, HandlerLoses
<1>5. CASE CronStep \/ CutCron
    BY <1>5, CronChanges
       DEF CronChange, LossInv, Settled, Applying, At
<1> QED BY <1>1, <1>2, <1>3, <1>4, <1>5 DEF Next

(* An envelope the client accepts is never lost but to a crash between its *)
(* mark and its application, whatever handlers overlap.                    *)
THEOREM NothingIsLost == Spec => []NothingLost
<1>1. Init => LossInv
    BY IdleJob DEF Init, LossInv, At
<1>2. LossInv => NothingLost
    BY DEF LossInv, NothingLost, Settled
<1> QED BY <1>1, <1>2, InitTypeOK, NextTypeOK, NextLoses, PTL DEF Spec

-----------------------------------------------------------------------------
(* Nothing is applied or notified twice by a client whose handlers do not  *)
(* overlap.                                                                *)

(* What OnceInv says of one handler.                                       *)
OnceAt(s) ==
    /\ job[s].step \in {"idle", "verify", "mark", "apply"} => ~job[s].ok
    /\ At(s, "mark") => job[s].snap = seen /\ job[s].msg \notin seen
    /\ At(s, "apply") => job[s].msg \in seen /\ applied[job[s].msg] = 0
    /\ (At(s, "ack") /\ job[s].ok) \/ At(s, "notify") \/ At(s, "run")
          => applied[job[s].msg] > 0 /\ notified[job[s].msg] = 0

OnceOf(m) ==
    /\ applied[m] <= 1 /\ notified[m] <= 1
    /\ applied[m] > 0 => m \in seen
    /\ notified[m] > 0 => applied[m] > 0

LEMMA OnceParts ==
    OnceInv <=> (\A m \in Messages : OnceOf(m)) /\ (\A s \in Slots : OnceAt(s))
BY DEF OnceInv, OnceOf, OnceAt

LEMMA CrashOnce == ASSUME OnceInv, Crash PROVE OnceInv'
<1>1. \A m \in Messages : OnceOf(m)'
    BY OnceParts DEF OnceOf, Crash, files
<1>2. \A s \in Slots : OnceAt(s)'
    BY AllIdle, IdleJob DEF Crash, OnceAt, At, Idle
<1> QED BY <1>1, <1>2 DEF OnceInv, OnceOf, OnceAt

LEMMA HandlerOnce ==
    ASSUME Serial, TypeOK, OnceInv, NEW s \in Slots, HandlerStep(s)
    PROVE  OnceInv'
<1> USE DEF host, files, history, faults, telling
<1>0. /\ \A t \in Slots : t = s
      /\ OnceAt(s) /\ \A m \in Messages : OnceOf(m)
    BY OnceParts DEF Serial
<1>1. SUFFICES (\A m \in Messages : OnceOf(m)') /\ OnceAt(s)'
    BY <1>0 DEF OnceInv, OnceOf, OnceAt
<1>2. CASE Verify(s)
    <2>1. /\ ~At(s, "idle") /\ seen \in SUBSET Messages /\ ~job[s].ok
          /\ "ack" \in Steps \ {"idle"} /\ "mark" \in Steps \ {"idle"}
        BY <1>0, <1>2 DEF Verify, At, TypeOK, Steps, OnceAt
    <2>2. UNCHANGED <<seen, applied, notified>>
        BY <1>2 DEF Verify
    <2>3. OnceAt(s)'
        <3>1. CASE Goto(s, "ack")
            BY <2>1, <3>1, GotoChange DEF OnceAt, At
        <3>2. CASE /\ job[s].msg \notin seen
                   /\ job' = [job EXCEPT ![s].step = "mark", ![s].snap = seen]
            <4>1. /\ ~At(s, "idle") /\ "mark" \in Steps \ {"idle"}
                  /\ seen \in SUBSET Messages
                BY <2>1
            <4>2. /\ job'[s].step = "mark" /\ job'[s].msg = job[s].msg
                  /\ job'[s].snap = seen /\ job'[s].ok = job[s].ok
                BY <3>2, <4>1, SnapChange
            <4>3. ~job'[s].ok
                BY <2>1, <4>2, Zenon
            <4> QED BY <2>2, <3>2, <4>2, <4>3 DEF OnceAt, At
        <3> QED BY <1>2, <3>1, <3>2 DEF Verify
    <2> QED BY <1>0, <2>2, <2>3 DEF OnceOf
<1>3. CASE Mark(s)
    <2>1. /\ ~At(s, "idle") /\ At(s, "mark") /\ ~job[s].ok
          /\ "apply" \in Steps \ {"idle"} /\ job[s].msg \in Messages
          /\ job[s].msg \notin seen /\ seen' = seen \cup {job[s].msg}
        BY <1>0, <1>3, JobParts DEF Mark, At, Steps, OnceAt
    <2>2. UNCHANGED <<applied, notified>>
        BY <1>3 DEF Mark
    <2>3. applied[job[s].msg] = 0
        BY <1>0, <2>1 DEF OnceOf, TypeOK
    <2>4. /\ job'[s].step = "apply" /\ job'[s].msg = job[s].msg
          /\ ~job'[s].ok
        BY <1>3, <2>1, GotoChange DEF Mark
    <2>5. OnceAt(s)'
        BY <2>1, <2>2, <2>3, <2>4 DEF OnceAt, At
    <2> QED BY <1>0, <2>1, <2>2, <2>5 DEF OnceOf
<1>4. CASE Apply(s)
    <2> DEFINE n == job[s].msg
    <2>1. /\ n \in Messages /\ n \in seen /\ applied[n] = 0
          /\ notified[n] = 0
        BY <1>0, <1>4, JobParts DEF Apply, At, OnceAt, OnceOf, TypeOK
    <2>2. /\ job'[s].step = "ack" /\ job'[s].msg = n
          /\ job'[s].ok <=> n \notin Refused
        BY <1>4, ApplyChange
    <2>3. seen' = seen /\ notified' = notified
        BY <1>4 DEF Apply
    <2>4. /\ n \in Refused => applied' = applied
          /\ n \notin Refused => applied' = [applied EXCEPT ![n] = @ + 1]
        BY <1>4 DEF Apply
    <2>5. /\ n \notin Refused => applied'[n] = 1
          /\ n \in Refused => applied'[n] = 0
          /\ \A m \in Messages \ {n} : applied'[m] = applied[m]
        BY <2>1, <2>4 DEF TypeOK
    <2> HIDE DEF n
    <2>6. OnceAt(s)'
        BY <2>1, <2>2, <2>3, <2>5 DEF OnceAt, At
    <2>7. \A m \in Messages : OnceOf(m)'
        BY <1>0, <2>1, <2>3, <2>5 DEF OnceOf
    <2> QED BY <2>6, <2>7
<1>5. CASE Ack(s)
    <2>1. /\ ~At(s, "idle") /\ At(s, "ack") /\ "notify" \in Steps \ {"idle"}
        BY <1>5 DEF Ack, At, Steps
    <2>2. UNCHANGED <<seen, applied, notified>>
        BY <1>5 DEF Ack
    <2>3. CASE job[s].ok
        <3>1. /\ job'[s].step = "notify" /\ job'[s].msg = job[s].msg
            BY <1>5, <2>1, <2>3, GotoChange DEF Ack, AfterAck
        <3> QED BY <1>0, <2>1, <2>2, <2>3, <3>1 DEF OnceAt, OnceOf, At
    <2>4. CASE ~job[s].ok
        <3>1. job'[s] = Idle
            BY <1>5, <2>4, FinishChange DEF Ack, AfterAck
        <3> QED BY <1>0, <2>2, <3>1 DEF OnceAt, OnceOf, At, Idle
    <2> QED BY <2>3, <2>4
<1>6. CASE AckOnConnecting(s)
    BY <1>6, CrashOnce, OnceParts
       DEF AckOnConnecting, OnceInv, OnceOf, OnceAt
<1>7. CASE Notify(s) \/ FailCommand(s) \/ Record(s) \/ Store(s) \/ Stamp(s)
    <2>1. UNCHANGED <<seen, applied, notified>>
        BY <1>7 DEF Notify, FailCommand, Record, Store, Stamp
    <2>2. OnceAt(s)'
        <3>1. CASE Finish(s)
            BY <3>1, FinishChange DEF OnceAt, At, Idle
        <3>2. CASE Notify(s) /\ Goto(s, "run")
            <4>1. /\ ~At(s, "idle") /\ At(s, "notify")
                  /\ "run" \in Steps \ {"idle"}
                BY <3>2 DEF Notify, At, Steps
            <4>2. job'[s].step = "run" /\ job'[s].msg = job[s].msg
                BY <3>2, <4>1, GotoChange
            <4> QED BY <1>0, <2>1, <4>1, <4>2 DEF OnceAt, At
        <3>3. CASE /\ Record(s)
                   /\ job' = [job EXCEPT ![s].step = "store",
                                         ![s].snap = ledger]
            <4>1. /\ ~At(s, "idle") /\ "store" \in Steps \ {"idle"}
                  /\ ledger \in SUBSET Messages
                BY <3>3 DEF Record, At, Steps, TypeOK
            <4>2. job'[s].step = "store"
                BY <3>3, <4>1, SnapChange
            <4> QED BY <4>2 DEF OnceAt, At
        <3>4. CASE (Record(s) \/ Store(s)) /\ Goto(s, "stamp")
            <4>1. ~At(s, "idle") /\ "stamp" \in Steps \ {"idle"}
                BY <3>4 DEF Record, Store, At, Steps
            <4>2. job'[s].step = "stamp"
                BY <3>4, <4>1, GotoChange
            <4> QED BY <4>2 DEF OnceAt, At
        <3> QED BY <1>7, <3>1, <3>2, <3>3, <3>4
                DEF Notify, FailCommand, Record, Store, Stamp
    <2> QED BY <1>0, <2>1, <2>2 DEF OnceOf
<1>8. CASE RunCommand(s)
    <2> DEFINE n == job[s].msg
    <2>1. /\ ~At(s, "idle") /\ At(s, "run") /\ "record" \in Steps \ {"idle"}
        BY <1>8 DEF RunCommand, At, Steps
    <2>2. n \in Messages /\ notified[n] = 0 /\ applied[n] > 0
        BY <1>0, <2>1, JobParts DEF OnceAt
    <2>3. /\ notified' = [notified EXCEPT ![n] = @ + 1]
          /\ seen' = seen /\ applied' = applied
        BY <1>8 DEF RunCommand
    <2>4. job'[s].step = "record"
        BY <1>8, <2>1, GotoChange DEF RunCommand
    <2> HIDE DEF n
    <2>5. /\ notified'[n] = 1
          /\ \A m \in Messages \ {n} : notified'[m] = notified[m]
        BY <2>2, <2>3 DEF TypeOK
    <2>6. \A m \in Messages : OnceOf(m)'
        BY <1>0, <2>2, <2>3, <2>5 DEF OnceOf
    <2> QED BY <2>4, <2>6 DEF OnceAt, At
<1> QED BY <1>2, <1>3, <1>4, <1>5, <1>6, <1>7, <1>8 DEF HandlerStep

LEMMA NextOnce == Serial /\ TypeOK /\ OnceInv /\ [Next]_vars => OnceInv'
<1> SUFFICES ASSUME Serial, TypeOK, OnceInv, [Next]_vars PROVE OnceInv'
    OBVIOUS
<1> USE DEF host, files, history, faults, telling
<1>1. CASE Connect \/ Open \/ Close \/ UNCHANGED vars
    BY <1>1 DEF Connect, Open, Close, vars, OnceInv, At
<1>2. CASE Crash
    BY <1>2, CrashOnce
<1>3. ASSUME NEW s \in Slots, NEW m \in Messages, Deliver(s, m)
      PROVE  OnceInv'
    <2>1. /\ \A t \in Slots : t = s
          /\ OnceAt(s) /\ \A n \in Messages : OnceOf(n)
        BY OnceParts DEF Serial
    <2>2. job'[s].step = "verify" /\ job'[s].ok = job[s].ok
        BY <1>3, DeliverChange
    <2>3. OnceAt(s)'
        BY <1>3, <2>1, <2>2 DEF Deliver, OnceAt, At
    <2>4. \A n \in Messages : OnceOf(n)'
        BY <1>3, <2>1 DEF Deliver, OnceOf
    <2> QED BY <2>1, <2>3, <2>4 DEF OnceInv, OnceOf, OnceAt
<1>4. ASSUME NEW s \in Slots, HandlerStep(s)
      PROVE  OnceInv'
    BY <1>4, HandlerOnce
<1>5. CASE CronStep \/ CutCron
    BY <1>5, CronChanges DEF CronChange, OnceInv, At
<1> QED BY <1>1, <1>2, <1>3, <1>4, <1>5 DEF Next

LEMMA OnceInvariance == Serial => (Spec => []OnceInv)
<1> SUFFICES ASSUME Serial PROVE Spec => []OnceInv
    OBVIOUS
<1>1. Init => OnceInv
    BY IdleJob DEF Init, OnceInv, At, Idle
<1>2. TypeOK /\ OnceInv /\ [Next]_vars => OnceInv'
    BY NextOnce
<1> QED BY <1>1, <1>2, InitTypeOK, NextTypeOK, PTL DEF Spec

(* With one handler at a time, no envelope is applied twice, whatever is   *)
(* redelivered after a drop or a crash.                                    *)
THEOREM AppliedOnce == Serial => (Spec => []AppliedAtMostOnce)
<1>1. OnceInv => AppliedAtMostOnce
    BY DEF OnceInv, AppliedAtMostOnce
<1> QED BY <1>1, OnceInvariance, PTL

(* Nor is the owner notified of it twice.                                  *)
THEOREM NotifiedOnce == Serial => (Spec => []NotifiedAtMostOnce)
<1>1. OnceInv => NotifiedAtMostOnce
    BY DEF OnceInv, NotifiedAtMostOnce
<1> QED BY <1>1, OnceInvariance, PTL

-----------------------------------------------------------------------------
(* With one handler at a time, MailboxIntake implements Receipt.           *)

(* What a handler has not yet applied the host still holds, and what a     *)
(* crash caught is marked, so that no handler comes to apply it.           *)
HeldAt(s) ==
    /\ job[s].step \in {"verify", "mark", "apply"} => job[s].msg \in queue
    /\ At(s, "apply") => job[s].msg \notin orphaned
HeldInv == orphaned \subseteq seen /\ \A s \in Slots : HeldAt(s)

LEMMA CrashHolds ==
    ASSUME OnceInv, HeldInv, Crash
    PROVE  HeldInv'
<1>1. Applying \subseteq seen
    BY DEF Applying, OnceInv
<1>2. orphaned' \subseteq seen'
    BY <1>1 DEF HeldInv, Crash, files
<1>3. \A s \in Slots : HeldAt(s)'
    BY AllIdle, IdleJob DEF Crash, HeldAt, At
<1> QED BY <1>2, <1>3 DEF HeldInv, HeldAt

LEMMA HandlerHolds ==
    ASSUME Serial, TypeOK, OnceInv, HeldInv, NEW s \in Slots, HandlerStep(s)
    PROVE  HeldInv'
<1> USE DEF host, files, history, faults, telling
<1>0. /\ \A t \in Slots : t = s
      /\ orphaned \subseteq seen /\ HeldAt(s)
    BY DEF Serial, HeldInv
<1>1. CASE AckOnConnecting(s)
    BY <1>1, CrashHolds DEF AckOnConnecting
<1>2. CASE ~AckOnConnecting(s)
    <2>1. orphaned' \subseteq seen'
        <3>1. CASE Mark(s)
            BY <1>0, <3>1 DEF Mark, OnceInv, At
        <3> QED BY <1>0, <1>2, <3>1
            DEF HandlerStep, Verify, Apply, Ack, Notify, RunCommand, FailCommand,
                Record, Store, Stamp
    <2>2. HeldAt(s)'
        <3>1. CASE Verify(s)
            <4>0. /\ "ack" \in Steps \ {"idle"} /\ "mark" \in Steps \ {"idle"}
                  /\ seen \in SUBSET Messages
                BY DEF Steps, TypeOK
            <4>1. /\ ~At(s, "idle") /\ job[s].msg \in queue /\ queue' = queue
                BY <1>0, <3>1 DEF Verify, At, HeldAt
            <4>2. CASE Goto(s, "ack")
                BY <4>0, <4>1, <4>2, GotoChange DEF HeldAt, At
            <4>3. CASE job' = [job EXCEPT ![s].step = "mark", ![s].snap = seen]
                <5>1. job'[s].step = "mark" /\ job'[s].msg = job[s].msg
                    BY <4>0, <4>1, <4>3, SnapChange
                <5> QED BY <4>1, <5>1 DEF HeldAt, At
            <4> QED BY <3>1, <4>2, <4>3 DEF Verify
        <3>2. CASE Mark(s)
            <4>1. /\ ~At(s, "idle") /\ job[s].msg \in queue /\ queue' = queue
                  /\ "apply" \in Steps \ {"idle"}
                  /\ job[s].msg \notin orphaned /\ orphaned' = orphaned
                BY <1>0, <3>2 DEF Mark, At, HeldAt, Steps, OnceInv
            <4> QED BY <3>2, <4>1, GotoChange DEF Mark, HeldAt, At
        <3>3. ASSUME NEW step \in {"ack", "notify", "run", "record", "stamp"},
                     ~At(s, "idle"), Goto(s, step)
              PROVE  HeldAt(s)'
            <4>1. step \in Steps \ {"idle"}
                BY <3>3 DEF Steps
            <4> QED BY <3>3, <4>1, GotoChange DEF HeldAt, At
        <3>4. CASE Finish(s)
            BY <3>4, FinishChange, IdleJob DEF HeldAt, At
        <3>5. CASE Apply(s)
            BY <3>5, ApplyChange DEF HeldAt, At
        <3>6. CASE Record(s) /\ job' = [job EXCEPT ![s].step = "store", ![s].snap = ledger]
            <4>1. ~At(s, "idle") /\ "store" \in Steps \ {"idle"} /\ ledger \in SUBSET Messages
                BY <3>6 DEF Record, At, Steps, TypeOK
            <4>2. job'[s].step = "store"
                BY <3>6, <4>1, SnapChange
            <4> QED BY <4>2 DEF HeldAt, At
        <3>7. CASE Ack(s) \/ Notify(s) \/ RunCommand(s) \/ FailCommand(s) \/ Record(s)
                   \/ Store(s) \/ Stamp(s)
            <4>0. \E step \in {"ack", "notify", "run", "record", "store", "stamp"} : At(s, step)
                BY <3>7 DEF Ack, Notify, RunCommand, FailCommand, Record, Store, Stamp
            <4>1. ~At(s, "idle")
                BY <4>0 DEF At
            <4>2. \/ Finish(s) \/ Goto(s, "notify") \/ Goto(s, "run") \/ Goto(s, "record")
                  \/ Goto(s, "stamp")
                  \/ Record(s) /\ job' = [job EXCEPT ![s].step = "store", ![s].snap = ledger]
                BY <3>7 DEF Ack, AfterAck, Notify, RunCommand, FailCommand, Record, Store,
                            Stamp
            <4> QED BY <3>3, <3>4, <3>6, <4>1, <4>2
        <3> QED BY <1>2, <3>1, <3>2, <3>5, <3>7 DEF HandlerStep
    <2> QED BY <1>0, <2>1, <2>2 DEF HeldInv, HeldAt
<1> QED BY <1>1, <1>2

LEMMA NextHolds ==
    Serial /\ TypeOK /\ OnceInv /\ HeldInv /\ [Next]_vars => HeldInv'
<1> SUFFICES ASSUME Serial, TypeOK, OnceInv, HeldInv, [Next]_vars PROVE HeldInv'
    OBVIOUS
<1> USE DEF host, files, history, faults, telling
<1>1. CASE Connect \/ Open \/ Close \/ UNCHANGED vars
    BY <1>1 DEF Connect, Open, Close, vars, HeldInv, HeldAt, At
<1>2. CASE Crash
    BY <1>2, CrashHolds
<1>3. ASSUME NEW s \in Slots, NEW m \in Messages, Deliver(s, m)
      PROVE  HeldInv'
    <2>1. /\ \A t \in Slots : t = s
          /\ m \in queue /\ UNCHANGED <<queue, seen, orphaned>>
        BY <1>3 DEF Serial, Deliver
    <2>2. HeldAt(s)'
        BY <1>3, <2>1, DeliverChange DEF HeldAt, At
    <2> QED BY <2>1, <2>2 DEF HeldInv, HeldAt
<1>4. ASSUME NEW s \in Slots, HandlerStep(s)
      PROVE  HeldInv'
    BY <1>4, HandlerHolds
<1>5. CASE CronStep \/ CutCron
    BY <1>5, CronChanges DEF CronChange, HeldInv, HeldAt, At
<1> QED BY <1>1, <1>2, <1>3, <1>4, <1>5 DEF Next

\* What a crash catches, it catches for good.
LEMMA CrashForgets ==
    ASSUME Serial, TypeOK, OnceInv, HeldInv, Crash
    PROVE  [Promise!Next]_(Promise!vars)
<1>1. UNCHANGED <<queue, applied>> /\ orphaned' = orphaned \cup Applying
    BY DEF Crash, host
<1>2. CASE Applying = {}
    BY <1>1, <1>2 DEF Promise!vars
<1>3. ASSUME NEW s \in Slots, At(s, "apply")
      PROVE  Promise!Next
    <2>1. Applying = {job[s].msg}
        BY <1>3 DEF Applying, Serial
    <2>2. /\ job[s].msg \in Messages /\ job[s].msg \in queue
          /\ applied[job[s].msg] = 0 /\ job[s].msg \notin orphaned
        BY <1>3, JobParts DEF HeldInv, HeldAt, OnceInv, At
    <2>3. Promise!Forget(job[s].msg)
        BY <1>1, <2>1, <2>2 DEF Promise!Forget, Promise!Open
    <2> QED BY <2>2, <2>3 DEF Promise!Next
<1> QED BY <1>2, <1>3 DEF Applying

LEMMA HandlerReceipts ==
    ASSUME Serial, TypeOK, LossInv, OnceInv, HeldInv, NEW s \in Slots, HandlerStep(s)
    PROVE  [Promise!Next]_(Promise!vars)
<1> DEFINE m == job[s].msg
<1>1. CASE Apply(s)
    <2>1. m \in Messages /\ m \in queue /\ applied[m] = 0 /\ m \notin orphaned
        BY <1>1, JobParts DEF Apply, HeldInv, HeldAt, OnceInv, At
    <2>2. /\ UNCHANGED <<queue, orphaned>>
          /\ m \in Refused => applied' = applied
          /\ m \notin Refused => applied' = [applied EXCEPT ![m] = @ + 1]
        BY <1>1 DEF Apply, host
    <2>3. CASE m \in Refused
        BY <2>2, <2>3 DEF Promise!vars
    <2>4. CASE m \notin Refused
        <3>1. Promise!Apply(m)
            BY <2>1, <2>2, <2>4 DEF Promise!Apply, Promise!Open
        <3> QED BY <2>1, <3>1 DEF Promise!Next
    <2> QED BY <2>3, <2>4
<1>2. CASE Ack(s)
    <2>1. /\ UNCHANGED <<applied, orphaned>> /\ m \in Messages /\ At(s, "ack")
          /\ queue' = queue \/ queue' = queue \ {m}
        BY <1>2, JobParts DEF Ack, history, At
    <2>2. CASE m \notin queue \/ queue' = queue
        BY <2>1, <2>2 DEF Promise!vars
    <2>3. CASE m \in queue /\ queue' = queue \ {m}
        <3>1. Applying = {}
            BY <2>1 DEF Applying, Serial, At
        <3>2. m \in Refused \/ applied[m] > 0 \/ m \in orphaned
            BY <2>1, <3>1 DEF LossInv, Settled
        <3>3. Promise!Release(m)
            BY <2>1, <2>3, <3>2 DEF Promise!Release
        <3> QED BY <2>1, <3>3 DEF Promise!Next
    <2> QED BY <2>1, <2>2, <2>3
<1>3. CASE AckOnConnecting(s)
    BY <1>3, CrashForgets DEF AckOnConnecting
<1>4. CASE \/ Verify(s) \/ Mark(s) \/ Notify(s) \/ RunCommand(s) \/ FailCommand(s)
           \/ Record(s) \/ Store(s) \/ Stamp(s)
    BY <1>4 DEF Verify, Mark, Notify, RunCommand, FailCommand, Record, Store, Stamp,
                host, history, Promise!vars
<1> QED BY <1>1, <1>2, <1>3, <1>4 DEF HandlerStep

(* With one handler at a time, the client delivers effectively once: every *)
(* envelope is applied at most once and while the host holds it, and is    *)
(* released applied, refused or forgotten for good ("dedupe happens by     *)
(* inner message_id", handleMailboxDeliver and verifyEnvelope).            *)
THEOREM ReceiptIsKept == Serial => (Spec => ReceiptSpec)
<1> SUFFICES ASSUME Serial PROVE Spec => ReceiptSpec
    OBVIOUS
<1>1. Init => Promise!Init /\ HeldInv /\ LossInv
    BY IdleJob DEF Init, Promise!Init, HeldInv, HeldAt, LossInv, At
<1>2. TypeOK /\ OnceInv /\ HeldInv /\ [Next]_vars => HeldInv'
    BY NextHolds
<1>3. TypeOK /\ LossInv /\ OnceInv /\ HeldInv /\ [Next]_vars
          => [Promise!Next]_(Promise!vars)
    <2> SUFFICES ASSUME TypeOK, LossInv, OnceInv, HeldInv, [Next]_vars
                 PROVE  [Promise!Next]_(Promise!vars)
        OBVIOUS
    <2>1. ASSUME NEW s \in Slots, HandlerStep(s)
          PROVE  [Promise!Next]_(Promise!vars)
        BY <2>1, HandlerReceipts
    <2>2. CASE Crash
        BY <2>2, CrashForgets
    <2>3. CASE \/ Connect \/ Open \/ Close \/ UNCHANGED vars
               \/ \E s \in Slots : \E m \in Messages : Deliver(s, m)
        BY <2>3 DEF Connect, Open, Close, Deliver, vars, host, history, Promise!vars
    <2>4. CASE CronStep \/ CutCron
        BY <2>4, CronChanges DEF CronChange, Promise!vars
    <2> QED BY <2>1, <2>2, <2>3, <2>4 DEF Next
<1> QED BY <1>1, <1>2, <1>3, NextLoses, InitTypeOK, NextTypeOK, OnceInvariance, PTL
        DEF Spec, ReceiptSpec, Promise!Spec

-----------------------------------------------------------------------------
(* Handlers that overlap, any number of them: what they repeat, they repeat*)
(* once per connection.                                                    *)

\* Handlers that may still apply m, and those that may still notify of it.
ToApply(m) ==
    {s \in Slots : job[s].msg = m /\ job[s].step \in {"verify", "mark", "apply"}}
ToNotify(m) ==
    {s \in Slots : /\ job[s].msg = m
                   /\ (At(s, "ack") /\ job[s].ok) \/ At(s, "notify") \/ At(s, "run")}

One(x) == IF x THEN 1 ELSE 0

\* How often the host has offered m at most: once on every connection.
Offers(m) == drops + crashes + One(link = "up" /\ m \in offered)

CountOf(m) ==
    /\ IsFiniteSet(ToApply(m)) /\ IsFiniteSet(ToNotify(m))
    /\ applied[m] + Cardinality(ToApply(m)) <= Offers(m)
    /\ notified[m] + Cardinality(ToNotify(m)) <= applied[m]
CountInv ==
    /\ \A s \in Slots : job[s].step \in {"idle", "verify", "mark", "apply"} => ~job[s].ok
    /\ \A m \in Messages : CountOf(m)

\* One handler enters or leaves a set of handlers.
LEMMA OneMoves ==
    ASSUME NEW S, NEW T, NEW s, IsFiniteSet(S), T \ {s} = S \ {s}
    PROVE  /\ IsFiniteSet(T) /\ Cardinality(S) \in Nat /\ Cardinality(T) \in Nat
           /\ (s \in S <=> s \in T) => T = S
           /\ s \in S /\ s \notin T => Cardinality(T) = Cardinality(S) - 1
           /\ s \notin S /\ s \in T => Cardinality(T) = Cardinality(S) + 1
<1>1. (s \in S <=> s \in T) => T = S
    OBVIOUS
<1>2. CASE s \in S /\ s \notin T
    <2>1. T = S \ {s}
        BY <1>2
    <2> QED BY <1>2, <2>1, FS_RemoveElement, FS_CardinalityType
<1>3. CASE s \notin S /\ s \in T
    <2>1. T = S \cup {s}
        BY <1>3
    <2> QED BY <1>3, <2>1, FS_AddElement, FS_CardinalityType
<1> QED BY <1>1, <1>2, <1>3, FS_CardinalityType

LEMMA SlotMoves ==
    ASSUME NEW s \in Slots, NEW n \in Messages,
           job[s].msg \in {n, NoMessage}, job'[s].msg \in {n, NoMessage},
           \A t \in Slots : t # s => job'[t] = job[t]
    PROVE  /\ \A m \in Messages \ {n} :
                 ToApply(m)' = ToApply(m) /\ ToNotify(m)' = ToNotify(m)
           /\ ToApply(n)' \ {s} = ToApply(n) \ {s}
           /\ ToNotify(n)' \ {s} = ToNotify(n) \ {s}
<1>1. ASSUME NEW m \in Messages
      PROVE  /\ ToApply(m)' \ {s} = ToApply(m) \ {s}
             /\ ToNotify(m)' \ {s} = ToNotify(m) \ {s}
    BY DEF ToApply, ToNotify, At
<1>2. ASSUME NEW m \in Messages \ {n}
      PROVE  /\ s \notin ToApply(m) /\ s \notin ToApply(m)'
             /\ s \notin ToNotify(m) /\ s \notin ToNotify(m)'
    BY MessagesAssumption DEF ToApply, ToNotify
<1>3. ASSUME NEW m \in Messages \ {n}
      PROVE  ToApply(m)' = ToApply(m) /\ ToNotify(m)' = ToNotify(m)
    <2>1. ToApply(m)' \ {s} = ToApply(m)' /\ ToApply(m) \ {s} = ToApply(m)
        BY <1>2
    <2>2. ToNotify(m)' \ {s} = ToNotify(m)' /\ ToNotify(m) \ {s} = ToNotify(m)
        BY <1>2
    <2> QED BY <1>1, <2>1, <2>2
<1> QED BY <1>1, <1>3

\* What a step of handler s does to the counts of its envelope n.
LEMMA CountMoves ==
    ASSUME TypeOK, CountInv, NEW s \in Slots, NEW n \in Messages,
           job[s].msg \in {n, NoMessage}, job'[s].msg \in {n, NoMessage},
           \A t \in Slots : t # s => job'[t] = job[t],
           job'[s].step \in {"idle", "verify", "mark", "apply"} => ~job'[s].ok,
           \A m \in Messages \ {n} :
              applied'[m] = applied[m] /\ notified'[m] = notified[m] /\ Offers(m)' = Offers(m),
           Offers(n)' \in Int, applied'[n] \in Nat, notified'[n] \in Nat,
           applied'[n] + One((s \in ToApply(n))') - applied[n] - One(s \in ToApply(n))
              <= Offers(n)' - Offers(n),
           notified'[n] + One((s \in ToNotify(n))') - notified[n] - One(s \in ToNotify(n))
              <= applied'[n] - applied[n]
    PROVE  CountInv'
<1>0. /\ CountOf(n) /\ applied[n] \in Nat /\ notified[n] \in Nat /\ Offers(n) \in Int
    BY DEF CountInv, TypeOK, Offers, One
<1>1. /\ \A m \in Messages \ {n} : ToApply(m)' = ToApply(m) /\ ToNotify(m)' = ToNotify(m)
      /\ ToApply(n)' \ {s} = ToApply(n) \ {s}
      /\ ToNotify(n)' \ {s} = ToNotify(n) \ {s}
    BY SlotMoves
<1>2. ASSUME NEW m \in Messages \ {n}  PROVE CountOf(m)'
    BY <1>1 DEF CountInv, CountOf
<1>3. /\ IsFiniteSet(ToApply(n)') /\ Cardinality(ToApply(n)') \in Nat
      /\ Cardinality(ToApply(n)) \in Nat
      /\ Cardinality(ToApply(n)') - One((s \in ToApply(n))')
            = Cardinality(ToApply(n)) - One(s \in ToApply(n))
    BY <1>0, <1>1, OneMoves DEF CountOf, One
<1>4. /\ IsFiniteSet(ToNotify(n)') /\ Cardinality(ToNotify(n)') \in Nat
      /\ Cardinality(ToNotify(n)) \in Nat
      /\ Cardinality(ToNotify(n)') - One((s \in ToNotify(n))')
            = Cardinality(ToNotify(n)) - One(s \in ToNotify(n))
    BY <1>0, <1>1, OneMoves DEF CountOf, One
<1>5. One((s \in ToApply(n))') \in Int /\ One(s \in ToApply(n)) \in Int
      /\ One((s \in ToNotify(n))') \in Int /\ One(s \in ToNotify(n)) \in Int
    BY DEF One
<1>6. /\ applied'[n] + One((s \in ToApply(n))') - applied[n] - One(s \in ToApply(n))
            <= Offers(n)' - Offers(n)
      /\ notified'[n] + One((s \in ToNotify(n))') - notified[n] - One(s \in ToNotify(n))
            <= applied'[n] - applied[n]
    OBVIOUS
<1>7. CountOf(n)'
    BY <1>0, <1>3, <1>4, <1>5, <1>6 DEF CountOf
<1>8. \A t \in Slots : job'[t].step \in {"idle", "verify", "mark", "apply"} => ~job'[t].ok
    BY DEF CountInv
<1> QED BY <1>2, <1>7, <1>8 DEF CountInv

LEMMA CrashCounts == ASSUME TypeOK, CountInv, Crash PROVE CountInv'
<1>1. /\ crashes' = crashes + 1 /\ UNCHANGED <<drops, applied, notified, offered>>
      /\ link' = "down" /\ drops \in Nat /\ crashes \in Nat
      /\ \A s \in Slots : job'[s] = Idle
    BY AllIdle DEF Crash, host, TypeOK
<1>2. ASSUME NEW m \in Messages  PROVE CountOf(m)'
    <2>1. ToApply(m)' = {} /\ ToNotify(m)' = {}
        BY <1>1, IdleJob DEF ToApply, ToNotify, At
    <2>2. Cardinality(ToApply(m)) \in Nat /\ Cardinality(ToNotify(m)) \in Nat
        BY FS_CardinalityType DEF CountInv, CountOf
    <2>3. applied[m] \in Nat /\ notified[m] \in Nat /\ CountOf(m)
        BY DEF CountInv, TypeOK
    <2>4. Offers(m) <= Offers(m)'
        BY <1>1 DEF Offers, One
    <2>5. Offers(m) \in Int /\ Offers(m)' \in Int
        BY <1>1 DEF Offers, One
    <2>6. /\ IsFiniteSet(ToApply(m)') /\ Cardinality(ToApply(m)') = 0
          /\ IsFiniteSet(ToNotify(m)') /\ Cardinality(ToNotify(m)') = 0
        BY <2>1, FS_EmptySet
    <2>7. applied'[m] = applied[m] /\ notified'[m] = notified[m]
        BY <1>1
    <2> QED BY <2>2, <2>3, <2>4, <2>5, <2>6, <2>7 DEF CountOf
<1>3. \A s \in Slots : ~job'[s].ok
    BY <1>1 DEF Idle
<1> QED BY <1>2, <1>3 DEF CountInv

LEMMA SocketCounts == ASSUME TypeOK, CountInv, Connect \/ Open \/ Close PROVE CountInv'
<1>1. /\ UNCHANGED <<job, applied, notified, crashes>> /\ drops \in Nat /\ crashes \in Nat
      /\ drops' \in Nat
    BY DEF Connect, Open, Close, history, faults, TypeOK
<1>2. ASSUME NEW m \in Messages  PROVE CountOf(m)'
    <2>1. ToApply(m)' = ToApply(m) /\ ToNotify(m)' = ToNotify(m)
        BY <1>1 DEF ToApply, ToNotify, At
    <2>2. Offers(m) <= Offers(m)'
        <3>1. CASE Connect
            BY <1>1, <3>1 DEF Connect, Offers, One, host, faults
        <3>2. CASE Open
            BY <1>1, <3>2 DEF Open, Offers, One, faults
        <3>3. CASE Close
            BY <1>1, <3>3 DEF Close, Offers, One, host
        <3> QED BY <3>1, <3>2, <3>3
    <2>3. /\ applied[m] \in Nat /\ Cardinality(ToApply(m)) \in Nat /\ CountOf(m)
        BY FS_CardinalityType DEF CountInv, CountOf, TypeOK
    <2>4. Offers(m) \in Int /\ Offers(m)' \in Int
        BY <1>1 DEF Offers, One
    <2> QED BY <1>1, <2>1, <2>2, <2>3, <2>4 DEF CountOf
<1> QED BY <1>1, <1>2 DEF CountInv

LEMMA DeliverCounts ==
    ASSUME TypeOK, CountInv, NEW s \in Slots, NEW m \in Messages, Deliver(s, m)
    PROVE  CountInv'
<1>1. /\ At(s, "idle") /\ link = "up" /\ link' = link /\ m \notin offered
      /\ offered' = offered \cup {m} /\ UNCHANGED <<applied, notified, drops, crashes>>
    BY DEF Deliver, history, faults
<1>2. /\ job'[s].step = "verify" /\ job'[s].msg = m /\ ~job'[s].ok
      /\ job[s].msg = NoMessage /\ \A t \in Slots : t # s => job'[t] = job[t]
    BY <1>1, DeliverChange DEF CountInv, TypeOK, At
<1>3. /\ s \notin ToApply(m) /\ (s \in ToApply(m))'
      /\ s \notin ToNotify(m) /\ ~(s \in ToNotify(m))'
    BY <1>1, <1>2 DEF ToApply, ToNotify, At
<1>4. Offers(m)' = Offers(m) + 1 /\ Offers(m) \in Int
      /\ \A n \in Messages \ {m} : Offers(n)' = Offers(n)
    BY <1>1 DEF Offers, One, TypeOK
<1>5. applied[m] \in Nat /\ notified[m] \in Nat
    BY DEF TypeOK
<1> QED BY <1>1, <1>2, <1>3, <1>4, <1>5, CountMoves DEF One

LEMMA HandlerCounts ==
    ASSUME TypeOK, CountInv, NEW s \in Slots, NEW n, job[s].msg = n, HandlerStep(s)
    PROVE  CountInv'
<1> USE DEF host, history, faults
<1> DEFINE a == s \in ToApply(n)
           b == s \in ToNotify(n)
<1>1. CASE AckOnConnecting(s)
    BY <1>1, CrashCounts DEF AckOnConnecting
<1>2. ASSUME ~AckOnConnecting(s)
      PROVE  /\ n \in Messages
             /\ UNCHANGED <<drops, crashes, link, offered>>
             /\ \A m \in Messages : Offers(m)' = Offers(m) /\ Offers(m) \in Int
             /\ \A m \in Messages : applied[m] \in Nat /\ notified[m] \in Nat
    <2>1. \E step \in Steps \ {"idle"} : At(s, step)
        BY <1>2 DEF HandlerStep, Verify, Mark, Apply, Ack, Notify, RunCommand, FailCommand,
                    Record, Store, Stamp, Steps
    <2>2. n \in Messages
        BY <2>1, JobParts DEF At
    <2>3. UNCHANGED <<drops, crashes, link, offered>>
        BY <1>2 DEF HandlerStep, Verify, Mark, Apply, Ack, Notify, RunCommand, FailCommand,
                    Record, Store, Stamp
    <2> QED BY <2>2, <2>3 DEF Offers, One, TypeOK
\* A step that counts nothing: who still had to apply or notify may give it up.
<1>3. ASSUME ~AckOnConnecting(s), UNCHANGED <<applied, notified>>,
             job'[s].msg \in {n, NoMessage}, \A t \in Slots : t # s => job'[t] = job[t],
             job'[s].step \in {"idle", "verify", "mark", "apply"} => ~job'[s].ok,
             (s \in ToApply(n))' => a, (s \in ToNotify(n))' => b
      PROVE  CountInv'
    <2>1. /\ One((s \in ToApply(n))') - One(a) <= 0 /\ One((s \in ToNotify(n))') - One(b) <= 0
          /\ {One((s \in ToApply(n))'), One(a), One((s \in ToNotify(n))'), One(b)} \subseteq Int
        BY <1>3 DEF One
    <2>2. /\ applied'[n] + One((s \in ToApply(n))') - applied[n] - One(a)
                <= Offers(n)' - Offers(n)
          /\ notified'[n] + One((s \in ToNotify(n))') - notified[n] - One(b)
                <= applied'[n] - applied[n]
        BY <1>2, <1>3, <2>1
    <2> QED BY <1>2, <1>3, <2>2, CountMoves
<1>4. /\ a <=> job[s].step \in {"verify", "mark", "apply"}
      /\ b <=> (At(s, "ack") /\ job[s].ok) \/ At(s, "notify") \/ At(s, "run")
      /\ (s \in ToApply(n))' <=> /\ job'[s].msg = n
                                 /\ job'[s].step \in {"verify", "mark", "apply"}
      /\ (s \in ToNotify(n))' <=> /\ job'[s].msg = n
                                  /\ \/ job'[s].step = "ack" /\ job'[s].ok
                                     \/ job'[s].step \in {"notify", "run"}
    BY DEF ToApply, ToNotify, At
<1>5. job[s].step \in {"idle", "verify", "mark", "apply"} => ~job[s].ok
    BY DEF CountInv
<1> HIDE DEF a, b
<1>6. CASE Verify(s)
    <2>1. /\ ~At(s, "idle") /\ job[s].step = "verify" /\ ~AckOnConnecting(s)
          /\ UNCHANGED <<applied, notified>>
        BY <1>6 DEF Verify, At, AckOnConnecting
    <2>2. /\ "ack" \in Steps \ {"idle"} /\ "mark" \in Steps \ {"idle"} /\ seen \in SUBSET Messages
        BY DEF Steps, TypeOK
    <2>3. CASE Goto(s, "ack")
        <3>1. /\ job'[s].step = "ack" /\ job'[s].msg = n /\ job'[s].ok = job[s].ok
              /\ \A t \in Slots : t # s => job'[t] = job[t]
            BY <2>1, <2>2, <2>3, GotoChange
        <3> QED BY <1>3, <1>4, <1>5, <2>1, <3>1
    <2>4. CASE job' = [job EXCEPT ![s].step = "mark", ![s].snap = seen]
        <3>1. /\ job'[s].step = "mark" /\ job'[s].msg = n /\ job'[s].ok = job[s].ok
              /\ \A t \in Slots : t # s => job'[t] = job[t]
            BY <2>1, <2>2, <2>4, SnapChange
        <3> QED BY <1>3, <1>4, <1>5, <2>1, <3>1
    <2> QED BY <1>6, <2>3, <2>4 DEF Verify
<1>7. CASE Mark(s)
    <2>1. /\ ~At(s, "idle") /\ job[s].step = "mark" /\ ~AckOnConnecting(s)
          /\ UNCHANGED <<applied, notified>> /\ Goto(s, "apply")
        BY <1>7 DEF Mark, At, AckOnConnecting
    <2>2. /\ job'[s].step = "apply" /\ job'[s].msg = n /\ job'[s].ok = job[s].ok
          /\ \A t \in Slots : t # s => job'[t] = job[t]
        BY <2>1, GotoChange DEF Steps
    <2> QED BY <1>3, <1>4, <1>5, <2>1, <2>2
<1>8. CASE Apply(s)
    <2>1. job[s].step = "apply" /\ ~AckOnConnecting(s) /\ notified' = notified
        BY <1>8 DEF Apply, At, AckOnConnecting
    <2>2. /\ \A t \in Slots : t # s => job'[t] = job[t]
          /\ job'[s].step = "ack" /\ job'[s].msg = n
          /\ job'[s].ok <=> n \notin Refused
        BY <1>8, ApplyChange
    <2>3. /\ n \in Messages /\ applied[n] \in Nat /\ notified[n] \in Nat
          /\ \A m \in Messages : Offers(m)' = Offers(m) /\ Offers(m) \in Int
        BY <1>2, <2>1
    <2>4. /\ n \in Refused => applied' = applied
          /\ n \notin Refused => applied' = [applied EXCEPT ![n] = @ + 1]
        BY <1>8 DEF Apply
    <2>5. /\ \A m \in Messages \ {n} : applied'[m] = applied[m]
          /\ applied'[n] = applied[n] + One(n \notin Refused)
        BY <2>3, <2>4 DEF TypeOK, One
    <2>6. a /\ ~(s \in ToApply(n))' /\ ~b /\ ((s \in ToNotify(n))' <=> n \notin Refused)
        BY <1>4, <1>5, <2>1, <2>2 DEF At
    <2>7. /\ One(a) = 1 /\ One((s \in ToApply(n))') = 0 /\ One(b) = 0
          /\ One((s \in ToNotify(n))') = One(n \notin Refused)
          /\ One(n \notin Refused) \in {0, 1}
        BY <2>6 DEF One
    <2>8. /\ applied'[n] \in Nat /\ Offers(n)' - Offers(n) = 0
          /\ applied'[n] + One((s \in ToApply(n))') - applied[n] - One(a)
                <= Offers(n)' - Offers(n)
          /\ notified'[n] + One((s \in ToNotify(n))') - notified[n] - One(b)
                <= applied'[n] - applied[n]
        BY <2>1, <2>3, <2>5, <2>7
    <2> QED BY <2>1, <2>2, <2>3, <2>5, <2>8, CountMoves DEF a, b
<1>9. CASE Ack(s)
    <2>1. /\ ~At(s, "idle") /\ job[s].step = "ack" /\ ~AckOnConnecting(s)
          /\ UNCHANGED <<applied, notified>> /\ AfterAck(s)
        BY <1>9 DEF Ack, At, AckOnConnecting
    <2>2. CASE job[s].ok
        <3>1. /\ job'[s].step = "notify" /\ job'[s].msg = n
              /\ \A t \in Slots : t # s => job'[t] = job[t]
            BY <2>1, <2>2, GotoChange DEF AfterAck, Steps
        <3> QED BY <1>3, <1>4, <2>1, <2>2, <3>1 DEF At
    <2>3. CASE ~job[s].ok
        <3>1. /\ job'[s] = Idle /\ \A t \in Slots : t # s => job'[t] = job[t]
            BY <2>1, <2>3, FinishChange DEF AfterAck
        <3> QED BY <1>3, <1>4, <2>1, <3>1 DEF Idle
    <2> QED BY <2>2, <2>3
<1>10. CASE RunCommand(s)
    <2>1. /\ ~At(s, "idle") /\ job[s].step = "run" /\ ~AckOnConnecting(s)
          /\ applied' = applied /\ Goto(s, "record")
          /\ notified' = [notified EXCEPT ![n] = @ + 1]
        BY <1>10 DEF RunCommand, At, AckOnConnecting
    <2>2. /\ job'[s].step = "record" /\ job'[s].msg = n
          /\ \A t \in Slots : t # s => job'[t] = job[t]
        BY <2>1, GotoChange DEF Steps
    <2>3. /\ n \in Messages /\ applied[n] \in Nat /\ notified[n] \in Nat
          /\ \A m \in Messages : Offers(m)' = Offers(m) /\ Offers(m) \in Int
        BY <1>2, <2>1
    <2>4. /\ \A m \in Messages \ {n} : notified'[m] = notified[m]
          /\ notified'[n] = notified[n] + 1
        BY <2>1, <2>3 DEF TypeOK
    <2>5. ~a /\ ~(s \in ToApply(n))' /\ b /\ ~(s \in ToNotify(n))'
        BY <1>4, <2>1, <2>2 DEF At
    <2>6. /\ One(a) = 0 /\ One((s \in ToApply(n))') = 0 /\ One(b) = 1
          /\ One((s \in ToNotify(n))') = 0
        BY <2>5 DEF One
    <2>7. /\ applied'[n] \in Nat /\ notified'[n] \in Nat /\ Offers(n)' - Offers(n) = 0
          /\ applied'[n] + One((s \in ToApply(n))') - applied[n] - One(a)
                <= Offers(n)' - Offers(n)
          /\ notified'[n] + One((s \in ToNotify(n))') - notified[n] - One(b)
                <= applied'[n] - applied[n]
        BY <2>1, <2>3, <2>4, <2>6
    <2> QED BY <2>1, <2>2, <2>3, <2>4, <2>7, CountMoves DEF a, b
<1>11. CASE Notify(s) \/ FailCommand(s) \/ Record(s) \/ Store(s) \/ Stamp(s)
    <2>1. /\ ~AckOnConnecting(s) /\ UNCHANGED <<applied, notified>>
          /\ \E step \in {"notify", "run", "record", "store", "stamp"} : job[s].step = step
        BY <1>11 DEF Notify, FailCommand, Record, Store, Stamp, AckOnConnecting, At
    <2>2. ~At(s, "idle")
        BY <2>1 DEF At
    <2>3. CASE Finish(s)
        <3>1. /\ job'[s] = Idle /\ \A t \in Slots : t # s => job'[t] = job[t]
            BY <2>3, FinishChange
        <3> QED BY <1>3, <1>4, <2>1, <3>1 DEF Idle
    <2>4. CASE Notify(s) /\ Goto(s, "run")
        <3>1. /\ job'[s].step = "run" /\ job'[s].msg = n /\ job[s].step = "notify"
              /\ \A t \in Slots : t # s => job'[t] = job[t]
            BY <2>2, <2>4, GotoChange DEF Notify, At, Steps
        <3> QED BY <1>3, <1>4, <2>1, <3>1 DEF At
    <2>5. CASE Record(s) /\ job' = [job EXCEPT ![s].step = "store", ![s].snap = ledger]
        <3>1. "store" \in Steps \ {"idle"} /\ ledger \in SUBSET Messages
            BY DEF Steps, TypeOK
        <3>2. /\ job'[s].step = "store" /\ job'[s].msg = n
              /\ \A t \in Slots : t # s => job'[t] = job[t]
            BY <2>2, <2>5, <3>1, SnapChange
        <3> QED BY <1>3, <1>4, <2>1, <3>2
    <2>6. CASE Goto(s, "stamp")
        <3>1. /\ job'[s].step = "stamp" /\ job'[s].msg = n
              /\ \A t \in Slots : t # s => job'[t] = job[t]
            BY <2>2, <2>6, GotoChange DEF Steps
        <3> QED BY <1>3, <1>4, <2>1, <3>1
    <2> QED BY <1>11, <2>3, <2>4, <2>5, <2>6 DEF Notify, FailCommand, Record, Store, Stamp
<1> QED BY <1>1, <1>6, <1>7, <1>8, <1>9, <1>10, <1>11 DEF HandlerStep

LEMMA NextCounts == TypeOK /\ CountInv /\ [Next]_vars => CountInv'
<1> SUFFICES ASSUME TypeOK, CountInv, [Next]_vars PROVE CountInv'
    OBVIOUS
<1>1. ASSUME UNCHANGED <<job, applied, notified, offered, link, drops, crashes>>
      PROVE  CountInv'
    BY <1>1 DEF CountInv, CountOf, ToApply, ToNotify, Offers, At
<1>2. CASE UNCHANGED vars
    BY <1>1, <1>2 DEF vars
<1>3. CASE CronStep \/ CutCron
    BY <1>1, <1>3, CronChanges DEF CronChange
<1> QED BY <1>2, <1>3, SocketCounts, CrashCounts, DeliverCounts, HandlerCounts DEF Next

(* However many handlers overlap, an envelope is applied once per          *)
(* connection at most, and the owner hears of it by the hook once per      *)
(* application at most: a redelivery needs a new connection, and nothing   *)
(* else repeats (handleMailboxDeliver, notifyInbound).                     *)
THEOREM RepeatsAreBounded ==
    Spec => [](\A m \in Messages :
                  applied[m] <= drops + crashes + 1 /\ notified[m] <= applied[m])
<1> DEFINE Bounded == \A m \in Messages :
                  applied[m] <= drops + crashes + 1 /\ notified[m] <= applied[m]
<1>1. Init => CountInv
    <2> SUFFICES ASSUME Init PROVE CountInv
        OBVIOUS
    <2>1. \A m \in Messages : ToApply(m) = {} /\ ToNotify(m) = {}
        BY IdleJob DEF Init, ToApply, ToNotify, At
    <2>2. \A m \in Messages : Offers(m) = 0
        BY DEF Init, Offers, One
    <2>3. ASSUME NEW m \in Messages  PROVE CountOf(m)
        <3>1. applied[m] = 0 /\ notified[m] = 0
            BY DEF Init
        <3> QED BY <2>1, <2>2, <3>1, FS_EmptySet DEF CountOf
    <2>4. \A s \in Slots : ~job[s].ok
        BY DEF Init, Idle
    <2> QED BY <2>3, <2>4 DEF CountInv
<1>2. TypeOK /\ CountInv => Bounded
    <2> SUFFICES ASSUME TypeOK, CountInv, NEW m \in Messages
                 PROVE  applied[m] <= drops + crashes + 1 /\ notified[m] <= applied[m]
        OBVIOUS
    <2>1. /\ CountOf(m) /\ applied[m] \in Nat /\ notified[m] \in Nat
          /\ drops \in Nat /\ crashes \in Nat
          /\ Cardinality(ToApply(m)) \in Nat /\ Cardinality(ToNotify(m)) \in Nat
        BY FS_CardinalityType DEF CountInv, CountOf, TypeOK
    <2>2. Offers(m) <= drops + crashes + 1 /\ Offers(m) \in Int
        BY <2>1 DEF Offers, One
    <2> QED BY <2>1, <2>2 DEF CountOf
<1> QED BY <1>1, <1>2, NextCounts, InitTypeOK, NextTypeOK, PTL DEF Spec

-----------------------------------------------------------------------------
(* Envelopes on their way in (Inbound).  The daemon, `inbox pull` and the  *)
(* owner's commands rewrite the same files from the copies they have read; *)
(* what one overwrites of another is counted in spoiled and respent.       *)



WorkSteps == {"verify", "mark", "rate", "hit", "gate", "use", "file", "bundle", "keep"}
Works(s) == work[s].at \in WorkSteps

\* A process that handles an envelope has it in hand; the daemon runs no command
\* of the owner, and acks its envelope last.
WorkTyped(s) ==
    /\ DOMAIN work[s] = {"at", "env", "hits", "uses", "received", "kept", "seen"}
    /\ work[s].at \in WorkSteps \cup {"idle", "status", "mint"}
    /\ Works(s) => work[s].env \in Envelopes
    /\ work[s].uses \in Nat /\ work[s].seen \subseteq Envelopes
WorkOK ==
    /\ DOMAIN work = Processes
    /\ \A s \in Processes : WorkTyped(s)
    /\ work["daemon"].at \notin {"status", "mint"}
    /\ Works("daemon") => work["daemon"].env \in mailbox

\* A drain that runs has read a list, and nothing of another is left.
RelayOK ==
    /\ relayed \in Seq(Envelopes) /\ batch \in Seq(Envelopes)
    /\ drain = NotDraining \/ drain \in Seq(Envelopes)
    /\ drain # NotDraining => batch = <<>>
    /\ unsent \subseteq Envelopes /\ mailbox \subseteq Envelopes
    /\ verified \subseteq Envelopes

\* An envelope that a process has let go of is somewhere else.
Held(e) ==
    \/ e \in unsent \cup mailbox \cup settled \cup lost
    \/ e \in ToSet(relayed) \/ e \in ToSet(batch)
    \/ drain # NotDraining /\ e \in ToSet(drain)
    \/ \E s \in Processes : Works(s) /\ work[s].env = e
AllHeld == \A e \in Envelopes : Held(e)

\* The file of the hits, and the copies to be written back, are within the
\* limits, and a hit that is not in the file was overwritten.
OfSame(S, h) == {g \in S : g.from = h.from}
Within(S) ==
    /\ IsFiniteSet(S) /\ Cardinality(S) <= MaxGlobal
    /\ \A h \in S : Cardinality(OfSame(S, h)) <= MaxPeer
RoomFor(S, p) ==
    Cardinality(S) < MaxGlobal /\ Cardinality({h \in S : h.from = p}) < MaxPeer
HitCopy(s) ==
    work[s].at = "hit" =>
        /\ work[s].hits \subseteq passed /\ Within(work[s].hits)
        /\ RoomFor(work[s].hits, From[work[s].env])
RateOK ==
    /\ rate \subseteq passed /\ passed \ spoiled \subseteq rate /\ Within(rate)
    /\ \A s \in Processes : HitCopy(s)

\* A use that the file does not count was overwritten, and no copy to be
\* written back has a use too many.
UseCopy(s) ==
    MaxUses > 0 =>
        /\ work[s].at = "use" => work[s].uses < MaxUses
        /\ work[s].at = "mint" => work[s].uses <= MaxUses
CodeOK ==
    /\ uses \in Nat /\ respent \in Int /\ (MaxUses > 0 => uses <= MaxUses)
    /\ IsFiniteSet(byCode) /\ Cardinality(byCode) <= uses + respent
    /\ \A s \in Processes : UseCopy(s)


InInv == WorkOK /\ RelayOK /\ AllHeld /\ RateOK /\ CodeOK

-----------------------------------------------------------------------------
\* What becomes of the limits when no file of theirs is written, and no process
\* has read one.
LEMMA FrameRate ==
    ASSUME InInv, UNCHANGED <<rate, passed, spoiled>>,
           \A s \in Processes : work'[s] = work[s] \/ work'[s].at # "hit"
    PROVE  RateOK'
<1>1. RateOK
    BY DEF InInv
<1>2. ASSUME NEW s \in Processes  PROVE HitCopy(s)'
    BY <1>1 DEF RateOK, HitCopy
<1> QED
    BY <1>1, <1>2 DEF RateOK

LEMMA FrameCode ==
    ASSUME InInv, UNCHANGED <<uses, byCode, respent>>,
           \A s \in Processes : work'[s] = work[s] \/ work'[s].at \notin {"use", "mint"}
    PROVE  CodeOK'
<1>1. CodeOK
    BY DEF InInv
<1>2. ASSUME NEW s \in Processes  PROVE UseCopy(s)'
    BY <1>1 DEF CodeOK, UseCopy
<1> QED
    BY <1>1, <1>2 DEF CodeOK

LEMMA FrameWork ==
    ASSUME InInv, UNCHANGED work,
           Works("daemon") /\ work["daemon"].env \in mailbox =>
               work["daemon"].env \in mailbox'
    PROVE  WorkOK'
    BY DEF InInv, WorkOK, WorkTyped, Works

LEMMA FrameLimits ==
    ASSUME InInv, UNCHANGED <<work, rate, passed, spoiled, uses, byCode, respent>>
    PROVE  RateOK' /\ CodeOK'
    BY FrameRate, FrameCode

\* The files and the relay are as they were.
LEMMA FrameRelay ==
    ASSUME InInv, UNCHANGED <<unsent, relayed, drain, batch, mailbox>>,
           verified' \subseteq Envelopes
    PROVE  RelayOK'
    BY DEF InInv, RelayOK

\* A process goes on with its envelope.
GoesOn(s) ==
    /\ DOMAIN work' = Processes
    /\ \A t \in Processes : t # s => work'[t] = work[t]
    /\ work[s].at \in WorkSteps /\ work'[s].at \in WorkSteps
    /\ work'[s].env = work[s].env /\ work'[s].uses \in Nat
    /\ work'[s].seen \subseteq Envelopes
    /\ DOMAIN work'[s] = {"at", "env", "hits", "uses", "received", "kept", "seen"}

LEMMA GoesOnKeeps ==
    ASSUME InInv, NEW s \in Processes, GoesOn(s),
           UNCHANGED <<unsent, relayed, drain, batch, mailbox, settled, lost>>
    PROVE  WorkOK' /\ AllHeld'
<1>1. WorkOK /\ AllHeld
    BY DEF InInv
<1>2. WorkTyped(s)'
    BY <1>1 DEF WorkOK, WorkTyped, GoesOn, Works
<1>3. ASSUME NEW t \in Processes  PROVE WorkTyped(t)' /\ (Works(t) => Works(t)' /\ work'[t].env = work[t].env)
    BY <1>1, <1>2 DEF WorkOK, WorkTyped, GoesOn, Works
<1>4. "daemon" \in Processes
    BY DEF Processes
<1>5. WorkOK'
    BY <1>1, <1>3, <1>4 DEF WorkOK, GoesOn, Works, WorkSteps
<1>6. ASSUME NEW e \in Envelopes  PROVE Held(e)'
    BY <1>1, <1>3 DEF AllHeld, Held
<1> QED
    BY <1>5, <1>6 DEF AllHeld

LEMMA NothingLeft == \A S : <<>> \in Seq(S)
    OBVIOUS

\* A process has let go of its envelope: it was filed, or refused.
LEMMA Finished ==
    ASSUME InInv, NEW s \in Processes, Works(s), File(s) \/ Refuse(s),
           UNCHANGED <<unsent, relayed, drain>>
    PROVE  /\ WorkOK' /\ AllHeld'
           /\ verified' \subseteq Envelopes => RelayOK'
           /\ UNCHANGED <<rate, passed, spoiled>> => RateOK'
           /\ UNCHANGED <<uses, byCode, respent>> => CodeOK'
<1>1. WorkOK /\ AllHeld /\ RelayOK
    BY DEF InInv
<1>2. /\ work' = [work EXCEPT ![s] = AtRest]
      /\ settled' = settled \cup {work[s].env}
      /\ mailbox' = IF s = "daemon" THEN mailbox \ {work[s].env} ELSE mailbox
    BY DEF File, Refuse, Settle
<1>3. \/ UNCHANGED <<batch, lost>>
      \/ batch' = <<>> /\ lost' = lost \cup ToSet(batch)
    BY DEF File, Refuse
<1>4. /\ DOMAIN work' = Processes /\ work'[s] = AtRest
      /\ \A t \in Processes : t # s => work'[t] = work[t]
    BY <1>1, <1>2 DEF WorkOK
<1>5. WorkOK'
  <2>1. WorkTyped(s)' /\ work'[s].at = "idle"
    BY <1>4 DEF WorkTyped, AtRest, Works, WorkSteps
  <2>2. \A t \in Processes : WorkTyped(t)'
    BY <1>1, <1>4, <2>1 DEF WorkOK, WorkTyped, Works
  <2>3. "daemon" \in Processes
    BY DEF Processes
  <2>4. CASE s = "daemon"
    BY <1>4, <2>1, <2>2, <2>4 DEF WorkOK, Works, WorkSteps
  <2>5. CASE s # "daemon"
    BY <1>1, <1>2, <1>4, <2>2, <2>3, <2>5 DEF WorkOK, Works
  <2> QED
    BY <2>4, <2>5
<1>6. AllHeld'
  <2> SUFFICES ASSUME NEW e \in Envelopes  PROVE Held(e)'
    BY DEF AllHeld
  <2>1. Held(e)
    BY <1>1 DEF AllHeld
  <2>2. CASE e = work[s].env
    BY <1>2, <2>2 DEF Held
  <2>3. CASE e # work[s].env
    <3>1. e \in ToSet(batch) => e \in ToSet(batch') \/ e \in lost'
      BY <1>3
    <3>2. e \in unsent \cup mailbox \cup settled \cup lost
          => e \in unsent' \cup mailbox' \cup settled' \cup lost'
      BY <1>2, <1>3, <2>3
    <3>3. (\E t \in Processes : Works(t) /\ work[t].env = e)
          => \E t \in Processes : Works(t)' /\ work'[t].env = e
      BY <1>4, <2>3 DEF Works
    <3> QED
      BY <2>1, <3>1, <3>2, <3>3 DEF Held
  <2> QED
    BY <2>2, <2>3
<1>7. verified' \subseteq Envelopes => RelayOK'
  <2>1. batch' \in Seq(Envelopes) /\ (batch' = batch \/ batch' = <<>>)
    BY <1>1, <1>3, NothingLeft DEF RelayOK
  <2>2. mailbox' \subseteq Envelopes
    BY <1>1, <1>2 DEF RelayOK
  <2> QED
    BY <1>1, <2>1, <2>2 DEF RelayOK
<1>8. \A t \in Processes : work'[t] = work[t] \/ work'[t].at \notin {"hit", "use", "mint"}
    BY <1>4 DEF AtRest
<1> QED
    BY <1>5, <1>6, <1>7, <1>8, FrameRate, FrameCode

-----------------------------------------------------------------------------
\* What is on a list: with one more, and without its head.
LEMMA OnLists ==
    ASSUME NEW S, NEW q \in Seq(S), NEW e
    PROVE  /\ e \in S => Append(q, e) \in Seq(S)
           /\ \A x : x \in ToSet(q) \/ x = e => x \in ToSet(Append(q, e))
           /\ \A x \in ToSet(q) : q # <<>> => x = Head(q) \/ x \in ToSet(Tail(q))
           /\ q # <<>> => Head(q) \in S /\ Tail(q) \in Seq(S)
<1>1. \A x : x \in ToSet(q) \/ x = e => x \in ToSet(Append(q, e))
  <2>1. /\ DOMAIN Append(q, e) = 1 .. Len(q) + 1 /\ DOMAIN q = 1 .. Len(q) /\ Len(q) \in Nat
        /\ \A i \in 1 .. Len(q) : Append(q, e)[i] = q[i]
        /\ Append(q, e)[Len(q) + 1] = e
    OBVIOUS
  <2>2. 1 .. Len(q) \subseteq 1 .. Len(q) + 1 /\ Len(q) + 1 \in 1 .. Len(q) + 1
    BY <2>1
  <2> QED
    BY <2>1, <2>2 DEF ToSet
<1>2. ASSUME q # <<>>, NEW i \in DOMAIN q
      PROVE  q[i] = Head(q) \/ q[i] \in ToSet(Tail(q))
  <2>1. i \in 1 .. Len(q) /\ Len(q) \in Nat
    OBVIOUS
  <2>2. CASE i = 1
    BY <1>2, <2>2
  <2>3. CASE i # 1
    <3>1. i - 1 \in DOMAIN Tail(q) /\ Tail(q)[i - 1] = q[i]
      BY <1>2, <2>1, <2>3
    <3> QED
      BY <3>1 DEF ToSet
  <2> QED
    BY <2>2, <2>3
<1>3. \A x \in ToSet(q) : q # <<>> => x = Head(q) \/ x \in ToSet(Tail(q))
    BY <1>2 DEF ToSet
<1> QED
    BY <1>1, <1>3

LEMMA PostToRelayStep ==
    ASSUME InInv, NEW e \in Envelopes, PostToRelay(e)
    PROVE  InInv'
<1>1. /\ UNCHANGED <<drain, batch, mailbox, work, verified, rate, passed, spoiled, uses,
                     byCode, respent, settled, lost>>
      /\ unsent' = unsent \ {e} /\ relayed' = Append(relayed, e)
    BY DEF PostToRelay, rateVars, codeVars
<1>2. RelayOK /\ AllHeld
    BY DEF InInv
<1>3. WorkOK' /\ RateOK' /\ CodeOK'
    BY <1>1, FrameWork, FrameLimits
<1>4. relayed' \in Seq(Envelopes)
    BY <1>1, <1>2, OnLists DEF RelayOK
<1>5. RelayOK'
    BY <1>1, <1>2, <1>4 DEF RelayOK
<1>6. \A x : x \in ToSet(relayed) \/ x = e => x \in ToSet(relayed')
    BY <1>1, <1>2, OnLists DEF RelayOK
<1>7. AllHeld'
    BY <1>1, <1>2, <1>6 DEF AllHeld, Held, Works
<1> QED
    BY <1>3, <1>5, <1>7 DEF InInv

LEMMA DrainReadStep ==
    ASSUME InInv, DrainRead
    PROVE  InInv'
<1>1. /\ UNCHANGED <<unsent, relayed, batch, mailbox, work, verified, rate, passed, spoiled,
                     uses, byCode, respent, settled, lost>>
      /\ drain = NotDraining /\ batch = <<>> /\ drain' = relayed
    BY DEF DrainRead, rateVars, codeVars
<1>2. RelayOK /\ AllHeld
    BY DEF InInv
<1>3. WorkOK' /\ RateOK' /\ CodeOK'
    BY <1>1, FrameWork, FrameLimits
<1>4. RelayOK'
    BY <1>1, <1>2 DEF RelayOK
<1>5. AllHeld'
    BY <1>1, <1>2 DEF AllHeld, Held, Works
<1> QED
    BY <1>3, <1>4, <1>5 DEF InInv

LEMMA DrainTruncateStep ==
    ASSUME InInv, DrainTruncate
    PROVE  InInv'
<1>1. /\ UNCHANGED <<unsent, mailbox, work, verified, rate, passed, spoiled, uses, byCode,
                     respent, settled>>
      /\ drain # NotDraining /\ relayed' = <<>> /\ batch' = drain
      /\ drain' = NotDraining
      /\ lost' = lost \cup (ToSet(relayed) \ ToSet(drain))
    BY DEF DrainTruncate, Answer, rateVars, codeVars
<1>2. RelayOK /\ AllHeld
    BY DEF InInv
<1>3. WorkOK' /\ RateOK' /\ CodeOK'
    BY <1>1, FrameWork, FrameLimits
<1>4. RelayOK'
    BY <1>1, <1>2 DEF RelayOK
<1>5. ASSUME NEW e \in Envelopes  PROVE Held(e)'
  <2>1. Held(e)
    BY <1>2 DEF AllHeld
  <2>2. e \notin ToSet(batch)
    BY <1>1, <1>2 DEF RelayOK, ToSet
  <2> QED
    BY <1>1, <2>1, <2>2 DEF Held, Works
<1> QED
    BY <1>3, <1>4, <1>5 DEF InInv, AllHeld

\* A process that was idle takes up an envelope.
LEMMA BeginEffect ==
    ASSUME InInv, NEW s \in Processes, NEW e \in Envelopes, work[s].at = "idle",
           Begin(s, e)
    PROVE  /\ DOMAIN work' = Processes
           /\ \A t \in Processes : t # s => work'[t] = work[t]
           /\ WorkTyped(s)' /\ work'[s].env = e /\ work'[s].at \in {"verify", "rate"}
<1>1. WorkOK
    BY DEF InInv
<1>2. /\ DOMAIN work' = Processes
      /\ \A t \in Processes : t # s => work'[t] = work[t]
      /\ work'[s] = [AtRest EXCEPT !.at = FirstStep(e), !.env = e]
    BY <1>1 DEF WorkOK, Begin
<1>3. /\ DOMAIN work'[s] = {"at", "env", "hits", "uses", "received", "kept", "seen"}
      /\ work'[s].at = FirstStep(e) /\ work'[s].env = e /\ work'[s].uses = 0 /\ work'[s].seen = {}
    BY <1>2 DEF AtRest
<1>4. FirstStep(e) \in {"verify", "rate"}
    BY DEF FirstStep
<1>5. WorkTyped(s)'
    BY <1>3, <1>4 DEF WorkTyped, Works, WorkSteps
<1> QED
    BY <1>2, <1>3, <1>4, <1>5

LEMMA TakenUp ==
    ASSUME InInv, NEW s \in Processes, NEW e \in Envelopes, work[s].at = "idle",
           Begin(s, e), s = "daemon" => e \in mailbox,
           UNCHANGED <<mailbox, rate, passed, spoiled, uses, byCode, respent>>
    PROVE  WorkOK' /\ RateOK' /\ CodeOK'
<1>1. WorkOK /\ "daemon" \in Processes
    BY DEF InInv, Processes
<1>2. /\ DOMAIN work' = Processes
      /\ \A t \in Processes : t # s => work'[t] = work[t]
      /\ WorkTyped(s)' /\ work'[s].env = e /\ work'[s].at \in {"verify", "rate"}
    BY BeginEffect
<1>3. \A t \in Processes : WorkTyped(t)'
    BY <1>1, <1>2 DEF WorkOK, WorkTyped, Works
<1>4. WorkOK'
    BY <1>1, <1>2, <1>3 DEF WorkOK, Works
<1>5. \A t \in Processes : work'[t] = work[t] \/ work'[t].at \notin {"hit", "use", "mint"}
    BY <1>2
<1> QED
    BY <1>4, <1>5, FrameRate, FrameCode

LEMMA ApplyNextStep ==
    ASSUME InInv, ApplyNext
    PROVE  InInv'
<1>1. /\ UNCHANGED <<unsent, relayed, drain, mailbox, verified, rate, passed, spoiled, uses,
                     byCode, respent, settled, lost>>
      /\ work["cli"].at = "idle" /\ batch # <<>> /\ batch' = Tail(batch)
      /\ Begin("cli", Head(batch))
    BY DEF ApplyNext, InStep, rateVars, codeVars
<1>2. RelayOK /\ AllHeld /\ "cli" \in Processes
    BY DEF InInv, Processes
<1>3. /\ Head(batch) \in Envelopes /\ batch' \in Seq(Envelopes)
      /\ \A x \in ToSet(batch) : x = Head(batch) \/ x \in ToSet(batch')
    BY <1>1, <1>2, OnLists DEF RelayOK
<1>4. WorkOK' /\ RateOK' /\ CodeOK'
    BY <1>1, <1>2, <1>3, TakenUp
<1>5. RelayOK'
    BY <1>1, <1>2, <1>3 DEF RelayOK
<1>6. /\ \A t \in Processes : t # "cli" => work'[t] = work[t]
      /\ work'["cli"].env = Head(batch) /\ Works("cli")'
    BY <1>1, <1>2, <1>3, BeginEffect DEF Works, WorkSteps
<1>7. ASSUME NEW e \in Envelopes  PROVE Held(e)'
  <2>1. Held(e)
    BY <1>2 DEF AllHeld
  <2>2. (\E t \in Processes : Works(t) /\ work[t].env = e)
        => \E t \in Processes : Works(t)' /\ work'[t].env = e
    BY <1>1, <1>6 DEF Works, WorkSteps
  <2>3. e \in ToSet(batch) =>
            e \in ToSet(batch') \/ \E t \in Processes : Works(t)' /\ work'[t].env = e
    BY <1>2, <1>3, <1>6
  <2> QED
    BY <1>1, <2>1, <2>2, <2>3 DEF Held
<1> QED
    BY <1>4, <1>5, <1>7 DEF InInv, AllHeld

LEMMA DeliverStep ==
    ASSUME InInv, NEW e \in Envelopes, DeliverMail(e)
    PROVE  InInv'
<1>1. /\ UNCHANGED <<unsent, relayed, drain, batch, mailbox, verified, rate, passed, spoiled,
                     uses, byCode, respent, settled, lost>>
      /\ work["daemon"].at = "idle" /\ e \in mailbox /\ Begin("daemon", e)
    BY DEF DeliverMail, InStep, relayVars, rateVars, codeVars
<1>2. RelayOK /\ AllHeld /\ "daemon" \in Processes
    BY DEF InInv, Processes
<1>3. WorkOK' /\ RateOK' /\ CodeOK'
    BY <1>1, <1>2, TakenUp
<1>4. RelayOK'
    BY <1>1, <1>2, FrameRelay DEF RelayOK
<1>5. \A t \in Processes : t # "daemon" => work'[t] = work[t]
    BY <1>1, <1>2, BeginEffect
<1>6. ASSUME NEW x \in Envelopes  PROVE Held(x)'
  <2>1. Held(x)
    BY <1>2 DEF AllHeld
  <2>2. (\E t \in Processes : Works(t) /\ work[t].env = x)
        => \E t \in Processes : Works(t)' /\ work'[t].env = x
    BY <1>1, <1>5 DEF Works, WorkSteps
  <2> QED
    BY <1>1, <2>1, <2>2 DEF Held
<1> QED
    BY <1>3, <1>4, <1>6 DEF InInv, AllHeld

LEMMA CrashStep ==
    ASSUME InInv, NEW s \in Processes, EndProcess(s)
    PROVE  InInv'
<1>1. /\ UNCHANGED <<unsent, relayed, drain, mailbox, verified, rate, passed, spoiled, uses,
                     byCode, respent, settled>>
      /\ work' = [work EXCEPT ![s] = AtRest]
      /\ \/ s = "cli" /\ batch' = <<>>
            /\ lost' = lost \cup ToSet(batch) \cup {work[s].env}
         \/ s # "cli" /\ UNCHANGED <<batch, lost>>
    BY DEF EndProcess, rateVars, codeVars
<1>2. WorkOK /\ RelayOK /\ AllHeld
    BY DEF InInv
<1>3. /\ DOMAIN work' = Processes /\ work'[s] = AtRest
      /\ \A t \in Processes : t # s => work'[t] = work[t]
    BY <1>1, <1>2 DEF WorkOK
<1>4. WorkTyped(s)' /\ work'[s].at = "idle"
    BY <1>3 DEF WorkTyped, AtRest, Works, WorkSteps
<1>5. \A t \in Processes : WorkTyped(t)'
    BY <1>2, <1>3, <1>4 DEF WorkOK, WorkTyped, Works
<1>6. "daemon" \in Processes
    BY DEF Processes
<1>7. WorkOK'
    BY <1>1, <1>2, <1>3, <1>4, <1>5, <1>6 DEF WorkOK, Works, WorkSteps
<1>8. batch' \in Seq(Envelopes) /\ (batch' = batch \/ batch' = <<>>)
    BY <1>1, <1>2, NothingLeft DEF RelayOK
<1>9. RelayOK'
    BY <1>1, <1>2, <1>8 DEF RelayOK
<1>10. ASSUME NEW e \in Envelopes  PROVE Held(e)'
  <2>1. Held(e)
    BY <1>2 DEF AllHeld
  <2>2. e \in ToSet(batch) => e \in ToSet(batch') \/ e \in lost'
    BY <1>1
  <2>3. Works(s) /\ work[s].env = e => e \in mailbox' \/ e \in lost'
    BY <1>1, <1>2 DEF WorkOK, Processes
  <2>4. (\E t \in Processes : t # s /\ Works(t) /\ work[t].env = e)
        => \E t \in Processes : Works(t)' /\ work'[t].env = e
    BY <1>3 DEF Works
  <2>5. lost \subseteq lost'
    BY <1>1
  <2> QED
    BY <1>1, <2>1, <2>2, <2>3, <2>4, <2>5 DEF Held
<1>11. \A t \in Processes : work'[t] = work[t] \/ work'[t].at \notin {"hit", "use", "mint"}
    BY <1>3, <1>4
<1> QED
    BY <1>1, <1>7, <1>9, <1>10, <1>11, FrameRate, FrameCode DEF InInv, AllHeld

-----------------------------------------------------------------------------
\* The two cardinalities of a window, when a hit leaves or enters it.
LEMMA HitLeaves ==
    ASSUME NEW S, NEW h, Within(S)
    PROVE  Within(S \ {h})
<1>1. /\ IsFiniteSet(S) /\ Cardinality(S) <= MaxGlobal
      /\ \A g \in S : Cardinality(OfSame(S, g)) <= MaxPeer
    BY DEF Within
<1>2. /\ IsFiniteSet(S \ {h}) /\ Cardinality(S \ {h}) <= Cardinality(S)
      /\ Cardinality(S \ {h}) \in Nat /\ Cardinality(S) \in Nat
    BY <1>1, FS_Subset, FS_CardinalityType
<1>3. ASSUME NEW g \in S \ {h}
      PROVE  Cardinality(OfSame(S \ {h}, g)) <= MaxPeer
  <2>1. OfSame(S \ {h}, g) \subseteq OfSame(S, g) /\ OfSame(S, g) \subseteq S
    BY DEF OfSame
  <2>2. IsFiniteSet(OfSame(S, g))
    BY <1>1, <2>1, FS_Subset
  <2>3. /\ Cardinality(OfSame(S \ {h}, g)) <= Cardinality(OfSame(S, g))
        /\ Cardinality(OfSame(S, g)) \in Nat /\ IsFiniteSet(OfSame(S \ {h}, g))
    BY <2>1, <2>2, FS_Subset, FS_CardinalityType
  <2>4. Cardinality(OfSame(S \ {h}, g)) \in Nat
    BY <2>3, FS_CardinalityType
  <2> QED
    BY <1>1, <2>3, <2>4, LimitsAssumption
<1> QED
    BY <1>1, <1>2, <1>3, LimitsAssumption DEF Within

LEMMA RoomStays ==
    ASSUME NEW S, NEW h, NEW p, Within(S), RoomFor(S, p)
    PROVE  RoomFor(S \ {h}, p)
<1> DEFINE Of(T) == {g \in T : g.from = p}
<1>1. IsFiniteSet(S) /\ Cardinality(S) < MaxGlobal /\ Cardinality(Of(S)) < MaxPeer
    BY DEF Within, RoomFor
<1>2. /\ Cardinality(S \ {h}) <= Cardinality(S) /\ Cardinality(S) \in Nat
      /\ IsFiniteSet(S \ {h}) /\ IsFiniteSet(Of(S))
    BY <1>1, FS_Subset, FS_CardinalityType
<1>3. /\ IsFiniteSet(Of(S \ {h})) /\ Cardinality(Of(S \ {h})) <= Cardinality(Of(S))
      /\ Cardinality(Of(S)) \in Nat /\ Cardinality(S \ {h}) \in Nat
    BY <1>2, FS_Subset, FS_CardinalityType
<1>4. Cardinality(Of(S \ {h})) \in Nat
    BY <1>3, FS_CardinalityType
<1>5. Cardinality(S \ {h}) < MaxGlobal /\ Cardinality(Of(S \ {h})) < MaxPeer
    BY <1>1, <1>2, <1>3, <1>4, LimitsAssumption
<1> QED
    BY <1>5 DEF RoomFor

\* One more element is at most one more.
LEMMA OneMore ==
    ASSUME NEW S, NEW x, IsFiniteSet(S)
    PROVE  /\ IsFiniteSet(S \cup {x}) /\ Cardinality(S) \in Nat
           /\ Cardinality(S \cup {x}) \in Nat
           /\ Cardinality(S \cup {x}) <= Cardinality(S) + 1
<1> DEFINE n == Cardinality(S)
<1> DEFINE k == Cardinality(S \cup {x})
<1>1. IsFiniteSet(S \cup {x}) /\ k = IF x \in S THEN n ELSE n + 1
    BY FS_AddElement
<1>2. n \in Nat
    BY FS_CardinalityType
<1> HIDE DEF n, k
<1>3. k \in Nat /\ k <= n + 1
    BY <1>1, <1>2
<1> QED
    BY <1>1, <1>2, <1>3 DEF n, k

LEMMA HitEnters ==
    ASSUME NEW S, NEW h, Within(S), RoomFor(S, h.from)
    PROVE  Within(S \cup {h})
<1> DEFINE Of(T) == {g \in T : g.from = h.from}
<1>1. /\ IsFiniteSet(S) /\ Cardinality(S) < MaxGlobal /\ Cardinality(Of(S)) < MaxPeer
      /\ \A g \in S : Cardinality(OfSame(S, g)) <= MaxPeer
    BY DEF Within, RoomFor
<1>2. /\ IsFiniteSet(S \cup {h}) /\ Cardinality(S) \in Nat
      /\ Cardinality(S \cup {h}) \in Nat
      /\ Cardinality(S \cup {h}) <= Cardinality(S) + 1
    BY <1>1, OneMore
<1>3. /\ IsFiniteSet(Of(S)) /\ Of(S \cup {h}) = Of(S) \cup {h}
    BY <1>1, FS_Subset
<1>4. /\ Cardinality(Of(S)) \in Nat /\ Cardinality(Of(S) \cup {h}) \in Nat
      /\ Cardinality(Of(S) \cup {h}) <= Cardinality(Of(S)) + 1
    BY <1>3, OneMore
<1>5. Cardinality(Of(S \cup {h})) <= MaxPeer
  <2> DEFINE n == Cardinality(Of(S))
  <2> DEFINE k == Cardinality(Of(S) \cup {h})
  <2>1. n < MaxPeer /\ n \in Nat /\ k \in Nat /\ k <= n + 1
    BY <1>1, <1>4
  <2> HIDE DEF n, k
  <2>2. k <= MaxPeer
    BY <2>1, LimitsAssumption
  <2> QED
    BY <1>3, <2>2 DEF k
<1>6. ASSUME NEW g \in S \cup {h}
      PROVE  Cardinality(OfSame(S \cup {h}, g)) <= MaxPeer
  <2>1. CASE g.from = h.from
    <3>1. OfSame(S \cup {h}, g) = Of(S \cup {h})
      BY <2>1 DEF OfSame
    <3> QED
      BY <1>5, <3>1
  <2>2. CASE g.from # h.from
    <3>1. OfSame(S \cup {h}, g) = OfSame(S, g) /\ g \in S
      BY <1>6, <2>2 DEF OfSame
    <3> QED
      BY <1>1, <3>1
  <2> QED
    BY <2>1, <2>2
<1>7. Cardinality(S \cup {h}) <= MaxGlobal
    BY <1>1, <1>2, LimitsAssumption
<1> QED
    BY <1>2, <1>6, <1>7 DEF Within

-----------------------------------------------------------------------------
LEMMA VerifyStep ==
    ASSUME InInv, NEW s \in Processes, VerifyEnvelope(s)
    PROVE  InInv'
<1>1. /\ UNCHANGED <<unsent, relayed, drain, rate, passed, spoiled, uses, byCode, respent>>
      /\ work[s].at = "verify" /\ Works(s)
    BY DEF VerifyEnvelope, InStep, rateVars, codeVars, Works, WorkSteps
<1>2. WorkOK /\ RelayOK
    BY DEF InInv
<1>3. CASE Refuse(s) /\ UNCHANGED verified
  <2>1. verified' \subseteq Envelopes
    BY <1>2, <1>3 DEF RelayOK
  <2> QED
    BY <1>1, <1>3, <2>1, Finished DEF InInv
<1>4. CASE /\ work' = [work EXCEPT ![s].at = "mark", ![s].seen = verified]
           /\ UNCHANGED <<batch, mailbox, verified, settled, lost>>
  <2>1. verified' \subseteq Envelopes
    BY <1>2, <1>4 DEF RelayOK
  <2>2. GoesOn(s) /\ work'[s].at = "mark"
    BY <1>1, <1>2, <1>4 DEF GoesOn, RelayOK, WorkOK, WorkTyped, WorkSteps
  <2>3. \A t \in Processes : work'[t] = work[t] \/ work'[t].at \notin {"hit", "use", "mint"}
    BY <2>2 DEF GoesOn
  <2> QED
    BY <1>1, <1>4, <2>1, <2>2, <2>3, GoesOnKeeps, FrameRelay, FrameRate, FrameCode DEF InInv
<1> QED
    BY <1>3, <1>4 DEF VerifyEnvelope

LEMMA MarkStep ==
    ASSUME InInv, NEW s \in Processes, MarkSeen(s)
    PROVE  InInv'
<1>1. /\ UNCHANGED <<unsent, relayed, drain, batch, mailbox, rate, passed, spoiled, uses,
                     byCode, respent, settled, lost>>
      /\ verified' = work[s].seen \cup {work[s].env}
      /\ work[s].at = "mark" /\ Works(s)
    BY DEF MarkSeen, InStep, relayVars, rateVars, codeVars, Works, WorkSteps
<1>2. WorkOK
    BY DEF InInv
<1>3. \/ work' = [work EXCEPT ![s].seen = {}, ![s].at = "rate"]
      \/ work' = [work EXCEPT ![s].seen = {}, ![s].at = "bundle", ![s].received = clock + 1]
    BY DEF MarkSeen
<1>4. verified' \subseteq Envelopes
    BY <1>1, <1>2 DEF WorkOK, WorkTyped
<1>5. GoesOn(s) /\ work'[s].at \in {"rate", "bundle"}
    BY <1>1, <1>2, <1>3 DEF GoesOn, WorkOK, WorkTyped, WorkSteps
<1>6. \A t \in Processes : work'[t] = work[t] \/ work'[t].at \notin {"hit", "use", "mint"}
    BY <1>5 DEF GoesOn
<1> QED
    BY <1>1, <1>4, <1>5, <1>6, GoesOnKeeps, FrameRelay, FrameRate, FrameCode DEF InInv

LEMMA RateReadStep ==
    ASSUME InInv, NEW s \in Processes, RateRead(s)
    PROVE  InInv'
<1>1. /\ UNCHANGED <<unsent, relayed, drain, verified, rate, passed, spoiled, uses, byCode,
                     respent>>
      /\ work[s].at = "rate" /\ Works(s)
    BY DEF RateRead, InStep, rateVars, codeVars, Works, WorkSteps
<1>2. WorkOK /\ RelayOK /\ RateOK /\ verified' \subseteq Envelopes
    BY <1>1 DEF InInv, RelayOK
<1>3. CASE Refuse(s)
    BY <1>1, <1>2, <1>3, Finished DEF InInv
<1>4. CASE /\ ~Over(Sender(s))
           /\ work' = [work EXCEPT ![s].at = "hit", ![s].hits = rate]
           /\ UNCHANGED <<batch, mailbox, settled, lost>>
  <2>1. /\ GoesOn(s) /\ work'[s].at = "hit" /\ work'[s].hits = rate
    BY <1>1, <1>2, <1>4 DEF GoesOn, WorkOK, WorkTyped, WorkSteps
  <2>2. RoomFor(rate, From[work[s].env])
    <3> DEFINE n == Cardinality(rate)
    <3> DEFINE k == Cardinality({h \in rate : h.from = From[work[s].env]})
    <3>1. ~(k >= MaxPeer \/ n >= MaxGlobal)
      BY <1>4 DEF Over, HitsOf, Sender
    <3>2. n \in Nat /\ k \in Nat
      BY <1>2, FS_Subset, FS_CardinalityType DEF RateOK, Within
    <3> HIDE DEF n, k
    <3>3. n < MaxGlobal /\ k < MaxPeer
      BY <3>1, <3>2, LimitsAssumption
    <3> QED
      BY <3>3 DEF RoomFor, n, k
  <2>3. HitCopy(s)'
    BY <1>1, <1>2, <2>1, <2>2 DEF HitCopy, RateOK, GoesOn, Within, OfSame, RoomFor
  <2>4. ASSUME NEW t \in Processes, t # s  PROVE HitCopy(t)'
    BY <1>1, <1>2, <2>1, <2>4 DEF HitCopy, RateOK, GoesOn
  <2>5. RateOK'
    BY <1>1, <1>2, <2>3, <2>4 DEF RateOK
  <2>6. CodeOK'
    BY <1>1, <2>1, FrameCode DEF GoesOn
  <2> QED
    BY <1>1, <1>2, <1>4, <2>1, <2>5, <2>6, GoesOnKeeps, FrameRelay DEF InInv
<1> QED
    BY <1>3, <1>4 DEF RateRead

LEMMA RateWriteStep ==
    ASSUME InInv, NEW s \in Processes, RateWrite(s)
    PROVE  InInv'
<1>1. /\ UNCHANGED <<unsent, relayed, drain, batch, mailbox, verified, uses, byCode, respent,
                     settled, lost>>
      /\ work[s].at = "hit" /\ Works(s)
    BY DEF RateWrite, InStep, relayVars, codeVars, Works, WorkSteps
<1>2. PICK hit :
        /\ hit.from = From[work[s].env]
        /\ rate' = work[s].hits \cup {hit} /\ passed' = passed \cup {hit}
        /\ spoiled' = spoiled \cup (rate \ work[s].hits)
    BY DEF RateWrite, Sender
<1>3. work' = [work EXCEPT ![s].hits = {},
                           ![s].at = IF work[s].env \in Requests THEN "gate" ELSE "verify"]
    BY DEF RateWrite
<1>4. WorkOK /\ RateOK /\ HitCopy(s) /\ verified' \subseteq Envelopes
    BY <1>1 DEF InInv, RateOK, RelayOK
<1>5. GoesOn(s) /\ work'[s].at \in {"gate", "verify"}
    BY <1>1, <1>3, <1>4 DEF GoesOn, WorkOK, WorkTyped, WorkSteps
<1>6. Within(rate')
    BY <1>1, <1>2, <1>4, HitEnters DEF HitCopy
<1>7. ASSUME NEW t \in Processes  PROVE HitCopy(t)'
    BY <1>2, <1>4, <1>5 DEF HitCopy, RateOK, GoesOn
<1>8. rate' \subseteq passed' /\ passed' \ spoiled' \subseteq rate'
    BY <1>1, <1>2, <1>4 DEF RateOK, HitCopy
<1>9. RateOK'
    BY <1>6, <1>7, <1>8 DEF RateOK, Within, OfSame
<1>10. CodeOK'
    BY <1>1, <1>5, FrameCode DEF GoesOn
<1> QED
    BY <1>1, <1>4, <1>5, <1>9, <1>10, GoesOnKeeps, FrameRelay DEF InInv

LEMMA AgeStep ==
    ASSUME InInv, NEW h \in passed, Age(h)
    PROVE  InInv'
<1>1. /\ UNCHANGED <<unsent, relayed, drain, batch, mailbox, verified, uses, byCode, respent,
                     settled, lost>>
      /\ rate' = rate \ {h} /\ passed' = passed \ {h} /\ spoiled' = spoiled \ {h}
      /\ work' = [s \in Processes |-> [work[s] EXCEPT !.hits = @ \ {h}]]
    BY DEF Age, relayVars, codeVars
<1>2. WorkOK /\ RelayOK /\ AllHeld /\ RateOK /\ CodeOK
    BY DEF InInv
<1>3. DOMAIN work' = Processes
    BY <1>1
<1>4. ASSUME NEW s \in Processes
      PROVE  /\ DOMAIN work'[s] = DOMAIN work[s] /\ work'[s].at = work[s].at
             /\ work'[s].env = work[s].env /\ work'[s].uses = work[s].uses
             /\ work'[s].hits = work[s].hits \ {h} /\ work'[s].seen = work[s].seen
    BY <1>1, <1>2 DEF WorkOK, WorkTyped
<1>5. \A s \in Processes : WorkTyped(s)'
    BY <1>2, <1>4 DEF WorkOK, WorkTyped, Works
<1>6. "daemon" \in Processes
    BY DEF Processes
<1>7. WorkOK'
  <2>1. /\ work'["daemon"].at = work["daemon"].at /\ work'["daemon"].env = work["daemon"].env
    BY <1>4, <1>6
  <2>2. Works("daemon")' => work'["daemon"].env \in mailbox'
    BY <1>1, <1>2, <2>1 DEF WorkOK, Works
  <2> QED
    BY <1>2, <1>3, <1>5, <2>1, <2>2 DEF WorkOK
<1>8. AllHeld'
    BY <1>1, <1>2, <1>4 DEF AllHeld, Held, Works
<1>9. RelayOK'
    BY <1>1, <1>2 DEF RelayOK
<1>10. ASSUME NEW s \in Processes  PROVE UseCopy(s)'
    BY <1>2, <1>4 DEF CodeOK, UseCopy
<1>11. CodeOK'
    BY <1>1, <1>2, <1>10 DEF CodeOK
<1>12. ASSUME NEW s \in Processes, work'[s].at = "hit"
       PROVE  /\ work'[s].hits \subseteq passed' /\ Within(work'[s].hits)
              /\ RoomFor(work'[s].hits, From[work'[s].env])
  <2>1. /\ work[s].hits \subseteq passed /\ Within(work[s].hits)
        /\ RoomFor(work[s].hits, From[work[s].env])
    BY <1>2, <1>4, <1>12 DEF RateOK, HitCopy
  <2>2. Within(work[s].hits \ {h}) /\ RoomFor(work[s].hits \ {h}, From[work[s].env])
    BY <2>1, HitLeaves, RoomStays
  <2> QED
    BY <1>1, <1>4, <2>1, <2>2
<1>13. \A s \in Processes : HitCopy(s)'
    BY <1>12 DEF HitCopy, Within, OfSame, RoomFor
<1>14. Within(rate')
    BY <1>1, <1>2, HitLeaves DEF RateOK
<1>15. rate' \subseteq passed' /\ passed' \ spoiled' \subseteq rate'
    BY <1>1, <1>2 DEF RateOK
<1>16. RateOK'
    BY <1>13, <1>14, <1>15 DEF RateOK, Within, OfSame
<1> QED
    BY <1>7, <1>8, <1>9, <1>11, <1>16 DEF InInv

LEMMA GateStep ==
    ASSUME InInv, NEW s \in Processes, Gate(s)
    PROVE  InInv'
<1>1. /\ UNCHANGED <<unsent, relayed, drain, verified, rate, passed, spoiled, uses, byCode,
                     respent>>
      /\ work[s].at = "gate" /\ Works(s)
    BY DEF Gate, InStep, rateVars, codeVars, Works, WorkSteps
<1>2. WorkOK /\ CodeOK /\ verified' \subseteq Envelopes
    BY <1>1 DEF InInv, RelayOK
<1>3. CASE Refuse(s)
    BY <1>1, <1>2, <1>3, Finished DEF InInv
<1>4. CASE Advance(s, "file") /\ UNCHANGED <<batch, mailbox, settled, lost>>
  <2>1. GoesOn(s) /\ work'[s].at = "file"
    BY <1>1, <1>2, <1>4 DEF GoesOn, Advance, WorkOK, WorkTyped, WorkSteps
  <2>2. RateOK' /\ CodeOK'
    BY <1>1, <2>1, FrameRate, FrameCode DEF GoesOn
  <2> QED
    BY <1>1, <1>2, <1>4, <2>1, <2>2, GoesOnKeeps, FrameRelay DEF InInv
<1>5. CASE /\ CodeUsable /\ work' = [work EXCEPT ![s].at = "use", ![s].uses = uses]
           /\ UNCHANGED <<batch, mailbox, settled, lost>>
  <2>1. GoesOn(s) /\ work'[s].at = "use" /\ work'[s].uses = uses
    BY <1>1, <1>2, <1>5 DEF GoesOn, WorkOK, WorkTyped, WorkSteps, CodeOK
  <2>2. UseCopy(s)'
    BY <1>5, <2>1, LimitsAssumption DEF UseCopy, CodeUsable
  <2>3. ASSUME NEW t \in Processes, t # s  PROVE UseCopy(t)'
    BY <1>2, <2>1, <2>3 DEF UseCopy, CodeOK, GoesOn
  <2>4. CodeOK'
    BY <1>1, <1>2, <2>2, <2>3 DEF CodeOK
  <2>5. RateOK'
    BY <1>1, <2>1, FrameRate DEF GoesOn
  <2> QED
    BY <1>1, <1>2, <1>5, <2>1, <2>4, <2>5, GoesOnKeeps, FrameRelay DEF InInv
<1> QED
    BY <1>3, <1>4, <1>5 DEF Gate

LEMMA ConsumeStep ==
    ASSUME InInv, NEW s \in Processes, ConsumeInviteCode(s)
    PROVE  InInv'
<1>1. /\ UNCHANGED <<unsent, relayed, drain, batch, mailbox, verified, rate, passed, spoiled,
                     settled, lost>>
      /\ work[s].at = "use" /\ Works(s)
      /\ uses' = work[s].uses + 1 /\ byCode' = byCode \cup {work[s].env}
      /\ respent' = respent + (uses - work[s].uses)
      /\ work' = [work EXCEPT ![s].at = "file", ![s].uses = 0]
    BY DEF ConsumeInviteCode, InStep, relayVars, rateVars, Works, WorkSteps
<1>2. WorkOK /\ CodeOK /\ UseCopy(s) /\ work[s].uses \in Nat /\ verified' \subseteq Envelopes
    BY <1>1 DEF InInv, RelayOK, CodeOK, WorkOK, WorkTyped
<1>3. GoesOn(s) /\ work'[s].at = "file"
    BY <1>1, <1>2 DEF GoesOn, WorkOK, WorkTyped, WorkSteps
<1>4. /\ IsFiniteSet(byCode') /\ Cardinality(byCode') \in Nat /\ Cardinality(byCode) \in Nat
      /\ Cardinality(byCode') <= Cardinality(byCode) + 1
    BY <1>1, <1>2, OneMore DEF CodeOK
<1>5. /\ uses' \in Nat /\ respent' \in Int /\ uses' + respent' = uses + respent + 1
      /\ uses \in Nat /\ respent \in Int
    BY <1>1, <1>2 DEF CodeOK
<1>a. Cardinality(byCode) <= uses + respent
    BY <1>2 DEF CodeOK
<1>6. Cardinality(byCode') <= uses' + respent'
  <2>1. ASSUME NEW m \in Nat, NEW n \in Nat, NEW k \in Int, n <= m + 1, m <= k
        PROVE  n <= k + 1
      BY <2>1
  <2>2. uses + respent \in Int
      BY <1>5
  <2> QED
      BY <1>4, <1>5, <1>a, <2>1, <2>2
<1>7. MaxUses > 0 => uses' <= MaxUses
    BY <1>1, <1>2, LimitsAssumption DEF UseCopy
<1>8. ASSUME NEW t \in Processes  PROVE UseCopy(t)'
    BY <1>2, <1>3 DEF UseCopy, CodeOK, GoesOn
<1>9. CodeOK'
    BY <1>4, <1>5, <1>6, <1>7, <1>8 DEF CodeOK
<1>10. RateOK'
    BY <1>1, <1>3, FrameRate DEF GoesOn
<1> QED
    BY <1>1, <1>2, <1>3, <1>9, <1>10, GoesOnKeeps, FrameRelay DEF InInv

LEMMA CodeExpiresStep ==
    ASSUME InInv, CodeExpires
    PROVE  InInv'
<1>1. UNCHANGED <<unsent, relayed, drain, batch, mailbox, work, verified, rate, passed, spoiled,
                  uses, byCode, respent, settled, lost>>
    BY DEF CodeExpires, relayVars, rateVars
<1>2. RelayOK' /\ AllHeld'
    BY <1>1 DEF InInv, RelayOK, AllHeld, Held, Works
<1> QED
    BY <1>1, <1>2, FrameWork, FrameLimits DEF InInv

LEMMA FileRequestStep ==
    ASSUME InInv, NEW s \in Processes, FileRequest(s)
    PROVE  InInv'
<1>1. /\ UNCHANGED <<unsent, relayed, drain, verified, rate, passed, spoiled, uses, byCode,
                     respent>>
      /\ File(s) /\ Works(s)
    BY DEF FileRequest, InStep, rateVars, codeVars, Works, WorkSteps
<1>2. verified' \subseteq Envelopes
    BY <1>1 DEF InInv, RelayOK
<1> QED
    BY <1>1, <1>2, Finished DEF InInv

LEMMA BundlesReadStep ==
    ASSUME InInv, NEW s \in Processes, BundlesRead(s)
    PROVE  InInv'
<1>1. /\ UNCHANGED <<unsent, relayed, drain, batch, mailbox, verified, rate, passed, spoiled,
                     uses, byCode, respent, settled, lost>>
      /\ work[s].at = "bundle" /\ work' = [work EXCEPT ![s].at = "keep", ![s].kept = bundles]
    BY DEF BundlesRead, InStep, relayVars, rateVars, codeVars
<1>2. WorkOK /\ verified' \subseteq Envelopes
    BY <1>1 DEF InInv, RelayOK
<1>3. GoesOn(s) /\ work'[s].at = "keep"
    BY <1>1, <1>2 DEF GoesOn, WorkOK, WorkTyped, WorkSteps
<1>4. RateOK' /\ CodeOK'
    BY <1>1, <1>3, FrameRate, FrameCode DEF GoesOn
<1> QED
    BY <1>1, <1>2, <1>3, <1>4, GoesOnKeeps, FrameRelay DEF InInv

LEMMA BundleStep ==
    ASSUME InInv, NEW s \in Processes, ReceiveSupportBundle(s)
    PROVE  InInv'
<1>1. /\ UNCHANGED <<unsent, relayed, drain, verified, rate, passed, spoiled, uses, byCode,
                     respent>>
      /\ File(s) /\ Works(s)
    BY DEF ReceiveSupportBundle, InStep, rateVars, codeVars, Works, WorkSteps
<1>2. verified' \subseteq Envelopes
    BY <1>1 DEF InInv, RelayOK
<1> QED
    BY <1>1, <1>2, Finished DEF InInv

\* A command of the owner holds no envelope.
Command ==
    /\ DOMAIN work' = Processes /\ work'["daemon"] = work["daemon"]
    /\ work["cli"].at \in {"idle", "status", "mint"}
    /\ work'["cli"].at \in {"idle", "status", "mint"}
    /\ DOMAIN work'["cli"] = {"at", "env", "hits", "uses", "received", "kept", "seen"}
    /\ work'["cli"].uses \in Nat /\ work'["cli"].seen \subseteq Envelopes

LEMMA CommandKeeps ==
    ASSUME InInv, Command,
           UNCHANGED <<unsent, relayed, drain, batch, mailbox, verified, rate, passed, spoiled,
                       settled, lost>>
    PROVE  WorkOK' /\ RelayOK' /\ AllHeld' /\ RateOK'
<1>1. WorkOK /\ RelayOK /\ AllHeld
    BY DEF InInv
<1>2. Processes = {"daemon", "cli"}
    BY DEF Processes
<1>3. ~Works("cli") /\ ~Works("cli")'
    BY DEF Command, Works, WorkSteps
<1>4. WorkTyped("cli")'
    BY <1>3 DEF Command, WorkTyped
<1>5. WorkTyped("daemon")'
    BY <1>1, <1>2 DEF Command, WorkOK, WorkTyped, Works
<1>6. WorkOK'
    BY <1>1, <1>2, <1>4, <1>5 DEF WorkOK, Command, Works
<1>7. RelayOK'
    BY <1>1 DEF RelayOK
<1>8. AllHeld'
    BY <1>1, <1>2, <1>3 DEF AllHeld, Held, Command, Works
<1>9. \A t \in Processes : work'[t] = work[t] \/ work'[t].at # "hit"
    BY <1>2 DEF Command
<1> QED
    BY <1>6, <1>7, <1>8, <1>9, FrameRate

LEMMA StatusReadStep ==
    ASSUME InInv, NEW b, NEW status, SetSupportBundleStatusRead(b, status)
    PROVE  InInv'
<1>1. /\ UNCHANGED <<unsent, relayed, drain, batch, mailbox, verified, rate, passed, spoiled,
                     uses, byCode, respent, settled, lost>>
      /\ work["cli"].at = "idle"
      /\ work' = [work EXCEPT !["cli"].at = "status",
                              !["cli"].kept = SetStatus(bundles, b, status)]
    BY DEF SetSupportBundleStatusRead, InStep, relayVars, rateVars, codeVars
<1>2. WorkOK /\ Processes = {"daemon", "cli"}
    BY DEF InInv, Processes
<1>3. Command /\ work'["cli"].at = "status"
    BY <1>1, <1>2 DEF Command, WorkOK, WorkTyped
<1>4. CodeOK'
    BY <1>1, <1>2, <1>3, FrameCode DEF Command
<1> QED
    BY <1>1, <1>3, <1>4, CommandKeeps DEF InInv

LEMMA StatusWriteStep ==
    ASSUME InInv, SetSupportBundleStatusWrite
    PROVE  InInv'
<1>1. /\ UNCHANGED <<unsent, relayed, drain, batch, mailbox, verified, rate, passed, spoiled,
                     uses, byCode, respent, settled, lost>>
      /\ work["cli"].at = "status" /\ work' = [work EXCEPT !["cli"] = AtRest]
    BY DEF SetSupportBundleStatusWrite, InStep, relayVars, rateVars, codeVars
<1>2. WorkOK /\ Processes = {"daemon", "cli"}
    BY DEF InInv, Processes
<1>3. work'["cli"] = AtRest /\ DOMAIN work' = Processes /\ work'["daemon"] = work["daemon"]
    BY <1>1, <1>2 DEF WorkOK
<1>4. Command /\ work'["cli"].at = "idle"
    BY <1>1, <1>3 DEF Command, AtRest
<1>5. CodeOK'
    BY <1>1, <1>2, <1>4, FrameCode DEF Command
<1> QED
    BY <1>1, <1>4, <1>5, CommandKeeps DEF InInv

LEMMA MintReadStep ==
    ASSUME InInv, MintInviteCodeRead
    PROVE  InInv'
<1>1. /\ UNCHANGED <<unsent, relayed, drain, batch, mailbox, verified, rate, passed, spoiled,
                     uses, byCode, respent, settled, lost>>
      /\ work["cli"].at = "idle"
      /\ work' = [work EXCEPT !["cli"].at = "mint", !["cli"].uses = uses]
    BY DEF MintInviteCodeRead, InStep, relayVars, rateVars, codeVars
<1>2. WorkOK /\ CodeOK /\ Processes = {"daemon", "cli"}
    BY DEF InInv, Processes
<1>3. Command /\ work'["cli"].at = "mint" /\ work'["cli"].uses = uses
    BY <1>1, <1>2 DEF Command, WorkOK, WorkTyped, CodeOK
<1>4. UseCopy("cli")' /\ UseCopy("daemon")'
    BY <1>1, <1>2, <1>3 DEF UseCopy, CodeOK, Command
<1>5. CodeOK'
    BY <1>1, <1>2, <1>4 DEF CodeOK
<1> QED
    BY <1>1, <1>3, <1>5, CommandKeeps DEF InInv

LEMMA MintWriteStep ==
    ASSUME InInv, MintInviteCodeWrite
    PROVE  InInv'
<1>1. /\ UNCHANGED <<unsent, relayed, drain, batch, mailbox, verified, rate, passed, spoiled,
                     byCode, settled, lost>>
      /\ work["cli"].at = "mint" /\ work' = [work EXCEPT !["cli"] = AtRest]
      /\ uses' = work["cli"].uses /\ respent' = respent + (uses - work["cli"].uses)
    BY DEF MintInviteCodeWrite, InStep, relayVars, rateVars
<1>2. WorkOK /\ CodeOK /\ Processes = {"daemon", "cli"}
    BY DEF InInv, Processes
<1>3. work'["cli"] = AtRest /\ DOMAIN work' = Processes /\ work'["daemon"] = work["daemon"]
    BY <1>1, <1>2 DEF WorkOK
<1>4. Command /\ work'["cli"].at = "idle"
    BY <1>1, <1>3 DEF Command, AtRest
<1>5. uses' \in Nat /\ respent' \in Int /\ uses' + respent' = uses + respent
    BY <1>1, <1>2 DEF CodeOK, WorkOK, WorkTyped
<1>6. MaxUses > 0 => uses' <= MaxUses
    BY <1>1, <1>2 DEF CodeOK, UseCopy
<1>7. UseCopy("cli")' /\ UseCopy("daemon")'
    BY <1>2, <1>4 DEF UseCopy, CodeOK, Command
<1>8. CodeOK'
    BY <1>1, <1>2, <1>5, <1>6, <1>7 DEF CodeOK
<1> QED
    BY <1>1, <1>4, <1>8, CommandKeeps DEF InInv

-----------------------------------------------------------------------------
LEMMA InInit ==
    InboundInit => InInv
<1> SUFFICES ASSUME InboundInit
             PROVE  InInv
    OBVIOUS
<1>1. \A s \in Processes : work[s] = AtRest
    BY DEF InboundInit
<1>2. WorkOK
  <2>1. "daemon" \in Processes /\ DOMAIN work = Processes
    BY DEF InboundInit, Processes
  <2>2. \A s \in Processes : WorkTyped(s) /\ work[s].at = "idle"
    BY <1>1 DEF WorkTyped, AtRest, Works, WorkSteps
  <2> QED
    BY <2>1, <2>2 DEF WorkOK, Works, WorkSteps
<1>3. PICK past \in Pasts : /\ verified = past /\ settled = past
                            /\ unsent = ViaRelay \ past
                            /\ mailbox = Envelopes \ (ViaRelay \cup past)
    BY DEF InboundInit
<1>4. RelayOK
  <2>1. relayed = <<>> /\ batch = <<>> /\ drain = NotDraining
    BY DEF InboundInit
  <2>2. unsent \subseteq Envelopes /\ mailbox \subseteq Envelopes
    BY <1>3, PastAssumption
  <2>3. verified \subseteq Envelopes
    BY <1>3, PastAssumption
  <2> QED
    BY <2>1, <2>2, <2>3, NothingLeft DEF RelayOK
<1>5. AllHeld
    BY <1>3 DEF AllHeld, Held
<1>6. RateOK
  <2>1. \A s \in Processes : HitCopy(s)
    BY <1>1 DEF HitCopy, AtRest
  <2>2. Cardinality(rate) = 0 /\ IsFiniteSet(rate) /\ rate = {} /\ passed = {}
    BY FS_EmptySet DEF InboundInit
  <2> QED
    BY <2>1, <2>2, LimitsAssumption DEF RateOK, Within
<1>7. CodeOK
  <2>1. \A s \in Processes : UseCopy(s)
    BY <1>1 DEF UseCopy, AtRest
  <2>2. Cardinality(byCode) = 0 /\ IsFiniteSet(byCode) /\ uses = 0 /\ respent = 0
    BY FS_EmptySet DEF InboundInit
  <2> QED
    BY <2>1, <2>2, LimitsAssumption DEF CodeOK
<1> QED
    BY <1>2, <1>4, <1>5, <1>6, <1>7 DEF InInv

LEMMA InSteps ==
    InInv /\ [InboundNext]_inboundVars => InInv'
<1> SUFFICES ASSUME InInv, [InboundNext]_inboundVars
             PROVE  InInv'
    OBVIOUS
<1>1. ASSUME NEW e \in Envelopes, PostToRelay(e) \/ DeliverMail(e)
      PROVE  InInv'
    BY <1>1, PostToRelayStep, DeliverStep
<1>2. ASSUME DrainRead \/ DrainTruncate \/ ApplyNext
      PROVE  InInv'
    BY <1>2, DrainReadStep, DrainTruncateStep, ApplyNextStep
<1>3. ASSUME NEW s \in Processes, Handler(s)
      PROVE  InInv'
    BY <1>3, VerifyStep, MarkStep, RateReadStep, RateWriteStep, GateStep, ConsumeStep, FileRequestStep,
       BundlesReadStep, BundleStep DEF Handler
<1>4. ASSUME NEW s \in Processes, EndProcess(s)
      PROVE  InInv'
    BY <1>4, CrashStep
<1>5. ASSUME NEW h \in passed, Age(h)
      PROVE  InInv'
    BY <1>5, AgeStep
<1>6. ASSUME NEW b \in Bundles, NEW status \in {"read", "dismissed"},
             SetSupportBundleStatusRead(b, status)
      PROVE  InInv'
    BY <1>6, StatusReadStep
<1>7. ASSUME \/ CodeExpires \/ SetSupportBundleStatusWrite
             \/ MintInviteCodeRead \/ MintInviteCodeWrite
      PROVE  InInv'
    BY <1>7, CodeExpiresStep, StatusWriteStep, MintReadStep, MintWriteStep
<1>8. ASSUME UNCHANGED inboundVars
      PROVE  InInv'
  <2>1. UNCHANGED <<unsent, relayed, drain, batch, mailbox, work, verified, rate, passed,
                    spoiled, uses, byCode, respent, settled, lost>>
    BY <1>8 DEF inboundVars, relayVars, rateVars, codeVars
  <2>2. RelayOK' /\ AllHeld'
    BY <2>1 DEF InInv, RelayOK, AllHeld, Held, Works
  <2> QED
    BY <2>1, <2>2, FrameWork, FrameLimits DEF InInv
<1> QED
    BY <1>1, <1>2, <1>3, <1>4, <1>5, <1>6, <1>7, <1>8 DEF InboundNext

LEMMA InInvariant == InboundSpec => []InInv
<1>1. InboundInit => InInv
    BY InInit
<1>2. InInv /\ [InboundNext]_inboundVars => InInv'
    BY InSteps
<1> QED
    BY <1>1, <1>2, PTL DEF InboundSpec

-----------------------------------------------------------------------------
(* The support inbox.  A set of numbers has a least one, which is what     *)
(* makes one bundle the first to go.                                       *)
LEMMA LeastNumber ==
    ASSUME NEW T, T \subseteq Nat, T # {}
    PROVE  \E n \in T : \A m \in T : n <= m
<1>1. PICK n \in T : \A m \in T : <<m, n>> \notin OpToRel(<, Nat)
    BY NatLessThanWellFounded, WFMin, Zenon
<1>2. ASSUME NEW m \in T  PROVE n <= m
  <2>1. <<m, n>> \notin OpToRel(<, Nat)
    BY <1>1
  <2>2. m \in Nat /\ n \in Nat
    OBVIOUS
  <2>3. <<m, n>> \in OpToRel(<, Nat) <=> m < n
    BY <2>2, Zenon DEF OpToRel
  <2>4. ~(m < n)
    BY <2>1, <2>3, Zenon
  <2> QED
    BY <2>2, <2>4
<1> QED
    BY <1>2

BundleRecord == [id : Bundles, status : {"pending", "read", "dismissed"}, received : Nat]
Stamped(S) == \A q, r \in S : q.id = r.id \/ q.received = r.received => q = r

LEMMA FirstToGo ==
    ASSUME NEW S, S \subseteq BundleRecord, Stamped(S), S # {}
    PROVE  \E v \in S : \A q \in S : q # v => GoesBefore(v, q) /\ ~GoesBefore(q, v)
<1> DEFINE out == {r \in S : r.status = "dismissed"}
<1>1. ASSUME NEW D, D \subseteq S, D # {}
      PROVE  \E v \in D : \A q \in D : q # v => v.received < q.received
  <2> DEFINE T == {r.received : r \in D}
  <2>1. T \subseteq Nat /\ T # {}
    BY <1>1 DEF BundleRecord
  <2> HIDE DEF T
  <2>2. PICK n \in T : \A m \in T : n <= m
    BY <2>1, LeastNumber
  <2>3. PICK v \in D : v.received = n
    BY DEF T
  <2>4. ASSUME NEW q \in D, q # v  PROVE v.received < q.received
    <3>1. q.received \in T
      BY DEF T
    <3>2. n <= q.received
      BY <2>2, <3>1
    <3>3. q.received # n
      BY <1>1, <2>3, <2>4 DEF Stamped
    <3>4. n \in Nat /\ q.received \in Nat
      BY <2>1, <3>1
    <3> QED
      BY <2>3, <3>2, <3>3, <3>4
  <2> QED
    BY <2>3, <2>4
<1>2. \A q, r \in S : q.received \in Nat /\ r.received \in Nat
    BY DEF BundleRecord
<1>3. CASE out # {}
  <2>1. PICK v \in out : \A q \in out : q # v => v.received < q.received
    BY <1>1, <1>3
  <2>2. v \in S /\ v.status = "dismissed"
    OBVIOUS
  <2>3. ASSUME NEW q \in S, q # v
        PROVE  GoesBefore(v, q) /\ ~GoesBefore(q, v)
    <3>1. CASE q \in out
      <4>1. q.status = "dismissed" /\ v.received < q.received
        BY <2>1, <2>3, <3>1
      <4>2. ~(q.received < v.received)
        BY <1>2, <2>2, <4>1
      <4> QED
        BY <2>2, <4>1, <4>2 DEF GoesBefore
    <3>2. CASE q \notin out
      <4>1. q.status # "dismissed"
        BY <3>2
      <4> QED
        BY <2>2, <4>1 DEF GoesBefore
    <3> QED
      BY <3>1, <3>2
  <2> QED
    BY <2>2, <2>3
<1>4. CASE out = {}
  <2>1. PICK v \in S : \A q \in S : q # v => v.received < q.received
    BY <1>1
  <2>2. ASSUME NEW q \in S, q # v
        PROVE  GoesBefore(v, q) /\ ~GoesBefore(q, v)
    <3>1. v.received < q.received /\ q.status # "dismissed" /\ v.status # "dismissed"
      BY <1>4, <2>1, <2>2
    <3>2. ~(q.received < v.received)
      BY <1>2, <3>1
    <3> QED
      BY <3>1, <3>2 DEF GoesBefore
  <2> QED
    BY <2>2
<1> QED
    BY <1>3, <1>4

(* pruneSupportBundles takes out nothing below the cap, and of one bundle  *)
(* too many the first to go, but for the one just received.                *)
LEMMA PruneTakesOne ==
    ASSUME Keep \in Nat \ {0}, NEW all, all \subseteq BundleRecord, Stamped(all), IsFiniteSet(all),
           Cardinality(all) <= Keep + 1, NEW new \in all
    PROVE  LET file == Prune(all, new.id)
           IN  /\ file \subseteq all /\ new \in file
               /\ IsFiniteSet(file) /\ Cardinality(file) <= Keep
               /\ \A v \in all \ file :
                     /\ Cardinality(file) = Keep
                     /\ \A q \in file : q # new => GoesBefore(v, q)
<1> DEFINE E == {r \in all : r.id # new.id}
           n == Cardinality(all)
           Ahead(r) == {q \in E : GoesBefore(q, r)}
           out == {r \in E : Cardinality(Ahead(r)) < n - Keep}
           file == Prune(all, new.id)
<1>1. file = all \ out
    BY DEF Prune
<1>2. E = all \ {new} /\ E \subseteq all
    BY DEF Stamped
<1>3. \A r : Ahead(r) \subseteq all /\ IsFiniteSet(Ahead(r)) /\ Cardinality(Ahead(r)) \in Nat
    BY <1>2, FS_Subset, FS_CardinalityType
<1>4. n \in Nat /\ n <= Keep + 1
    BY FS_CardinalityType
<1>5. IsFiniteSet(E) /\ Cardinality(E) = n - 1
    BY <1>2, FS_RemoveElement
<1> HIDE DEF file, n
<1>6. CASE n <= Keep
  <2>1. ASSUME NEW r \in E  PROVE ~(Cardinality(Ahead(r)) < n - Keep)
    <3> DEFINE k == Cardinality(Ahead(r))
    <3>1. k \in Nat
      BY <1>3
    <3> HIDE DEF k
    <3>2. ~(k < n - Keep)
      BY <1>4, <1>6, <3>1
    <3> QED
      BY <3>2 DEF k
  <2>2. file = all
    BY <1>1, <2>1
  <2> QED
    BY <1>6, <2>2 DEF n, file
<1>7. CASE ~(n <= Keep)
  <2>1. n = Keep + 1 /\ n - Keep = 1
    BY <1>4, <1>7
  <2>2. E # {}
    <3>1. n - 1 # 0
      BY <2>1
    <3> QED
      BY <1>5, <3>1, FS_EmptySet
  <2>3. PICK v \in E : \A q \in E : q # v => GoesBefore(v, q) /\ ~GoesBefore(q, v)
    BY <1>2, <2>2, FirstToGo DEF Stamped
  <2>4. ~GoesBefore(v, v)
    BY <1>2 DEF GoesBefore, BundleRecord
  <2>5. \A r \in E : Cardinality(Ahead(r)) < n - Keep <=> Ahead(r) = {}
    <3> SUFFICES ASSUME NEW r \in E  PROVE Cardinality(Ahead(r)) < 1 <=> Ahead(r) = {}
      BY <2>1
    <3> DEFINE k == Cardinality(Ahead(r))
    <3>1. k \in Nat /\ (k = 0 <=> Ahead(r) = {})
      BY <1>3, FS_EmptySet
    <3> HIDE DEF k
    <3>2. k < 1 <=> k = 0
      BY <3>1
    <3> QED
      BY <3>1, <3>2 DEF k
  <2>6. \A r \in E : Ahead(r) = {} <=> r = v
    BY <2>3, <2>4
  <2>7. out = {v}
    BY <2>5, <2>6
  <2>8. file = all \ {v} /\ v \in all /\ v # new
    BY <1>1, <1>2, <2>7
  <2>9. IsFiniteSet(file) /\ Cardinality(file) = n - 1
    BY <2>8, FS_RemoveElement DEF n
  <2>10. Cardinality(file) = Keep
    BY <2>1, <2>9
  <2>11. \A q \in file : q # new => GoesBefore(v, q)
    BY <1>2, <2>3, <2>8
  <2>12. Keep <= Keep
    OBVIOUS
  <2> HIDE DEF E, out, Ahead
  <2> QED
    BY <2>8, <2>9, <2>10, <2>11, <2>12 DEF file
<1> QED
    BY <1>6, <1>7

(* The file, and every copy of it that will be written back, is within the *)
(* cap and has bundles stamped before now, each at a time of its own; a    *)
(* bundle that is being received has another time than all of them.        *)
FileOK(S) ==
    /\ S \subseteq BundleRecord /\ Stamped(S)
    /\ IsFiniteSet(S) /\ Cardinality(S) <= Keep
    /\ \A r \in S : r.received <= clock
Copying(s) == work[s].at \in {"keep", "status"}
Receiving(s) == work[s].at \in {"bundle", "keep"}
NewTo(s, S) == \A r \in S : r.received # work[s].received
Apart(s, t) == work[s].received # work[t].received
CopyOK(s) == Copying(s) => FileOK(work[s].kept)
ReceivingOK(s) ==
    Receiving(s) =>
        /\ work[s].env \in Bundles
        /\ work[s].received \in Nat /\ work[s].received <= clock
        /\ NewTo(s, bundles)
        /\ \A t \in Processes : Copying(t) => NewTo(s, work[t].kept)
        /\ \A t \in Processes : t # s /\ Receiving(t) => Apart(s, t)
BoxInv ==
    /\ clock \in Nat
    /\ FileOK(bundles)
    /\ \A s \in Processes : CopyOK(s) /\ ReceivingOK(s)

(* The clock goes on.                                                      *)
Later == clock \in Nat /\ clock' \in Nat /\ clock <= clock'

LEMMA ClockStands ==
    ASSUME BoxInv, UNCHANGED clock
    PROVE  Later
    BY DEF BoxInv, Later

LEMMA FileStays ==
    ASSUME NEW S, FileOK(S), Later
    PROVE  FileOK(S)'
<1>1. S \subseteq BundleRecord /\ Stamped(S) /\ IsFiniteSet(S) /\ Cardinality(S) <= Keep
    BY DEF FileOK
<1>2. ASSUME NEW r \in S  PROVE r.received <= clock'
  <2>1. r.received <= clock /\ r.received \in Nat
    BY <1>1 DEF FileOK, BundleRecord
  <2> QED
    BY <2>1 DEF Later
<1> QED
    BY <1>1, <1>2 DEF FileOK

(* What keeps the invariant: the file is in order and new to every bundle  *)
(* that is being received, so is every copy that was made, and no process  *)
(* has come to receive another bundle.                                     *)
SameBundle(s) ==
    Receiving(s)' =>
        /\ Receiving(s) /\ work'[s].env = work[s].env
        /\ work'[s].received = work[s].received
SameCopy(s) == Copying(s) /\ work'[s].kept = work[s].kept
NewCopy(s) ==
    /\ FileOK(work[s].kept)'
    /\ \A t \in Processes : Receiving(t)' => NewTo(t, work[s].kept)'

LEMMA BoxStep ==
    ASSUME BoxInv, Later, FileOK(bundles)',
           \A s \in Processes : Receiving(s)' => NewTo(s, bundles)',
           \A s \in Processes : Copying(s)' => SameCopy(s) \/ NewCopy(s),
           \A s \in Processes : SameBundle(s)
    PROVE  BoxInv'
<1>1. ASSUME NEW s \in Processes  PROVE CopyOK(s)'
  <2> SUFFICES ASSUME Copying(s)'  PROVE FileOK(work[s].kept)'
    BY DEF CopyOK
  <2>1. CASE SameCopy(s)
    <3>1. PICK S : S = work[s].kept /\ S = work'[s].kept
      BY <2>1 DEF SameCopy
    <3>2. FileOK(S)
      BY <2>1, <3>1 DEF SameCopy, BoxInv, CopyOK
    <3>3. FileOK(S)'
      BY <3>2, FileStays
    <3> QED
      BY <3>1, <3>3 DEF FileOK
  <2>2. CASE NewCopy(s)
    BY <2>2 DEF NewCopy
  <2> QED
    BY <2>1, <2>2
<1>2. ASSUME NEW s \in Processes  PROVE ReceivingOK(s)'
  <2> SUFFICES ASSUME Receiving(s)'  PROVE ReceivingOK(s)'
    BY DEF ReceivingOK
  <2>1. Receiving(s) /\ work'[s].env = work[s].env /\ work'[s].received = work[s].received
    BY DEF SameBundle
  <2>2. /\ work[s].env \in Bundles
        /\ work[s].received \in Nat /\ work[s].received <= clock
        /\ \A t \in Processes : Copying(t) => NewTo(s, work[t].kept)
        /\ \A t \in Processes : t # s /\ Receiving(t) => Apart(s, t)
    BY <2>1 DEF BoxInv, ReceivingOK
  <2>3. work'[s].received <= clock'
    BY <2>1, <2>2 DEF Later
  <2>4. ASSUME NEW t \in Processes, Copying(t)'  PROVE NewTo(s, work[t].kept)'
    <3>1. CASE SameCopy(t)
      BY <2>1, <2>2, <3>1 DEF NewTo, SameCopy
    <3>2. CASE NewCopy(t)
      BY <3>2 DEF NewCopy
    <3> QED
      BY <2>4, <3>1, <3>2
  <2>5. ASSUME NEW t \in Processes, t # s, Receiving(t)'  PROVE Apart(s, t)'
    <3>1. /\ Receiving(t) /\ work'[t].env = work[t].env
          /\ work'[t].received = work[t].received
      BY <2>5 DEF SameBundle
    <3> QED
      BY <2>1, <2>2, <2>5, <3>1 DEF Apart
  <2> QED
    BY <2>1, <2>2, <2>3, <2>4, <2>5 DEF ReceivingOK, Later
<1> QED
    BY <1>1, <1>2 DEF BoxInv, Later

(* What does not touch the inbox, and lets no process come to it.          *)
AsBefore(s) ==
    Receiving(s)' \/ Copying(s)' =>
        /\ work'[s].at = work[s].at /\ work'[s].env = work[s].env
        /\ work'[s].received = work[s].received /\ work'[s].kept = work[s].kept

LEMMA FrameBox ==
    ASSUME BoxInv, Later, UNCHANGED bundles, \A s \in Processes : AsBefore(s)
    PROVE  BoxInv'
<1>1. FileOK(bundles)'
  <2>1. PICK S : S = bundles /\ S = bundles'
    OBVIOUS
  <2>2. FileOK(S)
    BY <2>1 DEF BoxInv
  <2>3. FileOK(S)'
    BY <2>2, FileStays
  <2> QED
    BY <2>1, <2>3 DEF FileOK
<1>2. \A s \in Processes : Copying(s)' => SameCopy(s)
    BY DEF AsBefore, Copying, SameCopy
<1>3. \A s \in Processes : SameBundle(s)
    BY DEF AsBefore, Receiving, SameBundle
<1>4. ASSUME NEW s \in Processes, Receiving(s)'  PROVE NewTo(s, bundles)'
  <2>1. Receiving(s) /\ work'[s].env = work[s].env /\ work'[s].received = work[s].received
    BY <1>3, <1>4 DEF SameBundle
  <2>2. NewTo(s, bundles)
    BY <2>1 DEF BoxInv, ReceivingOK
  <2> QED
    BY <2>1, <2>2 DEF NewTo
<1> QED
    BY <1>1, <1>2, <1>3, <1>4, BoxStep

(* A process goes on, or ends, outside the inbox.                          *)
LEMMA FrameSlot ==
    ASSUME BoxInv, Later, UNCHANGED bundles, NEW s \in Processes,
           ~Receiving(s)' /\ ~Copying(s)',
           \A t \in Processes : t # s => work'[t] = work[t]
    PROVE  BoxInv'
    BY FrameBox DEF AsBefore

(* A bundle that is being received is later than every other.              *)
LEMMA BundleMarked ==
    ASSUME BoxInv, NEW s \in Processes, UNCHANGED bundles, work[s].env \in Bundles,
           Later, clock' = clock + 1, work'[s].at = "bundle",
           work'[s].env = work[s].env, work'[s].received = clock + 1,
           \A t \in Processes : t # s => work'[t] = work[t]
    PROVE  BoxInv'
<1>1. clock \in Nat
    BY DEF Later
<1>2. ASSUME NEW S, FileOK(S)
      PROVE  \A r \in S : r.received # clock + 1
  <2>1. \A r \in S : r.received <= clock /\ r.received \in Nat
    BY <1>2 DEF FileOK, BundleRecord
  <2> QED
    BY <1>1, <2>1
<1>3. FileOK(bundles)'
  <2>1. PICK S : S = bundles /\ S = bundles'
    OBVIOUS
  <2>2. FileOK(S)'
    BY <2>1, FileStays DEF BoxInv
  <2> QED
    BY <2>1, <2>2 DEF FileOK
<1>4. ASSUME NEW t \in Processes, Copying(t)'
      PROVE  Copying(t) /\ work'[t] = work[t] /\ FileOK(work[t].kept)
    BY <1>4 DEF Copying, BoxInv, CopyOK
<1>5. ASSUME NEW t \in Processes  PROVE CopyOK(t)'
  <2> SUFFICES ASSUME Copying(t)'  PROVE FileOK(work[t].kept)'
    BY DEF CopyOK
  <2>1. PICK S : S = work[t].kept /\ S = work'[t].kept
    BY <1>4
  <2>2. FileOK(S)'
    BY <1>4, <2>1, FileStays
  <2> QED
    BY <2>1, <2>2 DEF FileOK
<1>6. ASSUME NEW t \in Processes, t # s, Receiving(t)'
      PROVE  /\ Receiving(t) /\ work'[t] = work[t]
             /\ work[t].env \in Bundles
             /\ work[t].received \in Nat /\ work[t].received <= clock
             /\ NewTo(t, bundles)
             /\ \A u \in Processes : Copying(u) => NewTo(t, work[u].kept)
             /\ \A u \in Processes : u # t /\ Receiving(u) => Apart(t, u)
    BY <1>6 DEF Receiving, BoxInv, ReceivingOK
<1>7. ASSUME NEW t \in Processes, t # s, Receiving(t)'
      PROVE  Apart(t, s)' /\ Apart(s, t)'
  <2>1. work[t].received # clock + 1
    BY <1>1, <1>6, <1>7
  <2> QED
    BY <1>6, <1>7, <2>1 DEF Apart
<1>8. ReceivingOK(s)'
  <2>1. NewTo(s, bundles)'
    BY <1>2 DEF NewTo, BoxInv
  <2>2. ASSUME NEW t \in Processes, Copying(t)'  PROVE NewTo(s, work[t].kept)'
    BY <1>2, <1>4, <2>2 DEF NewTo
  <2>3. /\ work'[s].env \in Bundles /\ work'[s].received \in Nat
        /\ work'[s].received <= clock'
    BY <1>1
  <2> QED
    BY <1>7, <2>1, <2>2, <2>3 DEF ReceivingOK
<1>9. ASSUME NEW t \in Processes, t # s  PROVE ReceivingOK(t)'
  <2> SUFFICES ASSUME Receiving(t)'  PROVE ReceivingOK(t)'
    BY DEF ReceivingOK
  <2>1. /\ Receiving(t) /\ work'[t] = work[t]
        /\ work[t].env \in Bundles
        /\ work[t].received \in Nat /\ work[t].received <= clock
        /\ NewTo(t, bundles)
    BY <1>6, <1>9
  <2>2. work'[t].env \in Bundles /\ work'[t].received <= clock'
    BY <2>1 DEF Later
  <2>3. NewTo(t, bundles)'
    BY <2>1 DEF NewTo
  <2>4. ASSUME NEW u \in Processes, Copying(u)'  PROVE NewTo(t, work[u].kept)'
    <3>1. NewTo(t, work[u].kept) /\ work'[u] = work[u]
      BY <1>4, <1>6, <1>9, <2>4
    <3> QED
      BY <2>1, <3>1 DEF NewTo
  <2>5. ASSUME NEW u \in Processes, u # t, Receiving(u)'  PROVE Apart(t, u)'
    <3>1. CASE u = s
      BY <1>7, <1>9, <3>1
    <3>2. CASE u # s
      <4>1. Receiving(u) /\ work'[u] = work[u]
        BY <1>6, <2>5, <3>2
      <4>2. Apart(t, u)
        BY <1>6, <1>9, <2>5, <4>1
      <4> QED
        BY <2>1, <4>1, <4>2 DEF Apart
    <3> QED
      BY <3>1, <3>2
  <2> QED
    BY <2>1, <2>2, <2>3, <2>4, <2>5 DEF ReceivingOK
<1> QED
    BY <1>3, <1>5, <1>8, <1>9 DEF BoxInv, Later

(* A process reads the file, and may mark a bundle in its copy.            *)
LEMMA MarkedFile ==
    ASSUME Keep \in Nat, NEW S, FileOK(S), NEW b, NEW status \in {"read", "dismissed"}
    PROVE  LET file == SetStatus(S, b, status)
           IN  /\ FileOK(file)
               /\ \A r \in file : \E q \in S : q.id = r.id /\ q.received = r.received
<1> DEFINE mark(r) == IF r.id = b THEN [r EXCEPT !.status = status] ELSE r
           file == {mark(r) : r \in S}
           f == [r \in S |-> mark(r)]
<1>1. SetStatus(S, b, status) = file
    BY DEF SetStatus
<1>2. /\ S \subseteq BundleRecord /\ Stamped(S) /\ IsFiniteSet(S) /\ Cardinality(S) <= Keep
      /\ \A r \in S : r.received <= clock
    BY DEF FileOK
<1>3. ASSUME NEW r \in S
      PROVE  mark(r) \in BundleRecord /\ mark(r).id = r.id /\ mark(r).received = r.received
    BY <1>2 DEF BundleRecord
<1>4. IsFiniteSet(file) /\ Cardinality(file) <= Cardinality(S)
  <2>1. f \in Surjection(S, file)
    BY DEF Surjection
  <2> HIDE DEF f, file
  <2> QED
    BY <1>2, <2>1, FS_Surjection
<1>5. Cardinality(file) <= Keep
  <2>1. Cardinality(file) \in Nat /\ Cardinality(S) \in Nat
    BY <1>2, <1>4, FS_CardinalityType
  <2> DEFINE n == Cardinality(file)
             k == Cardinality(S)
  <2>2. n \in Nat /\ k \in Nat /\ n <= k /\ k <= Keep
    BY <1>2, <1>4, <2>1
  <2> HIDE DEF n, k
  <2>3. n <= Keep
    BY <2>2
  <2> QED
    BY <2>3 DEF n
<1> HIDE DEF mark
<1>6. Stamped(file)
    BY <1>2, <1>3 DEF Stamped
<1>7. file \subseteq BundleRecord /\ \A r \in file : r.received <= clock
    BY <1>2, <1>3
<1>8. \A r \in file : \E q \in S : q.id = r.id /\ q.received = r.received
    BY <1>3
<1> HIDE DEF file
<1> QED
    BY <1>1, <1>4, <1>5, <1>6, <1>7, <1>8 DEF FileOK

LEMMA CopyTaken ==
    ASSUME BoxInv, NEW s \in Processes, NEW file, UNCHANGED <<bundles, clock>>,
           FileOK(file), \A r \in file : \E q \in bundles : q.id = r.id /\ q.received = r.received,
           work'[s].kept = file, \A t \in Processes : t # s => work'[t] = work[t],
           \A t \in Processes : SameBundle(t)
    PROVE  BoxInv'
<1>1. Later
    BY ClockStands
<1>2. FileOK(bundles)'
  <2>1. PICK S : S = bundles /\ S = bundles'
    OBVIOUS
  <2>2. FileOK(S)'
    BY <1>1, <2>1, FileStays DEF BoxInv
  <2> QED
    BY <2>1, <2>2 DEF FileOK
<1>3. ASSUME NEW t \in Processes, Receiving(t)'
      PROVE  NewTo(t, bundles)' /\ \A r \in file : r.received # work'[t].received
  <2>1. /\ Receiving(t) /\ work'[t].env = work[t].env /\ work'[t].received = work[t].received
    BY <1>3 DEF SameBundle
  <2>2. NewTo(t, bundles)
    BY <2>1 DEF BoxInv, ReceivingOK
  <2> QED
    BY <2>1, <2>2 DEF NewTo
<1>4. NewCopy(s)
  <2>1. FileOK(file)'
    BY <1>1, FileStays
  <2>2. FileOK(work[s].kept)'
    BY <2>1 DEF FileOK
  <2>3. ASSUME NEW t \in Processes, Receiving(t)'  PROVE NewTo(t, work[s].kept)'
    BY <1>3, <2>3 DEF NewTo
  <2> QED
    BY <2>2, <2>3 DEF NewCopy
<1>5. \A t \in Processes : t # s /\ Copying(t)' => SameCopy(t)
    BY DEF SameCopy, Copying
<1>6. \A t \in Processes : Receiving(t)' => NewTo(t, bundles)'
    BY <1>3
<1> QED
    BY <1>1, <1>2, <1>4, <1>5, <1>6, BoxStep

LEMMA OutsideStep ==
    ASSUME InInv, BoxInv, NEW s \in Processes,
           \/ VerifyEnvelope(s) \/ RateRead(s) \/ RateWrite(s) \/ Gate(s)
           \/ ConsumeInviteCode(s) \/ FileRequest(s) \/ EndProcess(s)
    PROVE  BoxInv' /\ UNCHANGED bundles
<1>1. WorkOK
    BY DEF InInv
<1>2. /\ DOMAIN work = Processes
      /\ DOMAIN work[s] = {"at", "env", "hits", "uses", "received", "kept", "seen"}
    BY <1>1 DEF WorkOK, WorkTyped
<1>3. UNCHANGED <<bundles, clock>>
    BY DEF VerifyEnvelope, RateRead, RateWrite, Gate, ConsumeInviteCode, FileRequest,
       EndProcess
<1>4. \/ work' = [work EXCEPT ![s] = AtRest]
      \/ work' = [work EXCEPT ![s].at = "mark", ![s].seen = verified]
      \/ work' = [work EXCEPT ![s].at = "hit", ![s].hits = rate]
      \/ work' = [work EXCEPT ![s].hits = {},
                              ![s].at = IF work[s].env \in Requests THEN "gate" ELSE "verify"]
      \/ work' = [work EXCEPT ![s].at = "file"]
      \/ work' = [work EXCEPT ![s].at = "use", ![s].uses = uses]
      \/ work' = [work EXCEPT ![s].at = "file", ![s].uses = 0]
    BY DEF VerifyEnvelope, RateRead, RateWrite, Gate, ConsumeInviteCode, FileRequest,
       EndProcess, Refuse, File, Settle, Advance
<1>5. /\ work'[s].at \in {"idle", "mark", "hit", "gate", "verify", "file", "use"}
      /\ \A t \in Processes : t # s => work'[t] = work[t]
    BY <1>2, <1>4 DEF AtRest
<1>6. ~Receiving(s)' /\ ~Copying(s)'
    BY <1>5 DEF Receiving, Copying
<1> QED
    BY <1>3, <1>5, <1>6, ClockStands, FrameSlot

LEMMA MarkBox ==
    ASSUME InInv, BoxInv, NEW s \in Processes, MarkSeen(s)
    PROVE  BoxInv' /\ UNCHANGED bundles
<1>1. WorkOK /\ work[s].at = "mark" /\ UNCHANGED bundles /\ clock \in Nat
    BY DEF InInv, BoxInv, MarkSeen, InStep
<1>2. /\ DOMAIN work = Processes /\ work[s].env \in Envelopes
      /\ DOMAIN work[s] = {"at", "env", "hits", "uses", "received", "kept", "seen"}
    BY <1>1 DEF WorkOK, WorkTyped, Works, WorkSteps
<1>3. CASE work[s].env \in Requests
  <2>1. work' = [work EXCEPT ![s].seen = {}, ![s].at = "rate"] /\ UNCHANGED clock
    BY <1>3 DEF MarkSeen
  <2>2. /\ ~Receiving(s)' /\ ~Copying(s)'
        /\ \A t \in Processes : t # s => work'[t] = work[t]
    BY <1>2, <2>1 DEF Receiving, Copying
  <2> QED
    BY <1>1, <2>1, <2>2, ClockStands, FrameSlot
<1>4. CASE work[s].env \notin Requests
  <2>1. /\ work' = [work EXCEPT ![s].seen = {}, ![s].at = "bundle", ![s].received = clock + 1]
        /\ clock' = clock + 1
    BY <1>4 DEF MarkSeen
  <2>2. Later
    BY <1>1, <2>1 DEF Later
  <2>3. /\ work'[s].at = "bundle" /\ work'[s].env = work[s].env
        /\ work'[s].received = clock + 1
        /\ \A t \in Processes : t # s => work'[t] = work[t]
    BY <1>2, <2>1
  <2>4. work[s].env \in Bundles
    BY <1>2, <1>4 DEF Envelopes
  <2> QED
    BY <1>1, <2>1, <2>2, <2>3, <2>4, BundleMarked
<1> QED
    BY <1>3, <1>4

LEMMA BundlesReadBox ==
    ASSUME InInv, BoxInv, NEW s \in Processes, BundlesRead(s)
    PROVE  BoxInv' /\ UNCHANGED bundles
<1>1. /\ WorkOK /\ work[s].at = "bundle" /\ UNCHANGED <<bundles, clock>>
      /\ work' = [work EXCEPT ![s].at = "keep", ![s].kept = bundles]
    BY DEF InInv, BundlesRead, InStep
<1>2. /\ DOMAIN work = Processes
      /\ DOMAIN work[s] = {"at", "env", "hits", "uses", "received", "kept", "seen"}
    BY <1>1 DEF WorkOK, WorkTyped
<1>3. /\ work'[s].at = "keep" /\ work'[s].env = work[s].env
      /\ work'[s].received = work[s].received /\ work'[s].kept = bundles
      /\ \A t \in Processes : t # s => work'[t] = work[t]
    BY <1>1, <1>2
<1>4. \A t \in Processes : SameBundle(t)
    BY <1>1, <1>3 DEF SameBundle, Receiving
<1>5. FileOK(bundles) /\ \A r \in bundles : \E q \in bundles : q.id = r.id /\ q.received = r.received
    BY DEF BoxInv
<1> QED
    BY <1>1, <1>3, <1>4, <1>5, CopyTaken

LEMMA StatusReadBox ==
    ASSUME InInv, BoxInv, Keep \in Nat, NEW b, NEW status \in {"read", "dismissed"},
           SetSupportBundleStatusRead(b, status)
    PROVE  BoxInv' /\ UNCHANGED bundles
<1> DEFINE file == SetStatus(bundles, b, status)
<1>1. /\ WorkOK /\ work["cli"].at = "idle" /\ UNCHANGED <<bundles, clock>>
      /\ work' = [work EXCEPT !["cli"].at = "status", !["cli"].kept = file]
      /\ "cli" \in Processes
    BY DEF InInv, SetSupportBundleStatusRead, InStep, Processes
<1>2. /\ DOMAIN work = Processes
      /\ DOMAIN work["cli"] = {"at", "env", "hits", "uses", "received", "kept", "seen"}
    BY <1>1 DEF WorkOK, WorkTyped
<1> HIDE DEF file
<1>3. /\ work'["cli"].at = "status" /\ work'["cli"].kept = file
      /\ \A t \in Processes : t # "cli" => work'[t] = work[t]
    BY <1>1, <1>2
<1>4. \A t \in Processes : SameBundle(t)
    BY <1>3 DEF SameBundle, Receiving
<1>5. FileOK(file) /\ \A r \in file : \E q \in bundles : q.id = r.id /\ q.received = r.received
    BY MarkedFile DEF BoxInv, file
<1> QED
    BY <1>1, <1>3, <1>4, <1>5, CopyTaken

LEMMA StatusWriteBox ==
    ASSUME InInv, BoxInv, SetSupportBundleStatusWrite
    PROVE  BoxInv'
<1>1. /\ WorkOK /\ work["cli"].at = "status" /\ UNCHANGED clock
      /\ bundles' = work["cli"].kept
      /\ work' = [work EXCEPT !["cli"] = AtRest] /\ "cli" \in Processes
    BY DEF InInv, SetSupportBundleStatusWrite, InStep, Processes
<1>2. /\ work'["cli"].at = "idle" /\ \A t \in Processes : t # "cli" => work'[t] = work[t]
    BY <1>1 DEF WorkOK, AtRest
<1>3. Later
    BY <1>1, ClockStands
<1>4. Copying("cli")
    BY <1>1 DEF Copying
<1>5. FileOK(bundles)'
  <2>1. PICK S : S = work["cli"].kept /\ S = bundles'
    BY <1>1
  <2>2. FileOK(S)
    BY <1>1, <1>4, <2>1 DEF BoxInv, CopyOK
  <2>3. FileOK(S)'
    BY <1>3, <2>2, FileStays
  <2> QED
    BY <2>1, <2>3 DEF FileOK
<1>6. \A t \in Processes : SameBundle(t)
    BY <1>2 DEF SameBundle, Receiving
<1>7. \A t \in Processes : Copying(t)' => SameCopy(t)
    BY <1>2 DEF SameCopy, Copying
<1>8. ASSUME NEW t \in Processes, Receiving(t)'  PROVE NewTo(t, bundles)'
  <2>1. Receiving(t) /\ work'[t].env = work[t].env /\ work'[t].received = work[t].received
    BY <1>6, <1>8 DEF SameBundle
  <2>2. NewTo(t, work["cli"].kept)
    BY <1>1, <1>4, <2>1 DEF BoxInv, ReceivingOK
  <2> QED
    BY <1>1, <2>1, <2>2 DEF NewTo
<1> QED
    BY <1>3, <1>5, <1>6, <1>7, <1>8, BoxStep

(* The file with the bundle just received, before anything is taken out.   *)
LEMMA ReceivedFile ==
    ASSUME BoxInv, NEW s \in Processes, work[s].at = "keep", Keep \in Nat \ {0},
           NEW new, new = [id |-> work[s].env, status |-> "pending",
                           received |-> work[s].received]
    PROVE  LET all == {r \in work[s].kept : r.id # new.id} \cup {new}
           IN  /\ all \subseteq BundleRecord /\ Stamped(all) /\ IsFiniteSet(all)
               /\ Cardinality(all) <= Keep + 1
               /\ \A r \in all : r.received <= clock
<1> DEFINE kept == work[s].kept
           old == {r \in kept : r.id # new.id}
<1>1. Receiving(s) /\ Copying(s)
    BY DEF Receiving, Copying
<1>2. /\ work[s].env \in Bundles
      /\ work[s].received \in Nat /\ work[s].received <= clock
      /\ NewTo(s, kept) /\ FileOK(kept)
    BY <1>1 DEF BoxInv, ReceivingOK, CopyOK
<1>3. /\ new \in BundleRecord /\ new.received <= clock
      /\ \A r \in old : r.id # new.id /\ r.received # new.received
    BY <1>2 DEF BundleRecord, NewTo
<1>4. /\ kept \subseteq BundleRecord /\ Stamped(kept) /\ IsFiniteSet(kept)
      /\ Cardinality(kept) <= Keep /\ \A r \in kept : r.received <= clock
    BY <1>2 DEF FileOK
<1> HIDE DEF kept
<1>5. /\ old \subseteq BundleRecord /\ Stamped(old) /\ \A r \in old : r.received <= clock
    BY <1>4 DEF Stamped
<1>6. IsFiniteSet(old) /\ Cardinality(old) \in Nat /\ Cardinality(kept) \in Nat
      /\ Cardinality(old) <= Cardinality(kept)
    BY <1>4, FS_Subset, FS_CardinalityType
<1> HIDE DEF old
<1>7. /\ IsFiniteSet(old \cup {new}) /\ Cardinality(old \cup {new}) \in Nat
      /\ Cardinality(old \cup {new}) <= Cardinality(old) + 1
    BY <1>6, OneMore
<1>8. Cardinality(old \cup {new}) <= Keep + 1
  <2> DEFINE m == Cardinality(kept)
             n == Cardinality(old)
             k == Cardinality(old \cup {new})
  <2>1. m \in Nat /\ n \in Nat /\ k \in Nat /\ k <= n + 1 /\ n <= m /\ m <= Keep
    BY <1>4, <1>6, <1>7
  <2> HIDE DEF m, n, k
  <2>2. k <= Keep + 1
    BY <2>1
  <2> QED
    BY <2>2 DEF k
<1>9. Stamped(old \cup {new})
    BY <1>3, <1>5 DEF Stamped
<1> QED
    BY <1>3, <1>5, <1>7, <1>8, <1>9 DEF old, kept

LEMMA ReceiveBox ==
    ASSUME InInv, BoxInv, Keep \in Nat \ {0}, NEW s \in Processes, ReceiveSupportBundle(s)
    PROVE  /\ BoxInv'
           /\ work[s].at = "keep" /\ work'[s].at = "idle"
           /\ \A t \in Processes : t # s => work'[t] = work[t]
           /\ \E r \in bundles' : r.id = work[s].env
           /\ \A v \in work[s].kept \ bundles' :
                 v.id # work[s].env =>
                    /\ Cardinality(bundles') = Keep
                    /\ \A q \in bundles' : q.id # work[s].env => GoesBefore(v, q)
<1> DEFINE new == [id |-> work[s].env, status |-> "pending", received |-> work[s].received]
           old == {r \in work[s].kept : r.id # new.id}
           all == old \cup {new}
           file == Prune(all, new.id)
<1>1. /\ WorkOK /\ work[s].at = "keep" /\ UNCHANGED clock
      /\ work' = [work EXCEPT ![s] = AtRest]
      /\ bundles' = file
    BY DEF InInv, ReceiveSupportBundle, File, Settle, InStep
<1>2. /\ work'[s].at = "idle" /\ \A t \in Processes : t # s => work'[t] = work[t]
    BY <1>1 DEF WorkOK, AtRest
<1>3. Later /\ Receiving(s) /\ Copying(s)
    BY <1>1, ClockStands DEF Receiving, Copying
<1>4. /\ all \subseteq BundleRecord /\ Stamped(all) /\ IsFiniteSet(all)
      /\ Cardinality(all) <= Keep + 1
      /\ \A r \in all : r.received <= clock
    BY <1>1, ReceivedFile
<1>5. new \in all /\ new.id = work[s].env
    OBVIOUS
<1> HIDE DEF new
<1>6. /\ file \subseteq all /\ new \in file
      /\ IsFiniteSet(file) /\ Cardinality(file) <= Keep
      /\ \A v \in all \ file :
            /\ Cardinality(file) = Keep
            /\ \A q \in file : q # new => GoesBefore(v, q)
    BY <1>4, <1>5, PruneTakesOne
<1> HIDE DEF file
<1>7. FileOK(bundles)'
  <2>1. FileOK(file)
    BY <1>4, <1>6 DEF FileOK, Stamped
  <2>2. PICK S : S = file /\ S = bundles'
    BY <1>1
  <2>3. FileOK(S)'
    BY <1>3, <2>1, <2>2, FileStays
  <2> QED
    BY <2>2, <2>3 DEF FileOK
<1>8. \A t \in Processes : SameBundle(t)
    BY <1>2 DEF SameBundle, Receiving
<1>9. \A t \in Processes : Copying(t)' => SameCopy(t)
    BY <1>2 DEF SameCopy, Copying
<1>10. ASSUME NEW t \in Processes, Receiving(t)'  PROVE NewTo(t, bundles)'
  <2>1. /\ Receiving(t) /\ work'[t].received = work[t].received /\ t # s
    BY <1>2, <1>8, <1>10 DEF SameBundle, Receiving
  <2>2. NewTo(t, work[s].kept) /\ Apart(t, s)
    BY <1>3, <2>1 DEF BoxInv, ReceivingOK
  <2>3. ASSUME NEW r \in all  PROVE r.received # work[t].received
    BY <2>2 DEF NewTo, Apart, new
  <2> QED
    BY <1>1, <1>6, <2>1, <2>3 DEF NewTo
<1>11. BoxInv'
    BY <1>3, <1>7, <1>8, <1>9, <1>10, BoxStep
<1>12. ASSUME NEW v \in work[s].kept \ bundles', v.id # work[s].env
       PROVE  /\ Cardinality(bundles') = Keep
              /\ \A q \in bundles' : q.id # work[s].env => GoesBefore(v, q)
    BY <1>1, <1>5, <1>6, <1>12
<1>13. \E r \in bundles' : r.id = work[s].env
    BY <1>1, <1>5, <1>6
<1> QED
    BY <1>1, <1>2, <1>11, <1>12, <1>13

LEMMA BoxInit ==
    InboundInit => BoxInv
<1> SUFFICES ASSUME InboundInit
             PROVE  BoxInv
    OBVIOUS
<1> DEFINE D == 1 .. Len(Earlier)
           stamp(i) == [id |-> Earlier[i], status |-> "pending", received |-> i]
<1>1. /\ Earlier \in Seq(Bundles) /\ Len(Earlier) \in Nat /\ Len(Earlier) <= Keep
      /\ DOMAIN Earlier = D /\ Keep \in Nat
      /\ \A i, j \in D : Earlier[i] = Earlier[j] => i = j
    BY PastAssumption, LimitsAssumption DEF IsInjective
<1>2. /\ clock = Len(Earlier) /\ \A i \in D : Earlier[i] \in Bundles
      /\ bundles = {stamp(i) : i \in D}
      /\ \A s \in Processes : work[s] = AtRest
    BY <1>1 DEF InboundInit
<1>3. IsFiniteSet(D) /\ Cardinality(D) = Len(Earlier)
  <2> DEFINE n == Len(Earlier)
  <2>1. n \in Nat /\ D = 1 .. n
    BY <1>1
  <2> HIDE DEF n
  <2>2. IsFiniteSet(1 .. n) /\ Cardinality(1 .. n) = IF 1 > n THEN 0 ELSE n - 1 + 1
    BY <2>1, FS_Interval
  <2>3. Cardinality(1 .. n) = n
    BY <2>1, <2>2
  <2> QED
    BY <2>1, <2>2, <2>3 DEF n
<1>6. IsFiniteSet(bundles) /\ Cardinality(bundles) <= Len(Earlier)
  <2> DEFINE f == [i \in D |-> stamp(i)]
  <2>1. f \in Surjection(D, bundles)
    BY <1>2 DEF Surjection
  <2> HIDE DEF f
  <2> QED
    BY <1>3, <2>1, FS_Surjection
<1>7. Cardinality(bundles) <= Keep
  <2> DEFINE n == Cardinality(bundles)
  <2>1. n \in Nat /\ n <= Len(Earlier)
    BY <1>6, FS_CardinalityType
  <2> HIDE DEF n
  <2>2. n <= Keep
    BY <1>1, <2>1
  <2> QED
    BY <2>2 DEF n
<1>8. bundles \subseteq BundleRecord /\ Stamped(bundles)
    BY <1>1, <1>2 DEF BundleRecord, Stamped
<1>9. \A r \in bundles : r.received <= clock
    BY <1>1, <1>2
<1>10. \A s \in Processes : CopyOK(s) /\ ReceivingOK(s)
    BY <1>2 DEF CopyOK, ReceivingOK, Copying, Receiving, AtRest
<1> QED
    BY <1>1, <1>2, <1>6, <1>7, <1>8, <1>9, <1>10 DEF BoxInv, FileOK

(* The steps that leave the file alone.                                    *)
LEMMA RestOfBox ==
    ASSUME InInv, BoxInv, Keep \in Nat,
           \/ \E e \in Envelopes : PostToRelay(e) \/ DeliverMail(e)
           \/ DrainRead \/ DrainTruncate \/ ApplyNext
           \/ \E h \in passed : Age(h)
           \/ CodeExpires \/ MintInviteCodeRead \/ MintInviteCodeWrite
           \/ UNCHANGED inboundVars
    PROVE  BoxInv' /\ UNCHANGED bundles
<1>1. WorkOK
    BY DEF InInv
<1>2. UNCHANGED <<bundles, clock>>
    BY DEF PostToRelay, DeliverMail, DrainRead, DrainTruncate, ApplyNext, Age,
       CodeExpires, MintInviteCodeRead, MintInviteCodeWrite, inboundVars
<1>3. Later
    BY <1>2, ClockStands
<1>4. CASE UNCHANGED work
    BY <1>2, <1>3, <1>4, FrameBox DEF AsBefore
<1>5. CASE \E s \in Processes, e \in Envelopes : Begin(s, e)
  <2>1. PICK s \in Processes, e \in Envelopes : Begin(s, e)
    BY <1>5
  <2>2. work' = [work EXCEPT ![s] = [AtRest EXCEPT !.at = FirstStep(e), !.env = e]]
    BY <2>1 DEF Begin
  <2>3. work'[s].at \in {"verify", "rate"} /\ \A t \in Processes : t # s => work'[t] = work[t]
    BY <1>1, <2>2 DEF WorkOK, AtRest, FirstStep
  <2> QED
    BY <1>2, <1>3, <2>3, FrameSlot DEF Receiving, Copying
<1>6. CASE MintInviteCodeRead \/ MintInviteCodeWrite
  <2>1. \/ work' = [work EXCEPT !["cli"].at = "mint", !["cli"].uses = uses]
        \/ work' = [work EXCEPT !["cli"] = AtRest]
    BY <1>6 DEF MintInviteCodeRead, MintInviteCodeWrite
  <2>2. /\ "cli" \in Processes /\ DOMAIN work = Processes
        /\ DOMAIN work["cli"] = {"at", "env", "hits", "uses", "received", "kept", "seen"}
    BY <1>1 DEF WorkOK, WorkTyped, Processes
  <2>3. work'["cli"].at \in {"mint", "idle"} /\ \A t \in Processes : t # "cli" => work'[t] = work[t]
    BY <2>1, <2>2 DEF AtRest
  <2> QED
    BY <1>2, <1>3, <2>2, <2>3, FrameSlot DEF Receiving, Copying
<1>7. CASE \E h \in passed : Age(h)
  <2>1. PICK h \in passed : Age(h)
    BY <1>7
  <2>2. work' = [s \in Processes |-> [work[s] EXCEPT !.hits = @ \ {h}]]
    BY <2>1 DEF Age
  <2>3. ASSUME NEW s \in Processes
        PROVE  /\ work'[s].at = work[s].at /\ work'[s].env = work[s].env
               /\ work'[s].received = work[s].received /\ work'[s].kept = work[s].kept
    BY <1>1, <2>2 DEF WorkOK, WorkTyped
  <2> QED
    BY <1>2, <1>3, <2>3, FrameBox DEF AsBefore
<1>8. \/ UNCHANGED work \/ \E s \in Processes, e \in Envelopes : Begin(s, e)
      \/ MintInviteCodeRead \/ MintInviteCodeWrite \/ \E h \in passed : Age(h)
  <2>1. ASSUME ApplyNext  PROVE \E s \in Processes, e \in Envelopes : Begin(s, e)
    <3>1. Head(batch) \in Envelopes /\ "cli" \in Processes /\ Begin("cli", Head(batch))
      BY <2>1 DEF ApplyNext, Processes, InInv, RelayOK
    <3> QED
      BY <3>1
  <2>2. ASSUME NEW e \in Envelopes, DeliverMail(e)
        PROVE  \E s \in Processes, x \in Envelopes : Begin(s, x)
    <3>1. "daemon" \in Processes /\ Begin("daemon", e)
      BY <2>2 DEF DeliverMail, Processes
    <3> QED
      BY <3>1
  <2>3. ASSUME \/ \E e \in Envelopes : PostToRelay(e)
               \/ DrainRead \/ DrainTruncate \/ CodeExpires \/ UNCHANGED inboundVars
        PROVE  UNCHANGED work
    BY <2>3 DEF PostToRelay, DrainRead, DrainTruncate, CodeExpires, inboundVars
  <2> QED
    BY <2>1, <2>2, <2>3
<1> QED
    BY <1>2, <1>4, <1>5, <1>6, <1>7, <1>8

LEMMA BoxNext ==
    Keep \in Nat \ {0} /\ InInv /\ BoxInv /\ [InboundNext]_inboundVars => BoxInv'
<1> SUFFICES ASSUME Keep \in Nat \ {0}, InInv, BoxInv, [InboundNext]_inboundVars
             PROVE  BoxInv'
    OBVIOUS
<1>1. ASSUME NEW s \in Processes, Handler(s) \/ EndProcess(s)
      PROVE  BoxInv'
    BY <1>1, OutsideStep, MarkBox, BundlesReadBox, ReceiveBox DEF Handler
<1>2. ASSUME NEW b \in Bundles, NEW status \in {"read", "dismissed"},
             SetSupportBundleStatusRead(b, status)
      PROVE  BoxInv'
    BY <1>2, StatusReadBox
<1>3. ASSUME SetSupportBundleStatusWrite
      PROVE  BoxInv'
    BY <1>3, StatusWriteBox
<1> QED
    BY <1>1, <1>2, <1>3, RestOfBox DEF InboundNext

LEMMA BoxInvariant == InboundSpec => []BoxInv
<1>1. Keep \in Nat \ {0}
    BY LimitsAssumption
<1>2. InboundInit => BoxInv
    BY BoxInit
<1>3. InInv /\ BoxInv /\ [InboundNext]_inboundVars => BoxInv'
    BY <1>1, BoxNext
<1>4. InboundSpec => []InInv
    BY InInvariant
<1> QED
    BY <1>2, <1>3, <1>4, PTL DEF InboundSpec

(* One step, and what it takes out of the file.                            *)
LEMMA RoomStep ==
    ASSUME Keep \in Nat \ {0}, InInv, BoxInv, [InboundNext]_inboundVars,
           NEW r \in Leaving \ Unread
    PROVE  /\ Cardinality(bundles') = Keep
           /\ \A q \in bundles' : q.id \notin Arriving => GoesBefore(r, q)
<1>1. r \in bundles /\ \A q \in bundles' : q.id # r.id
    BY DEF Leaving, Ids
<1>2. PICK s \in Processes : Writes(s) /\ r \in work[s].kept
    BY <1>1 DEF Unread
<1>3. work[s].at # "idle" /\ work'[s].at = "idle"
    BY <1>2 DEF Writes, InStep
<1>4. ~UNCHANGED bundles
    BY <1>1
<1>5. ~SetSupportBundleStatusWrite
  <2> SUFFICES ASSUME SetSupportBundleStatusWrite  PROVE FALSE
    OBVIOUS
  <2>1. /\ bundles' = work["cli"].kept /\ work' = [work EXCEPT !["cli"] = AtRest]
        /\ DOMAIN work = Processes
    BY DEF SetSupportBundleStatusWrite, InInv, WorkOK
  <2>2. s = "cli"
    BY <1>3, <2>1
  <2> QED
    BY <1>1, <1>2, <2>1, <2>2
<1>6. PICK t \in Processes : ReceiveSupportBundle(t)
  <2>1. \A u \in Processes : ~ReceiveSupportBundle(u) => ~Handler(u) /\ ~EndProcess(u)
    BY <1>4, OutsideStep, MarkBox, BundlesReadBox DEF Handler
  <2>2. \A b \in Bundles, status \in {"read", "dismissed"} :
            ~SetSupportBundleStatusRead(b, status)
    BY <1>4, StatusReadBox
  <2> QED
    BY <1>4, <1>5, <2>1, <2>2, RestOfBox DEF InboundNext
<1>7. /\ work[t].at = "keep" /\ work'[t].at = "idle"
      /\ \A u \in Processes : u # t => work'[u] = work[u]
      /\ \E q \in bundles' : q.id = work[t].env
      /\ \A v \in work[t].kept \ bundles' :
            v.id # work[t].env =>
               /\ Cardinality(bundles') = Keep
               /\ \A q \in bundles' : q.id # work[t].env => GoesBefore(v, q)
    BY <1>6, ReceiveBox
<1>8. t = s /\ Writes(t)
    BY <1>3, <1>7 DEF Writes, InStep
<1>9. work[t].env \in Arriving
    BY <1>8 DEF Arriving
<1>10. r \in work[t].kept \ bundles' /\ r.id # work[t].env
    BY <1>1, <1>2, <1>7, <1>8
<1> QED
    BY <1>7, <1>9, <1>10

(* A handler that has read the file leaves it as the last thing it does,   *)
(* unless its process ends.                                                *)
LEMMA LeavesKeep ==
    ASSUME InInv, [InboundNext]_inboundVars, NEW s \in Processes,
           work[s].at = "keep", work'[s].at = "idle"
    PROVE  ReceiveSupportBundle(s) \/ EndProcess(s)
<1>1. DOMAIN work = Processes /\ "cli" \in Processes /\ "daemon" \in Processes
      /\ \A t \in Processes : DOMAIN work[t] = {"at", "env", "hits", "uses", "received", "kept", "seen"}
    BY DEF InInv, WorkOK, WorkTyped, Processes
<1>2. ASSUME NEW t \in Processes, Handler(t) \/ EndProcess(t), t # s
      PROVE  work'[s] = work[s]
  <2>1. \A u \in Processes : u # t => work'[u] = work[u]
    BY <1>1, <1>2 DEF Handler, VerifyEnvelope, MarkSeen, RateRead, RateWrite, Gate,
       ConsumeInviteCode, FileRequest, BundlesRead, ReceiveSupportBundle, EndProcess, Refuse,
       File, Settle, Advance
  <2> QED
    BY <1>2, <2>1
<1>3. ASSUME Handler(s)  PROVE ReceiveSupportBundle(s)
    BY <1>3 DEF Handler, VerifyEnvelope, MarkSeen, RateRead, RateWrite, Gate,
       ConsumeInviteCode, FileRequest, BundlesRead, InStep
<1>4. ~\E e \in Envelopes : PostToRelay(e)
    BY DEF PostToRelay
<1>5. ASSUME NEW e \in Envelopes, DeliverMail(e)  PROVE work'[s] = work[s]
    BY <1>1, <1>5 DEF DeliverMail, Begin, InStep
<1>6. ASSUME ApplyNext  PROVE work'[s] = work[s]
    BY <1>1, <1>6 DEF ApplyNext, Begin, InStep
<1>7. ~DrainRead /\ ~DrainTruncate /\ ~CodeExpires /\ ~UNCHANGED inboundVars
    BY DEF DrainRead, DrainTruncate, CodeExpires, inboundVars
<1>8. ASSUME NEW h \in passed, Age(h)  PROVE work'[s].at = work[s].at
    BY <1>1, <1>8 DEF Age
<1>9. ASSUME NEW b \in Bundles, NEW status \in {"read", "dismissed"},
             SetSupportBundleStatusRead(b, status)
      PROVE  work'[s] = work[s]
    BY <1>1, <1>9 DEF SetSupportBundleStatusRead, InStep
<1>10. ASSUME SetSupportBundleStatusWrite \/ MintInviteCodeRead \/ MintInviteCodeWrite
       PROVE  work'[s] = work[s]
    BY <1>1, <1>10 DEF SetSupportBundleStatusWrite, MintInviteCodeRead, MintInviteCodeWrite,
       InStep
<1> QED
    BY <1>2, <1>3, <1>4, <1>5, <1>6, <1>7, <1>8, <1>9, <1>10 DEF InboundNext

EndsOK == ends \in Nat

LEMMA EndsCounted == InboundSpec => []EndsOK
<1>1. InboundInit => EndsOK
    BY DEF InboundInit, EndsOK
<1>2. EndsOK /\ [InboundNext]_inboundVars => EndsOK'
  <2> SUFFICES ASSUME EndsOK, [InboundNext]_inboundVars
               PROVE  ends' = ends \/ ends' = ends + 1
    BY DEF EndsOK
  <2>1. ASSUME NEW s \in Processes, Handler(s)  PROVE ends' = ends
    BY <2>1 DEF Handler, VerifyEnvelope, MarkSeen, RateRead, RateWrite, Gate,
       ConsumeInviteCode, FileRequest, BundlesRead, ReceiveSupportBundle
  <2>2. ASSUME \E s \in Processes : EndProcess(s)  PROVE ends' = ends + 1
    BY <2>2 DEF EndProcess
  <2>3. ASSUME \/ \E e \in Envelopes : PostToRelay(e) \/ DeliverMail(e)
               \/ DrainRead \/ DrainTruncate \/ ApplyNext
               \/ \E h \in passed : Age(h)
               \/ \E b \in Bundles, status \in {"read", "dismissed"} :
                     SetSupportBundleStatusRead(b, status)
               \/ SetSupportBundleStatusWrite \/ CodeExpires
               \/ MintInviteCodeRead \/ MintInviteCodeWrite \/ UNCHANGED inboundVars
        PROVE  ends' = ends
    BY <2>3 DEF PostToRelay, DeliverMail, DrainRead, DrainTruncate, ApplyNext, Age,
       SetSupportBundleStatusRead, SetSupportBundleStatusWrite, CodeExpires,
       MintInviteCodeRead, MintInviteCodeWrite, inboundVars
  <2> QED
    BY <2>1, <2>2, <2>3 DEF InboundNext
<1> QED
    BY <1>1, <1>2, PTL DEF InboundSpec

(* The bundle just received is in the file that its handler writes.        *)
LEMMA ArrivalStays ==
    ASSUME Keep \in Nat \ {0}, InInv, BoxInv, EndsOK, [InboundNext]_inboundVars,
           NEW s \in Processes, Received(s)
    PROVE  work[s].env \in Ids(bundles')
<1>1. work[s].at = "keep" /\ work'[s].at = "idle" /\ ends' = ends
    BY DEF Received, Writes, InStep
<1>2. ~EndProcess(s)
    BY <1>1 DEF EndProcess, EndsOK
<1>3. ReceiveSupportBundle(s)
    BY <1>1, <1>2, LeavesKeep
<1>4. PICK q \in bundles' : q.id = work[s].env
    BY <1>3, ReceiveBox
<1> QED
    BY <1>4 DEF Ids

(* A received bundle is taken out of the support inbox to make room only,  *)
(* the dismissed first and the older first, and the one just received is   *)
(* in the file its handler writes, however old it is by then, whatever the *)
(* daemon, `inbox pull` and the owner's commands rewrite at once           *)
(* (receiveSupportBundle, pruneSupportBundles).                            *)
THEOREM RoomIsMadeInOrder == InboundSpec => MakesRoomInOrder
<1>1. Keep \in Nat \ {0}
    BY LimitsAssumption
<1> DEFINE InOrder ==
        /\ \A s \in Processes : Received(s) => work[s].env \in Ids(bundles')
        /\ \A r \in Leaving \ Unread :
              /\ Cardinality(bundles') = Keep
              /\ \A q \in bundles' : q.id \notin Arriving => GoesBefore(r, q)
<1>2. InInv /\ BoxInv /\ EndsOK /\ [InboundNext]_inboundVars => [InOrder]_inboundVars
    BY <1>1, RoomStep, ArrivalStays
<1>3. InboundSpec => []InInv /\ []BoxInv /\ []EndsOK
    BY InInvariant, BoxInvariant, EndsCounted, PTL
<1>4. InboundSpec => [][InOrder]_inboundVars
    BY <1>2, <1>3, PTL DEF InboundSpec
<1> QED
    BY <1>4 DEF MakesRoomInOrder

(* No envelope disappears but in two ways: appended to the relay between   *)
(* its read and its truncation, or drained by a command that ended before  *)
(* it came to it (drainRelayEnvelopes, `inbox pull`).                      *)
THEOREM EnvelopesAccounted == InboundSpec => []Accounted
<1>1. InInv => Accounted
  <2> SUFFICES ASSUME AllHeld, NEW e \in Envelopes
               PROVE  e \in unsent \cup ToSet(relayed) \cup ToSet(batch) \cup mailbox
                            \cup InHand \cup settled \cup lost
                            \cup (IF drain = NotDraining THEN {} ELSE ToSet(drain))
    BY DEF Accounted, InInv
  <2>1. (\E s \in Processes : Works(s) /\ work[s].env = e) => e \in InHand
    BY DEF InHand
  <2>2. Held(e)
    BY DEF AllHeld
  <2> QED
    BY <2>1, <2>2 DEF Held
<1>2. InboundSpec => []InInv
    BY InInvariant
<1> QED
    BY <1>1, <1>2, PTL

(* Never more requests of one agent, or of all, in a window than the limits*)
(* allow, nor more by a code than it has uses, but for those that          *)
(* overlapping handlers overwrote (enforceInboundRate, consumeInviteCode). *)
THEOREM InboundLimits == InboundSpec => []LimitsHold
<1>1. InInv => LimitsHold
  <2> SUFFICES ASSUME RateOK, CodeOK
               PROVE  LimitsHold
    BY DEF InInv
  <2> DEFINE counted == passed \ spoiled
  <2>1. Within(rate) /\ counted \subseteq rate /\ IsFiniteSet(rate)
    BY DEF RateOK, Within
  <2>2. Cardinality(counted) <= MaxGlobal
    <3>1. /\ Cardinality(counted) <= Cardinality(rate) /\ IsFiniteSet(counted)
          /\ Cardinality(rate) \in Nat
      BY <2>1, FS_Subset, FS_CardinalityType
    <3>2. Cardinality(counted) \in Nat
      BY <3>1, FS_CardinalityType
    <3> HIDE DEF counted
    <3> QED
      BY <2>1, <3>1, <3>2, LimitsAssumption DEF Within
  <2>3. ASSUME NEW h \in counted
        PROVE  Cardinality({g \in counted : g.from = h.from}) <= MaxPeer
    <3> DEFINE few == {g \in counted : g.from = h.from}
    <3>1. few \subseteq OfSame(rate, h) /\ OfSame(rate, h) \subseteq rate
      BY <2>1 DEF OfSame
    <3>2. IsFiniteSet(OfSame(rate, h)) /\ Cardinality(OfSame(rate, h)) <= MaxPeer
      BY <2>1, <3>1, FS_Subset DEF Within
    <3> HIDE DEF few, counted
    <3>3. /\ Cardinality(few) <= Cardinality(OfSame(rate, h)) /\ IsFiniteSet(few)
          /\ Cardinality(OfSame(rate, h)) \in Nat
      BY <3>1, <3>2, FS_Subset, FS_CardinalityType
    <3>4. Cardinality(few) \in Nat
      BY <3>3, FS_CardinalityType
    <3>5. Cardinality(few) <= MaxPeer
      BY <3>2, <3>3, <3>4, LimitsAssumption
    <3> QED
      BY <3>5 DEF few
  <2>4. MaxUses > 0 => Cardinality(byCode) <= MaxUses + respent
    <3>1. Cardinality(byCode) \in Nat
      BY FS_CardinalityType DEF CodeOK
    <3> QED
      BY <3>1, LimitsAssumption DEF CodeOK
  <2> QED
    BY <2>2, <2>3, <2>4 DEF LimitsHold
<1>2. InboundSpec => []InInv
    BY InInvariant
<1> QED
    BY <1>1, <1>2, PTL

(* The files keep their shape, the code no more uses than it allows, and   *)
(* the support inbox is within its cap and holds no bundle twice           *)
(* (pruneSupportBundles, receiveSupportBundle).                            *)
THEOREM InboundTypes == InboundSpec => []InboundTypeOK
<1>1. InInv /\ BoxInv => InboundTypeOK
  <2> SUFFICES ASSUME InInv, BoxInv
               PROVE  InboundTypeOK
    OBVIOUS
  <2>1. {work[s].at : s \in Processes} \subseteq
           {"idle", "verify", "mark", "rate", "hit", "gate", "use", "file", "bundle",
            "keep", "status", "mint"}
    BY DEF InInv, WorkOK, WorkTyped, WorkSteps
  <2>2. uses \in Nat /\ (MaxUses > 0 => uses <= MaxUses)
    BY DEF InInv, CodeOK
  <2>3. rate \subseteq passed
    BY DEF InInv, RateOK
  <2>4. /\ relayed \in Seq(Envelopes) /\ batch \in Seq(Envelopes)
        /\ drain = NotDraining \/ drain \in Seq(Envelopes)
        /\ unsent \cup mailbox \cup verified \subseteq Envelopes
    BY DEF InInv, RelayOK
  <2>5. /\ bundles \subseteq [id : Bundles, status : {"pending", "read", "dismissed"},
                               received : Nat]
        /\ Cardinality(bundles) <= Keep
        /\ \A q, r \in bundles : q.id = r.id => q = r
    BY DEF BoxInv, FileOK, Stamped, BundleRecord
  <2> QED
    BY <2>1, <2>2, <2>3, <2>4, <2>5 DEF InboundTypeOK
<1>2. InboundSpec => []InInv /\ []BoxInv
    BY InInvariant, BoxInvariant, PTL
<1> QED
    BY <1>1, <1>2, PTL

-----------------------------------------------------------------------------
(* What is overwritten, when nothing overlaps.  "Envelopes are processed   *)
(* serially" is what the limits are built on (store-trust.ts): with one    *)
(* process at a time in the home, a copy that is written back is the file. *)
OneAtWork == \E s \in Processes : \A t \in Processes : t # s => InStep(t, "idle")

CopyFresh(s) ==
    /\ InStep(s, "hit") => work[s].hits = rate
    /\ work[s].at \in {"use", "mint"} => work[s].uses = uses
NothingOverwritten ==
    spoiled = {} /\ respent = 0 /\ \A s \in Processes : CopyFresh(s)

LEMMA AloneQuiet ==
    ASSUME NothingOverwritten, UNCHANGED <<rate, spoiled, uses, respent>>,
           \A s \in Processes : work'[s] = work[s] \/ work'[s].at \notin {"hit", "use", "mint"}
    PROVE  NothingOverwritten'
    BY DEF NothingOverwritten, CopyFresh, InStep

\* Who writes has the home for itself.
LEMMA OthersRest ==
    ASSUME OneAtWork, NEW s \in Processes, ~InStep(s, "idle")
    PROVE  \A t \in Processes : t # s => work[t].at = "idle"
    BY DEF OneAtWork, InStep

LEMMA AloneWrites ==
    ASSUME InInv, NothingOverwritten, OneAtWork, NEW s \in Processes,
           RateWrite(s) \/ ConsumeInviteCode(s) \/ (s = "cli" /\ MintInviteCodeWrite)
    PROVE  NothingOverwritten'
<1>1. WorkOK /\ CodeOK /\ CopyFresh(s) /\ spoiled = {} /\ respent = 0 /\ uses \in Nat
    BY DEF InInv, NothingOverwritten, CodeOK
<1>2. ~InStep(s, "idle")
    BY DEF RateWrite, ConsumeInviteCode, MintInviteCodeWrite, InStep
<1>3. \A t \in Processes : t # s => work[t].at = "idle"
    BY <1>2, OthersRest
<1>4. /\ DOMAIN work' = Processes /\ work'[s].at \notin {"hit", "use", "mint"}
      /\ \A t \in Processes : t # s => work'[t] = work[t]
  <2>1. CASE RateWrite(s)
    BY <1>1, <2>1 DEF RateWrite, WorkOK, WorkTyped
  <2>2. CASE ConsumeInviteCode(s)
    BY <1>1, <2>2 DEF ConsumeInviteCode, WorkOK, WorkTyped
  <2>3. CASE s = "cli" /\ MintInviteCodeWrite
    BY <1>1, <2>3 DEF MintInviteCodeWrite, WorkOK, AtRest
  <2> QED
    BY <2>1, <2>2, <2>3
<1>5. \A t \in Processes : CopyFresh(t)'
    BY <1>3, <1>4 DEF CopyFresh, InStep
<1>6. spoiled' = {} /\ respent' = 0
  <2>1. CASE RateWrite(s)
    <3>1. /\ spoiled' = spoiled \cup (rate \ work[s].hits)
          /\ respent' = respent /\ work[s].at = "hit"
      BY <2>1 DEF RateWrite, codeVars, InStep
    <3> QED
      BY <1>1, <3>1 DEF CopyFresh, InStep
  <2>2. ASSUME ConsumeInviteCode(s) \/ (s = "cli" /\ MintInviteCodeWrite)
        PROVE  spoiled' = {} /\ respent' = 0
    <3>1. /\ respent' = respent + (uses - work[s].uses)
          /\ spoiled' = spoiled /\ work[s].at \in {"use", "mint"}
      BY <2>2 DEF ConsumeInviteCode, MintInviteCodeWrite, rateVars, InStep
    <3>2. work[s].uses = uses
      BY <1>1, <3>1 DEF CopyFresh
    <3> QED
      BY <1>1, <3>1, <3>2
  <2> QED
    BY <2>1, <2>2
<1> QED
    BY <1>5, <1>6 DEF NothingOverwritten

LEMMA AloneReads ==
    ASSUME InInv, NothingOverwritten, NEW s \in Processes,
           RateRead(s) \/ Gate(s) \/ (s = "cli" /\ MintInviteCodeRead)
    PROVE  NothingOverwritten'
<1>1. WorkOK /\ NothingOverwritten
    BY DEF InInv
<1>2. UNCHANGED <<rate, spoiled, uses, respent>>
    BY DEF RateRead, Gate, MintInviteCodeRead, rateVars, codeVars
<1>3. /\ \A t \in Processes : t # s => work'[t] = work[t]
      /\ \/ work'[s].at \in {"idle", "file"}
         \/ work'[s].at = "hit" /\ work'[s].hits = rate
         \/ work'[s].at \in {"use", "mint"} /\ work'[s].uses = uses
  <2>1. ASSUME RateRead(s) \/ Gate(s), Refuse(s)
        PROVE  work'[s].at = "idle" /\ \A t \in Processes : t # s => work'[t] = work[t]
    BY <1>1, <2>1 DEF Refuse, Settle, AtRest, WorkOK
  <2>2. CASE RateRead(s) /\ ~Refuse(s)
    BY <1>1, <2>2 DEF RateRead, WorkOK, WorkTyped
  <2>3. CASE Gate(s) /\ ~Refuse(s)
    BY <1>1, <2>3 DEF Gate, Advance, WorkOK, WorkTyped
  <2>4. CASE s = "cli" /\ MintInviteCodeRead
    BY <1>1, <2>4 DEF MintInviteCodeRead, WorkOK, WorkTyped
  <2> QED
    BY <2>1, <2>2, <2>3, <2>4
<1> QED
    BY <1>1, <1>2, <1>3 DEF NothingOverwritten, CopyFresh, InStep

LEMMA AloneAge ==
    ASSUME InInv, NothingOverwritten, NEW h \in passed, Age(h)
    PROVE  NothingOverwritten'
<1>1. /\ WorkOK /\ rate' = rate \ {h} /\ spoiled' = spoiled \ {h}
      /\ UNCHANGED <<uses, respent>>
      /\ work' = [s \in Processes |-> [work[s] EXCEPT !.hits = @ \ {h}]]
    BY DEF InInv, Age, codeVars
<1>2. ASSUME NEW s \in Processes
      PROVE  /\ work'[s].at = work[s].at /\ work'[s].uses = work[s].uses
             /\ work'[s].hits = work[s].hits \ {h}
    BY <1>1 DEF WorkOK, WorkTyped
<1> QED
    BY <1>1, <1>2 DEF NothingOverwritten, CopyFresh, InStep

LEMMA AloneRest ==
    ASSUME InInv, NothingOverwritten, NEW s \in Processes,
           \/ VerifyEnvelope(s) \/ MarkSeen(s) \/ FileRequest(s) \/ BundlesRead(s)
           \/ ReceiveSupportBundle(s) \/ EndProcess(s)
    PROVE  NothingOverwritten'
<1>1. WorkOK
    BY DEF InInv
<1>2. UNCHANGED <<rate, spoiled, uses, respent>>
    BY DEF VerifyEnvelope, MarkSeen, FileRequest, BundlesRead, ReceiveSupportBundle,
           EndProcess, rateVars, codeVars
<1>3. /\ \A t \in Processes : t # s => work'[t] = work[t]
      /\ work'[s].at \in {"idle", "mark", "rate", "bundle", "keep"}
  <2>1. CASE VerifyEnvelope(s)
    BY <1>1, <2>1 DEF VerifyEnvelope, Refuse, Settle, AtRest, WorkOK, WorkTyped
  <2>4. CASE MarkSeen(s)
    BY <1>1, <2>4 DEF MarkSeen, WorkOK, WorkTyped
  <2>2. CASE BundlesRead(s)
    BY <1>1, <2>2 DEF BundlesRead, WorkOK, WorkTyped
  <2>3. ASSUME FileRequest(s) \/ ReceiveSupportBundle(s) \/ EndProcess(s)
        PROVE  work' = [work EXCEPT ![s] = AtRest]
    BY <2>3 DEF FileRequest, ReceiveSupportBundle, EndProcess, File, Settle
  <2> QED
    BY <1>1, <2>1, <2>2, <2>3, <2>4 DEF AtRest, WorkOK
<1> QED
    BY <1>2, <1>3, AloneQuiet

LEMMA AloneSteps ==
    InInv /\ NothingOverwritten /\ OneAtWork /\ [InboundNext]_inboundVars => NothingOverwritten'
<1> SUFFICES ASSUME InInv, NothingOverwritten, OneAtWork, [InboundNext]_inboundVars
             PROVE  NothingOverwritten'
    OBVIOUS
<1>1. WorkOK /\ RelayOK /\ "cli" \in Processes /\ "daemon" \in Processes
    BY DEF InInv, Processes
<1>2. ASSUME NEW e \in Envelopes, DeliverMail(e)
      PROVE  NothingOverwritten'
  <2>1. /\ UNCHANGED <<rate, spoiled, uses, respent>>
        /\ work["daemon"].at = "idle" /\ Begin("daemon", e)
    BY <1>2 DEF DeliverMail, InStep, rateVars, codeVars
  <2> QED
    BY <1>1, <2>1, BeginEffect, AloneQuiet
<1>3. ASSUME ApplyNext
      PROVE  NothingOverwritten'
  <2>1. /\ UNCHANGED <<rate, spoiled, uses, respent>> /\ batch # <<>>
        /\ work["cli"].at = "idle" /\ Begin("cli", Head(batch))
    BY <1>3 DEF ApplyNext, InStep, rateVars, codeVars
  <2>2. Head(batch) \in Envelopes
    BY <1>1, <2>1 DEF RelayOK
  <2> QED
    BY <1>1, <2>1, <2>2, BeginEffect, AloneQuiet
<1>4. ASSUME NEW s \in Processes, Handler(s) \/ EndProcess(s)
      PROVE  NothingOverwritten'
    BY <1>4, AloneReads, AloneWrites, AloneRest DEF Handler
<1>5. ASSUME NEW h \in passed, Age(h)
      PROVE  NothingOverwritten'
    BY <1>5, AloneAge
<1>6. ASSUME MintInviteCodeRead \/ MintInviteCodeWrite
      PROVE  NothingOverwritten'
    BY <1>1, <1>6, AloneReads, AloneWrites
<1>7. ASSUME NEW b, NEW status, SetSupportBundleStatusRead(b, status)
      PROVE  NothingOverwritten'
  <2>1. /\ UNCHANGED <<rate, spoiled, uses, respent>>
        /\ work' = [work EXCEPT !["cli"].at = "status", !["cli"].kept = SetStatus(bundles, b, status)]
    BY <1>7 DEF SetSupportBundleStatusRead, rateVars, codeVars
  <2>2. \A t \in Processes : work'[t] = work[t] \/ work'[t].at = "status"
    BY <1>1, <2>1 DEF WorkOK, WorkTyped
  <2> QED
    BY <2>1, <2>2, AloneQuiet
<1>8. ASSUME SetSupportBundleStatusWrite
      PROVE  NothingOverwritten'
  <2>1. /\ UNCHANGED <<rate, spoiled, uses, respent>>
        /\ work' = [work EXCEPT !["cli"] = AtRest]
    BY <1>8 DEF SetSupportBundleStatusWrite, rateVars, codeVars
  <2>2. \A t \in Processes : work'[t] = work[t] \/ work'[t].at = "idle"
    BY <1>1, <2>1 DEF WorkOK, AtRest
  <2> QED
    BY <2>1, <2>2, AloneQuiet
<1>9. ASSUME UNCHANGED work, UNCHANGED <<rate, spoiled, uses, respent>>
      PROVE  NothingOverwritten'
    BY <1>9, AloneQuiet
<1>10. ASSUME NEW e \in Envelopes, PostToRelay(e)
       PROVE  NothingOverwritten'
    BY <1>9, <1>10 DEF PostToRelay, rateVars, codeVars
<1>11. ASSUME DrainRead \/ DrainTruncate \/ CodeExpires
       PROVE  NothingOverwritten'
    BY <1>9, <1>11 DEF DrainRead, DrainTruncate, CodeExpires, rateVars, codeVars
<1>12. ASSUME UNCHANGED inboundVars
       PROVE  NothingOverwritten'
    BY <1>9, <1>12 DEF inboundVars, rateVars, codeVars
<1> QED
    BY <1>2, <1>3, <1>4, <1>5, <1>6, <1>7, <1>8, <1>10, <1>11, <1>12 DEF InboundNext

(* As long as one process at a time is at work in the home, the limits are *)
(* exact: no window ever holds more hits than configured, and the code     *)
(* lets in no more requests than it has uses (enforceInboundRate,          *)
(* consumeInviteCode).                                                     *)
THEOREM LimitsAreExact ==
    InboundSpec /\ []OneAtWork =>
        [](/\ spoiled = {} /\ respent = 0
           /\ Within(passed)
           /\ MaxUses > 0 => Cardinality(byCode) <= MaxUses)
<1> DEFINE Exact == /\ spoiled = {} /\ respent = 0
                    /\ Within(passed)
                    /\ MaxUses > 0 => Cardinality(byCode) <= MaxUses
<1>1. InboundInit => NothingOverwritten
    BY DEF InboundInit, NothingOverwritten, CopyFresh, InStep, AtRest
<1>2. InInv /\ NothingOverwritten /\ OneAtWork /\ [InboundNext]_inboundVars
          => NothingOverwritten'
    BY AloneSteps
<1>3. InInv /\ NothingOverwritten => Exact
  <2> SUFFICES ASSUME RateOK, CodeOK, spoiled = {}, respent = 0
               PROVE  Exact
    BY DEF InInv, NothingOverwritten
  <2>1. passed = rate /\ Within(rate)
    BY DEF RateOK
  <2>2. Cardinality(byCode) \in Nat
    BY FS_CardinalityType DEF CodeOK
  <2>3. MaxUses > 0 => Cardinality(byCode) <= MaxUses
    BY <2>2, LimitsAssumption DEF CodeOK
  <2> QED
    BY <2>1, <2>3
<1>4. InboundSpec => []InInv
    BY InInvariant
<1>5. InboundSpec /\ []OneAtWork => []NothingOverwritten
    BY <1>1, <1>2, <1>4, PTL DEF InboundSpec
<1> QED
    BY <1>3, <1>4, <1>5, PTL

-----------------------------------------------------------------------------
(* A hit that is let in is one more: what the windows count is envelopes.  *)
LEMMA UnusedNumber ==
    ASSUME NEW S, NEW p, IsFiniteSet(S)
    PROVE  \E n \in 1 .. Cardinality(S) + 1 : [from |-> p, n |-> n] \notin S
<1> SUFFICES ASSUME \A n \in 1 .. Cardinality(S) + 1 : [from |-> p, n |-> n] \in S
             PROVE  FALSE
    OBVIOUS
<1> DEFINE k == Cardinality(S)
           D == 1 .. k + 1
           f == [n \in D |-> [from |-> p, n |-> n]]
<1>1. k \in Nat
    BY FS_CardinalityType
<1>2. f \in [D -> S]
    OBVIOUS
<1>3. \A m, n \in D : f[m] = f[n] => m = n
  <2> SUFFICES ASSUME NEW m \in D, NEW n \in D, f[m] = f[n]
               PROVE  m = n
    OBVIOUS
  <2>1. f[m] = [from |-> p, n |-> m] /\ f[n] = [from |-> p, n |-> n]
    OBVIOUS
  <2>2. f[m].n = m /\ f[n].n = n
    BY <2>1
  <2> QED
    BY <2>2
<1> HIDE DEF k, f
<1>4. IsFiniteSet(1 .. k + 1)
      /\ Cardinality(1 .. k + 1) = IF 1 > k + 1 THEN 0 ELSE k + 1 - 1 + 1
    BY <1>1, FS_Interval
<1>5. k < Cardinality(1 .. k + 1)
    BY <1>1, <1>4
<1>6. IsFiniteSet(D) /\ Cardinality(S) < Cardinality(D)
    BY <1>4, <1>5 DEF k
<1> HIDE DEF D
<1>7. \E m, n \in D : m # n /\ f[m] = f[n]
    BY <1>2, <1>6, FS_PigeonHole
<1> QED
    BY <1>3, <1>7

LEMMA HitIsNew ==
    ASSUME IsFiniteSet(passed), NEW s \in Processes, RateWrite(s)
    PROVE  \E hit \in passed' \ passed :
               hit.from = Sender(s) /\ hit \in rate' /\ passed' = passed \cup {hit}
<1> DEFINE free(n) == [from |-> Sender(s), n |-> n] \notin passed
           m == CHOOSE n \in 1 .. Cardinality(passed) + 1 : free(n)
           hit == [from |-> Sender(s), n |-> m]
<1>1. \E n \in 1 .. Cardinality(passed) + 1 : free(n)
    BY UnusedNumber
<1>2. free(m)
    BY <1>1
<1>3. passed' = passed \cup {hit} /\ rate' = work[s].hits \cup {hit}
    BY DEF RateWrite
<1> HIDE DEF m
<1> QED
    BY <1>2, <1>3

(* Finite windows: each step puts in one hit at most.                      *)
HitsFinite == IsFiniteSet(passed)

LEMMA PassedFinite == InboundSpec => []HitsFinite
<1>1. InboundInit => HitsFinite
    BY FS_EmptySet DEF InboundInit, HitsFinite
<1>2. HitsFinite /\ [InboundNext]_inboundVars => HitsFinite'
  <2> SUFFICES ASSUME IsFiniteSet(passed), [InboundNext]_inboundVars
               PROVE  IsFiniteSet(passed')
    BY DEF HitsFinite
  <2>1. ASSUME NEW s \in Processes, RateWrite(s)
        PROVE  IsFiniteSet(passed')
    BY <2>1, HitIsNew, FS_AddElement
  <2>2. ASSUME NEW h \in passed, Age(h)
        PROVE  IsFiniteSet(passed')
    <3>1. passed' \in SUBSET passed
      BY <2>2 DEF Age
    <3> QED
      BY <3>1, FS_Subset
  <2>3. passed' = passed \/ (\E s \in Processes : RateWrite(s)) \/ \E h \in passed : Age(h)
    <3>1. ASSUME NEW s \in Processes, Handler(s) \/ EndProcess(s)
          PROVE  passed' = passed \/ RateWrite(s)
      BY <3>1 DEF Handler, EndProcess, VerifyEnvelope, MarkSeen, RateRead, Gate,
                  ConsumeInviteCode, FileRequest, BundlesRead, ReceiveSupportBundle, rateVars
    <3>2. CASE UNCHANGED inboundVars
      BY <3>2 DEF inboundVars, rateVars
    <3>3. CASE InboundNext
      BY <3>1, <3>3
         DEF InboundNext, PostToRelay, DeliverMail, DrainRead, DrainTruncate, ApplyNext,
             CodeExpires, SetSupportBundleStatusRead, SetSupportBundleStatusWrite,
             MintInviteCodeRead, MintInviteCodeWrite, rateVars
    <3> QED
      BY <3>2, <3>3
  <2> QED
    BY <2>1, <2>2, <2>3
<1> QED
    BY <1>1, <1>2, PTL DEF InboundSpec

(* An envelope the windows let through leaves a hit of its sender that was *)
(* not there: no two envelopes share one, so that the caps on hits are     *)
(* caps on envelopes (enforceInboundRate pushes a hit for each).           *)
THEOREM EveryPassLeavesAHit ==
    InboundSpec => [][\A s \in Processes : RateWrite(s) =>
                          /\ Cardinality(passed') = Cardinality(passed) + 1
                          /\ \E hit \in rate' \ passed : hit.from = Sender(s)]_inboundVars
<1> DEFINE Counts == \A s \in Processes : RateWrite(s) =>
                          /\ Cardinality(passed') = Cardinality(passed) + 1
                          /\ \E hit \in rate' \ passed : hit.from = Sender(s)
<1>1. HitsFinite => Counts
  <2> SUFFICES ASSUME IsFiniteSet(passed), NEW s \in Processes, RateWrite(s)
               PROVE  /\ Cardinality(passed') = Cardinality(passed) + 1
                      /\ \E hit \in rate' \ passed : hit.from = Sender(s)
    BY DEF HitsFinite
  <2>1. PICK hit \in passed' \ passed :
            hit.from = Sender(s) /\ hit \in rate' /\ passed' = passed \cup {hit}
    BY HitIsNew
  <2>2. Cardinality(passed \cup {hit}) = Cardinality(passed) + 1
    BY <2>1, FS_AddElement
  <2> QED
    BY <2>1, <2>2
<1> QED
    BY <1>1, PassedFinite, PTL DEF InboundSpec
=============================================================================
