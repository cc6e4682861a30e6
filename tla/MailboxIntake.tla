--------------------------- MODULE MailboxIntake ---------------------------
(***************************************************************************)
(* How the dial-out client takes in the envelopes a host holds for it      *)
(* (handleMailboxDeliver in src/dialout.ts, verifyEnvelope in              *)
(* src/store-trust.ts, notifyInbound in src/notify.ts).                    *)
(*                                                                         *)
(* Every mailbox_deliver frame starts a handler that nobody waits for, so  *)
(* handlers interleave at their awaits.  A slot is one such handler and an *)
(* action what it does between two awaits; a single slot is a client whose *)
(* frames never overlap.  The socket may drop, and the process crash, at   *)
(* any of these points: the files (seen messages, the ledger of            *)
(* notifications) survive a crash, the handlers do not.                    *)
(*                                                                         *)
(* The host is external: it keeps a message until it is acked, and offers  *)
(* it once on every connection.  What applying an envelope does to the     *)
(* stores is in FriendGraph; here it is counted.  Each envelope stands for *)
(* a friend_request of a peer of its own, so that the owner hears of it on *)
(* two ways that do not wait for each other: the hook of its handler, and  *)
(* the notifier cron, which asks for what has no notified_at yet.  Writes  *)
(* of the contact file that overlap are in ContactFile.                    *)
(***************************************************************************)
EXTENDS Naturals, FiniteSets

CONSTANTS
    Messages,    \* the envelopes the host holds at the start
    NoMessage,   \* what an idle slot works on
    Refused,     \* those that verification or their handler refuses
    Slots,       \* handlers that may run at the same time
    MaxDrops,    \* bound: connections that drop
    MaxCrashes,  \* bound: crashes of the process
    MaxFailures, \* bound: messages whose notify command fails
    MaxCuts      \* bound: runs of the cron that end before their reply

ASSUME MessagesAssumption == NoMessage \notin Messages
ASSUME RefusedAssumption == Refused \subseteq Messages
ASSUME BoundsAssumption ==
    {MaxDrops, MaxCrashes, MaxFailures, MaxCuts} \subseteq Nat

VARIABLES
    queue,     \* host: messages it still holds
    offered,   \* host: messages offered on the present connection
    link,      \* the socket of the client
    seen,      \* seen messages on disk (verifyEnvelope)
    ledger,    \* notified messages on disk (wasNotified, recordNotified)
    job,       \* job[s]: the handler in slot s
    applied,   \* history: how often each envelope was applied
    notified,  \* history: how often the owner was notified of it
    orphaned,  \* history: those a crash caught marked seen, not yet applied
    failed,    \* history: those whose notify command failed
    drops, crashes,
    stamped,   \* requests whose contact has a notified_at
    cron,      \* a run of the notifier cron: the requests it has listed, and
               \* those it has yet to mark
    told,      \* history: requests the cron has told the owner of
    untold,    \* history: those marked by a run that ended before its reply
    cuts

vars == <<queue, offered, link, seen, ledger, job, applied, notified,
          orphaned, failed, drops, crashes, stamped, cron, told, untold, cuts>>

host == <<queue, offered>>
files == <<seen, ledger>>
history == <<applied, notified, orphaned, failed>>
faults == <<drops, crashes>>
telling == <<cron, told, untold, cuts>>

Links == {"down", "connecting", "up"}
Steps == {"idle", "verify", "mark", "apply", "ack", "notify", "run",
          "record", "store", "stamp"}

(* A handler: its next step, its envelope, what it last read of the file   *)
(* it will write back, and its local variable applied.                     *)
Job == [step : Steps, msg : Messages \cup {NoMessage},
        snap : SUBSET Messages, ok : BOOLEAN]
Idle == [step |-> "idle", msg |-> NoMessage, snap |-> {}, ok |-> FALSE]

At(s, step) == job[s].step = step
Goto(s, step) == job' = [job EXCEPT ![s].step = step]
Finish(s) == job' = [job EXCEPT ![s] = Idle]
Applying == {job[s].msg : s \in {t \in Slots : At(t, "apply")}}

-----------------------------------------------------------------------------
(* The connection.                                                         *)

Connect ==
    /\ link = "down"
    /\ link' = "connecting"
    /\ UNCHANGED <<host, files, job, history, faults, stamped, telling>>

(* hello_ok: the host starts to offer what it still holds.                 *)
Open ==
    /\ link = "connecting"
    /\ link' = "up"
    /\ offered' = {}
    /\ UNCHANGED <<queue, files, job, history, faults, stamped, telling>>

(* Slip: a close that cancels the handlers of its connection.              *)
CancelOnClose ==
    /\ link # "down" /\ drops < MaxDrops
    /\ drops' = drops + 1
    /\ link' = "down"
    /\ job' = [s \in Slots |-> Idle]
    /\ UNCHANGED <<host, files, history, crashes, stamped, telling>>

(* The close listener schedules the reconnect; handlers run on.            *)
Close ==
    /\ link # "down" /\ drops < MaxDrops
    /\ drops' = drops + 1
    /\ link' = "down"
    /\ UNCHANGED <<host, files, job, history, crashes, stamped, telling>>

(* The process ends, and is started again by whoever runs it.              *)
Crash ==
    /\ crashes < MaxCrashes
    /\ crashes' = crashes + 1
    /\ link' = "down"
    /\ job' = [s \in Slots |-> Idle]
    /\ orphaned' = orphaned \cup Applying
    /\ UNCHANGED <<host, files, applied, notified, failed, drops, stamped, telling>>

-----------------------------------------------------------------------------
(* A handler.                                                              *)

(* A mailbox_deliver frame arrives.                                        *)
Deliver(s, m) ==
    /\ link = "up"
    /\ m \in queue \ offered
    /\ At(s, "idle")
    /\ offered' = offered \cup {m}
    /\ job' = [job EXCEPT ![s].step = "verify", ![s].msg = m]
    /\ UNCHANGED <<queue, link, files, history, faults, stamped, telling>>

(* verifyEnvelope reads the seen messages.  A replay goes straight to its  *)
(* ack; a refused envelope fails here or, later, in its type's handler.    *)
Verify(s) ==
    /\ At(s, "verify")
    /\ \/ job[s].msg \in seen \cup Refused /\ Goto(s, "ack")
       \/ /\ job[s].msg \notin seen
          /\ job' = [job EXCEPT ![s].step = "mark", ![s].snap = seen]
    /\ UNCHANGED <<host, link, files, history, faults, stamped, telling>>

(* Slip: the file is written with the new message alone.                   *)
MarkAlone(s) ==
    /\ At(s, "mark")
    /\ seen' = {job[s].msg}
    /\ Goto(s, "apply")
    /\ UNCHANGED <<host, link, ledger, history, faults, stamped, telling>>

(* ... and writes back what it read, with the new message.                 *)
Mark(s) ==
    /\ At(s, "mark")
    /\ seen' = job[s].snap \cup {job[s].msg}
    /\ Goto(s, "apply")
    /\ UNCHANGED <<host, link, ledger, history, faults, stamped, telling>>

(* The rest of the type's handler.                                         *)
Apply(s) ==
    LET m == job[s].msg
        accepted == m \notin Refused
    IN  /\ At(s, "apply")
        /\ job' = [job EXCEPT ![s].step = "ack", ![s].ok = accepted]
        /\ applied' = IF accepted THEN [applied EXCEPT ![m] = @ + 1]
                                  ELSE applied
        /\ UNCHANGED <<host, link, files, notified, orphaned, failed, faults,
                   stamped, telling>>

AfterAck(s) == IF job[s].ok THEN Goto(s, "notify") ELSE Finish(s)

(* Slip: an envelope that was not applied is not acked.                    *)
AckIfApplied(s) ==
    /\ At(s, "ack")
    /\ link # "connecting"
    /\ queue' = IF link = "up" /\ job[s].ok THEN queue \ {job[s].msg}
                                            ELSE queue
    /\ AfterAck(s)
    /\ UNCHANGED <<offered, link, files, history, faults, stamped, telling>>

(* The ack is sent whatever became of the envelope; a closed socket drops  *)
(* it.                                                                     *)
Ack(s) ==
    /\ At(s, "ack")
    /\ link # "connecting"
    /\ queue' = IF link = "up" THEN queue \ {job[s].msg} ELSE queue
    /\ AfterAck(s)
    /\ UNCHANGED <<offered, link, files, history, faults, stamped, telling>>

(* send throws on a socket that is still connecting; nobody catches it, so *)
(* the process ends.                                                       *)
AckOnConnecting(s) == At(s, "ack") /\ link = "connecting" /\ Crash

-----------------------------------------------------------------------------
(* The notification of an applied envelope (onEnvelope).                   *)

Notify(s) ==
    /\ At(s, "notify")
    /\ IF job[s].msg \in ledger THEN Finish(s) ELSE Goto(s, "run")
    /\ UNCHANGED <<host, link, files, history, faults, stamped, telling>>

(* The host's command notifies the owner, or fails and leaves no record.   *)
RunCommand(s) ==
    /\ At(s, "run")
    /\ notified' = [notified EXCEPT ![job[s].msg] = @ + 1]
    /\ Goto(s, "record")
    /\ UNCHANGED <<host, link, files, applied, orphaned, failed, faults,
                   stamped, telling>>

(* Slip: a command that failed is recorded as one that was run.            *)
FailAndRecord(s) ==
    /\ At(s, "run")
    /\ Cardinality(failed) < MaxFailures
    /\ failed' = failed \cup {job[s].msg}
    /\ Goto(s, "record")
    /\ UNCHANGED <<host, link, files, applied, notified, orphaned, faults,
                   stamped, telling>>

(* deliverNotification: no command is set, it cannot be started, is killed *)
(* at its timeout, or exits with an error.                                 *)
FailCommand(s) ==
    /\ At(s, "run")
    /\ Cardinality(failed) < MaxFailures
    /\ failed' = failed \cup {job[s].msg}
    /\ Finish(s)
    /\ UNCHANGED <<host, link, files, applied, notified, orphaned, faults,
                   stamped, telling>>

(* recordNotified reads the ledger again and writes it back.               *)
Record(s) ==
    /\ At(s, "record")
    /\ IF job[s].msg \in ledger
       THEN Goto(s, "stamp")
       ELSE job' = [job EXCEPT ![s].step = "store", ![s].snap = ledger]
    /\ UNCHANGED <<host, link, files, history, faults, stamped, telling>>

Store(s) ==
    /\ At(s, "store")
    /\ ledger' = job[s].snap \cup {job[s].msg}
    /\ Goto(s, "stamp")
    /\ UNCHANGED <<host, link, seen, history, faults, stamped, telling>>

(* markFriendRequestNotified, so that the cron leaves the request alone.   *)
Stamp(s) ==
    /\ At(s, "stamp")
    /\ stamped' = stamped \cup {job[s].msg}
    /\ Finish(s)
    /\ UNCHANGED <<host, link, files, history, faults, telling>>

-----------------------------------------------------------------------------
(* The notifier cron, an agent's run in a process of its own.              *)

NoCron == [listed |-> {}, todo |-> {}]

(* friend pending --new; a run that finds nothing ends at once.            *)
CronLists ==
    LET new == {m \in Messages : applied[m] > 0} \ stamped
    IN  /\ cron.listed = {}
        /\ new # {}
        /\ cron' = [listed |-> new, todo |-> new]
        /\ UNCHANGED <<host, link, files, job, history, faults, stamped,
                       told, untold, cuts>>

(* friend mark-notified, once per requester.                               *)
CronMarks(m) ==
    /\ m \in cron.todo
    /\ stamped' = stamped \cup {m}
    /\ cron' = [cron EXCEPT !.todo = @ \ {m}]
    /\ UNCHANGED <<host, link, files, job, history, faults, told, untold,
                   cuts>>

(* The reply that ends the run is what reaches the owner.                  *)
CronReplies ==
    /\ cron.listed # {} /\ cron.todo = {}
    /\ told' = told \cup cron.listed
    /\ cron' = NoCron
    /\ UNCHANGED <<host, link, files, job, history, faults, stamped, untold,
                   cuts>>

CutCron ==
    /\ cron.listed # {} /\ cuts < MaxCuts
    /\ cuts' = cuts + 1
    /\ untold' = untold \cup (cron.listed \ cron.todo)
    /\ cron' = NoCron
    /\ UNCHANGED <<host, link, files, job, history, faults, stamped, told>>

-----------------------------------------------------------------------------

Init ==
    /\ queue = Messages
    /\ offered = {}
    /\ link = "down"
    /\ seen = {}
    /\ ledger = {}
    /\ job = [s \in Slots |-> Idle]
    /\ applied = [m \in Messages |-> 0]
    /\ notified = [m \in Messages |-> 0]
    /\ orphaned = {}
    /\ failed = {}
    /\ drops = 0
    /\ crashes = 0
    /\ stamped = {}
    /\ cron = NoCron
    /\ told = {}
    /\ untold = {}
    /\ cuts = 0

HandlerStep(s) ==
    \/ Verify(s)
    \/ Mark(s)
    \/ Apply(s)
    \/ Ack(s)
    \/ AckOnConnecting(s)
    \/ Notify(s)
    \/ RunCommand(s)
    \/ FailCommand(s)
    \/ Record(s)
    \/ Store(s)
    \/ Stamp(s)

CronStep ==
    \/ CronLists
    \/ \E m \in Messages : CronMarks(m)
    \/ CronReplies

Next ==
    \/ Connect
    \/ Open
    \/ Close
    \/ Crash
    \/ \E s \in Slots : \E m \in Messages : Deliver(s, m)
    \/ \E s \in Slots : HandlerStep(s)
    \/ CronStep
    \/ CutCron

Spec == Init /\ [][Next]_vars

(* The client reconnects, a running handler goes on, the host offers what  *)
(* it holds, and the cron fires every twenty minutes.  Nothing makes a     *)
(* socket drop, the process crash or the cron's agent stop.                *)
Fairness ==
    /\ WF_vars(Connect)
    /\ WF_vars(Open)
    /\ \A m \in Messages : WF_vars(\E s \in Slots : Deliver(s, m))
    /\ \A s \in Slots : WF_vars(HandlerStep(s))
    /\ WF_vars(CronStep)

FairSpec == Spec /\ Fairness

-----------------------------------------------------------------------------
(* Properties.                                                             *)

(* The host, the files and the handlers have the shape the code gives      *)
(* them.                                                                   *)
TypeOK ==
    /\ queue \subseteq Messages
    /\ offered \subseteq Messages
    /\ link \in Links
    /\ seen \subseteq Messages
    /\ ledger \subseteq Messages
    /\ job \in [Slots -> Job]
    /\ \A s \in Slots : At(s, "idle") <=> job[s].msg = NoMessage
    /\ applied \in [Messages -> Nat]
    /\ notified \in [Messages -> Nat]
    /\ orphaned \subseteq Messages
    /\ failed \subseteq Messages
    /\ drops \in Nat
    /\ crashes \in Nat
    /\ stamped \subseteq Messages
    /\ cron \in [listed : SUBSET Messages, todo : SUBSET Messages]
    /\ cron.todo \subseteq cron.listed
    /\ told \subseteq Messages
    /\ untold \subseteq Messages
    /\ cuts \in Nat

(* An envelope the client accepts is never lost silently: once the host    *)
(* has dropped it, it was applied, or a handler that has marked it seen is *)
(* about to apply it, or a crash hit exactly between these two steps.      *)
NothingLost ==
    \A m \in Messages \ (queue \cup Refused) :
        applied[m] > 0 \/ m \in Applying \cup orphaned

(* No redelivery is applied a second time, whatever connections drop and   *)
(* whenever the process crashes: "dedupe happens by inner message_id"      *)
(* (dialout.ts).  It holds as long as handlers do not overlap.             *)
AppliedAtMostOnce == \A m \in Messages : applied[m] <= 1

(* Nor does a redelivery notify the owner again.                           *)
NotifiedAtMostOnce == \A m \in Messages : notified[m] <= 1

(* The mailbox drains: no refused envelope comes back forever.             *)
MailboxDrains == <>[](queue = {})

(* The owner hears of every request that was applied, by the hook or by the*)
(* cron, although the process may crash anywhere between the two steps of  *)
(* the handler's record and the hook's command may fail; only a run of the *)
(* cron that ends between its marks and its reply leaves some untold.      *)
OwnerIsTold ==
    \A m \in Messages :
        applied[m] > 0 ~> notified[m] > 0 \/ m \in told \cup untold

(* Handlers that drops interrupt and crashes cut implement a mailbox that  *)
(* delivers each envelope effectively once, or forgets it for good.        *)
Promise == INSTANCE Receipt WITH held <- queue, forgotten <- orphaned

ReceiptSpec == Promise!Spec
=============================================================================
