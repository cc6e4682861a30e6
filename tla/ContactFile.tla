---------------------------- MODULE ContactFile ----------------------------
(***************************************************************************)
(* One home directory under handlers that interleave and crash.            *)
(*                                                                         *)
(* FriendGraph runs each handler of src/store-friends.ts in one step.      *)
(* Here a handler is the list of its file operations: to change contacts,  *)
(* grants or approvals it reads the whole file, changes its copy and, some *)
(* awaits later, writes the whole copy back (readJson and writeJson of     *)
(* src/fs-json.ts; a write is a rename, hence one step).  Nothing locks a  *)
(* file.  A slot is a running handler: an envelope, a request of the       *)
(* reader and a command of the CLI may all run at once.  With one slot the *)
(* handlers run one after the other, and only a crash can come between two *)
(* steps of one of them.                                                   *)
(*                                                                         *)
(* What a peer may send, the invite gate and the signatures are in         *)
(* FriendGraph; the envelopes a handler signs are left out.                *)
(***************************************************************************)
EXTENDS Naturals, Sequences, FiniteSets

CONSTANTS
    Peers,      \* the peers this home may hear of
    Worlds,     \* the handlers that may run at the same time, and the
                \* crashes of the process (a bound): [slots, crashes]
    MaxRuns     \* bound: handlers ever started

VARIABLES
    contacts,   \* contacts[p]: relationship_state, or "absent"
    homeGrants, \* grants.json
    approvals,  \* approvals.json, the friend_accept approvals
    job,        \* job[s]: the handler in slot s
    runs,       \* handlers started: the source of ids
    slots,      \* the handlers of this home, which the world gives
    crashes,    \* crashes that may still come
    homeStanding, \* history: the owner's last accept, revoke or block of p
    cut,        \* history: <<p, operation>> a crash left undone
    resolved,   \* history: how often each approval was acted upon
    forgotten   \* history: how often a write passed its resolution over

homeVars == <<contacts, homeGrants, approvals, job, runs, slots, crashes, homeStanding, cut,
              resolved, forgotten>>

disk == <<contacts, homeGrants, approvals>>
history == <<homeStanding, cut, resolved, forgotten>>
Ids == 1..MaxRuns

-----------------------------------------------------------------------------
(* A handler is a sequence of operations.  "to" is the state that an       *)
(* operation on the contacts looks for or gives.                           *)

Op(do, to) == [do |-> do, to |-> to]
Do(do) == Op(do, "none")

(* acceptFriend: the check, setRelationship, issueGrant with the two files *)
(* of storeGrant.                                                          *)
Accepting == <<Do("check"), Op("set", "friend"), Do("issue"), Do("touch")>>
Rejecting == <<Do("check"), Op("set", "rejected")>>

(* revoke; the slip is to leave the grants alone.                          *)
RevokingState == <<Op("set", "revoked")>>
Revoking == <<Op("set", "revoked"), Do("deactivate")>>

(* reportPeer with block: the block happens if there is a contact; the     *)
(* report, in a file of its own, is written either way.                    *)
Reporting == <<Do("present"), Op("set", "blocked")>>

(* A profile that a friend shares is stored; an older version than the one *)
(* stored changes nothing, as if it had not come.                          *)
ReceivingProfile == <<Op("expect", "friend"), Do("touch")>>

Programs ==
    [createFriendRequest |->
        <<Do("refuse"), Op("upsert", "request_sent"),
          Op("set", "request_sent")>>,
     receiveFriendRequest |->
        <<Op("upsert", "request_received"), Op("set", "request_received"),
          Do("dedupe"), Do("create"), Do("save")>>,
     applyAcceptance |->
        <<Op("upsert", "friend"), Op("set", "friend"), Do("store"),
          Do("touch"), Do("touch")>>,
     applyRejection |->
        <<Op("upsert", "rejected"), Op("set", "rejected")>>,
     acceptFriend |-> Accepting,
     approve |-> <<Op("expect", "request_received"), Do("resolve")>>
                    \o Accepting,
     decline |-> <<Do("present"), Do("resolve")>> \o Rejecting,
     revoke |-> Revoking,
     block |-> <<Op("set", "blocked")>>,
     reportPeer |-> Reporting,
     receiveProfileShare |-> ReceivingProfile,
     markFriendRequestNotified |-> <<Do("touch")>>]

FileOf(do) ==
    CASE do \in {"issue", "store", "deactivate"} -> "grants"
      [] do \in {"dedupe", "create", "save", "resolve"} -> "approvals"
      [] OTHER -> "contacts"

(* A handler: its peer, the approval it is about, the id of what it makes, *)
(* what it has still to do, and the copy of a file it has read.            *)
Idle == [peer |-> "none", about |-> 0, id |-> 0, todo |-> <<>>,
         held |-> FALSE, copy |-> {}]

Busy(s) == job[s].todo # <<>>
Head1(s) == Head(job[s].todo)
At(s, do) == Busy(s) /\ Head1(s).do = do
InFlight(p, do) ==
    \E s \in slots : /\ job[s].peer = p
                     /\ \E i \in DOMAIN job[s].todo : job[s].todo[i].do = do

Finish(s) == job' = [job EXCEPT ![s] = Idle]

Proceed(s) ==
    LET rest == Tail(job[s].todo)
    IN  IF rest = <<>> THEN Finish(s)
        ELSE job' = [job EXCEPT ![s].todo = rest, ![s].held = FALSE,
                                ![s].copy = {}]
Hold(s, content) == job' = [job EXCEPT ![s].held = TRUE, ![s].copy = content]

Pending(content, p) ==
    {a \in content : a.peer = p /\ a.status = "pending"}

-----------------------------------------------------------------------------
(* Reads that only decide whether to go on.                                *)

(* A pending approval is not made again; the slip is to count the resolved *)
(* ones too.                                                               *)
AlreadyAsked(p) == \E a \in approvals : a.peer = p
AlreadyPending(p) == Pending(approvals, p) # {}

Passes(s) ==
    LET p == job[s].peer
        state == contacts[p]
    IN  CASE Head1(s).do = "check" -> state \notin {"absent", "blocked"}
          [] Head1(s).do = "refuse" -> state # "blocked"
          [] Head1(s).do = "expect" -> state = Head1(s).to
          [] Head1(s).do = "present" -> state # "absent"
          [] Head1(s).do = "dedupe" -> ~AlreadyPending(p)

Check(s) ==
    /\ \E do \in {"check", "refuse", "expect", "present", "dedupe"} : At(s, do)
    /\ IF Passes(s) THEN Proceed(s) ELSE Finish(s)
    /\ UNCHANGED <<disk, history, runs, crashes>>

-----------------------------------------------------------------------------
(* Read, change, write back.                                               *)

Writing == {"upsert", "set", "touch", "issue", "store", "deactivate",
            "create", "resolve"}

(* What makes a handler throw, or stop, once it has read the file: a       *)
(* blocked contact, an unknown one, an approval that is not pending.       *)
Blocked(s) == At(s, "upsert") /\ contacts[job[s].peer] = "blocked"
Unknown(s) == At(s, "set") /\ contacts[job[s].peer] = "absent"
Resolved(s) ==
    /\ At(s, "resolve")
    /\ \A a \in Pending(approvals, job[s].peer) : a.id # job[s].about

(* Slips: each of the checks that matter is left out.                      *)
ThrowsUnlessBlocked(s) == Unknown(s) \/ Resolved(s)
ThrowsUnlessResolved(s) == Blocked(s) \/ Unknown(s)
Throws(s) == Blocked(s) \/ Unknown(s) \/ Resolved(s)

Read(s) ==
    /\ \E do \in Writing : At(s, do)
    /\ ~job[s].held
    /\ IF Throws(s)
       THEN Finish(s)
       ELSE Hold(s, CASE FileOf(Head1(s).do) = "contacts" -> contacts
                      [] FileOf(Head1(s).do) = "grants" -> homeGrants
                      [] OTHER -> approvals)
    /\ UNCHANGED <<disk, history, runs, crashes>>

(* storeFriendProfile, and like it storeGrant and                          *)
(* markFriendRequestNotified, change other fields of the contact and write *)
(* the rest as they read it.                                               *)
Touched(s) == job[s].copy

(* upsertContactFromCard and setRelationship put the contact in its new    *)
(* state.                                                                  *)
Rewritten(s) == IF At(s, "touch") THEN Touched(s)
                ELSE [job[s].copy EXCEPT ![job[s].peer] = Head1(s).to]

(* The owner's decision: a revoke, a block, or the first file of an accept.*)
Decides(s) ==
    /\ At(s, "set")
    /\ \/ Head1(s).to \in {"revoked", "blocked"}
       \/ \E i \in DOMAIN job[s].todo : job[s].todo[i].do = "issue"

WriteContacts(s) ==
    /\ job[s].held /\ FileOf(Head1(s).do) = "contacts"
    /\ contacts' = Rewritten(s)
    /\ homeStanding' = IF Decides(s)
                       THEN [homeStanding EXCEPT ![job[s].peer] = Head1(s).to]
                       ELSE homeStanding
    /\ Proceed(s)
    /\ UNCHANGED <<homeGrants, approvals, cut, resolved, forgotten, runs,
                   crashes>>

WriteGrants(s) ==
    LET p == job[s].peer
        new == [id |-> job[s].id, peer |-> p, active |-> TRUE,
                mine |-> Head1(s).do = "issue"]
    IN  /\ job[s].held /\ FileOf(Head1(s).do) = "grants"
        /\ homeGrants' = IF Head1(s).do = "deactivate"
                         THEN {IF g.peer = p THEN [g EXCEPT !.active = FALSE]
                               ELSE g : g \in job[s].copy}
                         ELSE job[s].copy \cup {new}
        /\ Proceed(s)
        /\ UNCHANGED <<contacts, approvals, history, runs, crashes>>

(* A write of approvals.json, from a copy that may have been read before   *)
(* another handler resolved an approval.                                   *)
IsResolved(content, i) == \E a \in content : a.id = i /\ a.status = "resolved"
Saves(s, content) ==
    /\ approvals' = content
    /\ forgotten' =
           [i \in Ids |->
               IF IsResolved(approvals, i) /\ ~IsResolved(job[s].copy, i)
               THEN forgotten[i] + 1 ELSE forgotten[i]]

(* createApproval saves the copy it read twice, before and after its audit *)
(* entry.                                                                  *)
CreateApproval(s) ==
    LET new == [id |-> job[s].id, peer |-> job[s].peer, status |-> "pending"]
    IN  /\ At(s, "create") /\ job[s].held
        /\ Saves(s, job[s].copy \cup {new})
        /\ job' = [job EXCEPT ![s].todo = Tail(job[s].todo),
                                ![s].copy = job[s].copy \cup {new}]
        /\ UNCHANGED <<contacts, homeGrants, homeStanding, cut, resolved, runs,
                       crashes>>

SaveApproval(s) ==
    /\ At(s, "save")
    /\ Saves(s, job[s].copy)
    /\ Proceed(s)
    /\ UNCHANGED <<contacts, homeGrants, homeStanding, cut, resolved, runs,
                   crashes>>

(* resolveApproval; resolving is what lets the reader's decision act.      *)
ResolveApproval(s) ==
    /\ At(s, "resolve") /\ job[s].held
    /\ Saves(s, {IF a.id = job[s].about THEN [a EXCEPT !.status = "resolved"]
                 ELSE a : a \in job[s].copy})
    /\ resolved' = [resolved EXCEPT ![job[s].about] = @ + 1]
    /\ Proceed(s)
    /\ UNCHANGED <<contacts, homeGrants, homeStanding, cut, runs, crashes>>

-----------------------------------------------------------------------------

HomeInit ==
    /\ \E world \in Worlds : slots = world.slots /\ crashes = world.crashes
    /\ contacts = [p \in Peers |-> "absent"]
    /\ homeGrants = {}
    /\ approvals = {}
    /\ job = [s \in slots |-> Idle]
    /\ runs = 0
    /\ homeStanding = [p \in Peers |-> "none"]
    /\ cut = {}
    /\ resolved = [i \in Ids |-> 0]
    /\ forgotten = [i \in Ids |-> 0]

Start(s, p, handler, about) ==
    /\ ~Busy(s)
    /\ runs < MaxRuns
    /\ runs' = runs + 1
    /\ job' = [job EXCEPT ![s] = [Idle EXCEPT !.peer = p, !.about = about,
                                              !.id = runs + 1,
                                              !.todo = Programs[handler]]]
    /\ UNCHANGED <<disk, history, crashes>>

(* The reader decides on an approval it shows as pending; a notification   *)
(* is recorded for a contact that has asked.                               *)
StartDecision(s, a) ==
    \E handler \in {"approve", "decline"} : Start(s, a.peer, handler, a.id)

StartNotified(s, p) ==
    /\ contacts[p] # "absent"
    /\ Start(s, p, "markFriendRequestNotified", 0)

StartOther(s, p) ==
    \E handler \in DOMAIN Programs
            \ {"approve", "decline", "markFriendRequestNotified"} :
        Start(s, p, handler, 0)

(* What each running handler had still to do is remembered.                *)
Crash ==
    /\ crashes > 0
    /\ crashes' = crashes - 1
    /\ job' = [s \in slots |-> Idle]
    /\ cut' = cut \cup UNION {{<<job[s].peer, job[s].todo[i].do>> :
                                  i \in DOMAIN job[s].todo} : s \in slots}
    /\ UNCHANGED <<disk, homeStanding, resolved, forgotten, runs>>

HandlerStep(s) ==
    \/ Check(s)
    \/ Read(s)
    \/ WriteContacts(s)
    \/ WriteGrants(s)
    \/ CreateApproval(s)
    \/ SaveApproval(s)
    \/ ResolveApproval(s)

HomeNext ==
    /\ \/ \E s \in slots, p \in Peers : StartOther(s, p) \/ StartNotified(s, p)
       \/ \E s \in slots : \E a \in approvals : StartDecision(s, a)
       \/ \E s \in slots : HandlerStep(s)
       \/ Crash
    /\ UNCHANGED slots

HomeSpec == HomeInit /\ [][HomeNext]_homeVars

-----------------------------------------------------------------------------
(* Properties.  "Owed" is work a running handler has still to do, or that  *)
(* a crash left undone.  The first three hold of a home whose handlers do  *)
(* not overlap.                                                            *)

OneAtATime == \A s, t \in slots : s = t
Owed(p, do) == InFlight(p, do) \/ <<p, do>> \in cut

(* Handlers that run one after the other keep a block until the owner      *)
(* revokes, crashes or not.                                                *)
BlockSurvives ==
    OneAtATime =>
        \A p \in Peers : contacts[p] = "blocked" <=> homeStanding[p] = "blocked"

(* A peer whose messages would be let in is one the owner's last decision  *)
(* accepted, unless a crash cut a revoke between its two files.            *)
LetsIn(p) ==
    /\ contacts[p] = "friend"
    /\ \E g \in homeGrants : g.peer = p /\ g.mine /\ g.active

AdmitsOnlyAccepted ==
    OneAtATime =>
        \A p \in Peers :
            LetsIn(p) => homeStanding[p] = "friend" \/ Owed(p, "deactivate")

(* A request shown as received waits in the reader, unless a handler was   *)
(* cut before it made the approval, or the owner's decision between the    *)
(* approval and the contact.                                               *)
RequestIsAnswerable ==
    OneAtATime =>
        \A p \in Peers :
            contacts[p] = "request_received" =>
                \/ Pending(approvals, p) # {}
                \/ Owed(p, "create") \/ Owed(p, "set")

(* One approval lets one decision act, once, however many handlers         *)
(* overlap: a double click on a resolved approval "still hits              *)
(* resolveApproval's own guard" (http.ts).  It acts again only as often as *)
(* a handler that had read approvals.json before wrote it back after.      *)
ApprovalActsOnce == \A i \in Ids : resolved[i] <= 1 + forgotten[i]

=============================================================================
