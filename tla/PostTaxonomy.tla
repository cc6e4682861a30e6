--------------------------- MODULE PostTaxonomy ----------------------------
(***************************************************************************)
(* The post types of src/store-taxonomy.ts in the homes of agents that     *)
(* publish to their friends: signals, ephemeral posts (query, share,       *)
(* coordinate, delegation_request), answers, endorsements, attestations    *)
(* and capability advertisements.                                          *)
(*                                                                         *)
(* A post is immutable and signed; what changes is its lifecycle, which is *)
(* kept in its author's file, left out of the signature, and computed anew *)
(* from the clock whenever the file is read.  A friend keeps the copy it   *)
(* received, with the lifecycle stamped when the post was made, and        *)
(* nothing tells it of a later change.                                     *)
(*                                                                         *)
(* Handlers do not overlap here, but a crash may cut one between two of    *)
(* its files.  Friends part; the way back is FriendGraph's.                *)
(***************************************************************************)
EXTENDS Naturals, FiniteSets

CONSTANTS
    Agents,
    Posts,      \* bound: the posts that may be made
    Makes,      \* bound: Makes[a] is the kinds of post that a makes
    MaxCrashes  \* bound: handlers and broadcasts cut short

ASSUME CrashesAssumption == MaxCrashes \in Nat

VARIABLES
    post,       \* post[p]: what its author signed, or Absent
    life,       \* life[p]: lifecycle or status in its author's file
    past,       \* the posts whose expires_at has passed
    friend,     \* friend[a]: the contacts of a in state "friend"
    stage,      \* stage[p]: how far the command that made p delivered it
    todo,       \* todo[p]: the friends broadcastPost has still to send p
    net,        \* <<p, b>>: post_publish envelopes under way
    received,   \* received[b]: the posts in received-posts.json of b
    crashes,
    late,       \* history: answers made when their query was tombstoned
    cut,        \* history: queries whose last deletion was cut
    ended,      \* history: posts that an owner cancelled, deleted or closed
    lost        \* history: <<p, b>> that never arrives

vars == <<post, life, past, friend, stage, todo, net, received, crashes,
          late, cut, ended, lost>>

file == <<post, life, late, cut, ended>>
delivery == <<stage, todo, net, received, lost>>

EphemeralTypes == {"query", "delegation_request", "share", "coordinate"}
HardTypes == {"query", "delegation_request"}
Kinds == EphemeralTypes \cup {"signal", "answer", "endorse",
             "result_attestation", "capability_advertisement"}
Terminal == {"expired", "cancelled", "tombstoned"}
ASSUME MakesAssumption == Makes \in [Agents -> SUBSET Kinds]


(* What the file may hold of a type: nothing hard is ever stale.           *)
LifecyclesOf(kind) ==
    CASE kind \in HardTypes -> {"active"} \cup Terminal
      [] kind \in EphemeralTypes -> {"active", "stale"} \cup Terminal
      [] kind = "signal" -> {"active", "stale", "expired"}
      [] kind = "answer" -> {"active", "tombstoned"}
      [] kind = "capability_advertisement" -> {"active", "deprecated"}
      [] OTHER -> {"active"}

Absent == [kind |-> "none"]
Post == [author : Agents, kind : Kinds, parent : Posts]

Made == {p \in Posts : post[p].kind # "none"}
PostsOf(a, kinds) == {p \in Made : post[p].author = a /\ post[p].kind \in kinds}
AnswersTo(a, q) == {p \in PostsOf(a, {"answer"}) : post[p].parent = q}

-----------------------------------------------------------------------------
(* Lifecycles.                                                             *)

(* The state that time gives a post; the slip is to let the clock overrule *)
(* what the owner ended.                                                   *)
ByTheClock(p, hard) ==
    IF p \in past THEN (IF hard THEN "expired" ELSE "stale") ELSE "active"
ComputeLifecycle(p, hard) ==
    IF life[p] \in Terminal THEN life[p] ELSE ByTheClock(p, hard)

(* Signals and ephemeral posts are computed when they are read; the status *)
(* of other types is what the file says.                                   *)
Computed(p) == ComputeLifecycle(p, post[p].kind \in HardTypes)
Shown(p) ==
    IF post[p].kind \in EphemeralTypes \cup {"signal"} THEN Computed(p)
    ELSE life[p]

(* The file of a post's type.                                              *)
FileOf(kind) == IF kind \in EphemeralTypes THEN EphemeralTypes ELSE {kind}

Rewrite(a, kinds, L(_)) ==
    life' = [p \in Posts |-> IF p \in PostsOf(a, kinds) THEN L(p) ELSE life[p]]

-----------------------------------------------------------------------------
(* Making a post.  The whole file of its type is read, with the computed   *)
(* lifecycles, and written back.                                           *)

(* What `answer` accepts as its parent: an ephemeral post of one's own or  *)
(* received, of any type and in any state of its life.                     *)
Answerable(a) ==
    {q \in Made : /\ post[q].kind \in EphemeralTypes
                  /\ post[q].author = a \/ q \in received[a]}

Put(a, p, kind, parent) ==
    /\ p \notin Made /\ kind \in Makes[a]
    /\ post' = [post EXCEPT ![p] =
                    [author |-> a, kind |-> kind, parent |-> parent]]
    /\ life' = [q \in Posts |->
                    IF q = p THEN "active"
                    ELSE IF q \in PostsOf(a, FileOf(kind)) THEN Shown(q)
                    ELSE life[q]]

CreateSignal(a, p) == Put(a, p, "signal", p) /\ UNCHANGED late
CreateEphemeral(a, p) ==
    (\E type \in EphemeralTypes : Put(a, p, type, p)) /\ UNCHANGED late
CreateEndorsement(a, p) == Put(a, p, "endorse", p) /\ UNCHANGED late
CreateAttestation(a, p) == Put(a, p, "result_attestation", p) /\ UNCHANGED late
AdvertiseCapability(a, p) ==
    Put(a, p, "capability_advertisement", p) /\ UNCHANGED late
CreateAnswer(a, p) ==
    \E q \in Answerable(a) :
        /\ Put(a, p, "answer", q)
        /\ late' = IF life[q] = "tombstoned" THEN late \cup {p} ELSE late

(* --deliver: broadcastPost takes the friends of the moment.  Neither      *)
(* attestations nor capabilities are sent to anybody.                      *)
CreateAndDeliver(a, p) ==
    /\ \/ CreateSignal(a, p)
       \/ CreateEphemeral(a, p)
       \/ CreateEndorsement(a, p)
       \/ CreateAnswer(a, p)
    /\ stage' = [stage EXCEPT ![p] = "broadcast"]
    /\ todo' = [todo EXCEPT ![p] = friend[a]]
    /\ UNCHANGED <<past, friend, net, received, lost, crashes, cut, ended>>

CreateOnly(a, p) ==
    /\ \/ CreateSignal(a, p)
       \/ CreateEphemeral(a, p)
       \/ CreateEndorsement(a, p)
       \/ CreateAnswer(a, p)
       \/ CreateAttestation(a, p)
       \/ AdvertiseCapability(a, p)
    /\ UNCHANGED <<past, friend, delivery, crashes, cut, ended>>

-----------------------------------------------------------------------------
(* Delivery.                                                               *)

SignPostPublishEnvelope(p, b) == net \cup {<<p, b>>}

Broadcast(p, b) ==
    /\ stage[p] = "broadcast" /\ b \in todo[p]
    /\ todo' = [todo EXCEPT ![p] = @ \ {b}]
    /\ net' = SignPostPublishEnvelope(p, b)
    /\ UNCHANGED <<file, past, friend, stage, received, crashes, lost>>

(* The author of the received post that p answers.                         *)
Asker(p) == post[post[p].parent].author
AnswersAnother(p) == post[p].kind = "answer" /\ Asker(p) # post[p].author

(* After the broadcast an answer goes to its asker too, when the asker is  *)
(* no friend.  The slip is to leave it at the broadcast.                   *)
NobodyMissed(p) == FALSE
AskerMissed(p) == AnswersAnother(p) /\ Asker(p) \notin friend[post[p].author]

EndBroadcast(p) ==
    /\ stage[p] = "broadcast" /\ todo[p] = {}
    /\ stage' = [stage EXCEPT ![p] = "sent"]
    /\ net' = IF AskerMissed(p) THEN SignPostPublishEnvelope(p, Asker(p)) ELSE net
    /\ UNCHANGED <<file, past, friend, todo, received, crashes, lost>>

(* A delivery that throws, or the end of the process, ends the broadcast.  *)
CutBroadcast(p) ==
    /\ stage[p] = "broadcast" /\ crashes < MaxCrashes
    /\ crashes' = crashes + 1
    /\ stage' = [stage EXCEPT ![p] = "sent"]
    /\ todo' = [todo EXCEPT ![p] = {}]
    /\ lost' = lost \cup ({p} \X Agents)
    /\ UNCHANGED <<file, past, friend, net, received>>

(* An envelope of somebody who is no friend is refused.                    *)
ReceivePostPublish(p, b) ==
    /\ <<p, b>> \in net
    /\ net' = net \ {<<p, b>>}
    /\ received' = IF post[p].author \in friend[b]
                   THEN [received EXCEPT ![b] = @ \cup {p}] ELSE received
    /\ UNCHANGED <<file, past, friend, stage, todo, crashes, lost>>

Lose(p, b) ==
    /\ <<p, b>> \in net
    /\ net' = net \ {<<p, b>>}
    /\ lost' = lost \cup {<<p, b>>}
    /\ UNCHANGED <<file, past, friend, stage, todo, received, crashes>>

(* What activeReceivedEphemeral offers: the stamped lifecycle is "active"  *)
(* for ever, so the clock decides.                                         *)
Offered(b) ==
    {p \in received[b] : post[p].kind \in EphemeralTypes /\ p \notin past}

-----------------------------------------------------------------------------
(* What an owner or the clock does to posts.                               *)

Lapse(p) ==
    /\ p \in Made /\ post[p].kind \in EphemeralTypes \cup {"signal"}
    /\ past' = past \cup {p}
    /\ UNCHANGED <<file, friend, delivery, crashes>>

ExpireSignals(a) ==
    /\ Rewrite(a, {"signal"}, LAMBDA p : IF p \in past THEN "expired" ELSE life[p])
    /\ UNCHANGED <<post, past, friend, delivery, crashes, late, cut, ended>>

ExpireEphemeral(a) ==
    /\ Rewrite(a, EphemeralTypes, Computed)
    /\ UNCHANGED <<post, past, friend, delivery, crashes, late, cut, ended>>

(* cancelEphemeral looks at no lifecycle: it rewrites even a tombstone.    *)
CancelEphemeral(p) ==
    /\ p \in Made /\ post[p].kind \in EphemeralTypes
    /\ life' = [life EXCEPT ![p] = "cancelled"]
    /\ ended' = ended \cup {p}
    /\ UNCHANGED <<post, past, friend, delivery, crashes, late, cut>>

DeprecateCapability(p) ==
    /\ p \in Made /\ post[p].kind = "capability_advertisement"
    /\ life' = [life EXCEPT ![p] = "deprecated"]
    /\ UNCHANGED <<post, past, friend, delivery, crashes, late, cut, ended>>

(* A handler that writes several files runs to its end, or is cut after    *)
(* "writes" of them.                                                       *)
Writes(writes, all) ==
    \/ writes = all /\ UNCHANGED crashes
    \/ writes < all /\ crashes < MaxCrashes /\ crashes' = crashes + 1

(* deleteQuery: the query, then its answers in this home; the slip is to   *)
(* forget them.                                                            *)
TombstonedAlone(q) == {}
TombstonedWith(q) == AnswersTo(post[q].author, q)

DeleteQuery(q, writes) ==
    /\ q \in Made /\ post[q].kind = "query"
    /\ Writes(writes, 2)
    /\ life' = [p \in Posts |->
                    IF p = q \/ (writes = 2 /\ p \in TombstonedWith(q))
                    THEN "tombstoned" ELSE life[p]]
    /\ cut' = IF writes = 2 THEN cut \ {q} ELSE cut \cup {q}
    /\ late' = IF writes = 2 THEN late \ AnswersTo(post[q].author, q) ELSE late
    /\ ended' = ended \cup {q}
    /\ UNCHANGED <<post, past, friend, delivery>>

(* deregister: capabilities, signals, ephemeral posts, answers.            *)
Closed(p) ==
    CASE post[p].kind = "capability_advertisement" -> "deprecated"
      [] post[p].kind = "signal" -> "expired"
      [] post[p].kind = "answer" -> "tombstoned"
      [] life[p] \in Terminal -> life[p]
      [] post[p].kind \in HardTypes -> "cancelled"
      [] OTHER -> "expired"

ClosedIn(writes) ==
    {kind \in Kinds :
        CASE kind = "capability_advertisement" -> writes >= 1
          [] kind = "signal" -> writes >= 2
          [] kind \in EphemeralTypes -> writes >= 3
          [] kind = "answer" -> writes >= 4
          [] OTHER -> FALSE}

Deregister(a, writes) ==
    /\ Writes(writes, 4)
    /\ Rewrite(a, ClosedIn(writes), Closed)
    /\ ended' = ended \cup PostsOf(a, ClosedIn(writes))
    /\ UNCHANGED <<post, past, friend, delivery, late, cut>>

(* One side ends the friendship; the other is not told.                    *)
Part(a, b) ==
    /\ b \in friend[a]
    /\ friend' = [friend EXCEPT ![a] = @ \ {b}]
    /\ UNCHANGED <<file, past, delivery, crashes>>

-----------------------------------------------------------------------------
Init ==
    /\ post = [p \in Posts |-> Absent]
    /\ life = [p \in Posts |-> "active"]
    /\ past = {}
    /\ friend = [a \in Agents |-> Agents \ {a}]
    /\ stage = [p \in Posts |-> "idle"]
    /\ todo = [p \in Posts |-> {}]
    /\ net = {}
    /\ received = [a \in Agents |-> {}]
    /\ crashes = 0
    /\ late = {} /\ cut = {} /\ ended = {} /\ lost = {}

OwnerStep(a) ==
    \/ \E p \in Posts : CreateAndDeliver(a, p)
    \/ \E p \in Posts : CreateOnly(a, p)
    \/ ExpireSignals(a)
    \/ ExpireEphemeral(a)
    \/ \E writes \in 1..4 : Deregister(a, writes)
    \/ \E b \in Agents : Part(a, b)

PostStep(p) ==
    \/ Lapse(p)
    \/ CancelEphemeral(p)
    \/ DeprecateCapability(p)
    \/ \E writes \in 1..2 : DeleteQuery(p, writes)
    \/ EndBroadcast(p)
    \/ CutBroadcast(p)
    \/ \E b \in Agents : Broadcast(p, b)
    \/ \E b \in Agents : ReceivePostPublish(p, b)
    \/ \E b \in Agents : Lose(p, b)

Next ==
    \/ \E a \in Agents : OwnerStep(a)
    \/ \E p \in Posts : PostStep(p)

(* The loop of broadcastPost goes on, and the mailbox delivers what it     *)
(* does not lose; no owner has to do anything.                             *)
Fairness ==
    \A p \in Posts :
        /\ WF_vars(EndBroadcast(p))
        /\ \A b \in Agents : /\ WF_vars(Broadcast(p, b))
                             /\ WF_vars(ReceivePostPublish(p, b))

Spec == Init /\ [][Next]_vars /\ Fairness

-----------------------------------------------------------------------------
(* Every store keeps its shape: a file holds no lifecycle its type has not *)
(* (no query is stale), and a friend holds only posts that were made.      *)
TypeOK ==
    /\ post \in [Posts -> Post \cup {Absent}]
    /\ life \in [Posts -> {"active", "stale", "deprecated"} \cup Terminal]
    /\ \A p \in Posts : life[p] \in LifecyclesOf(post[p].kind)
    /\ past \subseteq Made
    /\ friend \in [Agents -> SUBSET Agents]
    /\ stage \in [Posts -> {"idle", "broadcast", "sent"}]
    /\ todo \in [Posts -> SUBSET Agents]
    /\ net \subseteq Made \X Agents
    /\ received \in [Agents -> SUBSET Made]
    /\ crashes \in 0..MaxCrashes
    /\ late \subseteq Made /\ cut \subseteq Made /\ ended \subseteq Made
    /\ lost \subseteq Posts \X Agents

(* A home never holds an answer of its own to a query it has deleted,      *)
(* unless the answer was made after the deletion (createAnswer does not    *)
(* look) or a crash cut the deletion between its two files (deleteQuery).  *)
AnswersFollowTheirQuery ==
    \A p \in Made :
        /\ post[p].kind = "answer" /\ post[post[p].parent].author = post[p].author
        /\ life[post[p].parent] = "tombstoned"
        => \/ life[p] = "tombstoned"
           \/ p \in late
           \/ post[p].parent \in cut

(* What a friend is offered as actionable is live at its author too, or    *)
(* was ended there by its owner, which no friend is told                   *)
(* (activeReceivedEphemeral against ephemeralPosts).                       *)
OfferedIsLive ==
    \A b \in Agents : \A p \in Offered(b) : Shown(p) = "active" \/ p \in ended

Rank(lifecycle) ==
    CASE lifecycle = "active" -> 0 [] lifecycle = "stale" -> 1 [] OTHER -> 2

(* A post only moves on, in its file and before its owner: from active to  *)
(* stale to an end, never back, whichever of reading, writing back, time,  *)
(* expiring, cancelling, deleting and deregistering comes first or is cut. *)
LifeMovesOn ==
    [][\A p \in Made : /\ Rank(life[p]') >= Rank(life[p])
                       /\ Rank(Shown(p)') >= Rank(Shown(p))]_vars

(* An answer that is being delivered reaches the author of the received    *)
(* query, a friend of the answerer or not, unless it is lost, or the       *)
(* author itself has ended the friendship (receivePostPublish).            *)
Reaches(p) ==
    LET b == Asker(p) IN
    \/ p \in received[b]
    \/ <<p, b>> \in lost
    \/ post[p].author \notin friend[b]
AnswerArrives ==
    \A p \in Posts :
        (stage[p] = "broadcast" /\ AnswersAnother(p))
            ~> (AnswersAnother(p) /\ Reaches(p))
=============================================================================
