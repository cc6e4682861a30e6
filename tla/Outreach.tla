------------------------------- MODULE Outreach -------------------------------
(* Newcomers ask the members of a starter pack to be their friends; one of   *)
(* the members is the greeter, whose cron accepts every request and shares a *)
(* welcome. `pack join`, several at a time, and `friend request` run in a    *)
(* newcomer's home, the passes of `friend auto-accept` in the greeter's, each *)
(* in steps a crash or a failing delivery may cut. Two envelopes of one kind *)
(* between the same agents that are on their way together are as one.        *)
EXTENDS Naturals, Sequences, FiniteSets, SequencesExt

CONSTANTS
    Newcomers,    \* agents that join
    Greeter,      \* a member of each pack
    Seeded,       \* newcomers whose init wrote the greeter candidate: no --no-greeter
    Links,        \* Links[n]: the members whose invite link n has
    Packs,        \* Packs[n]: the members of the pack that n joins, in its order
    Shells,       \* pack joins a newcomer may run at the same time
    MaxJoins,     \* bound: pack joins and other commands of the newcomers
    MaxMishaps,   \* bound: lookups and deliveries that fail, commands that die
    MaxPartings   \* bound: decisions of a newcomer and a member against each other

Members(n) == Range(Packs[n])

\* A pack lists its members, each once, and the greeter is one of them.
ASSUME PackAssumption ==
    \A n \in Newcomers :
        Packs[n] \in Seq(Members(n)) /\ IsInjective(Packs[n]) /\ Greeter \in Members(n)
ASSUME LinkAssumption == \A n \in Newcomers : Links[n] \subseteq Members(n)
ASSUME MishapAssumption ==
    MaxMishaps \in Nat /\ MaxJoins \in Nat /\ MaxPartings \in Nat

VARIABLES
    \* in the homes of the newcomers
    peer,         \* peer[n][m]: the relationship_state of member m
    candidate,    \* the greeter candidate: "none", "open" or "approved"
    join,         \* join[n][j]: the `pack join` in shell j
    \* in the home of the greeter
    contact,      \* contact[n]: the relationship_state of newcomer n
    ledger,       \* newcomers with a greeter_welcome key
    pass,         \* the `friend auto-accept` that runs
    \* on the way
    requests,     \* newcomers with a friend_request to the greeter
    answers,      \* to the newcomers, as <<kind, newcomer>>
    \* history
    joins, asked, late, parted, partings, welcomes, mishaps,
    fell          \* what the greeter built that was lost, as <<kind, newcomer>>

home == <<peer, candidate, join>>
greeting == <<contact, ledger, pass>>
mail == <<requests, answers>>
asking == <<joins, asked, late>>
parting == <<parted, partings>>
outreachVars == <<home, greeting, mail, asking, parting, welcomes, fell, mishaps>>

States == {"none", "request_sent", "request_received", "friend", "rejected",
           "revoked", "blocked"}
Kinds == {"accept", "welcome", "reject"}
NoJoin == [at |-> "idle", todo |-> <<>>, deliver |-> FALSE, seen |-> "none"]
NoPass == [at |-> "idle", who |-> Greeter, pending |-> {}, friends |-> {}, out |-> <<>>]

\* Every variable keeps its type; a join that runs has members left, so that
\* none is looked at twice or past the end.
OutreachTypeOK ==
    /\ DOMAIN peer = Newcomers
    /\ \A n \in Newcomers : peer[n] \in [Members(n) -> States]
    /\ candidate \in [Newcomers -> {"none", "open", "approved"}]
    /\ DOMAIN join = Newcomers
    /\ \A n \in Newcomers : DOMAIN join[n] = Shells
    /\ \A n \in Newcomers : \A j \in Shells :
         /\ join[n][j].at \in {"idle", "look", "send", "deliver"}
         /\ join[n][j].todo \in Seq(Members(n))
         /\ join[n][j].deliver \in BOOLEAN /\ join[n][j].seen \in States
         /\ join[n][j].at = "idle" <=> join[n][j].todo = <<>>
    /\ contact \in [Newcomers -> States] /\ ledger \subseteq Newcomers
    /\ pass.at \in {"idle", "next", "welcome", "record"}
    /\ pass.who \in Newcomers \cup {Greeter}
    /\ pass.pending \subseteq Newcomers /\ pass.friends \subseteq Newcomers
    /\ pass.out \in Seq({"accept", "welcome"} \X Newcomers)
    /\ requests \subseteq Newcomers /\ answers \subseteq Kinds \X Newcomers

Mishap == mishaps < MaxMishaps /\ mishaps' = mishaps + 1
NoMishap == UNCHANGED mishaps

---------------------------------------------------------------------------
(* A newcomer: pack join, friend request                                    *)

\* slip: a request that was sent may be lost
SkipsUnanswered(n, m) == peer[n][m] \in {"friend", "blocked", "request_received"}
Skips(n, m) == peer[n][m] \in {"friend", "request_sent", "blocked", "request_received"}

At(n, j, at, seen) == join' = [join EXCEPT ![n][j].at = at, ![n][j].seen = seen]
ToNextMember(n, j) ==
    join' = [join EXCEPT ![n][j] =
                IF Len(@.todo) = 1 THEN NoJoin
                ELSE [@ EXCEPT !.at = "look", !.todo = Tail(join[n][j].todo), !.seen = "none"]]

\* fetchPack has the members from the host, or on a 429 from its cache.
PackJoin(n, j, deliver) ==
    /\ join[n][j].at = "idle" /\ joins < MaxJoins
    /\ join' = [join EXCEPT ![n][j] =
                   [NoJoin EXCEPT !.at = "look", !.todo = Packs[n], !.deliver = deliver]]
    /\ joins' = joins + 1
    /\ UNCHANGED <<peer, candidate, greeting, mail, asked, late, parting, welcomes, fell, mishaps>>

\* localContactProvider: a contact in any state.
KnownContact(n, m) == peer[n][m] # "none"

\* The registry's provider: an unknown handle and an unreachable registry are
\* a miss, a card that is forged or expired is thrown.
Registry(answer) ==
    CASE answer = "card" -> "resolved" [] answer = "miss" -> "not_found"
      [] answer = "forged" -> "thrown"

ResolveTarget(n, m, answer) == IF KnownContact(n, m) THEN "contact" ELSE Registry(answer)

\* A contact has no card of its own: its card_url is loaded, and when that
\* fails the target is looked up as if it were not a contact.
ResolveFriendRequestCard(n, m, url, answer) ==
    \/ ResolveTarget(n, m, answer) = "resolved"
    \/ /\ ResolveTarget(n, m, answer) = "contact"
       /\ url = "loads" \/ (url = "fails" /\ Registry(answer) = "resolved")

\* joinMember up to the pause before a send: a skip, a card, or a failure
\* that is this member's alone.
LookAt(n, j) ==
    /\ join[n][j].at = "look"
    /\ LET m == Head(join[n][j].todo)
       IN IF Skips(n, m) THEN ToNextMember(n, j) /\ NoMishap
          ELSE \E url \in {"none", "loads", "fails"}, answer \in {"card", "miss", "forged"} :
                 IF ResolveFriendRequestCard(n, m, url, answer)
                 THEN At(n, j, "send", peer[n][m]) /\ NoMishap
                 ELSE ToNextMember(n, j) /\ Mishap
    /\ UNCHANGED <<peer, candidate, greeting, mail, asking, parting, welcomes, fell>>

\* What the join saw has changed: the member is one to be skipped by now.
IsLate(n, j, m) == peer[n][m] # join[n][j].seen /\ Skips(n, m)

\* createFriendRequest, after the pause: refused by a block alone.
SendRequest(n, j) ==
    /\ join[n][j].at = "send"
    /\ LET m == Head(join[n][j].todo)
       IN IF peer[n][m] = "blocked"
          THEN ToNextMember(n, j) /\ UNCHANGED <<peer, asked, late>>
          ELSE /\ peer' = [peer EXCEPT ![n][m] = "request_sent"]
               /\ asked' = [asked EXCEPT ![n][m] = @ + 1]
               /\ late' = [late EXCEPT ![n][m] = IF IsLate(n, j, m) THEN @ + 1 ELSE @]
               /\ IF join[n][j].deliver THEN At(n, j, "deliver", "none") ELSE ToNextMember(n, j)
    /\ UNCHANGED <<candidate, greeting, mail, joins, parting, welcomes, fell, mishaps>>

DeliverPackRequest(n, j) ==
    /\ join[n][j].at = "deliver"
    /\ LET m == Head(join[n][j].todo)
       IN \/ NoMishap /\ requests' = IF m = Greeter THEN requests \cup {n} ELSE requests
          \/ Mishap /\ UNCHANGED requests
    /\ ToNextMember(n, j)
    /\ UNCHANGED <<peer, candidate, greeting, answers, asking, parting, welcomes, fell>>

CutJoin(n, j) ==
    /\ join[n][j].at # "idle"
    /\ join' = [join EXCEPT ![n][j] = NoJoin] /\ Mishap
    /\ UNCHANGED <<peer, candidate, greeting, mail, asking, parting, welcomes, fell>>

\* An envelope to the greeter is taken by its mailbox, or lost.
ToGreeter(n) ==
    \/ NoMishap /\ requests' = requests \cup {n}
    \/ Mishap /\ UNCHANGED requests

\* Idempotent: a candidate that was dropped meanwhile stays away.
MarkCandidateApproved(n) ==
    candidate' = [candidate EXCEPT ![n] = IF @ = "none" THEN @ ELSE "approved"]

\* `friend request <candidate> --deliver`, or the dashboard's promotion: the
\* owner may ask again at any time, a friend as well.
FriendRequest(n) ==
    /\ joins < MaxJoins
    /\ candidate[n] # "none" /\ peer[n][Greeter] # "blocked"
    /\ joins' = joins + 1
    /\ peer' = [peer EXCEPT ![n][Greeter] = "request_sent"]
    /\ MarkCandidateApproved(n)
    /\ ToGreeter(n)
    /\ UNCHANGED <<join, greeting, answers, asked, late, parting, welcomes, fell>>

DropCandidate(n) ==
    /\ joins < MaxJoins /\ candidate[n] # "none"
    /\ joins' = joins + 1
    /\ candidate' = [candidate EXCEPT ![n] = "none"]
    /\ UNCHANGED <<peer, join, greeting, mail, asked, late, parting, welcomes, fell, mishaps>>

\* An invite link followed in the dashboard: nobody is asked twice, but one
\* whose own request waits is asked. The response carries the envelope.
FollowInvite(n, m) ==
    /\ joins < MaxJoins /\ m \in Links[n]
    /\ peer[n][m] \notin {"friend", "request_sent", "blocked"}
    /\ joins' = joins + 1
    /\ peer' = [peer EXCEPT ![n][m] = "request_sent"]
    /\ \/ m = Greeter /\ ToGreeter(n)
       \/ m # Greeter /\ UNCHANGED <<requests, mishaps>>
    /\ UNCHANGED <<candidate, join, greeting, answers, asked, late, parting, welcomes, fell>>

Parts(n, m) ==
    /\ partings < MaxPartings /\ partings' = partings + 1
    /\ parted' = [parted EXCEPT ![n][m] = @ + 1]

\* The contact alone changes, whatever its state was.
Turns(n, m, state) ==
    /\ peer' = [peer EXCEPT ![n][m] = state]
    /\ UNCHANGED <<candidate, join, greeting, mail, asking, welcomes, fell, mishaps>>

\* A request of another member comes, through the daemon of the newcomer.
MemberAsks(n, m) ==
    /\ m # Greeter /\ peer[n][m] # "blocked"
    /\ Turns(n, m, "request_received") /\ UNCHANGED parting

\* The response of another member comes, asked for or not.
MemberAnswers(n, m) ==
    /\ m # Greeter /\ peer[n][m] # "blocked"
    /\ \/ Turns(n, m, "friend") /\ UNCHANGED parting
       \/ Turns(n, m, "rejected") /\ Parts(n, m)

\* The owner of the newcomer accepts another member.
NewcomerAccepts(n, m) ==
    /\ m # Greeter /\ peer[n][m] \notin {"none", "blocked"}
    /\ Turns(n, m, "friend") /\ UNCHANGED parting

\* It rejects one that has asked: the greeter asks nobody.
NewcomerRejects(n, m) ==
    /\ m # Greeter /\ peer[n][m] \notin {"none", "blocked"}
    /\ Turns(n, m, "rejected") /\ Parts(n, m)

\* It revokes or blocks a member.
NewcomerParts(n, m) ==
    /\ peer[n][m] # "none"
    /\ \E state \in {"revoked", "blocked"} : Turns(n, m, state)
    /\ Parts(n, m)

\* receiveEnvelope of what the greeter sent: a block refuses a response, and
\* so does the clock, ten minutes after it was signed.
ReceiveAnswer(n) ==
    \E kind \in Kinds :
        /\ <<kind, n>> \in answers
        /\ answers' = answers \ {<<kind, n>>}
        /\ \/ /\ kind \in {"accept", "reject"} /\ peer[n][Greeter] # "blocked"
              /\ peer' = [peer EXCEPT ![n][Greeter] = IF kind = "accept" THEN "friend" ELSE "rejected"]
              /\ NoMishap /\ UNCHANGED fell
           \/ (kind = "welcome" \/ peer[n][Greeter] = "blocked") /\ NoMishap /\ UNCHANGED <<peer, fell>>
           \/ Mishap /\ fell' = fell \cup {<<kind, n>>} /\ UNCHANGED peer
        /\ UNCHANGED <<candidate, join, greeting, requests, asking, parting, welcomes>>

---------------------------------------------------------------------------
(* The greeter                                                              *)

\* A request that comes more than ten minutes late is refused.
ReceiveRequest(n) ==
    /\ n \in requests
    /\ requests' = requests \ {n}
    /\ \/ /\ contact' = [contact EXCEPT ![n] = IF @ = "blocked" THEN @ ELSE "request_received"]
          /\ NoMishap
       \/ Mishap /\ UNCHANGED contact
    /\ UNCHANGED <<home, ledger, pass, answers, asking, parting, welcomes, fell>>

\* The owner of the greeter decides by hand: a rejection is answered.
GreeterParts(n) ==
    /\ contact[n] # "none"
    /\ \/ contact[n] # "blocked" /\ contact' = [contact EXCEPT ![n] = "rejected"]
          /\ answers' = answers \cup {<<"reject", n>>}
       \/ \E state \in {"revoked", "blocked"} : contact' = [contact EXCEPT ![n] = state]
          /\ UNCHANGED answers
    /\ Parts(n, Greeter)
    /\ UNCHANGED <<home, ledger, pass, requests, asking, welcomes, fell, mishaps>>

\* slip: as the notifier, what was dealt with once is left out
PendingUnwelcomed == {n \in Newcomers : contact[n] = "request_received"} \ ledger
Pending == {n \in Newcomers : contact[n] = "request_received"}
NoFriends == {}    \* slip: only the requests of this pass are looked at
Friends == {n \in Newcomers : contact[n] = "friend"} \ ledger

\* A pass that finds nothing to do changes nothing. The ledger is looked at
\* friend by friend, but nothing else writes its keys.
RunGreeterPass ==
    /\ pass.at = "idle" /\ Pending \cup Friends # {}
    /\ pass' = [NoPass EXCEPT !.at = "next", !.pending = Pending, !.friends = Friends]
    /\ UNCHANGED <<home, contact, ledger, mail, asking, parting, welcomes, fell, mishaps>>

\* Whatever the pass has built and not delivered is gone with it.
PassStops ==
    /\ pass' = NoPass
    /\ fell' = fell \cup Range(pass.out)

\* acceptFriend of a contact that was pending when the pass began.
AcceptFriend(n) ==
    /\ pass.at = "next" /\ n \in pass.pending
    /\ \/ /\ contact[n] = "blocked" /\ PassStops /\ UNCHANGED contact
       \/ /\ contact[n] # "blocked"
          /\ contact' = [contact EXCEPT ![n] = "friend"]
          /\ pass' = [pass EXCEPT !.at = "welcome", !.who = n, !.pending = @ \ {n},
                                  !.out = Append(@, <<"accept", n>>)]
          /\ UNCHANGED fell
    /\ UNCHANGED <<home, ledger, mail, asking, parting, welcomes, mishaps>>

LookAtFriend(n) ==
    /\ pass.at = "next" /\ pass.pending = {} /\ n \in pass.friends
    /\ pass' = [pass EXCEPT !.at = "welcome", !.who = n, !.friends = @ \ {n}]
    /\ UNCHANGED <<home, contact, ledger, mail, asking, parting, welcomes, fell, mishaps>>

\* buildWelcome: the ledger, then the share, refused for one who is not a
\* friend any more.
BuildWelcome(n) ==
    /\ pass.at = "welcome" /\ pass.who = n
    /\ \/ /\ n \in ledger
          /\ pass' = [pass EXCEPT !.at = "next", !.who = Greeter] /\ UNCHANGED fell
       \/ /\ n \notin ledger /\ contact[n] = "friend"
          /\ pass' = [pass EXCEPT !.at = "record"] /\ UNCHANGED fell
       \/ n \notin ledger /\ contact[n] # "friend" /\ PassStops
    /\ UNCHANGED <<home, contact, ledger, mail, asking, parting, welcomes, mishaps>>

\* slip: the key is written with the acceptance alone
RecordedIfAsked(n) == IF <<"accept", n>> \in Range(pass.out) THEN ledger \cup {n} ELSE ledger
Recorded(n) == ledger \cup {n}

RecordNotified(n) ==
    /\ pass.at = "record" /\ pass.who = n
    /\ ledger' = Recorded(n)
    /\ pass' = [pass EXCEPT !.at = "next", !.who = Greeter, !.out = Append(@, <<"welcome", n>>)]
    /\ UNCHANGED <<home, contact, mail, asking, parting, welcomes, fell, mishaps>>

\* The loop of deliveries, after both loops of the pass; a delivery that
\* fails ends the command.
DeliverNext ==
    /\ pass.at = "next" /\ pass.pending = {} /\ pass.friends = {}
    /\ LET kind == Head(pass.out)[1]  n == Head(pass.out)[2]
       IN \/ /\ NoMishap
             /\ pass' = IF Len(pass.out) = 1 THEN NoPass ELSE [pass EXCEPT !.out = Tail(@)]
             /\ answers' = answers \cup {<<kind, n>>}
             /\ welcomes' = [welcomes EXCEPT ![n] = IF kind = "welcome" THEN @ + 1 ELSE @]
             /\ fell' = fell \ {<<kind, n>>}
          \/ Mishap /\ PassStops /\ UNCHANGED <<answers, welcomes>>
    /\ UNCHANGED <<home, contact, ledger, requests, asking, parting>>

CutPass ==
    /\ pass.at # "idle"
    /\ PassStops /\ Mishap
    /\ UNCHANGED <<home, contact, ledger, mail, asking, parting, welcomes>>

---------------------------------------------------------------------------
\* A candidate is written once, and waits for its owner.
WriteCandidate(n) == IF n \in Seeded THEN "open" ELSE "none"

OutreachInit ==
    /\ peer = [n \in Newcomers |-> [m \in Members(n) |-> "none"]]
    /\ candidate = [n \in Newcomers |-> WriteCandidate(n)]
    /\ join = [n \in Newcomers |-> [j \in Shells |-> NoJoin]]
    /\ contact = [n \in Newcomers |-> "none"]
    /\ ledger = {} /\ pass = NoPass /\ requests = {} /\ answers = {}
    /\ joins = 0 /\ welcomes = [n \in Newcomers |-> 0]
    /\ asked = [n \in Newcomers |-> [m \in Members(n) |-> 0]]
    /\ late = [n \in Newcomers |-> [m \in Members(n) |-> 0]]
    /\ parted = [n \in Newcomers |-> [m \in Members(n) |-> 0]]
    /\ fell = {} /\ mishaps = 0 /\ partings = 0

JoinStep(n, j) ==
    LookAt(n, j) \/ SendRequest(n, j) \/ DeliverPackRequest(n, j)

PassStep ==
    \/ DeliverNext
    \/ \E n \in Newcomers :
         AcceptFriend(n) \/ LookAtFriend(n) \/ BuildWelcome(n) \/ RecordNotified(n)

Arrives(n) == ReceiveRequest(n) \/ ReceiveAnswer(n)

OutreachNext ==
    \/ \E n \in Newcomers :
         \/ \E j \in Shells :
              \/ \E deliver \in BOOLEAN : PackJoin(n, j, deliver)
              \/ JoinStep(n, j) \/ CutJoin(n, j)
         \/ FriendRequest(n) \/ DropCandidate(n) \/ Arrives(n) \/ GreeterParts(n)
         \/ \E m \in Members(n) :
              \/ FollowInvite(n, m) \/ MemberAsks(n, m) \/ MemberAnswers(n, m)
              \/ NewcomerAccepts(n, m) \/ NewcomerRejects(n, m) \/ NewcomerParts(n, m)
    \/ RunGreeterPass \/ PassStep \/ CutPass

\* The cron of the greeter fires every five minutes, its command goes on once
\* it runs, and the mailbox delivers what it took.
OutreachFairness ==
    /\ \A n \in Newcomers : WF_outreachVars(Arrives(n))
    /\ WF_outreachVars(RunGreeterPass) /\ WF_outreachVars(PassStep)

OutreachSpec == OutreachInit /\ [][OutreachNext]_outreachVars /\ OutreachFairness

---------------------------------------------------------------------------
\* However often the greeter passes, and wherever a pass is cut, a newcomer is
\* sent one welcome: the key is written before anything is delivered.
WelcomedAtMostOnce == \A n \in Newcomers : welcomes[n] <= 1

\* Overlapping joins ask a member again only when one of them sends what it
\* had decided before the other asked: joinMember looks, sleeps and asks with
\* no lock. Otherwise a join asks nobody whom a join has asked, unless the two
\* have parted: not one who was also asked by an invite link, or who has asked
\* or answered the newcomer meanwhile.
JoinAsksOnce ==
    \A n \in Newcomers : \A m \in Members(n) :
        asked[n][m] <= 1 + parted[n][m] + late[n][m]

\* A newcomer whose request the greeter has becomes its friend, unless the
\* answer was lost with a pass that stopped or reached the newcomer after it
\* had expired, or one of the two has parted.
AskersAreAnswered ==
    \A n \in Newcomers :
        contact[n] = "request_received" ~>
            peer[n][Greeter] = "friend" \/ <<"accept", n>> \in fell \/ parted[n][Greeter] > 0

\* A friend of the greeter is sent its welcome, by a later pass when the one
\* that accepted it was cut; but a welcome that was built, its key in the
\* ledger, and not delivered before its pass stopped is never sent.
FriendsAreWelcomed ==
    \A n \in Newcomers :
        contact[n] = "friend" ~>
            welcomes[n] > 0 \/ <<"welcome", n>> \in fell \/ contact[n] # "friend"
=============================================================================
