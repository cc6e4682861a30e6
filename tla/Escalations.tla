---------------------------- MODULE Escalations ----------------------------
(***************************************************************************)
(* An agent asks a human and waits for the answer                          *)
(* (src/store-escalations.ts).                                             *)
(*                                                                         *)
(* A local escalation is a record in the home of the agent that raised it. *)
(* A remote one is two records of one id, the asker's and the asked        *)
(* owner's, and two envelopes: the escalation, and the response.  Nothing  *)
(* in the asker's record says who was asked; either owner can answer the   *)
(* copy in its own reader, and either home can sweep it when its time is   *)
(* up.  Handlers run whole here; what overlapping handlers do to a file is *)
(* in ContactFile.                                                         *)
(*                                                                         *)
(* An envelope stays in flight after it was received: the mailbox may      *)
(* deliver it again.  Lose is an envelope never received: it is dropped,   *)
(* expires, or was not relayed.  What makes friends, and how friends are   *)
(* made again, is in FriendGraph; here friends only part.                  *)
(***************************************************************************)
EXTENDS Naturals, FiniteSets

CONSTANTS
    Agents,
    Answers,    \* what an owner may answer
    NoAnswer,
    MaxRaised,  \* bound: escalations ever raised
    MaxParts    \* bound: relationships ended

ASSUME AgentsAssumption == "nobody" \notin Agents
ASSUME AnswersAssumption == NoAnswer \notin Answers
ASSUME BoundsAssumption == MaxRaised \in Nat /\ MaxParts \in Nat

VARIABLES
    friend,   \* friend[a][b]: relationship_state of b at a is "friend"
    holds,    \* holds[a][b]: a has an active grant that b issued to it
    honours,  \* honours[a][b]: the grant a issued to b is active at a
    esc,      \* esc[a][i]: escalation i in a's escalations.json
    net,      \* envelopes that may be delivered, also those that were
    seen,     \* envelopes in their recipient's seen_messages.json
    raised,   \* escalations raised: the source of ids
    due,      \* escalations whose expires_at has passed
    parts,    \* relationships ended
    asked,    \* history: asked[i]: the agent whose owner i was put to
    given,    \* history: given[a][i]: times the owner of a answered i
    ended,    \* history: <<a, b>>: a revoked or blocked b
    lost      \* history: an envelope was lost before it was received

relations == <<friend, holds, honours, parts, ended>>
vars == <<relations, esc, net, seen, raised, due, asked, given, lost>>

Ids == 1..MaxRaised
Nobody == "nobody"
Absent == [raiser |-> Nobody, status |-> "absent", answer |-> NoAnswer]
Record == [raiser : Agents, status : {"pending", "answered", "expired"},
           answer : Answers \cup {NoAnswer}]
Envelope ==
    [type : {"escalation"}, id : Ids, from : Agents, to : Agents,
     answer : {NoAnswer}]
    \cup [type : {"escalation_response"}, id : Ids, from : Agents, to : Agents,
          answer : Answers]

Asked(a) == [raiser |-> a, status |-> "pending", answer |-> NoAnswer]

-----------------------------------------------------------------------------
(* Operators.                                                              *)

(* verifyEnvelope: a message that was seen is a replay.  It is marked seen *)
(* before the rest of the handler decides.                                 *)
Verify(m) == m \notin seen /\ seen' = seen \cup {m}

(* The gate of receiveEscalation: friend-state and an active grant issued  *)
(* to the sender.  The slip is to trust the grant alone.                   *)
GrantAdmits(b, a) == honours[b][a]
Admits(b, a) == friend[b][a] /\ honours[b][a]

(* answerEscalation routes back whatever another agent raised; the slip is *)
(* to route it to friends only.                                            *)
RoutesToFriends(a, r) == r.raiser # a /\ friend[a][r.raiser]
RoutesBack(a, r) == r.raiser # a

(* expireEscalations leaves alone what is no longer pending; the slip is   *)
(* to look at the time alone.                                              *)
SweptByTime(a) == {i \in Ids : esc[a][i].status # "absent" /\ i \in due}
Swept(a) == {i \in Ids : esc[a][i].status = "pending" /\ i \in due}

(* applyEscalationResponse takes the answer whatever the record says; the  *)
(* slip is to take it while the record is pending.                         *)
TakesIfPending(a, i) == esc[a][i].status = "pending"
Takes(a, i) == esc[a][i].status # "absent"

Put(a, i, r) == esc' = [esc EXCEPT ![a][i] = r]

-----------------------------------------------------------------------------
(* The agent that asks, and the owners that answer.                        *)

NewId(i, b) ==
    /\ raised < MaxRaised
    /\ i = raised + 1
    /\ raised' = i
    /\ asked' = [asked EXCEPT ![i] = b]

(* raiseEscalation without --to: its own owner is asked.                   *)
RaiseLocal(a) ==
    \E i \in Ids :
        /\ NewId(i, a)
        /\ Put(a, i, Asked(a))
        /\ UNCHANGED <<relations, net, seen, due, given, lost>>

(* raiseEscalation --to b.                                                 *)
RaiseRemote(a, b) ==
    \E i \in Ids :
        /\ friend[a][b]
        /\ holds[a][b]
        /\ NewId(i, b)
        /\ Put(a, i, Asked(a))
        /\ net' = net \cup {[type |-> "escalation", id |-> i, from |-> a,
                             to |-> b, answer |-> NoAnswer]}
        /\ UNCHANGED <<relations, seen, due, given, lost>>

(* answerEscalation, in the reader or on the command line.  An expired     *)
(* escalation that no sweep has marked is still pending.                   *)
Answer(a, i, v) ==
    LET r == esc[a][i]
    IN  /\ r.status = "pending"
        /\ Put(a, i, [r EXCEPT !.status = "answered", !.answer = v])
        /\ net' = IF RoutesBack(a, r)
                  THEN net \cup {[type |-> "escalation_response", id |-> i,
                                  from |-> a, to |-> r.raiser, answer |-> v]}
                  ELSE net
        /\ given' = [given EXCEPT ![a][i] = @ + 1]
        /\ UNCHANGED <<relations, seen, raised, due, asked, lost>>

(* expireEscalations, for whoever calls it.                                *)
Expire(a) ==
    /\ Swept(a) # {}
    /\ esc' = [esc EXCEPT ![a] =
          [i \in Ids |-> IF i \in Swept(a)
                         THEN [esc[a][i] EXCEPT !.status = "expired"]
                         ELSE esc[a][i]]]
    /\ UNCHANGED <<relations, net, seen, raised, due, asked, given, lost>>

(* Time passes the expires_at that both records of i carry.                *)
Lapse(i) ==
    /\ i \in (1..raised) \ due
    /\ due' = due \cup {i}
    /\ UNCHANGED <<relations, esc, net, seen, raised, asked, given, lost>>

(* revoke marks every grant between the two at its own home; block marks   *)
(* none.                                                                   *)
EndRelationship(a, b) ==
    /\ parts < MaxParts
    /\ parts' = parts + 1
    /\ friend' = [friend EXCEPT ![a][b] = FALSE]
    /\ ended' = ended \cup {<<a, b>>}
    /\ \/ /\ holds' = [holds EXCEPT ![a][b] = FALSE]
          /\ honours' = [honours EXCEPT ![a][b] = FALSE]
       \/ UNCHANGED <<holds, honours>>
    /\ UNCHANGED <<esc, net, seen, raised, due, asked, given, lost>>

-----------------------------------------------------------------------------
(* The receivers.                                                          *)

(* receiveEscalation files the record under the sender's id, pending again *)
(* whatever was there.                                                     *)
ReceiveEscalation(m) ==
    /\ m.type = "escalation"
    /\ Verify(m)
    /\ IF Admits(m.to, m.from)
       THEN Put(m.to, m.id, Asked(m.from))
       ELSE UNCHANGED esc
    /\ UNCHANGED <<relations, net, raised, due, asked, given, lost>>

(* Neither the sender nor the state of the record is looked at.            *)
ApplyEscalationResponse(m) ==
    /\ m.type = "escalation_response"
    /\ Verify(m)
    /\ IF Takes(m.to, m.id)
       THEN Put(m.to, m.id, [esc[m.to][m.id] EXCEPT !.status = "answered",
                                                    !.answer = m.answer])
       ELSE UNCHANGED esc
    /\ UNCHANGED <<relations, net, raised, due, asked, given, lost>>

Receive(m) == ReceiveEscalation(m) \/ ApplyEscalationResponse(m)

Lose(m) ==
    /\ m \notin seen
    /\ net' = net \ {m}
    /\ lost' = TRUE
    /\ UNCHANGED <<relations, esc, seen, raised, due, asked, given>>

-----------------------------------------------------------------------------

(* Two friends that have accepted each other hold a grant of each other.   *)
Everyone == [a \in Agents |-> [b \in Agents |-> TRUE]]

Init ==
    /\ friend = Everyone
    /\ holds = Everyone
    /\ honours = Everyone
    /\ esc = [a \in Agents |-> [i \in Ids |-> Absent]]
    /\ net = {}
    /\ seen = {}
    /\ raised = 0
    /\ due = {}
    /\ parts = 0
    /\ asked = [i \in Ids |-> Nobody]
    /\ given = [a \in Agents |-> [i \in Ids |-> 0]]
    /\ ended = {}
    /\ lost = FALSE

(* The command `escalation`: each envelope it makes is delivered, late or  *)
(* never.                                                                  *)
OwnerStep(a) ==
    \/ RaiseLocal(a)
    \/ \E b \in Agents \ {a} : RaiseRemote(a, b) \/ EndRelationship(a, b)
    \/ \E i \in Ids, v \in Answers : Answer(a, i, v)
    \/ Expire(a)

Next ==
    \/ \E a \in Agents : OwnerStep(a)
    \/ \E i \in Ids : Lapse(i)
    \/ \E m \in net : Receive(m) \/ Lose(m)

Spec == Init /\ [][Next]_vars

(* What is not lost is delivered.  No owner has to ask or to answer, and   *)
(* nothing in the repository calls the sweep.                              *)
FairSpec == Spec /\ WF_vars(\E m \in net : Receive(m))

-----------------------------------------------------------------------------
(* Properties.                                                             *)

(* The files and the envelopes have the shape the code gives them.         *)
TypeOK ==
    /\ friend \in [Agents -> [Agents -> BOOLEAN]]
    /\ holds \in [Agents -> [Agents -> BOOLEAN]]
    /\ honours \in [Agents -> [Agents -> BOOLEAN]]
    /\ esc \in [Agents -> [Ids -> Record \cup {Absent}]]
    /\ net \subseteq Envelope
    /\ seen \subseteq Envelope
    /\ raised \in 0..MaxRaised
    /\ due \subseteq 1..raised
    /\ parts \in 0..MaxParts
    /\ asked \in [Ids -> Agents \cup {Nobody}]
    /\ given \in [Agents -> [Ids -> Nat]]
    /\ ended \subseteq Agents \X Agents
    /\ lost \in BOOLEAN
    /\ \A a \in Agents, i \in Ids :
          esc[a][i].status = "answered" <=> esc[a][i].answer # NoAnswer

(* An owner answers an escalation once, although its envelope may come     *)
(* again after it was answered and a second record would be pending.       *)
AnsweredOnce == \A a \in Agents, i \in Ids : given[a][i] <= 1

(* In the home whose owner was asked, an answer or an expiry stands:       *)
(* neither a late envelope nor a sweep changes it.                         *)
AnswerStands ==
    [][\A i \in Ids : \A b \in Agents :
          b = asked[i] /\ esc[b][i].status \in {"answered", "expired"}
              => esc'[b][i] = esc[b][i]]_vars

(* The asker has the answer of the owner it asked from the moment the      *)
(* response is received, even if it had expired or its own owner had       *)
(* answered it first, and whatever happens later.                          *)
AskerAgrees ==
    \A m \in seen :
        m.type = "escalation_response"
            => /\ esc[m.to][m.id].answer = m.answer
               /\ esc[m.from][m.id].answer = m.answer

(* No record of an agent enters a home whose owner has revoked or blocked  *)
(* that agent, although the escalation was raised while it was a friend    *)
(* and its grant may still be active.                                      *)
PartedAskNothing ==
    [][\A a, b \in Agents : \A i \in Ids :
          <<b, a>> \in ended /\ a # b /\ esc'[b][i].raiser = a
              => esc[b][i].raiser = a]_vars

(* An answer given reaches the agent that asked, even one no longer a      *)
(* friend, unless an envelope is lost.                                     *)
AnswerReturns ==
    \A i \in Ids : \A a, b \in Agents :
        b = asked[i] /\ esc[b][i].raiser = a /\ esc[b][i].status = "answered"
            ~> lost \/ esc[a][i].answer = esc[b][i].answer

(* The record of a question where it was put, and the answers that came    *)
(* back with the responses to it.                                          *)
AskedRecord(i) == IF asked[i] \in Agents THEN esc[asked[i]][i] ELSE Absent
Returned(i) ==
    {esc[m.to][m.id].answer : m \in
        {n \in seen : n.type = "escalation_response" /\ n.id = i}}

(* Two records in two homes, and envelopes that are repeated, reordered and*)
(* lost, implement one question: the owner asked settles it once, before   *)
(* its sweep does or never, and what came back to who asked is that answer *)
(* for good, whatever its own owner or its own sweep did to its copy.      *)
Promise == INSTANCE Consultation WITH
    Questions <- Ids,
    verdict <- [i \in Ids |-> {v \in Answers : AskedRecord(i).answer = v}],
    expired <- {i \in Ids : AskedRecord(i).status = "expired"},
    learnt <- [i \in Ids |-> Returned(i)]

ConsultationSpec == Promise!Spec
=============================================================================
