------------------------- MODULE FriendGraph_proofs -------------------------
(***************************************************************************)
(* Proofs about FriendGraph, for any set of agents and any bounds: type    *)
(* correctness, the safety invariants and action property its runs check,  *)
(* and that it implements Admission.                                       *)
(*                                                                         *)
(* The safety invariants are not inductive by themselves.  A response that *)
(* arrives late makes a peer a friend again whatever its owner chose, so   *)
(* AdmittedOnlyByAcceptance rests on the grants: no active grant for a     *)
(* peer outlives its revocation (OutsidersHoldNothing), and no envelope    *)
(* can bring one back, since the grant a response carries names its        *)
(* recipient as the subject (ResponsesCarryGrants) and never takes the     *)
(* place of another one (IdsNameOneGrant).                                 *)
(*                                                                         *)
(* The second half is about ContactFile, the same operations on the files  *)
(* of one home: what its handlers keep as long as they run one at a time,  *)
(* whatever a crash cuts, and, for approvals, also when they overlap.      *)
(***************************************************************************)
EXTENDS FriendGraph, ContactFile, TLAPS

SameGrant(g, h) ==
    g.id = h.id /\ g.issuer = h.issuer /\ g.subject = h.subject

Accepts(m) == m.type = "friend_response" /\ m.accepted

(* The grant has a record with its issuer.                                 *)
OnRecord(g) == \E h \in Elems(grants[g.issuer]) : SameGrant(h, g)

(* Every grant in a store or in an envelope.                               *)
Known(g) ==
    \/ \E a \in Agents : g \in Elems(grants[a])
    \/ \E m \in net : Accepts(m) /\ g = m.grant

OutsidersHoldNothing ==
    \A a, b \in Agents : \A g \in Elems(grants[a]) :
        a # b /\ g.subject = b /\ standing[a][b] \in {"none", "revoked"}
            => ~g.active

NobodyMeetsItself ==
    /\ \A a \in Agents : rel[a][a] = "absent"
    /\ \A m \in net : m.from # m.to

HeldByItsParties ==
    \A a \in Agents : \A g \in Elems(grants[a]) :
        a \in {g.issuer, g.subject} /\ g.issuer # g.subject

ResponsesCarryGrants ==
    \A m \in net : Accepts(m) =>
        /\ m.grant.issuer = m.from
        /\ m.grant.subject = m.to

KnownGrantsOnRecord == \A g \in Grant : Known(g) => OnRecord(g)

IdsNameOneGrant ==
    /\ \A g \in Grant : Known(g) => g.id <= issued
    /\ \A g, h \in Grant : Known(g) /\ Known(h) /\ g.id = h.id
                               => SameGrant(g, h)

ContactInv == RequestAwaitsApproval /\ BlockHolds /\ NobodyMeetsItself

GrantInv ==
    /\ OutsidersHoldNothing
    /\ HeldByItsParties
    /\ ResponsesCarryGrants
    /\ KnownGrantsOnRecord
    /\ IdsNameOneGrant

IInv == TypeOK /\ ContactInv /\ GrantInv

-----------------------------------------------------------------------------
(* What the operators on grants.json do to the set of grants it holds.     *)

(* storeGrant adds the grant and takes away only what had its id.          *)
LEMMA StoreGrantElems ==
    ASSUME NEW s \in Seq(Grant), NEW g \in Grant
    PROVE  /\ StoreGrant(s, g) \in Seq(Grant)
           /\ g \in Elems(StoreGrant(s, g))
           /\ \A h \in Elems(StoreGrant(s, g)) : h = g \/ h \in Elems(s)
           /\ \A h \in Elems(s) :
                  h.id # g.id => h \in Elems(StoreGrant(s, g))
<1> DEFINE t == StoreGrant(s, g)
<1>1. CASE \E i \in DOMAIN s : s[i].id = g.id
    <2>1. t = [i \in 1..Len(s) |-> IF s[i].id = g.id THEN g ELSE s[i]]
        BY <1>1 DEF StoreGrant
    <2>2. \A i \in 1..Len(s) : s[i] \in Grant
        OBVIOUS
    <2>3. t \in Seq(Grant) /\ DOMAIN t = DOMAIN s
        BY <2>1, <2>2
    <2> QED BY <1>1, <2>1, <2>3 DEF Elems
<1>2. CASE ~ \E i \in DOMAIN s : s[i].id = g.id
    <2>1. t = Append(s, g)
        BY <1>2 DEF StoreGrant
    <2>2. /\ t \in Seq(Grant)
          /\ DOMAIN t = 1..(Len(s) + 1)
          /\ t[Len(s) + 1] = g
          /\ \A i \in 1..Len(s) : t[i] = s[i]
        BY <2>1
    <2> QED BY <2>2 DEF Elems
<1> QED BY <1>1, <1>2

(* revoke leaves a record of every grant, none active that names the peer, *)
(* and makes none active.                                                  *)
LEMMA RevokeAllElems ==
    ASSUME NEW s \in Seq(Grant), NEW b
    PROVE  /\ RevokeAllWith(s, b) \in Seq(Grant)
           /\ \A h \in Elems(RevokeAllWith(s, b)) :
                  /\ h.active => h \in Elems(s) /\ b \notin {h.subject, h.issuer}
                  /\ \E k \in Elems(s) : SameGrant(h, k)
           /\ \A k \in Elems(s) :
                  /\ \E h \in Elems(RevokeAllWith(s, b)) : SameGrant(h, k)
                  /\ b \notin {k.subject, k.issuer}
                        => k \in Elems(RevokeAllWith(s, b))
<1> DEFINE t == RevokeAllWith(s, b)
<1>1. \A i \in 1..Len(s) : s[i] \in Grant
    OBVIOUS
<1>2. t = [i \in 1..Len(s) |-> IF b \in {s[i].subject, s[i].issuer}
                               THEN [s[i] EXCEPT !.active = FALSE] ELSE s[i]]
    BY DEF RevokeAllWith
<1>3. \A i \in 1..Len(s) :
          /\ t[i] \in Grant
          /\ SameGrant(t[i], s[i])
          /\ t[i].active => t[i] = s[i] /\ b \notin {s[i].subject, s[i].issuer}
          /\ b \notin {s[i].subject, s[i].issuer} => t[i] = s[i]
    BY <1>1, <1>2 DEF Grant, SameGrant
<1>4. t \in Seq(Grant) /\ DOMAIN t = 1..Len(s) /\ DOMAIN s = 1..Len(s)
    BY <1>2, <1>3
<1> HIDE DEF t
<1> QED BY <1>3, <1>4 DEF Elems, t

-----------------------------------------------------------------------------
(* Type correctness.                                                       *)

(* The parts of an envelope have the types the handlers rely on.           *)
LEMMA EnvelopeParts ==
    ASSUME NEW m \in Envelope
    PROVE  /\ m.id \in Nat /\ m.from \in Agents /\ m.to \in Agents
           /\ Accepts(m) => m.grant \in Grant
BY DEF Envelope, Accepts

(* What an agent signs is an envelope.                                     *)
LEMMA RequestEnvelope ==
    ASSUME NEW a \in Agents, NEW b \in Agents, NEW n \in Nat,
           NEW code \in BOOLEAN
    PROVE  [type |-> "friend_request", id |-> n, from |-> a, to |-> b,
            code |-> code] \in Envelope
BY DEF Envelope

LEMMA AcceptEnvelope ==
    ASSUME NEW a \in Agents, NEW b \in Agents, NEW n \in Nat,
           NEW g \in Grant
    PROVE  [type |-> "friend_response", id |-> n, from |-> a, to |-> b,
            accepted |-> TRUE, grant |-> g] \in Envelope
BY DEF Envelope

LEMMA RejectEnvelope ==
    ASSUME NEW a \in Agents, NEW b \in Agents, NEW n \in Nat
    PROVE  [type |-> "friend_response", id |-> n, from |-> a, to |-> b,
            accepted |-> FALSE] \in Envelope
BY DEF Envelope

LEMMA MessageEnvelope ==
    ASSUME NEW a \in Agents, NEW b \in Agents, NEW n \in Nat, NEW c \in Nat
    PROVE  [type |-> "privileged_message", id |-> n, from |-> a, to |-> b,
            capability |-> c] \in Envelope
BY DEF Envelope

LEMMA SetRelTypeOK ==
    ASSUME rel \in [Agents -> [Agents -> States]],
           NEW a \in Agents, NEW b \in Agents, NEW state \in States,
           SetRel(a, b, state)
    PROVE  rel' \in [Agents -> [Agents -> States]]
BY DEF SetRel

LEMMA SignTypeOK ==
    ASSUME net \subseteq Envelope, signed \in Nat, NEW m \in Envelope, Sign(m)
    PROVE  net' \subseteq Envelope /\ signed' \in Nat
BY DEF Sign

(* Accepting a peer keeps the stores and the envelopes well typed.         *)
LEMMA AcceptEffectTypeOK ==
    ASSUME TypeOK, NEW a \in Agents, NEW b \in Agents, AcceptEffect(a, b),
           pending' \in [Agents -> [Agents -> Nat]]
    PROVE  TypeOK'
<1> DEFINE g == [id |-> issued + 1, issuer |-> a, subject |-> b,
                 active |-> TRUE]
           m == [type |-> "friend_response", id |-> signed + 1,
                 from |-> a, to |-> b, accepted |-> TRUE, grant |-> g]
<1>1. g \in Grant /\ signed + 1 \in Nat
    BY DEF Grant, TypeOK
<1> HIDE DEF g
<1>2. m \in Envelope
    BY <1>1, AcceptEnvelope
<1> HIDE DEF m
<1>3. StoreGrant(grants[a], g) \in Seq(Grant)
    BY <1>1, StoreGrantElems DEF TypeOK
<1>4. /\ issued' = issued + 1
      /\ grants' = [grants EXCEPT ![a] = StoreGrant(@, g)]
      /\ Sign(m)
      /\ SetRel(a, b, "friend") /\ Stand(a, b, "accepted")
      /\ UNCHANGED <<uses, inbox>>
    BY DEF AcceptEffect, g, m
<1>5. net' \subseteq Envelope /\ signed' \in Nat
    BY <1>2, <1>4, SignTypeOK DEF TypeOK
<1>6. grants' \in [Agents -> Seq(Grant)] /\ issued' \in Nat
    BY <1>3, <1>4 DEF TypeOK
<1>7. /\ rel' \in [Agents -> [Agents -> States]]
      /\ standing' \in [Agents -> [Agents -> Standings]]
    BY <1>4 DEF TypeOK, SetRel, Stand, States, Standings
<1> QED BY <1>4, <1>5, <1>6, <1>7 DEF TypeOK

(* Every operation of an owner does.                                       *)
LEMMA OwnerStepTypeOK ==
    ASSUME TypeOK, NEW a \in Agents, NEW b \in Agents, OwnerStep(a, b)
    PROVE  TypeOK'
<1>1. signed + 1 \in Nat
    BY DEF TypeOK
<1>2. CASE RefreshContact(a, b)
    BY <1>2 DEF TypeOK, RefreshContact, SetRel, States
<1>3. ASSUME NEW code \in BOOLEAN, CreateFriendRequest(a, b, code)
      PROVE  TypeOK'
    <2>1. net' \subseteq Envelope /\ signed' \in Nat
        BY <1>1, <1>3, RequestEnvelope, SignTypeOK
        DEF TypeOK, CreateFriendRequest
    <2> QED BY <1>3, <2>1 DEF TypeOK, CreateFriendRequest, SetRel, States
<1>4. CASE AcceptFriend(a, b)
    BY <1>4, AcceptEffectTypeOK DEF AcceptFriend, TypeOK
<1>5. CASE ApproveRequest(a, b)
    <2>1. pending' \in [Agents -> [Agents -> Nat]]
        BY <1>5 DEF ApproveRequest, TypeOK
    <2> QED BY <1>5, <2>1, AcceptEffectTypeOK DEF ApproveRequest
<1>6. CASE RejectRequest(a, b)
    <2>1. pending' \in [Agents -> [Agents -> Nat]]
        BY <1>6 DEF RejectRequest, TypeOK
    <2> DEFINE m == [type |-> "friend_response", id |-> signed + 1,
                     from |-> a, to |-> b, accepted |-> FALSE]
    <2>2. m \in Envelope
        BY <1>1, RejectEnvelope
    <2>3. \/ UNCHANGED <<rel, net, signed>>
          \/ SetRel(a, b, "rejected") /\ Sign(m)
        BY <1>6 DEF RejectRequest
    <2> HIDE DEF m
    <2>4. net' \subseteq Envelope /\ signed' \in Nat
        BY <2>2, <2>3, SignTypeOK DEF TypeOK
    <2>5. rel' \in [Agents -> [Agents -> States]]
        BY <2>3, SetRelTypeOK DEF TypeOK, States
    <2> QED BY <1>6, <2>1, <2>4, <2>5 DEF RejectRequest, TypeOK
<1>7. CASE Revoke(a, b)
    <2>1. RevokeAllWith(grants[a], b) \in Seq(Grant)
        BY RevokeAllElems DEF TypeOK
    <2> QED BY <1>7, <2>1 DEF Revoke, TypeOK, SetRel, Stand, States, Standings
<1>8. CASE Block(a, b)
    BY <1>8 DEF Block, TypeOK, SetRel, Stand, States, Standings
<1>9. CASE SendPrivilegedMessage(a, b)
    <2>1. \A i \in DOMAIN grants[a] : grants[a][i].id \in Nat
        <3>1. grants[a] \in Seq(Grant)
            BY DEF TypeOK
        <3>2. \A i \in DOMAIN grants[a] : grants[a][i] \in Grant
            BY <3>1
        <3> QED BY <3>2 DEF Grant
    <2>2. net' \subseteq Envelope /\ signed' \in Nat
        BY <1>1, <1>9, <2>1, MessageEnvelope, SignTypeOK
        DEF TypeOK, SendPrivilegedMessage
    <2> QED BY <1>9, <2>2 DEF SendPrivilegedMessage, TypeOK
<1> QED BY <1>2, <1>3, <1>4, <1>5, <1>6, <1>7, <1>8, <1>9 DEF OwnerStep

(* Every handler of an inbound envelope does.                              *)
LEMMA ReceiveStepTypeOK ==
    ASSUME TypeOK, NEW m \in net, ReceiveStep(m)
    PROVE  TypeOK'
<1>1. /\ m \in Envelope /\ m.id \in Nat
      /\ m.from \in Agents /\ m.to \in Agents
      /\ Accepts(m) => m.grant \in Grant
    BY EnvelopeParts DEF TypeOK
<1> DEFINE b == m.to
           a == m.from
<1>a. a \in Agents /\ b \in Agents
    BY <1>1
<1> HIDE DEF a, b
<1>2. Consume(m) => net' \subseteq Envelope /\ signed' \in Nat
    BY DEF Consume, TypeOK
<1>3. CASE ReceiveFriendRequest(m)
    <2>1. \/ uses' = uses
          \/ uses[b] > 0 /\ uses' = [uses EXCEPT ![b] = @ - 1]
        BY <1>3 DEF ReceiveFriendRequest, NeedsCode, CodeUsable, a, b
    <2>2. uses' \in [Agents -> Nat]
        <3>1. CASE uses' = uses
            BY <3>1 DEF TypeOK
        <3>2. CASE uses[b] > 0 /\ uses' = [uses EXCEPT ![b] = @ - 1]
            BY <1>a, <3>2 DEF TypeOK
        <3> QED BY <2>1, <3>1, <3>2
    <2>3. \/ rel' = rel /\ pending' = pending
          \/ /\ SetRel(b, a, "request_received")
             /\ pending' = [pending EXCEPT ![b][a] = AddApproval(@)]
        BY <1>3 DEF ReceiveFriendRequest, a, b
    <2>4. rel' \in [Agents -> [Agents -> States]]
        BY <1>a, <2>3, SetRelTypeOK DEF TypeOK, States
    <2>5. pending' \in [Agents -> [Agents -> Nat]]
        <3>1. \A n \in Nat : AddApproval(n) \in Nat
            BY DEF AddApproval
        <3>2. CASE pending' = pending
            BY <3>2 DEF TypeOK
        <3>3. CASE pending' = [pending EXCEPT ![b][a] = AddApproval(@)]
            BY <1>a, <3>1, <3>3 DEF TypeOK
        <3> QED BY <2>3, <3>2, <3>3
    <2> QED BY <1>2, <1>3, <2>2, <2>4, <2>5 DEF ReceiveFriendRequest, TypeOK
<1>4. CASE ApplyFriendResponse(m)
    <2>1. rel' = rel \/ \E state \in States : SetRel(b, a, state)
        BY <1>4 DEF ApplyFriendResponse, States, a, b
    <2>2. rel' \in [Agents -> [Agents -> States]]
        BY <1>a, <2>1, SetRelTypeOK DEF TypeOK
    <2>3. \/ grants' = grants
          \/ /\ m.grant \in Grant
             /\ grants' = [grants EXCEPT ![b] = StoreGrant(@, m.grant)]
        BY <1>1, <1>4 DEF ApplyFriendResponse, Accepts, a, b
    <2>4. m.grant \in Grant => StoreGrant(grants[b], m.grant) \in Seq(Grant)
        BY <1>a, StoreGrantElems DEF TypeOK
    <2>5. grants' \in [Agents -> Seq(Grant)]
        BY <1>a, <2>3, <2>4 DEF TypeOK
    <2> QED BY <1>2, <1>4, <2>2, <2>5 DEF ApplyFriendResponse, TypeOK
<1>5. CASE ReceivePrivilegedMessage(m)
    <2> DEFINE e == [id |-> m.id, from |-> a]
    <2>1. inbox' = inbox \/ inbox' = [inbox EXCEPT ![b] = @ \cup {e}]
        BY <1>5 DEF ReceivePrivilegedMessage, a, b
    <2>2. e \in [id : Nat, from : Agents]
        BY <1>1, <1>a
    <2> HIDE DEF e
    <2>3. inbox' \in [Agents -> SUBSET [id : Nat, from : Agents]]
        <3>1. CASE inbox' = inbox
            BY <3>1 DEF TypeOK
        <3>2. CASE inbox' = [inbox EXCEPT ![b] = @ \cup {e}]
            BY <1>a, <2>2, <3>2 DEF TypeOK
        <3> QED BY <2>1, <3>1, <3>2
    <2> QED BY <1>2, <1>5, <2>3 DEF ReceivePrivilegedMessage, TypeOK
<1>6. CASE Drop(m)
    BY <1>2, <1>6 DEF Drop, TypeOK
<1> QED BY <1>3, <1>4, <1>5, <1>6 DEF ReceiveStep

LEMMA InitTypeOK == Init => TypeOK
BY BoundsAssumption DEF Init, TypeOK, States, Standings

LEMMA NextTypeOK == TypeOK /\ [Next]_vars => TypeOK'
<1> SUFFICES ASSUME TypeOK, [Next]_vars PROVE TypeOK'
    OBVIOUS
<1>1. CASE Next
    BY <1>1, OwnerStepTypeOK, ReceiveStepTypeOK DEF Next
<1>2. CASE UNCHANGED vars
    BY <1>2 DEF vars, TypeOK
<1> QED BY <1>1, <1>2

(* The stores and the envelopes in flight keep the shape the code gives    *)
(* them, for any set of agents.                                            *)
THEOREM TypeCorrect == Spec => []TypeOK
BY InitTypeOK, NextTypeOK, PTL DEF Spec

-----------------------------------------------------------------------------
(* The grants: one lemma per way in which a step can change them.          *)

LEMMA ElemsAreGrants ==
    ASSUME TypeOK, NEW a \in Agents
    PROVE  grants[a] \in Seq(Grant) /\ \A g \in Elems(grants[a]) : g \in Grant
<1>1. grants[a] \in Seq(Grant)
    BY DEF TypeOK
<1> QED BY <1>1 DEF Elems

LEMMA GrantParts ==
    ASSUME NEW g \in Grant
    PROVE  g.id \in Nat /\ g.issuer \in Agents /\ g.subject \in Agents
BY DEF Grant

(* Most steps issue nothing, store nothing and reopen no relationship.     *)
LEMMA QuietStep ==
    ASSUME GrantInv, UNCHANGED <<grants, issued>>,
           \A m \in net' : Accepts(m) => m \in net,
           \A a, b \in Agents :
              standing'[a][b] \in {"none", "revoked"}
                  => standing[a][b] \in {"none", "revoked"}
    PROVE  GrantInv'
<1>1. \A g : Known(g)' => Known(g)
    BY DEF Known
<1>2. \A g : OnRecord(g)' <=> OnRecord(g)
    BY DEF OnRecord
<1>3. OutsidersHoldNothing' /\ HeldByItsParties' /\ ResponsesCarryGrants'
    BY DEF GrantInv, OutsidersHoldNothing, HeldByItsParties,
           ResponsesCarryGrants
<1>4. KnownGrantsOnRecord' /\ IdsNameOneGrant'
    BY <1>1, <1>2 DEF GrantInv, KnownGrantsOnRecord, IdsNameOneGrant
<1> QED BY <1>3, <1>4 DEF GrantInv

(* acceptFriend issues a grant under a new id.                             *)
LEMMA AcceptKeepsGrants ==
    ASSUME TypeOK, GrantInv, NEW a \in Agents, NEW b \in Agents, a # b,
           AcceptEffect(a, b)
    PROVE  GrantInv'
<1> DEFINE g == [id |-> issued + 1, issuer |-> a, subject |-> b,
                 active |-> TRUE]
           m == [type |-> "friend_response", id |-> signed + 1,
                 from |-> a, to |-> b, accepted |-> TRUE, grant |-> g]
<1>1. /\ g \in Grant /\ g.id = issued + 1 /\ g.issuer = a /\ g.subject = b
      /\ m.grant = g /\ m.from = a /\ m.to = b /\ Accepts(m)
    BY DEF Grant, TypeOK, Accepts
<1>2. /\ issued \in Nat /\ issued' = issued + 1
      /\ grants' = [grants EXCEPT ![a] = StoreGrant(@, g)]
      /\ net' = net \cup {m}
      /\ standing' = [standing EXCEPT ![a][b] = "accepted"]
    BY DEF AcceptEffect, Sign, Stand, TypeOK
<1> HIDE DEF g, m
<1>3. /\ \A x \in Agents : x # a => grants'[x] = grants[x]
      /\ grants'[a] = StoreGrant(grants[a], g)
    BY <1>2 DEF TypeOK
<1>4. /\ \A x \in Agents : \A h \in Elems(grants[x]) : h.id <= issued
      /\ \A x \in Agents : \A h \in Elems(grants[x]) : h.id # g.id
    <2>1. \A x \in Agents : \A h \in Elems(grants[x]) : h.id <= issued
        BY ElemsAreGrants DEF GrantInv, IdsNameOneGrant, Known
    <2> QED BY <1>1, <1>2, <2>1, ElemsAreGrants, GrantParts
<1>5. /\ g \in Elems(grants'[a])
      /\ \A h \in Elems(grants'[a]) : h = g \/ h \in Elems(grants[a])
      /\ \A x \in Agents : \A h \in Elems(grants[x]) : h \in Elems(grants'[x])
    BY <1>1, <1>3, <1>4, ElemsAreGrants, StoreGrantElems
<1>6. \A h \in Grant : Known(h)' => Known(h) \/ h = g
    BY <1>1, <1>2, <1>3, <1>5 DEF Known
<1>7. OutsidersHoldNothing'
    <2>1. SUFFICES ASSUME NEW x \in Agents, NEW y \in Agents, x # y,
                          NEW h \in Elems(grants'[x]), h.subject = y,
                          standing'[x][y] \in {"none", "revoked"}
                   PROVE  ~h.active
        BY DEF OutsidersHoldNothing
    <2>2. ~ (x = a /\ y = b) /\ standing[x][y] \in {"none", "revoked"}
        BY <1>2, <2>1 DEF TypeOK
    <2>3. h \in Elems(grants[x])
        BY <1>1, <1>3, <1>5, <2>1, <2>2
    <2> QED BY <2>1, <2>2, <2>3 DEF GrantInv, OutsidersHoldNothing
<1>8. HeldByItsParties'
    BY <1>1, <1>3, <1>5 DEF GrantInv, HeldByItsParties
<1>9. ResponsesCarryGrants'
    BY <1>1, <1>2 DEF GrantInv, ResponsesCarryGrants
<1>10. KnownGrantsOnRecord'
    <2>1. SUFFICES ASSUME NEW h \in Grant, Known(h)'
                   PROVE  OnRecord(h)'
        BY DEF KnownGrantsOnRecord
    <2>2. CASE h = g
        BY <1>1, <1>5, <2>2 DEF OnRecord, SameGrant
    <2>3. CASE Known(h)
        <3>1. PICK k \in Elems(grants[h.issuer]) : SameGrant(k, h)
            BY <2>3 DEF GrantInv, KnownGrantsOnRecord, OnRecord
        <3> QED BY <1>5, <3>1, GrantParts DEF OnRecord
    <2> QED BY <1>6, <2>1, <2>2, <2>3
<1>11. IdsNameOneGrant'
    BY <1>1, <1>2, <1>6, GrantParts DEF GrantInv, IdsNameOneGrant, SameGrant
<1> QED BY <1>7, <1>8, <1>9, <1>10, <1>11 DEF GrantInv

(* revoke leaves every record in place and none of the peer's active.      *)
LEMMA RevokeKeepsGrants ==
    ASSUME TypeOK, GrantInv, NEW a \in Agents, NEW b \in Agents, a # b,
           Revoke(a, b)
    PROVE  GrantInv'
<1>1. /\ UNCHANGED <<net, issued>>
      /\ grants' = [grants EXCEPT ![a] = RevokeAllWith(@, b)]
      /\ standing' = [standing EXCEPT ![a][b] = "revoked"]
    BY DEF Revoke, Stand
<1>2. /\ \A x \in Agents : x # a => grants'[x] = grants[x]
      /\ grants'[a] = RevokeAllWith(grants[a], b)
    BY <1>1 DEF TypeOK
<1>3. /\ \A h \in Elems(grants'[a]) :
            /\ h.active => h \in Elems(grants[a]) /\ b \notin {h.subject, h.issuer}
            /\ \E k \in Elems(grants[a]) : SameGrant(h, k)
      /\ \A k \in Elems(grants[a]) :
            \E h \in Elems(grants'[a]) : SameGrant(h, k)
    BY <1>2, ElemsAreGrants, RevokeAllElems
<1>4. \A h \in Grant : Known(h)' => \E k \in Grant : Known(k) /\ SameGrant(h, k)
    <2>1. SUFFICES ASSUME NEW h \in Grant, Known(h)'
                   PROVE  \E k \in Grant : Known(k) /\ SameGrant(h, k)
        OBVIOUS
    <2>2. CASE h \in Elems(grants'[a])
        BY <1>3, <2>2, ElemsAreGrants DEF Known
    <2>3. CASE h \notin Elems(grants'[a])
        <3>1. Known(h)
            BY <1>1, <1>2, <2>1, <2>3 DEF Known
        <3> QED BY <3>1 DEF SameGrant
    <2> QED BY <2>2, <2>3
<1>5. OutsidersHoldNothing'
    <2>1. SUFFICES ASSUME NEW x \in Agents, NEW y \in Agents, x # y,
                          NEW h \in Elems(grants'[x]), h.subject = y,
                          standing'[x][y] \in {"none", "revoked"}, h.active
                   PROVE  FALSE
        BY DEF OutsidersHoldNothing
    <2>2. h \in Elems(grants[x]) /\ ~ (x = a /\ y = b)
        BY <1>2, <1>3, <2>1
    <2>3. standing[x][y] \in {"none", "revoked"}
        BY <1>1, <2>1, <2>2 DEF TypeOK
    <2> QED BY <2>1, <2>2, <2>3 DEF GrantInv, OutsidersHoldNothing
<1>6. HeldByItsParties'
    BY <1>2, <1>3 DEF GrantInv, HeldByItsParties, SameGrant
<1>7. ResponsesCarryGrants'
    BY <1>1 DEF GrantInv, ResponsesCarryGrants
<1>8. KnownGrantsOnRecord'
    <2>1. SUFFICES ASSUME NEW h \in Grant, Known(h)'
                   PROVE  OnRecord(h)'
        BY DEF KnownGrantsOnRecord
    <2>2. PICK k \in Grant : Known(k) /\ SameGrant(h, k)
        BY <1>4, <2>1
    <2>3. PICK r \in Elems(grants[k.issuer]) : SameGrant(r, k)
        BY <2>2 DEF GrantInv, KnownGrantsOnRecord, OnRecord
    <2>4. \E q \in Elems(grants'[k.issuer]) : SameGrant(q, r)
        BY <1>2, <1>3, <2>3, GrantParts DEF SameGrant
    <2> QED BY <2>2, <2>3, <2>4 DEF OnRecord, SameGrant
<1>9. IdsNameOneGrant'
    BY <1>1, <1>4 DEF GrantInv, IdsNameOneGrant, SameGrant
<1> QED BY <1>5, <1>6, <1>7, <1>8, <1>9 DEF GrantInv

(* A response brings its recipient a grant of which the recipient is the   *)
(* subject, and takes the place of that grant only.                        *)
LEMMA ResponseKeepsGrants ==
    ASSUME TypeOK, GrantInv, NobodyMeetsItself, NEW m \in net,
           ApplyFriendResponse(m)
    PROVE  GrantInv'
<1>1. m.from # m.to /\ m.to \in Agents /\ Accepts(m) => m.grant \in Grant
    BY EnvelopeParts DEF NobodyMeetsItself, TypeOK
<1>2. net' = net \ {m} /\ UNCHANGED <<issued, standing>>
    BY DEF ApplyFriendResponse, Consume
<1>3. CASE grants' = grants
    BY <1>2, <1>3, QuietStep
<1>4. CASE grants' # grants
    <2> DEFINE a == m.from
               b == m.to
               g == m.grant
    <2>1. /\ Accepts(m)
          /\ grants' = [grants EXCEPT ![b] = StoreGrant(@, g)]
        BY <1>4 DEF ApplyFriendResponse, Accepts
    <2>2. /\ a # b /\ b \in Agents
          /\ g \in Grant /\ g.issuer = a /\ g.subject = b /\ Known(g)
        BY <1>1, <2>1, EnvelopeParts
        DEF TypeOK, NobodyMeetsItself, GrantInv, ResponsesCarryGrants, Known
    <2> HIDE DEF a, b, g
    <2>3. /\ \A x \in Agents : x # b => grants'[x] = grants[x]
          /\ grants'[b] = StoreGrant(grants[b], g)
        BY <2>1, <2>2 DEF TypeOK
    <2>4. /\ g \in Elems(grants'[b])
          /\ \A h \in Elems(grants'[b]) : h = g \/ h \in Elems(grants[b])
          /\ \A h \in Elems(grants[b]) : h.id # g.id => h \in Elems(grants'[b])
        BY <2>2, <2>3, ElemsAreGrants, StoreGrantElems
    <2>5. \A h \in Grant : Known(h)' => Known(h)
        BY <1>2, <2>2, <2>3, <2>4 DEF Known
    <2>6. OutsidersHoldNothing'
        BY <1>2, <2>2, <2>3, <2>4 DEF GrantInv, OutsidersHoldNothing
    <2>7. HeldByItsParties'
        BY <2>2, <2>3, <2>4 DEF GrantInv, HeldByItsParties
    <2>8. ResponsesCarryGrants'
        BY <1>2 DEF GrantInv, ResponsesCarryGrants
    <2>9. KnownGrantsOnRecord'
        <3>1. SUFFICES ASSUME NEW h \in Grant, Known(h)'
                       PROVE  OnRecord(h)'
            BY DEF KnownGrantsOnRecord
        <3>2. PICK r \in Elems(grants[h.issuer]) : SameGrant(r, h)
            BY <2>5, <3>1 DEF GrantInv, KnownGrantsOnRecord, OnRecord
        <3>3. CASE h.issuer = b
            <4>1. r \in Grant /\ Known(r)
                BY <2>2, <3>2, <3>3, ElemsAreGrants DEF Known
            <4>2. r.id # g.id
                BY <2>2, <3>2, <3>3, <4>1
                DEF GrantInv, IdsNameOneGrant, SameGrant
            <4> QED BY <2>4, <3>2, <3>3, <4>2 DEF OnRecord
        <3>4. CASE h.issuer # b
            BY <2>3, <3>2, <3>4, GrantParts DEF OnRecord
        <3> QED BY <3>3, <3>4
    <2>10. IdsNameOneGrant'
        BY <1>2, <2>5 DEF GrantInv, IdsNameOneGrant
    <2> QED BY <2>6, <2>7, <2>8, <2>9, <2>10 DEF GrantInv
<1> QED BY <1>3, <1>4

-----------------------------------------------------------------------------
(* The inductive invariant.                                                *)

LEMMA InitIInv == Init => IInv
<1> SUFFICES ASSUME Init PROVE IInv
    OBVIOUS
<1>1. TypeOK
    BY InitTypeOK
<1>2. ContactInv
    BY DEF Init, ContactInv, RequestAwaitsApproval, BlockHolds,
           NobodyMeetsItself
<1>3. \A a \in Agents : Elems(grants[a]) = {}
    <2>1. DOMAIN << >> = {}
        OBVIOUS
    <2>2. Elems(<< >>) = {}
        BY <2>1 DEF Elems
    <2> QED BY <2>2 DEF Init
<1>4. \A g : ~Known(g)
    BY <1>3 DEF Init, Known
<1>5. GrantInv
    BY <1>3, <1>4 DEF Init, GrantInv, OutsidersHoldNothing, HeldByItsParties,
        ResponsesCarryGrants, KnownGrantsOnRecord, IdsNameOneGrant
<1> QED BY <1>1, <1>2, <1>5 DEF IInv

(* An owner's operation keeps the requests, blocks and grants consistent.  *)
LEMMA OwnerStepGrants ==
    ASSUME TypeOK, GrantInv, NEW a \in Agents, NEW b \in Agents, a # b,
           OwnerStep(a, b)
    PROVE  GrantInv'
<1>1. CASE RefreshContact(a, b)
    BY <1>1, QuietStep DEF RefreshContact
<1>2. ASSUME NEW code \in BOOLEAN, CreateFriendRequest(a, b, code)
      PROVE  GrantInv'
    BY <1>2, QuietStep DEF CreateFriendRequest, Sign, Accepts
<1>3. CASE AcceptFriend(a, b) \/ ApproveRequest(a, b)
    BY <1>3, AcceptKeepsGrants DEF AcceptFriend, ApproveRequest
<1>4. CASE RejectRequest(a, b)
    BY <1>4, QuietStep DEF RejectRequest, Sign, Accepts
<1>5. CASE Revoke(a, b)
    BY <1>5, RevokeKeepsGrants
<1>6. CASE Block(a, b)
    BY <1>6, QuietStep DEF Block, Stand, TypeOK
<1>7. CASE SendPrivilegedMessage(a, b)
    BY <1>7, QuietStep DEF SendPrivilegedMessage, Sign, Accepts
<1> QED BY <1>1, <1>2, <1>3, <1>4, <1>5, <1>6, <1>7 DEF OwnerStep

LEMMA ReceiveStepGrants ==
    ASSUME TypeOK, GrantInv, NobodyMeetsItself, NEW m \in net, ReceiveStep(m)
    PROVE  GrantInv'
<1>1. CASE ReceiveFriendRequest(m)
    BY <1>1, QuietStep DEF ReceiveFriendRequest, Consume
<1>2. CASE ApplyFriendResponse(m)
    BY <1>2, ResponseKeepsGrants
<1>3. CASE ReceivePrivilegedMessage(m)
    BY <1>3, QuietStep DEF ReceivePrivilegedMessage, Consume
<1>4. CASE Drop(m)
    BY <1>4, QuietStep DEF Drop, Consume
<1> QED BY <1>1, <1>2, <1>3, <1>4 DEF ReceiveStep

(* A step changes what an agent says about one peer.                       *)
LEMMA SetRelAt ==
    ASSUME TypeOK, NEW a \in Agents, NEW b \in Agents, NEW state,
           SetRel(a, b, state)
    PROVE  \A x, y \in Agents :
              rel'[x][y] = IF x = a /\ y = b THEN state ELSE rel[x][y]
BY DEF SetRel, TypeOK

LEMMA ContactChange ==
    ASSUME ContactInv, NEW a \in Agents, NEW b \in Agents, a # b,
           \A m \in net' : m \in net \/ m.from # m.to,
           \A x, y \in Agents : ~ (x = a /\ y = b) =>
              /\ rel'[x][y] = rel[x][y]
              /\ pending'[x][y] = pending[x][y]
              /\ standing'[x][y] = standing[x][y],
           pending'[a][b] <= 1,
           rel'[a][b] = "request_received" => pending'[a][b] = 1,
           rel'[a][b] = "blocked" <=> standing'[a][b] = "blocked"
    PROVE  ContactInv'
BY DEF ContactInv, RequestAwaitsApproval, BlockHolds, NobodyMeetsItself

(* Requests keep their approval and blocks hold, whatever an owner does.   *)
LEMMA OwnerStepContacts ==
    ASSUME TypeOK, ContactInv, NEW a \in Agents, NEW b \in Agents, a # b,
           OwnerStep(a, b)
    PROVE  ContactInv'
<1> DEFINE Elsewhere == \A x, y \in Agents : ~ (x = a /\ y = b) =>
                           /\ pending'[x][y] = pending[x][y]
                           /\ standing'[x][y] = standing[x][y]
<1>1. \A m : Sign(m) /\ m.from # m.to =>
                 \A n \in net' : n \in net \/ n.from # n.to
    BY DEF Sign
<1>2. /\ pending[a][b] \in Nat /\ pending[a][b] <= 1
      /\ rel[a][b] = "request_received" => pending[a][b] = 1
      /\ rel[a][b] = "blocked" <=> standing[a][b] = "blocked"
    BY DEF ContactInv, RequestAwaitsApproval, BlockHolds, TypeOK
<1>3. CASE RefreshContact(a, b)
    BY <1>2, <1>3, SetRelAt, ContactChange DEF RefreshContact
<1>4. ASSUME NEW code \in BOOLEAN, CreateFriendRequest(a, b, code)
      PROVE  ContactInv'
    BY <1>1, <1>2, <1>4, SetRelAt, ContactChange DEF CreateFriendRequest
<1>5. ASSUME AcceptEffect(a, b), Elsewhere, rel[a][b] # "blocked",
             pending'[a][b] <= 1
      PROVE  ContactInv'
    <2>1. standing'[a][b] = "accepted"
        BY <1>5 DEF AcceptEffect, Stand, TypeOK
    <2>2. \A n \in net' : n \in net \/ n.from # n.to
        BY <1>1, <1>5 DEF AcceptEffect
    <2>3. SetRel(a, b, "friend")
        BY <1>5 DEF AcceptEffect
    <2> QED BY <1>5, <2>1, <2>2, <2>3, SetRelAt, ContactChange
<1>6. CASE AcceptFriend(a, b)
    <2>1. Elsewhere
        BY <1>6 DEF AcceptFriend, AcceptEffect, Stand, TypeOK
    <2> QED BY <1>2, <1>5, <1>6, <2>1 DEF AcceptFriend
<1>7. CASE ApproveRequest(a, b)
    <2>1. pending' = [pending EXCEPT ![a][b] = @ - 1]
        BY <1>7 DEF ApproveRequest
    <2>2. pending'[a][b] = pending[a][b] - 1
        BY <2>1 DEF TypeOK
    <2>3. Elsewhere
        <3>1. \A x, y \in Agents :
                  ~ (x = a /\ y = b) => pending'[x][y] = pending[x][y]
            BY <2>1 DEF TypeOK
        <3>2. \A x, y \in Agents :
                  ~ (x = a /\ y = b) => standing'[x][y] = standing[x][y]
            BY <1>7 DEF ApproveRequest, AcceptEffect, Stand, TypeOK
        <3> QED BY <3>1, <3>2
    <2> QED BY <1>2, <1>5, <1>7, <2>2, <2>3 DEF ApproveRequest
<1>8. CASE RejectRequest(a, b)
    <2>1. Elsewhere /\ pending'[a][b] = 0 /\ standing' = standing
        BY <1>2, <1>8 DEF RejectRequest, TypeOK
    <2>2. CASE rel[a][b] = "blocked"
        <3>1. rel' = rel /\ net' = net
            BY <1>8, <2>2 DEF RejectRequest
        <3> QED BY <1>2, <2>1, <2>2, <3>1, ContactChange
    <2>3. CASE rel[a][b] # "blocked"
        <3>1. SetRel(a, b, "rejected")
            BY <1>8, <2>3 DEF RejectRequest
        <3>2. \A n \in net' : n \in net \/ n.from # n.to
            BY <1>1, <1>8, <2>3 DEF RejectRequest
        <3> QED BY <1>2, <2>1, <2>3, <3>1, <3>2, SetRelAt, ContactChange
    <2> QED BY <2>2, <2>3
<1>9. CASE Revoke(a, b)
    <2>1. Elsewhere /\ standing'[a][b] = "revoked"
        BY <1>9 DEF Revoke, Stand, TypeOK
    <2> QED BY <1>2, <1>9, <2>1, SetRelAt, ContactChange DEF Revoke
<1>10. CASE Block(a, b)
    <2>1. Elsewhere /\ standing'[a][b] = "blocked"
        BY <1>10 DEF Block, Stand, TypeOK
    <2> QED BY <1>2, <1>10, <2>1, SetRelAt, ContactChange DEF Block
<1>11. CASE SendPrivilegedMessage(a, b)
    BY <1>1, <1>2, <1>11, ContactChange DEF SendPrivilegedMessage
<1> QED BY <1>3, <1>4, <1>6, <1>7, <1>8, <1>9, <1>10, <1>11 DEF OwnerStep

(* Nor does any envelope that arrives undo them.                           *)
LEMMA ReceiveStepContacts ==
    ASSUME TypeOK, ContactInv, NEW m \in net, ReceiveStep(m)
    PROVE  ContactInv'
<1> DEFINE b == m.to
           a == m.from
<1>1. a \in Agents /\ b \in Agents /\ a # b
    BY EnvelopeParts DEF TypeOK, ContactInv, NobodyMeetsItself
<1>2. net' = net \ {m}
    BY DEF ReceiveStep, ReceiveFriendRequest, ApplyFriendResponse,
           ReceivePrivilegedMessage, Drop, Consume
<1>3. UNCHANGED standing
    BY DEF ReceiveStep, ReceiveFriendRequest, ApplyFriendResponse,
           ReceivePrivilegedMessage, Drop
<1>4. \/ UNCHANGED <<rel, pending>>
      \/ /\ rel[b][a] # "blocked"
         /\ SetRel(b, a, "request_received")
         /\ pending' = [pending EXCEPT ![b][a] = AddApproval(@)]
      \/ /\ rel[b][a] # "blocked"
         /\ SetRel(b, a, "friend") \/ SetRel(b, a, "rejected")
         /\ UNCHANGED pending
    BY DEF ReceiveStep, ReceiveFriendRequest, ApplyFriendResponse,
           ReceivePrivilegedMessage, Drop, MayUpsert
<1> HIDE DEF a, b
<1>5. /\ pending[b][a] \in Nat /\ pending[b][a] <= 1
      /\ rel[b][a] = "request_received" => pending[b][a] = 1
      /\ rel[b][a] = "blocked" <=> standing[b][a] = "blocked"
    BY <1>1 DEF ContactInv, RequestAwaitsApproval, BlockHolds, TypeOK
<1>6. CASE UNCHANGED <<rel, pending>>
    BY <1>1, <1>2, <1>3, <1>5, <1>6, ContactChange
<1>7. CASE /\ rel[b][a] # "blocked"
           /\ SetRel(b, a, "request_received")
           /\ pending' = [pending EXCEPT ![b][a] = AddApproval(@)]
    <2>1. AddApproval(pending[b][a]) = 1
        BY <1>5 DEF AddApproval
    <2>2. /\ pending'[b][a] = 1
          /\ \A x, y \in Agents :
                ~ (x = b /\ y = a) => pending'[x][y] = pending[x][y]
        BY <1>1, <1>7, <2>1 DEF TypeOK
    <2> QED BY <1>1, <1>2, <1>3, <1>5, <1>7, <2>2, SetRelAt, ContactChange
<1>8. CASE /\ rel[b][a] # "blocked"
           /\ SetRel(b, a, "friend") \/ SetRel(b, a, "rejected")
           /\ UNCHANGED pending
    BY <1>1, <1>2, <1>3, <1>5, <1>8, SetRelAt, ContactChange
<1> QED BY <1>4, <1>6, <1>7, <1>8

LEMMA NextIInv == IInv /\ [Next]_vars => IInv'
<1> SUFFICES ASSUME IInv, [Next]_vars PROVE IInv'
    OBVIOUS
<1>1. TypeOK'
    BY NextTypeOK DEF IInv
<1>2. CASE Next
    <2>1. ASSUME NEW a \in Agents, NEW b \in Agents, a # b, OwnerStep(a, b)
          PROVE  ContactInv' /\ GrantInv'
        BY <2>1, OwnerStepContacts, OwnerStepGrants DEF IInv
    <2>2. ASSUME NEW m \in net, ReceiveStep(m)
          PROVE  ContactInv' /\ GrantInv'
        BY <2>2, ReceiveStepContacts, ReceiveStepGrants DEF IInv, ContactInv
    <2> QED BY <1>1, <1>2, <2>1, <2>2 DEF Next, IInv
<1>3. CASE UNCHANGED vars
    <2>1. ContactInv'
        BY <1>3 DEF vars, IInv, ContactInv, RequestAwaitsApproval,
                    BlockHolds, NobodyMeetsItself
    <2>2. GrantInv'
        BY <1>3, QuietStep DEF vars, IInv
    <2> QED BY <1>1, <2>1, <2>2 DEF IInv
<1> QED BY <1>2, <1>3

THEOREM Invariance == Spec => []IInv
BY InitIInv, NextIInv, PTL DEF Spec

(* Every request shown as received has exactly one approval waiting.       *)
THEOREM RequestsAwaitApproval == Spec => []RequestAwaitsApproval
<1>1. IInv => RequestAwaitsApproval
    BY DEF IInv, ContactInv
<1> QED BY <1>1, Invariance, PTL

(* A block holds until its owner revokes.                                  *)
THEOREM BlocksHold == Spec => []BlockHolds
<1>1. IInv => BlockHolds
    BY DEF IInv, ContactInv
<1> QED BY <1>1, Invariance, PTL

(* Whoever holds a grant, its issuer has it on record, for the same        *)
(* subject, and its holder is one of its two parties.                      *)
HeldGrantsWereIssued ==
    \A a \in Agents : \A g \in Elems(grants[a]) :
        /\ a \in {g.issuer, g.subject}
        /\ \E h \in Elems(grants[g.issuer]) :
              h.id = g.id /\ h.issuer = g.issuer /\ h.subject = g.subject

(* No store holds a grant its issuer did not issue to that subject.        *)
THEOREM GrantsWereIssued == Spec => []HeldGrantsWereIssued
<1>1. IInv => HeldGrantsWereIssued
    <2> SUFFICES ASSUME IInv, NEW a \in Agents, NEW g \in Elems(grants[a])
                 PROVE  /\ a \in {g.issuer, g.subject}
                        /\ \E h \in Elems(grants[g.issuer]) :
                              /\ h.id = g.id
                              /\ h.issuer = g.issuer
                              /\ h.subject = g.subject
        BY DEF HeldGrantsWereIssued
    <2>1. g \in Grant /\ Known(g)
        BY ElemsAreGrants DEF IInv, Known
    <2> QED BY <2>1 DEF IInv, GrantInv, HeldByItsParties,
                        KnownGrantsOnRecord, OnRecord, SameGrant
<1> QED BY <1>1, Invariance, PTL

(* A peer an agent would let in is one its owner's last choice accepted.   *)
LEMMA IInvAdmits == IInv => AdmittedOnlyByAcceptance
<1> SUFFICES ASSUME IInv, NEW a \in Agents, NEW b \in Agents, Admits(b, a)
             PROVE  standing[b][a] = "accepted"
    BY DEF AdmittedOnlyByAcceptance
<1>1. a # b /\ standing[b][a] # "blocked"
    BY DEF IInv, ContactInv, BlockHolds, NobodyMeetsItself, Admits
<1>2. standing[b][a] \notin {"none", "revoked"}
    BY <1>1 DEF IInv, GrantInv, OutsidersHoldNothing, Admits
<1>3. standing[b][a] \in Standings
    BY DEF IInv, TypeOK
<1> QED BY <1>1, <1>2, <1>3 DEF Standings

THEOREM AdmissionNeedsAcceptance == Spec => []AdmittedOnlyByAcceptance
BY IInvAdmits, Invariance, PTL

(* No step puts a message of a revoked or blocked peer into an inbox.      *)
THEOREM NoMailFromOutsiders == Spec => NoMailAfterRevocation
<1> DEFINE A == \A b \in Agents : \A e \in inbox'[b] \ inbox[b] :
                    standing[b][e.from] = "accepted"
<1>1. IInv /\ [Next]_vars => [A]_vars
    <2> SUFFICES ASSUME IInv, Next, NEW b \in Agents,
                        NEW e \in inbox'[b] \ inbox[b]
                 PROVE  standing[b][e.from] = "accepted"
        BY DEF vars
    <2>0. inbox' # inbox
        OBVIOUS
    <2>1. PICK m \in net : ReceivePrivilegedMessage(m)
        <3>1. ASSUME NEW x \in Agents, NEW y \in Agents, OwnerStep(x, y)
              PROVE  inbox' = inbox
            BY <3>1 DEF OwnerStep, RefreshContact, CreateFriendRequest,
                   AcceptFriend, ApproveRequest, AcceptEffect, RejectRequest,
                   Revoke, Block, SendPrivilegedMessage
        <3>2. PICK m \in net : ReceiveStep(m)
            BY <2>0, <3>1 DEF Next
        <3> QED BY <2>0, <3>2 DEF ReceiveStep, ReceiveFriendRequest,
                                  ApplyFriendResponse, Drop
    <2>2. /\ m.to = b /\ e.from = m.from
          /\ rel[b][m.from] = "friend" /\ HonouredGrant(b, m.from, m.capability)
        BY <2>1 DEF ReceivePrivilegedMessage, IInv, TypeOK
    <2>3. Admits(b, m.from) /\ m.from \in Agents
        BY <2>2, EnvelopeParts DEF Admits, HonouredGrant, IInv, TypeOK
    <2> QED BY <2>2, <2>3, IInvAdmits DEF AdmittedOnlyByAcceptance
<1> QED BY <1>1, Invariance, PTL DEF Spec, NoMailAfterRevocation

-----------------------------------------------------------------------------
(* FriendGraph implements Admission: every step changes the admission of   *)
(* at most one pair.                                                       *)

ActiveGrant(b, a) == \E g \in Elems(grants[b]) : g.active /\ g.subject = a

LEMMA AdmitsByGrant ==
    ASSUME NEW a \in Agents, NEW b \in Agents
    PROVE  /\ Admits(b, a) <=> rel[b][a] = "friend" /\ ActiveGrant(b, a)
           /\ Admits(b, a)' <=> rel'[b][a] = "friend" /\ ActiveGrant(b, a)'
BY DEF Admits, ActiveGrant

(* When only the pair <<a, b>> changes, the step is one of Admission's.    *)
LEMMA OnePairSteps ==
    ASSUME AdmittedOnlyByAcceptance, AdmittedOnlyByAcceptance',
           NEW a \in Agents, NEW b \in Agents, a # b,
           \A x, y \in Agents : x # y /\ ~ (x = a /\ y = b) =>
              /\ Admits(x, y)' <=> Admits(x, y)
              /\ standing'[x][y] = standing[x][y],
           standing'[a][b] = "accepted" /\ standing[a][b] # "accepted"
              => Admits(a, b)'
    PROVE  [Promise!Next]_(Promise!vars)
<1> DEFINE admitted == {p \in Pairs : Admits(p[1], p[2])}
           accepted == {p \in Pairs : standing[p[1]][p[2]] = "accepted"}
           q == <<a, b>>
<1>1. /\ q \in Pairs /\ q[1] = a /\ q[2] = b
      /\ \A p \in Pairs : /\ p[1] \in Agents /\ p[2] \in Agents /\ p[1] # p[2]
                          /\ p # q => ~ (p[1] = a /\ p[2] = b)
    BY DEF Pairs
<1>2. /\ \A p \in Pairs : p # q => (p \in admitted' <=> p \in admitted)
      /\ \A p \in Pairs : p # q => (p \in accepted' <=> p \in accepted)
    BY <1>1
<1>3. /\ q \in admitted => q \in accepted
      /\ q \in admitted' => q \in accepted'
      /\ q \in accepted' /\ q \notin accepted => q \in admitted'
    BY <1>1 DEF AdmittedOnlyByAcceptance
<1>4. /\ admitted \subseteq Pairs /\ admitted' \subseteq Pairs
      /\ accepted \subseteq Pairs /\ accepted' \subseteq Pairs
    OBVIOUS
<1>5. Promise!Next <=> \E x, y \in Agents :
            /\ x # y
            /\ \/ Promise!Accept(<<x, y>>) \/ Promise!Close(<<x, y>>)
               \/ Promise!Suspend(<<x, y>>) \/ Promise!Resume(<<x, y>>)
    BY DEF Promise!Next
<1>6. /\ Promise!Accept(q) <=> /\ accepted' = accepted \cup {q}
                               /\ admitted' = admitted \cup {q}
      /\ Promise!Close(q) <=> /\ accepted' = accepted \ {q}
                              /\ admitted' = admitted \ {q}
      /\ Promise!Suspend(q) <=> /\ admitted' = admitted \ {q}
                                /\ accepted' = accepted
      /\ Promise!Resume(q) <=> /\ q \in accepted
                               /\ admitted' = admitted \cup {q}
                               /\ accepted' = accepted
    BY DEF Promise!Accept, Promise!Close, Promise!Suspend, Promise!Resume
<1>7. Promise!vars' = Promise!vars <=>
            admitted' = admitted /\ accepted' = accepted
    BY DEF Promise!vars
<1> HIDE DEF admitted, accepted, q
<1>8. CASE q \in accepted' /\ q \notin accepted
    <2>1. Promise!Accept(q)
        BY <1>2, <1>3, <1>4, <1>6, <1>8
    <2> QED BY <1>5, <2>1 DEF q
<1>9. CASE q \in accepted /\ q \notin accepted'
    <2>1. Promise!Close(q)
        BY <1>2, <1>3, <1>4, <1>6, <1>9
    <2> QED BY <1>5, <2>1 DEF q
<1>10. CASE q \in accepted' <=> q \in accepted
    <2>1. accepted' = accepted
        <3>1. \A p \in Pairs : p \in accepted' <=> p \in accepted
            BY <1>2, <1>10
        <3> QED BY <1>4, <3>1
    <2>2. CASE q \in admitted' /\ q \notin admitted
        <3>1. Promise!Resume(q)
            BY <1>2, <1>3, <1>4, <1>6, <2>1, <2>2
        <3> QED BY <1>5, <3>1 DEF q
    <2>3. CASE q \in admitted /\ q \notin admitted'
        <3>1. Promise!Suspend(q)
            BY <1>2, <1>4, <1>6, <2>1, <2>3
        <3> QED BY <1>5, <3>1 DEF q
    <2>4. CASE q \in admitted' <=> q \in admitted
        BY <1>2, <1>4, <1>7, <2>1, <2>4
    <2> QED BY <2>2, <2>3, <2>4
<1> QED BY <1>8, <1>9, <1>10

(* Accepting b changes no admission but b's, and lets b in.                *)
LEMMA AcceptAdmits ==
    ASSUME IInv, NEW a \in Agents, NEW b \in Agents, a # b,
           AcceptEffect(a, b)
    PROVE  /\ \A x, y \in Agents : x # y /\ ~ (x = a /\ y = b) =>
                 /\ Admits(x, y)' <=> Admits(x, y)
                 /\ standing'[x][y] = standing[x][y]
           /\ Admits(a, b)'
<1> DEFINE g == [id |-> issued + 1, issuer |-> a, subject |-> b,
                 active |-> TRUE]
<1>1. /\ g \in Grant /\ g.id = issued + 1 /\ g.subject = b /\ g.active
      /\ grants' = [grants EXCEPT ![a] = StoreGrant(@, g)]
      /\ SetRel(a, b, "friend")
      /\ standing' = [standing EXCEPT ![a][b] = "accepted"]
    BY DEF AcceptEffect, Grant, IInv, TypeOK, Stand
<1> HIDE DEF g
<1>2. /\ \A x \in Agents : x # a => grants'[x] = grants[x]
      /\ grants'[a] = StoreGrant(grants[a], g)
    BY <1>1 DEF IInv, TypeOK
<1>3. \A h \in Elems(grants[a]) : h.id # g.id
    <2>1. \A h \in Elems(grants[a]) : h.id <= issued /\ h.id \in Nat
        BY ElemsAreGrants, GrantParts DEF IInv, GrantInv, IdsNameOneGrant, Known
    <2> QED BY <1>1, <2>1 DEF IInv, TypeOK
<1>4. \A h : h \in Elems(grants'[a]) <=> h = g \/ h \in Elems(grants[a])
    BY <1>1, <1>2, <1>3, ElemsAreGrants, StoreGrantElems DEF IInv
<1>5. \A x, y \in Agents : ~ (x = a /\ y = b) =>
          (ActiveGrant(x, y)' <=> ActiveGrant(x, y))
    BY <1>1, <1>2, <1>4 DEF ActiveGrant
<1>6. ActiveGrant(a, b)'
    BY <1>1, <1>4 DEF ActiveGrant
<1>7. \A x, y \in Agents :
          rel'[x][y] = IF x = a /\ y = b THEN "friend" ELSE rel[x][y]
    BY <1>1, SetRelAt DEF IInv
<1>8. \A x, y \in Agents :
          ~ (x = a /\ y = b) => standing'[x][y] = standing[x][y]
    BY <1>1 DEF IInv, TypeOK
<1> QED BY <1>5, <1>6, <1>7, <1>8, AdmitsByGrant

(* Revoking b does not touch what the other peers may do.                  *)
LEMMA RevokeAdmits ==
    ASSUME IInv, NEW a \in Agents, NEW b \in Agents, a # b, Revoke(a, b)
    PROVE  \A x, y \in Agents : x # y /\ ~ (x = a /\ y = b) =>
              /\ Admits(x, y)' <=> Admits(x, y)
              /\ standing'[x][y] = standing[x][y]
<1>1. /\ grants' = [grants EXCEPT ![a] = RevokeAllWith(@, b)]
      /\ SetRel(a, b, "revoked")
      /\ standing' = [standing EXCEPT ![a][b] = "revoked"]
    BY DEF Revoke, Stand
<1>2. /\ \A x \in Agents : x # a => grants'[x] = grants[x]
      /\ grants'[a] = RevokeAllWith(grants[a], b)
    BY <1>1 DEF IInv, TypeOK
<1>3. /\ \A h \in Elems(grants'[a]) : h.active => h \in Elems(grants[a])
      /\ \A k \in Elems(grants[a]) :
            b \notin {k.subject, k.issuer} => k \in Elems(grants'[a])
    BY <1>2, ElemsAreGrants, RevokeAllElems DEF IInv
<1>4. \A k \in Elems(grants[a]) : k.subject # a => k.issuer = a
    BY DEF IInv, GrantInv, HeldByItsParties
<1>5. \A x, y \in Agents : x # y /\ ~ (x = a /\ y = b) =>
          (ActiveGrant(x, y)' <=> ActiveGrant(x, y))
    BY <1>2, <1>3, <1>4 DEF ActiveGrant
<1>6. \A x, y \in Agents :
          rel'[x][y] = IF x = a /\ y = b THEN "revoked" ELSE rel[x][y]
    BY <1>1, SetRelAt DEF IInv
<1>7. \A x, y \in Agents :
          ~ (x = a /\ y = b) => standing'[x][y] = standing[x][y]
    BY <1>1 DEF IInv, TypeOK
<1> QED BY <1>5, <1>6, <1>7, AdmitsByGrant

(* A grant that arrives admits nobody: its recipient is its subject.       *)
LEMMA ResponseAdmits ==
    ASSUME IInv, NEW m \in net, ApplyFriendResponse(m)
    PROVE  \A x, y \in Agents :
              x # y => (ActiveGrant(x, y)' <=> ActiveGrant(x, y))
<1>1. CASE grants' = grants
    BY <1>1 DEF ActiveGrant
<1>2. CASE grants' # grants
    <2> DEFINE b == m.to
               g == m.grant
    <2>1. /\ Accepts(m)
          /\ grants' = [grants EXCEPT ![b] = StoreGrant(@, g)]
        BY <1>2 DEF ApplyFriendResponse, Accepts
    <2>2. b \in Agents /\ g \in Grant /\ g.subject = b /\ Known(g)
        BY <2>1, EnvelopeParts
        DEF IInv, TypeOK, GrantInv, ResponsesCarryGrants, Known
    <2> HIDE DEF b, g
    <2>3. /\ \A x \in Agents : x # b => grants'[x] = grants[x]
          /\ grants'[b] = StoreGrant(grants[b], g)
        BY <2>1, <2>2 DEF IInv, TypeOK
    <2>4. \A h \in Elems(grants[b]) : h.id = g.id => h.subject = b
        BY <2>2, ElemsAreGrants
        DEF IInv, GrantInv, IdsNameOneGrant, SameGrant, Known
    <2>5. /\ \A h \in Elems(grants'[b]) : h = g \/ h \in Elems(grants[b])
          /\ \A h \in Elems(grants[b]) : h.id # g.id => h \in Elems(grants'[b])
        BY <2>2, <2>3, ElemsAreGrants, StoreGrantElems DEF IInv
    <2> QED BY <2>2, <2>3, <2>4, <2>5 DEF ActiveGrant
<1> QED BY <1>1, <1>2

(* Every step of an owner is a step of Admission.                          *)
LEMMA OwnerStepAdmits ==
    ASSUME IInv, AdmittedOnlyByAcceptance, AdmittedOnlyByAcceptance',
           NEW a \in Agents, NEW b \in Agents, a # b, OwnerStep(a, b)
    PROVE  [Promise!Next]_(Promise!vars)
<1>1. ASSUME UNCHANGED <<grants, standing>>, NEW state,
             SetRel(a, b, state)
      PROVE  [Promise!Next]_(Promise!vars)
    <2>1. \A x, y \in Agents : ActiveGrant(x, y)' <=> ActiveGrant(x, y)
        BY <1>1 DEF ActiveGrant
    <2>2. \A x, y \in Agents : ~ (x = a /\ y = b) => rel'[x][y] = rel[x][y]
        BY <1>1, SetRelAt DEF IInv
    <2>3. \A x, y \in Agents :
              ~ (x = a /\ y = b) => (Admits(x, y)' <=> Admits(x, y))
        BY <2>1, <2>2, AdmitsByGrant
    <2> QED BY <1>1, <2>3, OnePairSteps
<1>2. ASSUME UNCHANGED <<grants, standing, rel>>
      PROVE  [Promise!Next]_(Promise!vars)
    <2>1. \A x, y \in Agents : Admits(x, y)' <=> Admits(x, y)
        BY <1>2 DEF Admits
    <2> QED BY <1>2, <2>1, OnePairSteps
<1>3. CASE RefreshContact(a, b)
    BY <1>1, <1>3 DEF RefreshContact
<1>4. ASSUME NEW code \in BOOLEAN, CreateFriendRequest(a, b, code)
      PROVE  [Promise!Next]_(Promise!vars)
    BY <1>1, <1>4 DEF CreateFriendRequest
<1>5. CASE AcceptFriend(a, b) \/ ApproveRequest(a, b)
    <2>1. AcceptEffect(a, b)
        BY <1>5 DEF AcceptFriend, ApproveRequest
    <2> QED BY <2>1, AcceptAdmits, OnePairSteps
<1>6. CASE RejectRequest(a, b)
    BY <1>1, <1>2, <1>6 DEF RejectRequest
<1>7. CASE Revoke(a, b)
    <2>1. standing'[a][b] = "revoked"
        BY <1>7 DEF Revoke, Stand, IInv, TypeOK
    <2> QED BY <1>7, <2>1, RevokeAdmits, OnePairSteps
<1>8. CASE Block(a, b)
    <2>1. /\ \A x, y \in Agents :
                ~ (x = a /\ y = b) => standing'[x][y] = standing[x][y]
          /\ standing'[a][b] = "blocked"
        BY <1>8 DEF Block, Stand, IInv, TypeOK
    <2>2. \A x, y \in Agents : ActiveGrant(x, y)' <=> ActiveGrant(x, y)
        BY <1>8 DEF Block, ActiveGrant
    <2>3. \A x, y \in Agents : ~ (x = a /\ y = b) => rel'[x][y] = rel[x][y]
        BY <1>8, SetRelAt DEF Block, IInv
    <2>4. \A x, y \in Agents : x # y /\ ~ (x = a /\ y = b) =>
              (Admits(x, y)' <=> Admits(x, y))
        BY <2>2, <2>3, AdmitsByGrant
    <2> QED BY <2>1, <2>4, OnePairSteps
<1>9. CASE SendPrivilegedMessage(a, b)
    BY <1>2, <1>9 DEF SendPrivilegedMessage
<1> QED BY <1>3, <1>4, <1>5, <1>6, <1>7, <1>8, <1>9 DEF OwnerStep

(* So is every arrival of an envelope.                                     *)
LEMMA ReceiveStepAdmits ==
    ASSUME IInv, AdmittedOnlyByAcceptance, AdmittedOnlyByAcceptance',
           NEW m \in net, ReceiveStep(m)
    PROVE  [Promise!Next]_(Promise!vars)
<1> DEFINE b == m.to
           a == m.from
<1>1. a \in Agents /\ b \in Agents /\ a # b
    BY EnvelopeParts DEF IInv, TypeOK, ContactInv, NobodyMeetsItself
<1>2. /\ UNCHANGED standing
      /\ rel' = rel \/ \E state \in States : SetRel(b, a, state)
    BY DEF ReceiveStep, ReceiveFriendRequest, ApplyFriendResponse,
           ReceivePrivilegedMessage, Drop, States
<1>3. \A x, y \in Agents : x # y => (ActiveGrant(x, y)' <=> ActiveGrant(x, y))
    <2>1. CASE ApplyFriendResponse(m)
        BY <2>1, ResponseAdmits
    <2>2. CASE ~ ApplyFriendResponse(m)
        <3>1. grants' = grants
            BY <2>2 DEF ReceiveStep, ReceiveFriendRequest,
                        ReceivePrivilegedMessage, Drop
        <3> QED BY <3>1 DEF ActiveGrant
    <2> QED BY <2>1, <2>2
<1> HIDE DEF a, b
<1>4. \A x, y \in Agents : ~ (x = b /\ y = a) => rel'[x][y] = rel[x][y]
    BY <1>1, <1>2, SetRelAt DEF IInv
<1>5. \A x, y \in Agents : x # y /\ ~ (x = b /\ y = a) =>
          (Admits(x, y)' <=> Admits(x, y))
    BY <1>3, <1>4, AdmitsByGrant
<1> QED BY <1>1, <1>2, <1>5, OnePairSteps

(* FriendGraph implements Admission: an owner decides who is accepted, and *)
(* only accepted peers are ever admitted.                                  *)
THEOREM Refinement == Spec => AdmissionSpec
<1>1. Init => Promise!Init
    BY DEF Init, Promise!Init, Admits, Pairs
<1>2. /\ IInv /\ IInv' /\ AdmittedOnlyByAcceptance
      /\ AdmittedOnlyByAcceptance' /\ [Next]_vars
      => [Promise!Next]_(Promise!vars)
    <2> SUFFICES ASSUME IInv, AdmittedOnlyByAcceptance,
                        AdmittedOnlyByAcceptance', [Next]_vars
                 PROVE  [Promise!Next]_(Promise!vars)
        OBVIOUS
    <2>1. CASE UNCHANGED vars
        BY <2>1 DEF vars, Promise!vars, Admits
    <2>2. CASE Next
        BY <2>2, OwnerStepAdmits, ReceiveStepAdmits DEF Next
    <2> QED BY <2>1, <2>2
<1> QED BY <1>1, <1>2, Invariance, AdmissionNeedsAcceptance, PTL
        DEF Spec, AdmissionSpec, Promise!Spec

-----------------------------------------------------------------------------
(* One home, one handler at a time (ContactFile): each handler reads a file,*)
(* changes the copy and writes it back, and a crash may cut it in between. *)
(* What a handler has still to do explains what the files do not say yet:  *)
(* HomeInv ties the rest of each program to the files it has written.      *)


HomeStates == {"absent", "request_sent", "request_received", "friend",
               "rejected", "revoked", "blocked"}
Works == {"check", "refuse", "expect", "present", "dedupe", "upsert", "set",
          "touch", "issue", "store", "deactivate", "create", "save", "resolve"}
Ops == [do : Works, to : HomeStates \cup {"none"}]
ByOwner == {"revoked", "blocked"}

(* What follows what in a handler.                                         *)
Then(t, i, do) == i < Len(t) /\ t[i + 1].do = do
LinkedAt(t, i) ==
    /\ t[i].do \in {"upsert", "set"} => t[i].to # "none"
    /\ t[i].do = "upsert" => t[i].to # "blocked" /\ Then(t, i, "set")
    /\ t[i].do = "check" => Then(t, i, "set")
    /\ t[i].do = "set" /\ t[i].to = "revoked" => Then(t, i, "deactivate")
    /\ t[i].do = "set" /\ t[i].to = "request_received" => Then(t, i, "dedupe")
    /\ t[i].do = "set" /\ t[i].to \notin ByOwner \cup {"friend"} =>
          \A j \in 1..Len(t) : j > i => t[j].do # "issue"
    /\ t[i].do = "dedupe" => Then(t, i, "create")
    /\ t[i].do = "create" => Then(t, i, "save")
    /\ t[i].do = "save" => i = Len(t)
    /\ t[i].do = "resolve" => Then(t, i, "check")
    /\ Then(t, i, "issue") => t[i].do = "set" /\ t[i].to = "friend"
    /\ Then(t, i, "save") => t[i].do = "create"
    /\ Then(t, i, "set") =>
          t[i + 1].to \in ByOwner \/ t[i].do \in {"upsert", "check"}
Linked(t) == t \in Seq(Ops) /\ \A i \in 1..Len(t) : LinkedAt(t, i)

(* Which operations begin a handler.                                       *)
Opens(op) ==
    /\ op.do \notin {"issue", "save"}
    /\ op.do = "set" => op.to \in ByOwner

HomeGrant == [id : Nat, peer : Peers, active : BOOLEAN, mine : BOOLEAN]
Approval == [id : Nat, peer : Peers, status : {"pending", "resolved"}]
Copies == [Peers -> HomeStates] \cup SUBSET HomeGrant \cup SUBSET Approval

StoresTyped ==
    /\ contacts \in [Peers -> HomeStates]
    /\ homeGrants \subseteq HomeGrant
    /\ approvals \subseteq Approval
    /\ runs \in Nat
    /\ homeStanding \in [Peers -> {"none", "friend", "revoked", "blocked"}]

JobTyped(s) ==
    /\ DOMAIN job[s] = {"peer", "about", "id", "todo", "held", "copy"}
    /\ job[s].about \in Nat /\ job[s].id \in Nat /\ job[s].held \in BOOLEAN
    /\ Linked(job[s].todo)
    /\ Busy(s) => Head(job[s].todo) \in Ops /\ job[s].peer \in Peers /\ job[s].id <= runs
    /\ ~Busy(s) => ~job[s].held

HomeTypeOK ==
    /\ StoresTyped
    /\ DOMAIN job = slots
    /\ \A s \in slots : JobTyped(s)

Doing(s, do) == At(s, do)

(* The copy a handler holds is the file, and what it found in it holds.    *)
CopyIsFile(s) ==
    /\ job[s].held =>
          /\ Head1(s).do \in Writing \cup {"save"}
          /\ FileOf(Head1(s).do) = "contacts" => job[s].copy = contacts
          /\ FileOf(Head1(s).do) = "grants" => job[s].copy = homeGrants
          /\ FileOf(Head1(s).do) = "approvals" => job[s].copy = approvals
          /\ ~Throws(s)
    /\ Doing(s, "save") => job[s].held

(* What the operations that were done have left behind.                    *)
OnCourse(s) ==
    LET p == job[s].peer IN
    /\ Doing(s, "set") /\ Head1(s).to \notin ByOwner => contacts[p] # "blocked"
    /\ Doing(s, "issue") => homeStanding[p] = "friend"
    /\ Busy(s) /\ ~Doing(s, "save") => \A a \in approvals : a.id # job[s].id

BeingRevoked(p) == \E s \in slots : job[s].peer = p /\ Doing(s, "deactivate")
RevokedHoldNothing ==
    \A g \in homeGrants :
        g.mine /\ g.active =>
            \/ homeStanding[g.peer] \in {"friend", "blocked"}
            \/ <<g.peer, "deactivate">> \in cut
            \/ BeingRevoked(g.peer)

BeingAnswered(p) ==
    \E s \in slots : /\ job[s].peer = p
                     /\ \/ Doing(s, "check") \/ Doing(s, "set")
                        \/ Doing(s, "dedupe") \/ Doing(s, "create")
RequestsWait ==
    \A p \in Peers :
        contacts[p] = "request_received" =>
            \/ Pending(approvals, p) # {}
            \/ <<p, "create">> \in cut \/ <<p, "set">> \in cut
            \/ BeingAnswered(p)

ApprovalsResolve ==
    /\ \A a, b \in approvals : a.id = b.id => a = b
    /\ \A a \in approvals : a.id <= runs

HomeInv ==
    /\ HomeTypeOK
    /\ \A s \in slots : CopyIsFile(s) /\ OnCourse(s)
    /\ BlockSurvives
    /\ RevokedHoldNothing
    /\ RequestsWait
    /\ ApprovalsResolve

-----------------------------------------------------------------------------
Leads(t, do) == t # <<>> /\ Head(t).do = do
Next2(op, rest) ==
    /\ op.do \in {"upsert", "set"} => op.to # "none"
    /\ op.do = "upsert" => op.to # "blocked" /\ Leads(rest, "set")
    /\ op.do = "check" => Leads(rest, "set")
    /\ op.do = "set" /\ op.to = "revoked" => Leads(rest, "deactivate")
    /\ op.do = "set" /\ op.to = "request_received" => Leads(rest, "dedupe")
    /\ op.do = "dedupe" => Leads(rest, "create")
    /\ op.do = "create" => Leads(rest, "save")
    /\ op.do = "save" => rest = <<>>
    /\ op.do = "resolve" => Leads(rest, "check")
    /\ Leads(rest, "issue") => op.do = "set" /\ op.to = "friend"
    /\ Leads(rest, "save") => op.do = "create"
    /\ Leads(rest, "set") =>
          Head(rest).to \in ByOwner \/ op.do \in {"upsert", "check"}

LEMMA LinkedTail ==
    ASSUME NEW t, Linked(t), t # <<>>
    PROVE  /\ Head(t) \in Ops
           /\ Linked(Tail(t))
           /\ Next2(Head(t), Tail(t))
<1> DEFINE rest == Tail(t)
<1>1. /\ t \in Seq(Ops) /\ Len(t) \in Nat /\ Len(t) >= 1
      /\ rest \in Seq(Ops) /\ Len(rest) = Len(t) - 1
      /\ Head(t) = t[1] /\ Head(t) \in Ops
    BY DEF Linked
<1>2. \A i \in 1..Len(rest) : rest[i] = t[i + 1] /\ i + 1 \in 1..Len(t)
    BY <1>1
<1> HIDE DEF rest
<1>3. ASSUME NEW i \in 1..Len(rest)
      PROVE  LinkedAt(rest, i)
  <2>1. LinkedAt(t, i + 1) /\ rest[i] = t[i + 1] /\ i \in Nat
    BY <1>1, <1>2 DEF Linked
  <2>2. \A do : Then(rest, i, do) <=> Then(t, i + 1, do)
    BY <1>1, <1>2 DEF Then
  <2>3. i < Len(rest) => rest[i + 1] = t[i + 2]
    BY <1>1, <1>2
  <2>4. Then(t, i + 1, "set") => i < Len(rest) /\ t[i + 1 + 1] = rest[i + 1]
    BY <1>1, <2>3 DEF Then
  <2>5. ASSUME rest[i].do = "set", rest[i].to \notin ByOwner \cup {"friend"},
               NEW j \in 1..Len(rest), j > i
        PROVE  rest[j].do # "issue"
    <3>1. j + 1 \in 1..Len(t) /\ j + 1 > i + 1 /\ rest[j] = t[j + 1]
      BY <1>1, <1>2, <2>5
    <3> QED
      BY <2>1, <2>5, <3>1 DEF LinkedAt
  <2>6. rest[i].do = "save" => i = Len(rest)
    <3>1. t[i + 1].do = "save" => i + 1 = Len(t)
      BY <2>1 DEF LinkedAt
    <3> QED
      BY <1>1, <2>1, <3>1
  <2>7. Then(rest, i, "set") =>
           rest[i + 1].to \in ByOwner \/ rest[i].do \in {"upsert", "check"}
    BY <2>1, <2>2, <2>4 DEF LinkedAt
  <2> QED
    BY <2>1, <2>2, <2>5, <2>6, <2>7 DEF LinkedAt
<1>4. /\ rest # <<>> <=> Len(t) > 1
      /\ rest # <<>> => Head(rest) = t[2]
  <2>1. rest = <<>> <=> Len(rest) = 0
    BY <1>1
  <2>2. Len(t) > 1 => Head(rest) = t[2]
    BY <1>1, <1>2
  <2> QED
    BY <1>1, <2>1, <2>2
<1>5. \A do : Leads(rest, do) <=> Then(t, 1, do)
    BY <1>1, <1>4 DEF Leads, Then
<1>7. LinkedAt(t, 1)
    BY <1>1 DEF Linked
<1>8. Head(t).do = "save" => rest = <<>>
    BY <1>1, <1>4, <1>7 DEF LinkedAt
<1>9. Leads(rest, "set") =>
          Head(rest).to \in ByOwner \/ Head(t).do \in {"upsert", "check"}
    BY <1>1, <1>4, <1>5, <1>7 DEF LinkedAt, Leads
<1>6. Next2(Head(t), rest)
    BY <1>1, <1>5, <1>7, <1>8, <1>9 DEF LinkedAt, Next2
<1>10. Linked(rest)
    BY <1>1, <1>3 DEF Linked
<1> QED
    BY <1>1, <1>10, <1>6 DEF rest

LEMMA ProgramsLinked ==
    ASSUME NEW h \in DOMAIN Programs
    PROVE  /\ Linked(Programs[h])
           /\ Programs[h] # <<>>
           /\ Opens(Head(Programs[h]))
<1> USE DEF Op, Do, Ops, Works, HomeStates, ByOwner, Opens, Then
<1>1. CASE h = "createFriendRequest"
    BY <1>1 DEF Programs, Linked, LinkedAt
<1>2. CASE h = "receiveFriendRequest"
    BY <1>2 DEF Programs, Linked, LinkedAt
<1>3. CASE h = "applyAcceptance"
    BY <1>3 DEF Programs, Linked, LinkedAt
<1>4. CASE h = "approve"
    BY <1>4 DEF Programs, Linked, LinkedAt, Accepting
<1>5. CASE h = "applyRejection"
    BY <1>5 DEF Programs, Linked, LinkedAt
<1>6. CASE h = "acceptFriend"
    BY <1>6 DEF Programs, Linked, LinkedAt, Accepting
<1>7. CASE h = "decline"
    BY <1>7 DEF Programs, Linked, LinkedAt, Rejecting
<1>8. CASE h = "revoke"
    BY <1>8 DEF Programs, Linked, LinkedAt, Revoking
<1>9. CASE h = "block"
    BY <1>9 DEF Programs, Linked, LinkedAt
<1>10. CASE h = "reportPeer"
    BY <1>10 DEF Programs, Linked, LinkedAt, Reporting
<1>11. CASE h = "receiveProfileShare"
    BY <1>11 DEF Programs, Linked, LinkedAt, ReceivingProfile
<1>12. CASE h = "markFriendRequestNotified"
    BY <1>12 DEF Programs, Linked, LinkedAt
<1> QED
    BY <1>1, <1>2, <1>3, <1>4, <1>5, <1>6, <1>7, <1>8, <1>9, <1>10, <1>11, <1>12
       DEF Programs
-----------------------------------------------------------------------------
(* Steps of a handler                                                       *)

LEMMA Files ==
    ASSUME NEW do
    PROVE  /\ FileOf(do) = "grants" <=> do \in {"issue", "store", "deactivate"}
           /\ FileOf(do) = "approvals" <=> do \in {"dedupe", "create", "save", "resolve"}
           /\ FileOf(do) \in {"grants", "approvals", "contacts"}
    BY DEF FileOf

LEMMA SlotFinishes ==
    ASSUME DOMAIN job = slots, NEW s \in slots, Finish(s)
    PROVE  /\ DOMAIN job' = slots
           /\ job'[s] = Idle
           /\ JobTyped(s)' /\ ~Busy(s)' /\ ~job'[s].held
           /\ \A t \in slots : t # s => job'[t] = job[t]
<1>1. /\ DOMAIN job' = slots /\ job'[s] = Idle
      /\ \A t \in slots : t # s => job'[t] = job[t]
    BY DEF Finish
<1>2. Linked(<<>>)
    BY DEF Linked
<1> QED
    BY <1>1, <1>2 DEF JobTyped, Idle, Busy

LEMMA SlotProceeds ==
    ASSUME DOMAIN job = slots, NEW s \in slots, JobTyped(s), Busy(s),
           Proceed(s), runs' = runs
    PROVE  /\ DOMAIN job' = slots
           /\ JobTyped(s)'
           /\ ~job'[s].held
           /\ job'[s].todo = Tail(job[s].todo)
           /\ Busy(s)' => /\ job'[s].peer = job[s].peer
                          /\ job'[s].id = job[s].id
                          /\ job'[s].about = job[s].about
           /\ Next2(Head1(s), job'[s].todo)
           /\ \A t \in slots : t # s => job'[t] = job[t]
<1> DEFINE rest == Tail(job[s].todo)
<1>1. Linked(rest) /\ Next2(Head1(s), rest)
    BY LinkedTail DEF JobTyped, Busy, Head1
<1>2. CASE rest = <<>>
  <2>1. Finish(s)
    BY <1>2 DEF Proceed
  <2>2. /\ DOMAIN job' = slots /\ JobTyped(s)' /\ ~job'[s].held
        /\ ~Busy(s)' /\ job'[s] = Idle
        /\ \A t \in slots : t # s => job'[t] = job[t]
    BY <2>1, SlotFinishes
  <2>3. job'[s].todo = rest
    BY <1>2, <2>2 DEF Idle
  <2> QED
    BY <1>1, <2>2, <2>3
<1>3. CASE rest # <<>>
  <2>1. job' = [job EXCEPT ![s].todo = rest, ![s].held = FALSE, ![s].copy = {}]
    BY <1>3 DEF Proceed
  <2> HIDE DEF rest
  <2>2. /\ DOMAIN job' = slots
        /\ DOMAIN job'[s] = DOMAIN job[s]
        /\ job'[s].todo = rest /\ job'[s].held = FALSE
        /\ job'[s].peer = job[s].peer /\ job'[s].id = job[s].id
        /\ job'[s].about = job[s].about
        /\ \A t \in slots : t # s => job'[t] = job[t]
    BY <2>1 DEF JobTyped
  <2>3. Head(rest) \in Ops
    BY <1>1, <1>3, LinkedTail
  <2>4. JobTyped(s)'
    BY <1>1, <1>3, <2>2, <2>3 DEF JobTyped, Busy
  <2> QED
    BY <1>1, <2>2, <2>4 DEF rest
<1> QED
    BY <1>2, <1>3

LEMMA FinishEffect ==
    ASSUME OneAtATime, HomeTypeOK, NEW s \in slots, Finish(s)
    PROVE  /\ DOMAIN job' = slots
           /\ job'[s] = Idle
           /\ JobTyped(s)'
           /\ \A t \in slots : ~Busy(t)' /\ ~job'[t].held
<1>1. DOMAIN job = slots /\ \A t \in slots : t = s
    BY DEF HomeTypeOK, OneAtATime
<1> QED
    BY <1>1, SlotFinishes

LEMMA ProceedEffect ==
    ASSUME OneAtATime, HomeTypeOK, NEW s \in slots, Busy(s), Proceed(s),
           runs' = runs
    PROVE  /\ DOMAIN job' = slots
           /\ JobTyped(s)'
           /\ ~job'[s].held
           /\ job'[s].todo = Tail(job[s].todo)
           /\ Busy(s)' => /\ job'[s].peer = job[s].peer
                          /\ job'[s].id = job[s].id
                          /\ job'[s].about = job[s].about
           /\ Next2(Head1(s), job'[s].todo)
    BY SlotProceeds DEF HomeTypeOK

(* What a step that changes no file must show.                              *)
LEMMA LeavingStep ==
    ASSUME OneAtATime, HomeInv, UNCHANGED slots, NEW s \in slots,
           UNCHANGED <<contacts, homeGrants, approvals, homeStanding, cut, runs>>,
           DOMAIN job' = slots, JobTyped(s)', CopyIsFile(s)', OnCourse(s)',
           \A p : BeingRevoked(p) => BeingRevoked(p)',
           \A p : BeingAnswered(p) /\ contacts[p] = "request_received" =>
                     BeingAnswered(p)' \/ Pending(approvals, p) # {}
    PROVE  HomeInv'
<1>1. \A t \in slots : t = s
    BY DEF OneAtATime
<1>2. HomeTypeOK'
    BY <1>1 DEF HomeInv, HomeTypeOK, StoresTyped
<1>3. BlockSurvives' /\ ApprovalsResolve'
    BY DEF HomeInv, BlockSurvives, ApprovalsResolve
<1>5. RevokedHoldNothing'
    BY DEF HomeInv, RevokedHoldNothing
<1>7. RequestsWait'
    BY DEF HomeInv, RequestsWait, Pending
<1> QED
    BY <1>1, <1>2, <1>3, <1>5, <1>7 DEF HomeInv

LEMMA StartStep ==
    ASSUME OneAtATime, HomeInv, UNCHANGED slots, NEW s \in slots, NEW p \in Peers,
           NEW h \in DOMAIN Programs, NEW about \in Nat,
           Start(s, p, h, about)
    PROVE  HomeInv'
<1> DEFINE program == Programs[h]
<1>1. /\ Linked(program) /\ program # <<>> /\ Opens(Head(program))
      /\ Head(program) \in Ops
    BY ProgramsLinked, LinkedTail
<1>2. /\ DOMAIN job = slots /\ JobTyped(s) /\ runs \in Nat
      /\ \A t \in slots : t = s
    BY DEF HomeInv, HomeTypeOK, StoresTyped, OneAtATime
<1> HIDE DEF program
<1>3. /\ job' = [job EXCEPT ![s] = [Idle EXCEPT !.peer = p, !.about = about,
                                        !.id = runs + 1, !.todo = program]]
      /\ runs' = runs + 1 /\ ~Busy(s)
      /\ UNCHANGED <<contacts, homeGrants, approvals, homeStanding, cut>>
    BY DEF Start, disk, history, program
<1>4. /\ DOMAIN job' = slots
      /\ DOMAIN job'[s] = {"peer", "about", "id", "todo", "held", "copy"}
      /\ job'[s].todo = program /\ ~job'[s].held /\ job'[s].held \in BOOLEAN
      /\ job'[s].peer = p /\ job'[s].about = about /\ job'[s].id = runs + 1
    BY <1>2, <1>3 DEF Idle
<1>5. JobTyped(s)'
    BY <1>1, <1>2, <1>3, <1>4 DEF JobTyped, Busy
<1>6. CopyIsFile(s)' /\ OnCourse(s)'
  <2>1. ~Doing(s, "issue")' /\ ~Doing(s, "save")'
    BY <1>1, <1>4 DEF Doing, At, Head1, Opens
  <2>2. \A a \in approvals' : a.id # job'[s].id
    BY <1>2, <1>3, <1>4 DEF HomeInv, HomeTypeOK, StoresTyped, Approval, ApprovalsResolve
  <2>3. Doing(s, "set")' => Head1(s)'.to \in ByOwner
    BY <1>1, <1>4 DEF Doing, At, Head1, Opens
  <2> QED
    BY <1>4, <2>1, <2>2, <2>3 DEF CopyIsFile, OnCourse, Doing
<1>7. HomeTypeOK'
    BY <1>2, <1>3, <1>4, <1>5 DEF HomeInv, HomeTypeOK, StoresTyped
<1>8. BlockSurvives'
    BY <1>3 DEF HomeInv, BlockSurvives
<1>9. ApprovalsResolve'
    BY <1>2, <1>3 DEF HomeInv, HomeTypeOK, StoresTyped, Approval, ApprovalsResolve
<1>10. \A q : ~BeingRevoked(q) /\ ~BeingAnswered(q)
    BY <1>2, <1>3 DEF BeingRevoked, BeingAnswered, Doing, At
<1>11. RevokedHoldNothing' /\ RequestsWait'
    BY <1>3, <1>10 DEF HomeInv, RevokedHoldNothing, RequestsWait, Pending
<1> QED
    BY <1>2, <1>6, <1>7, <1>8, <1>9, <1>11 DEF HomeInv

LEMMA CheckStep ==
    ASSUME OneAtATime, HomeInv, UNCHANGED slots, NEW s \in slots, Check(s)
    PROVE  HomeInv'
<1> DEFINE p == job[s].peer
           op == Head1(s)
<1>1. /\ Busy(s) /\ HomeTypeOK
      /\ op.do \in {"check", "refuse", "expect", "present", "dedupe"}
      /\ UNCHANGED <<contacts, homeGrants, approvals, homeStanding, cut, runs>>
      /\ \A t \in slots : t = s
    BY DEF Check, At, disk, history, HomeInv, OneAtATime
<1>2. /\ ~Doing(s, "set") /\ ~Doing(s, "create")
      /\ \A q : ~BeingRevoked(q)
    BY <1>1 DEF BeingRevoked, Doing, At
<1>3. CASE Passes(s) /\ Proceed(s)
  <2>1. /\ DOMAIN job' = slots /\ JobTyped(s)' /\ ~job'[s].held
        /\ Busy(s)' => job'[s].peer = p /\ job'[s].id = job[s].id
        /\ Next2(op, job'[s].todo)
    BY <1>1, <1>3, ProceedEffect
  <2>2. \A do : Doing(s, do)' <=> Leads(job'[s].todo, do)
    BY DEF Doing, At, Busy, Head1, Leads
  <2>3. ~Doing(s, "save")' /\ ~Doing(s, "issue")'
    BY <1>1, <2>1, <2>2 DEF Next2
  <2>4. op.do = "check" => contacts[p] # "blocked"
    BY <1>3 DEF Passes
  <2>5. Doing(s, "set")' /\ Head1(s)'.to \notin ByOwner => op.do = "check"
    BY <1>1, <2>1, <2>2 DEF Next2, Head1
  <2>6. CopyIsFile(s)' /\ OnCourse(s)'
    <3>1. \A a \in approvals : a.id # job[s].id
      BY <1>1 DEF HomeInv, OnCourse, Doing, At
    <3>2. Doing(s, "set")' => Busy(s)'
      BY DEF Doing, At
    <3>3. CopyIsFile(s)'
      BY <2>1, <2>3 DEF CopyIsFile
    <3> QED
      BY <1>1, <2>1, <2>3, <2>4, <2>5, <3>1, <3>2, <3>3 DEF OnCourse
  <2>7. ASSUME NEW q, BeingAnswered(q)
        PROVE  BeingAnswered(q)'
    <3>1. q = p /\ op.do \in {"check", "dedupe"}
      BY <1>1, <1>2, <2>7 DEF BeingAnswered, Doing, At
    <3>2. Doing(s, "set")' \/ Doing(s, "create")'
      BY <2>1, <2>2, <3>1 DEF Next2
    <3>3. job'[s].peer = p
      BY <2>1, <3>2 DEF Doing, At
    <3> QED
      BY <3>1, <3>2, <3>3 DEF BeingAnswered
  <2> QED
    BY <1>1, <1>2, <2>1, <2>6, <2>7, LeavingStep
<1>4. CASE ~Passes(s) /\ Finish(s)
  <2>1. /\ DOMAIN job' = slots /\ JobTyped(s)' /\ ~job'[s].held /\ ~Busy(s)'
    BY <1>1, <1>4, FinishEffect
  <2>2. CopyIsFile(s)' /\ OnCourse(s)'
    BY <2>1 DEF CopyIsFile, OnCourse, Doing, At
  <2>3. ASSUME NEW q, BeingAnswered(q), contacts[q] = "request_received"
        PROVE  Pending(approvals, q) # {}
    <3>1. q = p /\ op.do \in {"check", "dedupe"}
      BY <1>1, <1>2, <2>3 DEF BeingAnswered, Doing, At
    <3> QED
      BY <1>4, <2>3, <3>1 DEF Passes, AlreadyPending
  <2> QED
    BY <1>1, <1>2, <2>1, <2>2, <2>3, LeavingStep
<1> QED
    BY <1>3, <1>4 DEF Check

LEMMA ReadStep ==
    ASSUME OneAtATime, HomeInv, UNCHANGED slots, NEW s \in slots, Read(s)
    PROVE  HomeInv'
<1> DEFINE p == job[s].peer
           op == Head1(s)
<1>1. /\ Busy(s) /\ HomeTypeOK /\ op.do \in Writing
      /\ UNCHANGED <<contacts, homeGrants, approvals, homeStanding, cut, runs>>
      /\ \A t \in slots : t = s
    BY DEF Read, At, disk, history, HomeInv, OneAtATime
<1>2. CASE Throws(s) /\ Finish(s)
  <2>1. /\ DOMAIN job' = slots /\ JobTyped(s)' /\ ~job'[s].held /\ ~Busy(s)'
    BY <1>1, <1>2, FinishEffect
  <2>2. CopyIsFile(s)' /\ OnCourse(s)'
    BY <2>1 DEF CopyIsFile, OnCourse, Doing, At
  <2>3. op.do \in {"upsert", "resolve"} \/ (op.do = "set" /\ contacts[p] = "absent")
    BY <1>2 DEF Throws, Blocked, Unknown, Resolved, At
  <2>4. ASSUME NEW q, BeingAnswered(q), contacts[q] = "request_received"
        PROVE  FALSE
    BY <1>1, <2>3, <2>4 DEF BeingAnswered, Doing, At
  <2>5. \A q : ~BeingRevoked(q)
    BY <1>1, <2>3 DEF BeingRevoked, Doing, At
  <2> QED
    BY <1>1, <2>1, <2>2, <2>4, <2>5, LeavingStep
<1>3. ASSUME ~Throws(s), NEW content, Hold(s, content),
             FileOf(op.do) = "contacts" => content = contacts,
             FileOf(op.do) = "grants" => content = homeGrants,
             FileOf(op.do) = "approvals" => content = approvals
      PROVE  HomeInv'
  <2>1. JobTyped(s) /\ DOMAIN job = slots
    BY <1>1 DEF HomeTypeOK
  <2>2. /\ DOMAIN job' = slots /\ DOMAIN job'[s] = DOMAIN job[s]
        /\ job'[s].held = TRUE /\ job'[s].copy = content
        /\ job'[s].todo = job[s].todo /\ job'[s].peer = job[s].peer
        /\ job'[s].id = job[s].id /\ job'[s].about = job[s].about
    BY <1>3, <2>1 DEF Hold, JobTyped
  <2>3. JobTyped(s)'
    BY <1>1, <2>1, <2>2 DEF JobTyped, Busy
  <2>4. Head1(s)' = op /\ \A do : Doing(s, do)' <=> Doing(s, do)
    BY <2>2 DEF Head1, Doing, At, Busy
  <2>5. ~Throws(s)'
    BY <1>1, <1>3, <2>2
       DEF Throws, Blocked, Unknown, Resolved, At,
           Busy, Head1, Pending
  <2>6. CopyIsFile(s)'
    BY <1>1, <1>3, <2>2, <2>4, <2>5 DEF CopyIsFile
  <2>7. OnCourse(s)'
    BY <1>1, <2>2, <2>4 DEF HomeInv, OnCourse, Busy
  <2>8. ASSUME NEW q
        PROVE  /\ BeingRevoked(q) => BeingRevoked(q)'
               /\ BeingAnswered(q) => BeingAnswered(q)'
    BY <1>1, <2>2, <2>4 DEF BeingRevoked, BeingAnswered
  <2> QED
    BY <1>1, <2>2, <2>3, <2>6, <2>7, <2>8, LeavingStep
<1>4. CASE ~Throws(s)
  <2> DEFINE content == CASE FileOf(op.do) = "contacts" -> contacts
                          [] FileOf(op.do) = "grants" -> homeGrants
                          [] OTHER -> approvals
  <2>1. Hold(s, content)
    BY <1>4 DEF Read
  <2>2. /\ FileOf(op.do) = "contacts" => content = contacts
        /\ FileOf(op.do) = "grants" => content = homeGrants
        /\ FileOf(op.do) = "approvals" => content = approvals
    BY Files
  <2> HIDE DEF content
  <2> QED
    BY <1>3, <1>4, <2>1, <2>2
<1> QED
    BY <1>2, <1>4 DEF Read

(* What a handler finds when it has written a file.                         *)
LEMMA WriteEffect ==
    ASSUME OneAtATime, HomeInv, UNCHANGED slots, NEW s \in slots, Busy(s), Proceed(s),
           runs' = runs,
           Head1(s).do # "create",
           \A a \in approvals' : a.id # job[s].id \/ Head1(s).do = "save",
           Leads(Tail(job[s].todo), "issue") =>
              homeStanding'[job[s].peer] = "friend",
           Leads(Tail(job[s].todo), "set") =>
              \/ Head(Tail(job[s].todo)).to \in ByOwner
              \/ contacts'[job[s].peer] # "blocked"
    PROVE  /\ CopyIsFile(s)' /\ OnCourse(s)'
           /\ DOMAIN job' = slots /\ \A t \in slots : JobTyped(t)'
           /\ \A q, do : Leads(Tail(job[s].todo), do) =>
                 Doing(s, do)' /\ job'[s].peer = job[s].peer
<1> DEFINE rest == Tail(job[s].todo)
<1>1. HomeTypeOK /\ \A t \in slots : t = s
    BY DEF HomeInv, OneAtATime
<1>2. /\ DOMAIN job' = slots /\ JobTyped(s)' /\ ~job'[s].held
      /\ job'[s].todo = rest
      /\ Busy(s)' => job'[s].peer = job[s].peer /\ job'[s].id = job[s].id
      /\ Next2(Head1(s), rest)
    BY <1>1, ProceedEffect
<1> HIDE DEF rest
<1>3. \A do : Doing(s, do)' <=> Leads(rest, do)
    BY <1>2 DEF Doing, At, Busy, Head1, Leads
<1>4. \A do : Leads(rest, do) => Busy(s)'
    BY <1>2 DEF Leads, Busy
<1>5. ~Doing(s, "save")'
    BY <1>2, <1>3 DEF Next2
<1>6. CopyIsFile(s)'
    BY <1>2, <1>5 DEF CopyIsFile
<1>7. Head1(s).do = "save" => ~Busy(s)'
    BY <1>2 DEF Next2, Busy
<1>8. Head1(s)' = Head(rest)
    BY <1>2 DEF Head1
<1>9. OnCourse(s)'
    BY <1>2, <1>3, <1>4, <1>5, <1>7, <1>8 DEF OnCourse, rest
<1> QED
    BY <1>1, <1>2, <1>3, <1>4, <1>6, <1>9 DEF rest

(* In the hands of one handler: nobody is waited for but its peer.          *)
LEMMA OnlyPeer ==
    ASSUME OneAtATime, NEW s \in slots
    PROVE  /\ \A q : BeingRevoked(q) => job[s].peer = q /\ Doing(s, "deactivate")
           /\ \A q : BeingAnswered(q) =>
                 /\ job[s].peer = q
                 /\ \/ Doing(s, "check") \/ Doing(s, "set")
                    \/ Doing(s, "dedupe") \/ Doing(s, "create")
    BY DEF OneAtATime, BeingRevoked, BeingAnswered

LEMMA WriteContactsStep ==
    ASSUME OneAtATime, HomeInv, UNCHANGED slots, NEW s \in slots, WriteContacts(s)
    PROVE  HomeInv'
<1> DEFINE p == job[s].peer
           op == Head1(s)
           rest == Tail(job[s].todo)
<1>1. /\ HomeTypeOK /\ JobTyped(s) /\ CopyIsFile(s) /\ OnCourse(s)
      /\ job[s].held /\ Busy(s) /\ p \in Peers /\ op \in Ops
      /\ Proceed(s) /\ job[s].copy = contacts /\ ~Throws(s)
      /\ \A t \in slots : t = s
    BY DEF WriteContacts, HomeInv, HomeTypeOK, JobTyped, CopyIsFile, Head1,
           OneAtATime
<1>2. op.do \in {"upsert", "set", "touch"}
    BY <1>1, Files DEF CopyIsFile, Writing, WriteContacts
<1>3. /\ UNCHANGED <<homeGrants, approvals, cut, runs>>
      /\ Next2(op, rest)
      /\ \A do : At(s, do) <=> op.do = do
      /\ \A a \in approvals : a.id # job[s].id
    BY <1>1, <1>2, ProceedEffect DEF WriteContacts, At, OnCourse, Doing
<1>4. CASE op.do = "touch"
  <2>1. UNCHANGED <<contacts, homeStanding>>
    BY <1>1, <1>3, <1>4 DEF WriteContacts, Rewritten, Touched, Decides
  <2>2. ~Leads(rest, "issue") /\ (Leads(rest, "set") => Head(rest).to \in ByOwner)
    BY <1>3, <1>4 DEF Next2
  <2>3. /\ CopyIsFile(s)' /\ OnCourse(s)'
        /\ DOMAIN job' = slots /\ JobTyped(s)'
    BY <1>1, <1>3, <1>4, <2>2, WriteEffect
  <2>4. \A q : ~BeingRevoked(q) /\ ~BeingAnswered(q)
    BY <1>1, <1>3, <1>4, OnlyPeer DEF Doing
  <2> QED
    BY <1>3, <2>1, <2>3, <2>4, LeavingStep
<1>5. CASE op.do \in {"upsert", "set"}
  <2>1. contacts' = [contacts EXCEPT ![p] = op.to] /\ op.to \in HomeStates
    BY <1>1, <1>3, <1>5 DEF WriteContacts, Rewritten, Next2, Ops
  <2>2. homeStanding' = IF Decides(s) THEN [homeStanding EXCEPT ![p] = op.to]
                        ELSE homeStanding
    BY DEF WriteContacts
  <2>3. /\ Decides(s) => op.do = "set"
        /\ op.do = "set" /\ op.to \in ByOwner => Decides(s)
    BY <1>3 DEF Decides, ByOwner
  <2>4. /\ \A i \in DOMAIN job[s].todo : i \in 1..Len(job[s].todo) /\ i \in Nat
        /\ job[s].todo[1] = op /\ LinkedAt(job[s].todo, 1)
        /\ Leads(rest, "issue") => /\ 2 \in DOMAIN job[s].todo
                                   /\ job[s].todo[2].do = "issue"
    <3>1. /\ job[s].todo \in Seq(Ops) /\ job[s].todo # <<>>
          /\ \A i \in 1..Len(job[s].todo) : LinkedAt(job[s].todo, i)
      BY <1>1 DEF JobTyped, Linked, Busy
    <3>2. rest \in Seq(Ops) /\ Len(rest) = Len(job[s].todo) - 1
      BY <3>1
    <3>3. Leads(rest, "issue") => Len(rest) > 0 /\ Head(rest) = job[s].todo[2]
      BY <3>1, <3>2 DEF Leads
    <3>4. job[s].todo[1] = op /\ 1 \in 1..Len(job[s].todo)
      BY <3>1 DEF Head1
    <3> QED
      BY <3>1, <3>2, <3>3, <3>4 DEF Leads
  <2>5. /\ op.do = "set" /\ Leads(rest, "issue") => Decides(s)
        /\ Decides(s) => op.to \in ByOwner \cup {"friend"}
    <3>1. op.do = "set" /\ op.to \notin ByOwner \cup {"friend"} =>
              \A i \in DOMAIN job[s].todo : job[s].todo[i].do # "issue"
      BY <2>4 DEF LinkedAt
    <3> QED
      BY <1>3, <2>4, <3>1 DEF Decides, ByOwner
  <2>6. /\ contacts \in [Peers -> HomeStates]
        /\ homeStanding \in [Peers -> {"none", "friend", "revoked", "blocked"}]
    BY <1>1 DEF HomeTypeOK, StoresTyped
  <2>7. /\ contacts'[p] = op.to
        /\ homeStanding'[p] = IF Decides(s) THEN op.to ELSE homeStanding[p]
        /\ \A q \in Peers : q # p =>
              contacts'[q] = contacts[q] /\ homeStanding'[q] = homeStanding[q]
    BY <1>1, <2>1, <2>2, <2>6
  <2> HIDE DEF rest
  <2>8. /\ Leads(rest, "issue") => homeStanding'[p] = "friend"
        /\ Leads(rest, "set") => Head(rest).to \in ByOwner \/ contacts'[p] # "blocked"
    BY <1>3, <1>5, <2>5, <2>7 DEF Next2
  <2>9. /\ CopyIsFile(s)' /\ OnCourse(s)'
        /\ DOMAIN job' = slots /\ \A t \in slots : JobTyped(t)'
        /\ \A do : Leads(rest, do) => Doing(s, do)' /\ job'[s].peer = p
    BY <1>1, <1>3, <1>5, <2>8, WriteEffect DEF rest
  <2>10. HomeTypeOK'
    BY <1>1, <1>3, <2>1, <2>2, <2>5, <2>6, <2>9 DEF HomeTypeOK, StoresTyped, ByOwner
  <2>11. BlockSurvives'
    <3>1. (op.do = "upsert" \/ op.to \notin ByOwner) => contacts[p] # "blocked"
      BY <1>1, <1>3, <1>5 DEF OnCourse, Doing, Throws, Blocked
    <3>2. contacts[p] = "blocked" <=> homeStanding[p] = "blocked"
      BY <1>1 DEF HomeInv, BlockSurvives
    <3>3. op.do = "upsert" => op.to # "blocked"
      BY <1>3 DEF Next2
    <3>4. contacts'[p] = "blocked" <=> homeStanding'[p] = "blocked"
      BY <1>5, <2>3, <2>5, <2>7, <3>1, <3>2, <3>3 DEF ByOwner
    <3> QED
      BY <2>7, <3>4 DEF HomeInv, BlockSurvives
  <2>12. RevokedHoldNothing'
    <3>1. \A q : ~BeingRevoked(q)
      BY <1>3, <1>5, OnlyPeer DEF Doing
    <3>2. op.do = "set" /\ op.to = "revoked" =>
             \A q : q = p => BeingRevoked(q)'
      <4>1. op.do = "set" /\ op.to = "revoked" => Doing(s, "deactivate")' /\ job'[s].peer = p
        BY <1>3, <2>9 DEF Next2
      <4> QED
        BY <4>1 DEF BeingRevoked
    <3>3. ASSUME NEW g \in homeGrants, g.mine, g.active
          PROVE  \/ homeStanding'[g.peer] \in {"friend", "blocked"}
                 \/ <<g.peer, "deactivate">> \in cut
                 \/ BeingRevoked(g.peer)'
      <4>1. g.peer \in Peers
        BY <1>1 DEF HomeTypeOK, StoresTyped, HomeGrant
      <4>2. \/ homeStanding[g.peer] \in {"friend", "blocked"}
            \/ <<g.peer, "deactivate">> \in cut
        BY <3>1, <3>3 DEF HomeInv, RevokedHoldNothing
      <4> QED
        BY <2>3, <2>5, <2>7, <3>2, <4>1, <4>2 DEF ByOwner
    <3> QED
      BY <1>3, <3>3 DEF RevokedHoldNothing
  <2>13. RequestsWait'
    <3>1. op.to = "request_received" => \A q : q = p => BeingAnswered(q)'
      <4>1. op.to = "request_received" =>
               (Doing(s, "set")' \/ Doing(s, "dedupe")') /\ job'[s].peer = p
        BY <1>3, <1>5, <2>9 DEF Next2
      <4> QED
        BY <4>1 DEF BeingAnswered
    <3>2. ASSUME NEW q \in Peers, contacts'[q] = "request_received", q # p
          PROVE  \/ Pending(approvals, q) # {}
                 \/ <<q, "create">> \in cut \/ <<q, "set">> \in cut
      BY <2>7, <3>2, OnlyPeer DEF HomeInv, RequestsWait
    <3>3. \A q : Pending(approvals, q)' = Pending(approvals, q)
      BY <1>3 DEF Pending
    <3> QED
      BY <1>3, <2>7, <3>1, <3>2, <3>3 DEF RequestsWait
  <2> QED
    BY <1>1, <1>3, <2>9, <2>10, <2>11, <2>12, <2>13
       DEF HomeInv, ApprovalsResolve
<1> QED
    BY <1>2, <1>4, <1>5

LEMMA WriteGrantsStep ==
    ASSUME OneAtATime, HomeInv, UNCHANGED slots, NEW s \in slots, WriteGrants(s)
    PROVE  HomeInv'
<1> DEFINE p == job[s].peer
           op == Head1(s)
           rest == Tail(job[s].todo)
           new == [id |-> job[s].id, peer |-> p, active |-> TRUE,
                   mine |-> op.do = "issue"]
<1>1. /\ HomeTypeOK /\ JobTyped(s) /\ CopyIsFile(s) /\ OnCourse(s)
      /\ job[s].held /\ Busy(s) /\ p \in Peers /\ op \in Ops
      /\ Proceed(s) /\ job[s].copy = homeGrants
      /\ \A t \in slots : t = s
    BY DEF WriteGrants, HomeInv, HomeTypeOK, JobTyped, CopyIsFile, Head1,
           OneAtATime
<1>2. op.do \in {"issue", "store", "deactivate"}
    BY <1>1, Files DEF WriteGrants
<1>3. /\ UNCHANGED <<contacts, approvals, homeStanding, cut, runs>>
      /\ Next2(op, rest)
      /\ \A do : At(s, do) <=> op.do = do
      /\ \A a \in approvals : a.id # job[s].id
      /\ homeGrants' = IF op.do = "deactivate"
                       THEN {IF g.peer = p THEN [g EXCEPT !.active = FALSE]
                             ELSE g : g \in homeGrants}
                       ELSE homeGrants \cup {new}
    BY <1>1, <1>2, ProceedEffect DEF WriteGrants, history, At, OnCourse, Doing
<1>4. /\ ~Leads(rest, "issue")
      /\ Leads(rest, "set") => Head(rest).to \in ByOwner
    BY <1>2, <1>3 DEF Next2
<1>5. /\ CopyIsFile(s)' /\ OnCourse(s)'
      /\ DOMAIN job' = slots /\ \A t \in slots : JobTyped(t)'
    BY <1>1, <1>2, <1>3, <1>4, WriteEffect
<1>6. homeGrants' \subseteq HomeGrant
  <2>1. homeGrants \subseteq HomeGrant /\ job[s].id \in Nat
    BY <1>1 DEF HomeTypeOK, StoresTyped, JobTyped
  <2>2. new \in HomeGrant
    BY <1>1, <2>1 DEF HomeGrant
  <2>3. \A g \in homeGrants : [g EXCEPT !.active = FALSE] \in HomeGrant
    BY <2>1 DEF HomeGrant
  <2> HIDE DEF new
  <2> QED
    BY <1>3, <2>1, <2>2, <2>3
<1>7. HomeTypeOK'
    BY <1>1, <1>3, <1>5, <1>6 DEF HomeTypeOK, StoresTyped
<1>8. BlockSurvives' /\ ApprovalsResolve'
    BY <1>3 DEF HomeInv, BlockSurvives, ApprovalsResolve
<1>9. RequestsWait'
  <2>1. \A q : ~BeingAnswered(q)
    BY <1>2, <1>3, OnlyPeer DEF Doing
  <2> QED
    BY <1>3, <2>1 DEF HomeInv, RequestsWait, Pending
<1>10. RevokedHoldNothing'
  <2>1. ASSUME NEW g \in homeGrants', g.mine, g.active
        PROVE  \/ homeStanding[g.peer] \in {"friend", "blocked"}
               \/ <<g.peer, "deactivate">> \in cut
    <3>1. CASE op.do = "deactivate"
      <4>1. PICK h \in homeGrants :
               g = IF h.peer = p THEN [h EXCEPT !.active = FALSE] ELSE h
        BY <1>3, <2>1, <3>1
      <4>2. h.peer # p
        BY <1>1, <2>1, <4>1 DEF HomeTypeOK, StoresTyped, HomeGrant
      <4> QED
        BY <2>1, <4>1, <4>2, OnlyPeer DEF HomeInv, RevokedHoldNothing
    <3>2. CASE op.do # "deactivate"
      <4>1. \A q : ~BeingRevoked(q)
        BY <1>3, <3>2, OnlyPeer DEF Doing
      <4>2. CASE g \in homeGrants
        BY <2>1, <4>1, <4>2 DEF HomeInv, RevokedHoldNothing
      <4>3. CASE g = new
        BY <1>1, <1>2, <1>3, <2>1, <3>2, <4>3 DEF OnCourse, Doing
      <4> QED
        BY <1>3, <3>2, <4>2, <4>3
    <3> QED
      BY <3>1, <3>2
  <2> QED
    BY <1>3, <2>1 DEF RevokedHoldNothing
<1> QED
    BY <1>1, <1>5, <1>7, <1>8, <1>9, <1>10 DEF HomeInv

LEMMA CreateStep ==
    ASSUME OneAtATime, HomeInv, UNCHANGED slots, NEW s \in slots, CreateApproval(s)
    PROVE  HomeInv'
<1> DEFINE p == job[s].peer
           rest == Tail(job[s].todo)
           new == [id |-> job[s].id, peer |-> p, status |-> "pending"]
<1>1. /\ HomeTypeOK /\ JobTyped(s) /\ CopyIsFile(s) /\ OnCourse(s)
      /\ job[s].held /\ Busy(s) /\ p \in Peers /\ Doing(s, "create")
      /\ Head1(s).do = "create" /\ ~Doing(s, "save")
      /\ DOMAIN job = slots /\ \A t \in slots : t = s
    BY DEF CreateApproval, HomeInv, HomeTypeOK, JobTyped, OneAtATime, Doing, At
<1>2. /\ approvals' = job[s].copy \cup {new} /\ job[s].copy = approvals
      /\ job' = [job EXCEPT ![s].todo = Tail(job[s].todo),
                            ![s].copy = job[s].copy \cup {new}]
      /\ UNCHANGED <<contacts, homeGrants, homeStanding, cut, runs>>
    BY <1>1, Files DEF CreateApproval, Saves, CopyIsFile
<1>3. /\ job[s].id \in Nat /\ job[s].id <= runs /\ job[s].about \in Nat
      /\ \A a \in approvals : a.id # job[s].id
    BY <1>1 DEF JobTyped, OnCourse
<1>4. Linked(rest) /\ Leads(rest, "save") /\ Head(rest) \in Ops
    BY <1>1, LinkedTail DEF JobTyped, Busy, Head1, Next2, Leads
<1> HIDE DEF rest
<1>5. /\ DOMAIN job' = slots /\ DOMAIN job'[s] = DOMAIN job[s]
      /\ job'[s].todo = rest /\ job'[s].copy = approvals' /\ job'[s].held
      /\ job'[s].peer = p /\ job'[s].id = job[s].id /\ job'[s].about = job[s].about
      /\ job'[s].held = job[s].held
    BY <1>1, <1>2 DEF JobTyped, rest
<1>6. JobTyped(s)'
    BY <1>1, <1>2, <1>3, <1>4, <1>5 DEF JobTyped, Busy, Leads
<1>7. Head1(s)'.do = "save" /\ \A do : Doing(s, do)' <=> do = "save"
    BY <1>4, <1>5 DEF Leads, Doing, At, Busy, Head1
<1>8. CopyIsFile(s)'
  <2>1. ~Throws(s)'
    BY <1>7 DEF Throws, Blocked, Unknown, Resolved, Doing
  <2> QED
    BY <1>5, <1>7, <2>1, Files DEF CopyIsFile
<1>9. OnCourse(s)'
    BY <1>7 DEF OnCourse
<1>10. HomeTypeOK'
  <2>1. new \in Approval
    BY <1>1, <1>3 DEF Approval
  <2> HIDE DEF new
  <2> QED
    BY <1>1, <1>2, <1>5, <1>6, <2>1 DEF HomeTypeOK, StoresTyped
<1>11. BlockSurvives'
    BY <1>2 DEF HomeInv, BlockSurvives
<1>12. ApprovalsResolve'
    BY <1>2, <1>3 DEF HomeInv, ApprovalsResolve
<1>13. RevokedHoldNothing'
  <2>1. \A q : ~BeingRevoked(q)
    BY <1>1, OnlyPeer DEF Doing, At
  <2> QED
    BY <1>2, <2>1 DEF HomeInv, RevokedHoldNothing
<1>14. RequestsWait'
  <2>1. \A q : Pending(approvals, q) \subseteq Pending(approvals', q)
    BY <1>2 DEF Pending
  <2>2. new \in Pending(approvals', p)
    BY <1>2 DEF Pending
  <2> HIDE DEF new
  <2>3. \A q : BeingAnswered(q) => q = p
    BY OnlyPeer
  <2>4. \A q : Pending(approvals, q)' = Pending(approvals', q)
    BY DEF Pending
  <2> QED
    BY <1>2, <2>1, <2>2, <2>3, <2>4 DEF HomeInv, RequestsWait
<1> QED
    BY <1>1, <1>8, <1>9, <1>10, <1>11, <1>12, <1>13, <1>14 DEF HomeInv

LEMMA SaveStep ==
    ASSUME OneAtATime, HomeInv, UNCHANGED slots, NEW s \in slots, SaveApproval(s)
    PROVE  HomeInv'
<1>1. /\ HomeTypeOK /\ JobTyped(s) /\ CopyIsFile(s) /\ OnCourse(s)
      /\ Busy(s) /\ Doing(s, "save") /\ Head1(s).do = "save"
      /\ job[s].held /\ Proceed(s)
      /\ \A t \in slots : t = s
    BY DEF SaveApproval, HomeInv, HomeTypeOK, CopyIsFile, OneAtATime, Doing, At
<1>2. UNCHANGED <<contacts, homeGrants, approvals, homeStanding, cut, runs>>
    BY <1>1, Files DEF SaveApproval, Saves, CopyIsFile
<1>3. Next2(Head1(s), Tail(job[s].todo))
    BY <1>1, <1>2, ProceedEffect
<1>4. \A do : ~Leads(Tail(job[s].todo), do)
    BY <1>1, <1>3 DEF Next2, Leads
<1>5. /\ CopyIsFile(s)' /\ OnCourse(s)'
      /\ DOMAIN job' = slots /\ \A t \in slots : JobTyped(t)'
    BY <1>1, <1>2, <1>4, WriteEffect
<1>6. \A q : ~BeingRevoked(q) /\ ~BeingAnswered(q)
    BY <1>1, OnlyPeer DEF Doing, At
<1> QED
    BY <1>2, <1>5, <1>6, LeavingStep

LEMMA ResolveStep ==
    ASSUME OneAtATime, HomeInv, UNCHANGED slots, NEW s \in slots, ResolveApproval(s)
    PROVE  HomeInv'
<1> DEFINE p == job[s].peer
           rest == Tail(job[s].todo)
           Settled(a) == IF a.id = job[s].about THEN [a EXCEPT !.status = "resolved"]
                         ELSE a
<1>1. /\ HomeTypeOK /\ JobTyped(s) /\ CopyIsFile(s) /\ OnCourse(s) /\ StoresTyped
      /\ job[s].held /\ Busy(s) /\ p \in Peers /\ Doing(s, "resolve")
      /\ Head1(s).do = "resolve" /\ ~Doing(s, "save")
      /\ ~Throws(s) /\ job[s].about \in Nat
      /\ Proceed(s) /\ \A t \in slots : t = s
    BY DEF ResolveApproval, HomeInv, HomeTypeOK, JobTyped, OneAtATime, Doing,
           At, CopyIsFile
<1>2. /\ job[s].copy = approvals
      /\ approvals' = {Settled(a) : a \in approvals}
      /\ UNCHANGED <<contacts, homeGrants, homeStanding, cut, runs>>
    BY <1>1, Files DEF ResolveApproval, Saves, CopyIsFile
<1>3. PICK mine \in approvals : mine.peer = p /\ mine.status = "pending" /\ mine.id = job[s].about
    BY <1>1 DEF Throws, Resolved, Doing, Pending
<1>4. \A a \in approvals :
          /\ Settled(a) \in Approval /\ Settled(a).id = a.id /\ Settled(a).peer = a.peer
          /\ Settled(a).status = IF a.id = job[s].about THEN "resolved" ELSE a.status
          /\ a.id # job[s].about => Settled(a) = a
    BY <1>1 DEF StoresTyped, Approval
<1> HIDE DEF Settled
<1>5. Next2(Head1(s), rest)
    BY <1>1, <1>2, ProceedEffect
<1>6. Leads(rest, "check")
    BY <1>1, <1>5 DEF Next2
<1>7. \A do : Leads(rest, do) => do = "check"
    BY <1>6 DEF Leads
<1>8. \A a \in approvals' : a.id # job[s].id
    BY <1>1, <1>2, <1>4 DEF OnCourse
<1>9. /\ CopyIsFile(s)' /\ OnCourse(s)'
      /\ DOMAIN job' = slots /\ \A t \in slots : JobTyped(t)'
      /\ \A do : Leads(rest, do) => Doing(s, do)' /\ job'[s].peer = p
    BY <1>1, <1>2, <1>7, <1>8, WriteEffect
<1>10. HomeTypeOK'
    BY <1>1, <1>2, <1>4, <1>9 DEF HomeTypeOK, StoresTyped
<1>11. BlockSurvives'
    BY <1>2 DEF HomeInv, BlockSurvives
<1>12. RevokedHoldNothing'
  <2>1. \A q : ~BeingRevoked(q)
    BY <1>1, OnlyPeer DEF Doing, At
  <2> QED
    BY <1>2, <2>1 DEF HomeInv, RevokedHoldNothing
<1>14. \A a, b \in approvals : a.id = b.id => a = b
    BY DEF HomeInv, ApprovalsResolve
<1>15. ApprovalsResolve'
  <2>1. \A a, b \in approvals' : a.id = b.id => a = b
    BY <1>2, <1>4, <1>14
  <2>2. \A a \in approvals' : a.id <= runs'
    BY <1>2, <1>4 DEF HomeInv, ApprovalsResolve
  <2> QED
    BY <2>1, <2>2 DEF ApprovalsResolve
<1>17. RequestsWait'
  <2>1. \A q : q = p => BeingAnswered(q)'
    BY <1>6, <1>9 DEF BeingAnswered
  <2>2. \A q : ~BeingAnswered(q)
    BY <1>1, OnlyPeer DEF Doing, At
  <2>3. ASSUME NEW q \in Peers, Pending(approvals, q) # {}
        PROVE  q = p \/ Pending(approvals', q) # {}
    <3>1. PICK a \in approvals : a.peer = q /\ a.status = "pending"
      BY <2>3 DEF Pending
    <3>2. a.id = job[s].about => a = mine
      BY <1>3, <1>14
    <3>3. a.id # job[s].about => a \in approvals'
      BY <1>2, <1>4
    <3> QED
      BY <1>3, <3>1, <3>2, <3>3 DEF Pending
  <2>4. \A q : Pending(approvals, q)' = Pending(approvals', q)
    BY DEF Pending
  <2> QED
    BY <1>2, <2>1, <2>2, <2>3, <2>4 DEF HomeInv, RequestsWait
<1> QED
    BY <1>1, <1>9, <1>10, <1>11, <1>12, <1>15, <1>17 DEF HomeInv

LEMMA CrashStep ==
    ASSUME OneAtATime, HomeInv, UNCHANGED slots, Crash
    PROVE  HomeInv'
<1>1. /\ UNCHANGED <<contacts, homeGrants, approvals, homeStanding, runs>>
      /\ job' = [s \in slots |-> Idle]
      /\ cut' = cut \cup UNION {{<<job[s].peer, job[s].todo[i].do>> :
                                    i \in DOMAIN job[s].todo} : s \in slots}
    BY DEF Crash, disk
<1>2. HomeTypeOK
    BY DEF HomeInv
<1>3. ASSUME NEW s \in slots
      PROVE  /\ JobTyped(s)' /\ CopyIsFile(s)' /\ OnCourse(s)'
             /\ job'[s] = Idle
  <2>1. job'[s] = Idle /\ Linked(<<>>)
    BY <1>1 DEF Linked
  <2> QED
    BY <2>1 DEF Idle, JobTyped, CopyIsFile, OnCourse, Busy, Doing, At
<1>4. HomeTypeOK'
    BY <1>1, <1>2, <1>3 DEF HomeTypeOK, StoresTyped
<1>5. /\ BlockSurvives' /\ ApprovalsResolve'
    BY <1>1 DEF HomeInv, BlockSurvives, ApprovalsResolve
<1>6. ASSUME NEW s \in slots, Busy(s)
      PROVE  /\ <<job[s].peer, Head1(s).do>> \in cut'
             /\ \A do : Leads(Tail(job[s].todo), do) => <<job[s].peer, do>> \in cut'
             /\ Next2(Head1(s), Tail(job[s].todo))
  <2> DEFINE t == job[s].todo
  <2>1. Linked(t) /\ t # <<>> /\ t \in Seq(Ops)
    BY <1>2, <1>6 DEF HomeTypeOK, JobTyped, Busy, Linked
  <2>2. \A i \in DOMAIN t : <<job[s].peer, t[i].do>> \in cut'
    BY <1>1
  <2>3. Next2(Head1(s), Tail(t))
    BY <2>1, LinkedTail DEF Head1
  <2>4. 1 \in DOMAIN t /\ t[1] = Head1(s)
    BY <2>1 DEF Head1
  <2>5. ASSUME NEW do, Leads(Tail(t), do)
        PROVE  2 \in DOMAIN t /\ t[2].do = do
    <3>1. Tail(t) \in Seq(Ops) /\ Len(Tail(t)) = Len(t) - 1
      BY <2>1
    <3>2. Tail(t) # <<>> => Len(Tail(t)) > 0 /\ Head(Tail(t)) = t[2]
      BY <2>1, <3>1
    <3> QED
      BY <2>1, <2>5, <3>1, <3>2 DEF Leads
  <2> QED
    BY <2>2, <2>3, <2>4, <2>5
<1>7. ASSUME NEW q, BeingRevoked(q)
      PROVE  <<q, "deactivate">> \in cut'
    BY <1>6, <1>7 DEF BeingRevoked, Doing, At
<1>8. ASSUME NEW q, BeingAnswered(q)
      PROVE  <<q, "set">> \in cut' \/ <<q, "create">> \in cut'
  <2>1. PICK s \in slots : /\ job[s].peer = q /\ Busy(s)
                           /\ Head1(s).do \in {"check", "set", "dedupe", "create"}
    BY <1>8 DEF BeingAnswered, Doing, At
  <2> QED
    BY <1>6, <2>1 DEF Next2
<1>9. RevokedHoldNothing'
    BY <1>1, <1>7 DEF HomeInv, RevokedHoldNothing
<1>10. RequestsWait'
    BY <1>1, <1>8 DEF HomeInv, RequestsWait, Pending
<1> QED
    BY <1>3, <1>4, <1>5, <1>9, <1>10 DEF HomeInv

---------------------------------------------------------------------------
LEMMA HomeStarts == HomeInit => HomeInv
<1> SUFFICES ASSUME HomeInit PROVE HomeInv
    OBVIOUS
<1>1. ASSUME NEW s \in slots
      PROVE  JobTyped(s) /\ CopyIsFile(s) /\ OnCourse(s)
  <2>1. job[s] = Idle /\ Linked(<<>>)
    BY DEF HomeInit, Linked
  <2> QED
    BY <2>1 DEF Idle, JobTyped, CopyIsFile, OnCourse, Busy, Doing, At
<1>2. HomeTypeOK
    BY <1>1 DEF HomeInit, HomeTypeOK, StoresTyped, HomeStates
<1>3. BlockSurvives /\ RevokedHoldNothing /\ RequestsWait
    BY DEF HomeInit, BlockSurvives, RevokedHoldNothing, RequestsWait
<1>4. ApprovalsResolve
    BY DEF HomeInit, ApprovalsResolve
<1> QED
    BY <1>1, <1>2, <1>3, <1>4 DEF HomeInv

LEMMA HomeSteps ==
    ASSUME OneAtATime, HomeInv, [HomeNext]_homeVars
    PROVE  HomeInv'
<1>0. UNCHANGED slots
    BY DEF HomeNext, homeVars
<1> USE <1>0
<1>1. ASSUME NEW s \in slots, NEW p \in Peers, StartOther(s, p)
      PROVE  HomeInv'
  <2>1. PICK h \in DOMAIN Programs : Start(s, p, h, 0)
    BY <1>1 DEF StartOther
  <2> QED
    BY <2>1, StartStep
<1>2. ASSUME NEW s \in slots, NEW p \in Peers, StartNotified(s, p)
      PROVE  HomeInv'
  <2>1. /\ Start(s, p, "markFriendRequestNotified", 0)
        /\ "markFriendRequestNotified" \in DOMAIN Programs
    BY <1>2 DEF StartNotified, Programs
  <2> QED
    BY <2>1, StartStep
<1>3. ASSUME NEW s \in slots, NEW a \in approvals, StartDecision(s, a)
      PROVE  HomeInv'
  <2>1. PICK h \in {"approve", "decline"} : Start(s, a.peer, h, a.id)
    BY <1>3 DEF StartDecision
  <2>2. h \in DOMAIN Programs
    BY DEF Programs
  <2>3. a.peer \in Peers /\ a.id \in Nat
    BY DEF HomeInv, HomeTypeOK, StoresTyped, Approval
  <2> QED
    BY <2>1, <2>2, <2>3, StartStep
<1>4. ASSUME NEW s \in slots, HandlerStep(s)
      PROVE  HomeInv'
    BY <1>4, CheckStep, ReadStep, WriteContactsStep, WriteGrantsStep, CreateStep,
       SaveStep, ResolveStep DEF HandlerStep
<1>5. CASE UNCHANGED homeVars
  <2>1. UNCHANGED <<contacts, homeGrants, approvals, job, runs, homeStanding, cut>>
    BY <1>5 DEF homeVars
  <2>2. HomeTypeOK'
    BY <2>1 DEF HomeInv, HomeTypeOK, StoresTyped, JobTyped, Busy
  <2>3. ASSUME NEW s \in slots
        PROVE  CopyIsFile(s)' /\ OnCourse(s)'
    <3>1. /\ Head1(s)' = Head1(s) /\ Busy(s)' = Busy(s)
          /\ \A do : Doing(s, do)' = Doing(s, do)
      BY <2>1 DEF Doing, At, Busy, Head1
    <3>2. Throws(s)' = Throws(s)
      BY <2>1 DEF Throws, Blocked, Unknown, Resolved, Pending,
                  At, Busy, Head1
    <3>3. CopyIsFile(s) /\ OnCourse(s)
      BY DEF HomeInv
    <3> QED
      BY <2>1, <3>1, <3>2, <3>3 DEF CopyIsFile, OnCourse
  <2>4. \A q : (BeingRevoked(q)' <=> BeingRevoked(q)) /\ (BeingAnswered(q)' <=> BeingAnswered(q))
    BY <2>1 DEF BeingRevoked, BeingAnswered, Doing, At, Busy, Head1
  <2>5. RevokedHoldNothing' /\ RequestsWait'
    BY <2>1, <2>4 DEF HomeInv, RevokedHoldNothing, RequestsWait, Pending
  <2>6. BlockSurvives' /\ ApprovalsResolve'
    BY <2>1 DEF HomeInv, BlockSurvives, ApprovalsResolve
  <2> QED
    BY <2>2, <2>3, <2>5, <2>6 DEF HomeInv
<1> QED
    BY <1>1, <1>2, <1>3, <1>4, <1>5, CrashStep DEF HomeNext

LEMMA SlotsStay == [HomeNext]_homeVars => UNCHANGED slots
    BY DEF HomeNext, homeVars

LEMMA HomeInvariant == HomeSpec => [](OneAtATime => HomeInv)
<1>1. HomeInit => (OneAtATime => HomeInv)
    BY HomeStarts
<1>2. (OneAtATime => HomeInv) /\ [HomeNext]_homeVars => (OneAtATime => HomeInv)'
  <2> SUFFICES ASSUME OneAtATime => HomeInv, [HomeNext]_homeVars, OneAtATime'
               PROVE  HomeInv'
    OBVIOUS
  <2>1. OneAtATime
    BY SlotsStay DEF OneAtATime
  <2> QED
    BY <2>1, HomeSteps
<1> QED
    BY <1>1, <1>2, PTL DEF HomeSpec

(* In a home whose handlers do not overlap,                                *)
(* a blocked peer stays blocked until its owner revokes, whatever friend   *)
(* requests and responses arrive and wherever a handler is cut             *)
(* (upsertContactFromCard and setRelationship read before they write).     *)
THEOREM BlocksSurvive == HomeSpec => []BlockSurvives
<1>1. (OneAtATime => HomeInv) => BlockSurvives
    BY DEF HomeInv, BlockSurvives
<1> QED
    BY <1>1, HomeInvariant, PTL

LEMMA InvAdmits == HomeInv => AdmitsOnlyAccepted
<1> SUFFICES ASSUME OneAtATime, HomeInv, NEW p \in Peers, LetsIn(p)
             PROVE  homeStanding[p] = "friend" \/ Owed(p, "deactivate")
    BY DEF AdmitsOnlyAccepted
<1>1. PICK g \in homeGrants : g.peer = p /\ g.mine /\ g.active
    BY DEF LetsIn
<1>2. homeStanding[p] # "blocked"
    BY DEF HomeInv, BlockSurvives, LetsIn
<1>3. \/ homeStanding[p] = "friend" \/ <<p, "deactivate">> \in cut
      \/ BeingRevoked(p)
    BY <1>1, <1>2 DEF HomeInv, RevokedHoldNothing
<1>4. ASSUME BeingRevoked(p)
      PROVE  InFlight(p, "deactivate")
  <2>1. PICK s \in slots : job[s].peer = p /\ Doing(s, "deactivate")
    BY <1>4 DEF BeingRevoked
  <2>2. job[s].todo \in Seq(Ops) /\ job[s].todo # <<>> /\ Head(job[s].todo).do = "deactivate"
    BY <2>1 DEF HomeInv, HomeTypeOK, JobTyped, Linked, Doing, At, Busy, Head1
  <2>3. 1 \in DOMAIN job[s].todo /\ job[s].todo[1].do = "deactivate"
    BY <2>2
  <2> QED
    BY <2>1, <2>3 DEF InFlight
<1> QED
    BY <1>3, <1>4 DEF Owed

(* In a home whose handlers do not overlap,                                *)
(* a peer is let in only as a friend the owner's last decision accepted, or*)
(* while the grant of a revoked one is still to be deactivated             *)
(* (revoke writes contacts.json before grants.json).                       *)
THEOREM OnlyAcceptedAdmitted == HomeSpec => []AdmitsOnlyAccepted
<1>1. (OneAtATime => HomeInv) => AdmitsOnlyAccepted
    BY InvAdmits DEF AdmitsOnlyAccepted
<1> QED
    BY <1>1, HomeInvariant, PTL

LEMMA InvAnswerable == HomeInv => RequestIsAnswerable
<1> SUFFICES ASSUME OneAtATime, HomeInv, NEW p \in Peers, BeingAnswered(p)
             PROVE  InFlight(p, "create") \/ InFlight(p, "set")
    BY DEF HomeInv, RequestsWait, RequestIsAnswerable, Owed
<1>1. PICK s \in slots : /\ job[s].peer = p /\ Busy(s)
                         /\ Head1(s).do \in {"check", "set", "dedupe", "create"}
    BY DEF BeingAnswered, Doing, At
<1> DEFINE t == job[s].todo
<1>2. Linked(t) /\ t \in Seq(Ops) /\ t # <<>> /\ Head1(s) = Head(t)
    BY <1>1 DEF HomeInv, HomeTypeOK, JobTyped, Busy, Head1, Linked
<1>3. 1 \in DOMAIN t /\ t[1] = Head1(s) /\ 1 \in 1..Len(t)
    BY <1>2
<1>4. LinkedAt(t, 1)
    BY <1>2, <1>3 DEF Linked
<1>5. Head1(s).do \in {"check", "dedupe"} =>
          2 \in DOMAIN t /\ t[2].do \in {"set", "create"}
    BY <1>2, <1>3, <1>4 DEF LinkedAt, Then
<1> QED
    BY <1>1, <1>3, <1>5 DEF InFlight

(* In a home whose handlers do not overlap,                                *)
(* a request shown as received has its approval waiting, or a handler has  *)
(* still to create it, or to write the decision that resolved it           *)
(* (receiveFriendRequest, acceptFriend, rejectFriend).                     *)
THEOREM RequestsAreAnswerable == HomeSpec => []RequestIsAnswerable
<1>1. (OneAtATime => HomeInv) => RequestIsAnswerable
    BY InvAnswerable DEF RequestIsAnswerable
<1> QED
    BY <1>1, HomeInvariant, PTL

-----------------------------------------------------------------------------
(* Handlers that overlap.  What a handler reads in approvals.json may be    *)
(* old when it writes, but an approval has one id and one status in each    *)
(* copy: so who resolves one had read it pending, and its write either is   *)
(* the first or passes a resolution over.                                   *)

Reading(s) == job[s].held /\ FileOf(Head1(s).do) = "approvals"
Making(s) == Busy(s) /\ ~Doing(s, "save")

Numbered(content) ==
    /\ content \subseteq Approval
    /\ \A a, b \in content : a.id = b.id => a = b
    /\ \A a \in content : a.id <= runs
NotIn(content, i) == \A a \in content : a.id # i

JobsTyped ==
    /\ runs \in Nat
    /\ DOMAIN job = slots
    /\ \A s \in slots : JobTyped(s)

CopiesNumbered ==
    /\ Numbered(approvals)
    /\ \A s \in slots : Reading(s) => Numbered(job[s].copy)
IdsAreNew ==
    \A s \in slots : Making(s) =>
        /\ NotIn(approvals, job[s].id)
        /\ \A t \in slots : Reading(t) => NotIn(job[t].copy, job[s].id)
IdsDiffer ==
    \A s, t \in slots : Busy(s) /\ Busy(t) /\ job[s].id = job[t].id => s = t
ReadPending ==
    \A s \in slots : Doing(s, "resolve") /\ job[s].held =>
        /\ \E a \in job[s].copy : a.id = job[s].about
        /\ ~IsResolved(job[s].copy, job[s].about)

SavesHold == \A s \in slots : Doing(s, "save") => job[s].held

Counted ==
    /\ resolved \in [Ids -> Nat]
    /\ forgotten \in [Ids -> Nat]
    /\ \A i \in Ids :
          resolved[i] <= forgotten[i] + (IF IsResolved(approvals, i) THEN 1 ELSE 0)

OverlapInv ==
    /\ JobsTyped /\ CopiesNumbered /\ IdsAreNew /\ IdsDiffer
    /\ ReadPending /\ SavesHold
    /\ Counted

(* A slot that is filled, goes on or is done, and leaves approvals.json.    *)
LEMMA OtherStep ==
    ASSUME OverlapInv, UNCHANGED slots, NEW s \in slots, DOMAIN job' = slots, JobTyped(s)',
           UNCHANGED <<approvals, resolved, forgotten>>,
           \A t \in slots : t # s => job'[t] = job[t],
           Reading(s)' => /\ job'[s].copy = approvals
                          /\ Doing(s, "resolve")' => ~Resolved(s)',
           Doing(s, "save")' => job'[s].held,
           \/ ~Busy(s)' /\ runs' = runs
           \/ Busy(s) /\ (Making(s)' => Making(s)) /\ job'[s].id = job[s].id
              /\ runs' = runs
           \/ runs' = runs + 1 /\ job'[s].id = runs + 1
    PROVE  OverlapInv'
<1> USE DEF OverlapInv
<1>1. /\ runs \in Nat /\ runs' \in Nat /\ runs <= runs'
      /\ \A t \in slots : job[t].id \in Nat /\ (Busy(t) => job[t].id <= runs)
    BY DEF JobsTyped, JobTyped
<1>2. \A t \in slots : t # s =>
          /\ Busy(t)' = Busy(t) /\ Reading(t)' = Reading(t)
          /\ Making(t)' = Making(t) /\ Head1(t)' = Head1(t)
          /\ \A do : Doing(t, do)' = Doing(t, do)
    BY DEF Busy, Reading, Making, Doing, At, Head1
<1>3. JobsTyped'
  <2>1. ASSUME NEW t \in slots, t # s
        PROVE  JobTyped(t)'
    BY <1>1, <1>2, <2>1 DEF JobsTyped, JobTyped
  <2> QED
    BY <1>1, <2>1 DEF JobsTyped
<1>4. \A content : Numbered(content) => Numbered(content)'
    BY <1>1 DEF Numbered, Approval
<1>5. CopiesNumbered'
  <2>1. \A t \in slots : Reading(t)' => Numbered(job'[t].copy)
    BY <1>2 DEF CopiesNumbered
  <2> QED
    BY <1>4, <2>1 DEF CopiesNumbered, Numbered
<1>6. IdsAreNew'
  <2>1. Making(s)' =>
            /\ NotIn(approvals, job'[s].id)
            /\ \A t \in slots : Reading(t) => NotIn(job[t].copy, job'[s].id)
    <3>1. CASE runs' = runs + 1 /\ job'[s].id = runs + 1
      BY <1>1, <3>1 DEF CopiesNumbered, Numbered, NotIn, Approval
    <3>2. CASE Making(s)' => Making(s) /\ job'[s].id = job[s].id
      BY <3>2 DEF IdsAreNew
    <3>3. ~Busy(s)' => ~Making(s)'
      BY DEF Making
    <3> QED
      BY <3>1, <3>2, <3>3
  <2>2. \A t \in slots : Making(t)' =>
            /\ NotIn(approvals, job'[t].id)
            /\ \A u \in slots : Reading(u) => NotIn(job[u].copy, job'[t].id)
    BY <1>2, <2>1 DEF IdsAreNew
  <2>3. \A t \in slots : Making(t)' =>
            /\ NotIn(approvals, job'[t].id)
            /\ \A u \in slots : Reading(u)' => NotIn(job'[u].copy, job'[t].id)
    BY <1>2, <2>2
  <2> QED
    BY <2>3 DEF IdsAreNew, NotIn
<1>7. IdsDiffer'
  <2>1. ASSUME NEW t \in slots, t # s, Busy(s)', Busy(t)'
        PROVE  job'[s].id # job'[t].id
    BY <1>1, <1>2, <2>1 DEF IdsDiffer
  <2> QED
    BY <1>2, <2>1 DEF IdsDiffer
<1>8. ReadPending'
  <2>1. ASSUME Doing(s, "resolve")', job'[s].held
        PROVE  /\ \E a \in job'[s].copy : a.id = job'[s].about
               /\ ~IsResolved(job'[s].copy, job'[s].about)
    <3>1. Reading(s)' /\ job'[s].copy = approvals /\ ~Resolved(s)'
      BY <2>1, Files DEF Reading, Doing, At
    <3>2. PICK a \in approvals : a.status = "pending" /\ a.id = job'[s].about
      BY <2>1, <3>1 DEF Resolved, Pending, Doing
    <3>3. \A b \in approvals : b.id = a.id => b = a
      BY DEF CopiesNumbered, Numbered
    <3> QED
      BY <3>1, <3>2, <3>3 DEF IsResolved
  <2>2. \A t \in slots : t # s /\ Doing(t, "resolve")' /\ job'[t].held =>
            /\ \E a \in job'[t].copy : a.id = job'[t].about
            /\ ~IsResolved(job'[t].copy, job'[t].about)
    BY <1>2 DEF ReadPending
  <2> QED
    BY <2>1, <2>2 DEF ReadPending, IsResolved
<1>9. SavesHold'
    BY <1>2 DEF SavesHold
<1>10. Counted'
    BY DEF Counted, IsResolved
<1> QED
    BY <1>3, <1>5, <1>6, <1>7, <1>8, <1>9, <1>10

(* A slot that writes approvals.json from its copy.                         *)
LEMMA SavingStep ==
    ASSUME OverlapInv, UNCHANGED slots, NEW s \in slots, DOMAIN job' = slots, JobTyped(s)',
           Reading(s), NEW content, Saves(s, content), Numbered(content),
           UNCHANGED runs,
           \A t \in slots : t # s => job'[t] = job[t],
           \A a \in content :
               a.id = job[s].id \/ \E b \in job[s].copy : b.id = a.id,
           \A i \in Ids : IsResolved(job[s].copy, i) => IsResolved(content, i),
           Reading(s)' => job'[s].copy = content /\ ~Doing(s, "resolve")',
           Busy(s)' => job'[s].id = job[s].id,
           Making(s)' => Making(s) /\ NotIn(content, job[s].id),
           Doing(s, "save")' => job'[s].held,
           resolved' \in [Ids -> Nat],
           \A i \in Ids :
               \/ resolved'[i] <= resolved[i]
               \/ /\ resolved'[i] <= resolved[i] + 1
                  /\ IsResolved(content, i) /\ ~IsResolved(job[s].copy, i)
    PROVE  OverlapInv'
<1> USE DEF OverlapInv
<1>1. /\ approvals' = content
      /\ forgotten' = [i \in Ids |->
             IF IsResolved(approvals, i) /\ ~IsResolved(job[s].copy, i)
             THEN forgotten[i] + 1 ELSE forgotten[i]]
    BY DEF Saves
<1>2. Busy(s)
    BY DEF Reading, JobsTyped, JobTyped
<1>3. \A t \in slots : t # s =>
          /\ Busy(t)' = Busy(t) /\ Reading(t)' = Reading(t)
          /\ Making(t)' = Making(t) /\ Head1(t)' = Head1(t)
          /\ \A do : Doing(t, do)' = Doing(t, do)
    BY DEF Busy, Reading, Making, Doing, At, Head1
<1>4. JobsTyped'
  <2>1. ASSUME NEW t \in slots, t # s
        PROVE  JobTyped(t)'
    BY <1>3, <2>1 DEF JobsTyped, JobTyped
  <2> QED
    BY <2>1 DEF JobsTyped
<1>5. CopiesNumbered'
  <2>1. \A t \in slots : Reading(t)' => Numbered(job'[t].copy)
    BY <1>3 DEF CopiesNumbered
  <2> QED
    BY <1>1, <2>1 DEF CopiesNumbered, Numbered
<1>6. IdsDiffer'
    BY <1>2, <1>3 DEF IdsDiffer
<1>7. IdsAreNew'
  <2>1. ASSUME NEW t \in slots, Making(t)'
        PROVE  /\ NotIn(content, job'[t].id)
               /\ \A u \in slots : u # s /\ Reading(u) =>
                      NotIn(job[u].copy, job'[t].id)
    <3>1. CASE t = s
      <4>1. Busy(s)'
        BY <2>1, <3>1 DEF Making
      <4> QED
        BY <2>1, <3>1, <4>1 DEF IdsAreNew
    <3>2. CASE t # s
      <4>1. Busy(t) /\ Making(t) /\ job'[t].id = job[t].id
        BY <1>3, <2>1, <3>2 DEF Making
      <4>2. job[t].id # job[s].id
        BY <1>2, <3>2, <4>1 DEF IdsDiffer
      <4>3. NotIn(job[s].copy, job[t].id)
        BY <4>1 DEF IdsAreNew
      <4> QED
        BY <4>1, <4>2, <4>3 DEF IdsAreNew, NotIn
    <3> QED
      BY <3>1, <3>2
  <2>2. \A t \in slots : Making(t)' =>
            /\ NotIn(approvals', job'[t].id)
            /\ \A u \in slots : Reading(u)' => NotIn(job'[u].copy, job'[t].id)
    BY <1>1, <1>3, <2>1
  <2> QED
    BY <2>2 DEF IdsAreNew, NotIn
<1>8. ReadPending'
  <2>1. ~(Doing(s, "resolve")' /\ job'[s].held)
    BY Files DEF Reading, Doing, At
  <2>2. \A t \in slots : t # s /\ Doing(t, "resolve")' /\ job'[t].held =>
            /\ \E a \in job'[t].copy : a.id = job'[t].about
            /\ ~IsResolved(job'[t].copy, job'[t].about)
    BY <1>3 DEF ReadPending
  <2> QED
    BY <2>1, <2>2 DEF ReadPending, IsResolved
<1>9. Counted'
  <2>1. forgotten' \in [Ids -> Nat]
    BY <1>1 DEF Counted
  <2>2. ASSUME NEW i \in Ids
        PROVE  resolved'[i] <= forgotten'[i]
                   + (IF IsResolved(content, i) THEN 1 ELSE 0)
    <3>1. /\ resolved[i] \in Nat /\ forgotten[i] \in Nat /\ resolved'[i] \in Nat
          /\ resolved[i] <= forgotten[i]
                 + (IF IsResolved(approvals, i) THEN 1 ELSE 0)
      BY DEF Counted
    <3>2. forgotten'[i] = IF IsResolved(approvals, i) /\ ~IsResolved(job[s].copy, i)
                          THEN forgotten[i] + 1 ELSE forgotten[i]
      BY <1>1
    <3> QED
      BY <3>1, <3>2
  <2>3. \A i : IsResolved(approvals, i)' <=> IsResolved(content, i)
    BY <1>1 DEF IsResolved
  <2> QED
    BY <2>1, <2>2, <2>3 DEF Counted
<1>10. SavesHold'
    BY <1>3 DEF SavesHold
<1> QED
    BY <1>4, <1>5, <1>6, <1>7, <1>8, <1>9, <1>10

LEMMA FinishOverlaps ==
    ASSUME OverlapInv, UNCHANGED slots, NEW s \in slots, Finish(s),
           UNCHANGED <<approvals, resolved, forgotten, runs>>
    PROVE  OverlapInv'
<1>1. DOMAIN job = slots
    BY DEF OverlapInv, JobsTyped
<1>2. /\ DOMAIN job' = slots /\ JobTyped(s)' /\ ~Busy(s)' /\ ~job'[s].held
      /\ \A t \in slots : t # s => job'[t] = job[t]
    BY <1>1, SlotFinishes
<1>3. ~Reading(s)' /\ ~Doing(s, "save")'
    BY <1>2 DEF Reading, Doing, At
<1> QED
    BY <1>2, <1>3, OtherStep

LEMMA ProceedOverlaps ==
    ASSUME OverlapInv, UNCHANGED slots, NEW s \in slots, Busy(s), Proceed(s),
           Head1(s).do # "create",
           UNCHANGED <<approvals, resolved, forgotten, runs>>
    PROVE  OverlapInv'
<1>1. DOMAIN job = slots /\ JobTyped(s)
    BY DEF OverlapInv, JobsTyped
<1>2. /\ DOMAIN job' = slots /\ JobTyped(s)' /\ ~job'[s].held
      /\ Busy(s)' => job'[s].id = job[s].id
      /\ Next2(Head1(s), job'[s].todo)
      /\ \A t \in slots : t # s => job'[t] = job[t]
    BY <1>1, SlotProceeds
<1>3. Making(s)' => Making(s)
    BY <1>2 DEF Making, Doing, At, Busy, Next2
<1>4. ~Reading(s)' /\ ~Doing(s, "save")'
    BY <1>2 DEF Reading, Doing, At, Busy, Head1, Next2, Leads
<1> QED
    BY <1>2, <1>3, <1>4, OtherStep

LEMMA ReadOverlaps ==
    ASSUME OverlapInv, UNCHANGED slots, NEW s \in slots, Read(s)
    PROVE  OverlapInv'
<1>1. /\ Busy(s) /\ Head1(s).do \in Writing
      /\ UNCHANGED <<approvals, resolved, forgotten, runs>>
    BY DEF Read, At, disk, history
<1>2. CASE Throws(s)
    BY <1>1, <1>2, FinishOverlaps DEF Read
<1>3. CASE ~Throws(s)
  <2>1. DOMAIN job = slots /\ JobTyped(s)
    BY DEF OverlapInv, JobsTyped
  <2> DEFINE content == CASE FileOf(Head1(s).do) = "contacts" -> contacts
                          [] FileOf(Head1(s).do) = "grants" -> homeGrants
                          [] OTHER -> approvals
  <2>2. Hold(s, content)
    BY <1>3 DEF Read
  <2>3. FileOf(Head1(s).do) = "approvals" => content = approvals
    OBVIOUS
  <2> HIDE DEF content
  <2>4. /\ DOMAIN job' = slots /\ DOMAIN job'[s] = DOMAIN job[s]
        /\ job'[s].held = TRUE /\ job'[s].copy = content
        /\ job'[s].todo = job[s].todo /\ job'[s].peer = job[s].peer
        /\ job'[s].id = job[s].id /\ job'[s].about = job[s].about
        /\ \A t \in slots : t # s => job'[t] = job[t]
    BY <2>1, <2>2 DEF Hold, JobTyped
  <2>5. JobTyped(s)'
    BY <1>1, <2>1, <2>4 DEF JobTyped, Busy
  <2>6. /\ Head1(s)' = Head1(s) /\ Busy(s)
        /\ \A do : Doing(s, do)' <=> Doing(s, do)
    BY <1>1, <2>4 DEF Head1, Doing, At, Busy
  <2>7. Making(s)' => Making(s)
    BY <2>6 DEF Making
  <2>8. Reading(s)' => job'[s].copy = approvals
    BY <2>3, <2>4, <2>6 DEF Reading
  <2>9. Doing(s, "resolve")' => ~Resolved(s)'
    BY <1>1, <1>3, <2>4, <2>6 DEF Throws, Resolved, Doing, Pending
  <2>10. Doing(s, "save")' => job'[s].held
    BY <2>4
  <2> QED
    BY <1>1, <2>4, <2>5, <2>6, <2>7, <2>8, <2>9, <2>10, OtherStep
<1> QED
    BY <1>2, <1>3

LEMMA StartOverlaps ==
    ASSUME OverlapInv, UNCHANGED slots, NEW s \in slots, NEW p \in Peers,
           NEW h \in DOMAIN Programs, NEW about \in Nat,
           Start(s, p, h, about)
    PROVE  OverlapInv'
<1> DEFINE program == Programs[h]
<1>1. Linked(program) /\ program # <<>> /\ Head(program) \in Ops
    BY ProgramsLinked, LinkedTail
<1>2. DOMAIN job = slots /\ runs \in Nat
    BY DEF OverlapInv, JobsTyped
<1> HIDE DEF program
<1>3. /\ job' = [job EXCEPT ![s] = [Idle EXCEPT !.peer = p, !.about = about,
                                        !.id = runs + 1, !.todo = program]]
      /\ runs' = runs + 1
      /\ UNCHANGED <<approvals, resolved, forgotten>>
    BY DEF Start, disk, history, program
<1>4. /\ DOMAIN job' = slots
      /\ DOMAIN job'[s] = {"peer", "about", "id", "todo", "held", "copy"}
      /\ job'[s].todo = program /\ ~job'[s].held /\ job'[s].held \in BOOLEAN
      /\ job'[s].peer = p /\ job'[s].about = about /\ job'[s].id = runs + 1
      /\ \A t \in slots : t # s => job'[t] = job[t]
    BY <1>2, <1>3 DEF Idle
<1>5. JobTyped(s)'
    BY <1>1, <1>2, <1>3, <1>4 DEF JobTyped, Busy
<1>6. ~Reading(s)' /\ ~Doing(s, "save")'
    BY <1>1, <1>4, ProgramsLinked DEF Reading, Doing, At, Head1, Opens, program
<1> QED
    BY <1>3, <1>4, <1>5, <1>6, OtherStep

LEMMA CreateOverlaps ==
    ASSUME OverlapInv, UNCHANGED slots, NEW s \in slots, CreateApproval(s)
    PROVE  OverlapInv'
<1> DEFINE new == [id |-> job[s].id, peer |-> job[s].peer, status |-> "pending"]
           content == job[s].copy \cup {new}
           rest == Tail(job[s].todo)
<1>1. /\ Doing(s, "create") /\ Busy(s) /\ Head1(s).do = "create" /\ job[s].held
      /\ Saves(s, content)
      /\ job' = [job EXCEPT ![s].todo = rest, ![s].copy = content]
      /\ UNCHANGED <<resolved, runs>>
    BY DEF CreateApproval, Doing, At
<1>2. /\ DOMAIN job = slots /\ JobTyped(s) /\ job[s].peer \in Peers
      /\ job[s].id \in Nat /\ job[s].id <= runs
    BY <1>1 DEF OverlapInv, JobsTyped, JobTyped
<1>3. Reading(s) /\ Making(s)
    BY <1>1, Files DEF Reading, Making, Doing, At
<1>4. Numbered(job[s].copy) /\ NotIn(job[s].copy, job[s].id)
    BY <1>3 DEF OverlapInv, CopiesNumbered, IdsAreNew
<1>5. new \in Approval /\ new.id = job[s].id /\ new.status = "pending"
    BY <1>2 DEF Approval
<1>6. Linked(rest) /\ Leads(rest, "save") /\ Head(rest) \in Ops
    BY <1>1, <1>2, LinkedTail DEF JobTyped, Busy, Head1, Next2, Leads
<1> HIDE DEF new, rest
<1>7. /\ Numbered(content)
      /\ \A a \in content :
             a.id = job[s].id \/ \E b \in job[s].copy : b.id = a.id
    BY <1>2, <1>4, <1>5 DEF Numbered, NotIn
<1>8. \A i \in Ids : IsResolved(job[s].copy, i) => IsResolved(content, i)
    BY DEF IsResolved
<1> HIDE DEF content
<1>9. /\ DOMAIN job' = slots /\ DOMAIN job'[s] = DOMAIN job[s]
      /\ job'[s].todo = rest /\ job'[s].copy = content
      /\ job'[s].held = job[s].held /\ job'[s].peer = job[s].peer
      /\ job'[s].id = job[s].id /\ job'[s].about = job[s].about
      /\ \A t \in slots : t # s => job'[t] = job[t]
    BY <1>1, <1>2 DEF JobTyped
<1>10. JobTyped(s)'
    BY <1>1, <1>2, <1>6, <1>9 DEF JobTyped, Busy, Leads
<1>11. Doing(s, "save")' /\ ~Doing(s, "resolve")' /\ ~Making(s)'
    BY <1>6, <1>9 DEF Leads, Making, Doing, At, Busy, Head1
<1>12. resolved' \in [Ids -> Nat] /\ \A i \in Ids : resolved'[i] <= resolved[i]
    BY <1>1 DEF OverlapInv, Counted
<1> QED
    BY <1>1, <1>3, <1>7, <1>8, <1>9, <1>10, <1>11, <1>12, SavingStep

LEMMA SaveOverlaps ==
    ASSUME OverlapInv, UNCHANGED slots, NEW s \in slots, SaveApproval(s)
    PROVE  OverlapInv'
<1>1. /\ Doing(s, "save") /\ Busy(s) /\ Head1(s).do = "save" /\ Proceed(s)
      /\ Saves(s, job[s].copy)
      /\ UNCHANGED <<resolved, runs>>
    BY DEF SaveApproval, Doing, At
<1>2. DOMAIN job = slots /\ JobTyped(s)
    BY DEF OverlapInv, JobsTyped
<1>3. /\ DOMAIN job' = slots /\ JobTyped(s)' /\ ~job'[s].held
      /\ Next2(Head1(s), job'[s].todo)
      /\ \A t \in slots : t # s => job'[t] = job[t]
    BY <1>1, <1>2, SlotProceeds
<1>4. ~Busy(s)' /\ ~Making(s)' /\ ~Reading(s)' /\ ~Doing(s, "save")'
    BY <1>1, <1>3 DEF Next2, Busy, Making, Reading, Doing, At
<1>5. Reading(s)
    BY <1>1, Files DEF Reading, OverlapInv, SavesHold
<1>6. Numbered(job[s].copy)
    BY <1>5 DEF OverlapInv, CopiesNumbered
<1>7. resolved' \in [Ids -> Nat] /\ \A i \in Ids : resolved'[i] <= resolved[i]
    BY <1>1 DEF OverlapInv, Counted
<1> QED
    BY <1>1, <1>3, <1>4, <1>5, <1>6, <1>7, SavingStep

LEMMA ResolveOverlaps ==
    ASSUME OverlapInv, UNCHANGED slots, NEW s \in slots, ResolveApproval(s)
    PROVE  OverlapInv'
<1> DEFINE Settled(a) == IF a.id = job[s].about
                         THEN [a EXCEPT !.status = "resolved"] ELSE a
           content == {Settled(a) : a \in job[s].copy}
<1>1. /\ Doing(s, "resolve") /\ Busy(s) /\ Head1(s).do = "resolve"
      /\ job[s].held /\ Proceed(s) /\ Saves(s, content)
      /\ resolved' = [resolved EXCEPT ![job[s].about] = @ + 1]
      /\ UNCHANGED runs
    BY DEF ResolveApproval, Doing, At
<1>2. DOMAIN job = slots /\ JobTyped(s)
    BY DEF OverlapInv, JobsTyped
<1>3. /\ DOMAIN job' = slots /\ JobTyped(s)' /\ ~job'[s].held
      /\ Busy(s)' => job'[s].id = job[s].id
      /\ Next2(Head1(s), job'[s].todo)
      /\ \A t \in slots : t # s => job'[t] = job[t]
    BY <1>1, <1>2, SlotProceeds
<1>4. /\ Reading(s) /\ Making(s) /\ ~Reading(s)'
      /\ ~Doing(s, "save")'
    BY <1>1, <1>3, Files
    DEF Reading, Making, Doing, At, Busy, Head1, Next2, Leads
<1>5. /\ Numbered(job[s].copy) /\ NotIn(job[s].copy, job[s].id)
      /\ \E a \in job[s].copy : a.id = job[s].about
      /\ ~IsResolved(job[s].copy, job[s].about)
    BY <1>1, <1>4 DEF OverlapInv, CopiesNumbered, IdsAreNew, ReadPending
<1>6. \A a \in job[s].copy :
          /\ Settled(a) \in Approval /\ Settled(a).id = a.id
          /\ a.id = job[s].about \/ a.status = "resolved" =>
                 Settled(a).status = "resolved"
    BY <1>5 DEF Numbered, Approval
<1> HIDE DEF Settled
<1>7. /\ Numbered(content) /\ NotIn(content, job[s].id)
      /\ \A a \in content : \E b \in job[s].copy : b.id = a.id
    BY <1>5, <1>6 DEF Numbered, NotIn
<1>8. \A i : IsResolved(job[s].copy, i) => IsResolved(content, i)
    BY <1>6 DEF IsResolved
<1>9. IsResolved(content, job[s].about)
    BY <1>5, <1>6 DEF IsResolved
<1> HIDE DEF content
<1>10. /\ resolved' \in [Ids -> Nat]
       /\ \A i \in Ids : resolved'[i] = IF i = job[s].about THEN resolved[i] + 1
                                        ELSE resolved[i]
  <2>1. /\ resolved \in [Ids -> Nat]
        /\ resolved' = [resolved EXCEPT ![job[s].about] = resolved[job[s].about] + 1]
    BY <1>1 DEF OverlapInv, Counted
  <2>2. job[s].about \in Ids => resolved[job[s].about] + 1 \in Nat
    BY <2>1
  <2> QED
    BY <2>1, <2>2
<1>11. \A i \in Ids :
           \/ resolved'[i] <= resolved[i]
           \/ /\ resolved'[i] <= resolved[i] + 1
              /\ IsResolved(content, i) /\ ~IsResolved(job[s].copy, i)
    BY <1>5, <1>9, <1>10 DEF OverlapInv, Counted
<1> QED
    BY <1>1, <1>3, <1>4, <1>7, <1>8, <1>10, <1>11, SavingStep

LEMMA CrashOverlaps ==
    ASSUME OverlapInv, UNCHANGED slots, Crash
    PROVE  OverlapInv'
<1>1. /\ job' = [s \in slots |-> Idle]
      /\ UNCHANGED <<approvals, resolved, forgotten, runs>>
    BY DEF Crash, disk
<1>2. \A s \in slots : /\ JobTyped(s)' /\ ~Busy(s)' /\ ~job'[s].held
                       /\ ~Reading(s)' /\ ~Making(s)'
  <2>1. Linked(<<>>)
    BY DEF Linked
  <2> QED
    BY <1>1, <2>1 DEF JobTyped, Busy, Idle, Reading, Making
<1>3. JobsTyped' /\ CopiesNumbered' /\ Counted'
    BY <1>1, <1>2
    DEF OverlapInv, JobsTyped, CopiesNumbered, Numbered, Counted, IsResolved
<1>4. IdsAreNew' /\ IdsDiffer' /\ ReadPending' /\ SavesHold'
    BY <1>2 DEF IdsAreNew, IdsDiffer, ReadPending, SavesHold, Doing, At
<1> QED
    BY <1>3, <1>4 DEF OverlapInv

LEMMA OverlapStarts == HomeInit => OverlapInv
<1> SUFFICES ASSUME HomeInit PROVE OverlapInv
    OBVIOUS
<1>1. \A s \in slots : /\ JobTyped(s) /\ ~Busy(s) /\ ~job[s].held
                       /\ ~Reading(s) /\ ~Making(s)
  <2>1. Linked(<<>>)
    BY DEF Linked
  <2> QED
    BY <2>1 DEF HomeInit, JobTyped, Busy, Idle, Reading, Making
<1>2. JobsTyped /\ CopiesNumbered /\ Counted
    BY <1>1 DEF HomeInit, JobsTyped, CopiesNumbered, Numbered, Counted
<1>3. IdsAreNew /\ IdsDiffer /\ ReadPending /\ SavesHold
    BY <1>1 DEF IdsAreNew, IdsDiffer, ReadPending, SavesHold, Doing, At
<1> QED
    BY <1>2, <1>3 DEF OverlapInv

LEMMA OverlapSteps == OverlapInv /\ [HomeNext]_homeVars => OverlapInv'
<1> SUFFICES ASSUME OverlapInv, [HomeNext]_homeVars PROVE OverlapInv'
    OBVIOUS
<1>0. UNCHANGED slots
    BY SlotsStay
<1> USE <1>0
<1>1. ASSUME NEW s \in slots, NEW p \in Peers, StartOther(s, p)
      PROVE  OverlapInv'
  <2>1. PICK h \in DOMAIN Programs : Start(s, p, h, 0)
    BY <1>1 DEF StartOther
  <2> QED
    BY <2>1, StartOverlaps
<1>2. ASSUME NEW s \in slots, NEW p \in Peers, StartNotified(s, p)
      PROVE  OverlapInv'
  <2>1. /\ Start(s, p, "markFriendRequestNotified", 0)
        /\ "markFriendRequestNotified" \in DOMAIN Programs
    BY <1>2 DEF StartNotified, Programs
  <2> QED
    BY <2>1, StartOverlaps
<1>3. ASSUME NEW s \in slots, NEW a \in approvals, StartDecision(s, a)
      PROVE  OverlapInv'
  <2>1. PICK h \in {"approve", "decline"} : Start(s, a.peer, h, a.id)
    BY <1>3 DEF StartDecision
  <2>2. h \in DOMAIN Programs
    BY DEF Programs
  <2>3. a.peer \in Peers /\ a.id \in Nat
    BY DEF OverlapInv, CopiesNumbered, Numbered, Approval
  <2> QED
    BY <2>1, <2>2, <2>3, StartOverlaps
<1>4. ASSUME NEW s \in slots, HandlerStep(s)
      PROVE  OverlapInv'
  <2>1. CASE Check(s)
    <3>1. /\ Busy(s) /\ UNCHANGED <<approvals, resolved, forgotten, runs>>
          /\ Head1(s).do # "create" /\ (Proceed(s) \/ Finish(s))
      BY <2>1 DEF Check, At, disk, history
    <3> QED
      BY <3>1, FinishOverlaps, ProceedOverlaps
  <2>2. CASE WriteContacts(s) \/ WriteGrants(s)
    <3>1. /\ job[s].held /\ Proceed(s) /\ Head1(s).do # "create"
          /\ UNCHANGED <<approvals, resolved, forgotten, runs>>
      BY <2>2, Files DEF WriteContacts, WriteGrants, history
    <3>2. Busy(s)
      BY <3>1 DEF OverlapInv, JobsTyped, JobTyped
    <3> QED
      BY <3>1, <3>2, ProceedOverlaps
  <2> QED
    BY <1>4, <2>1, <2>2, ReadOverlaps, CreateOverlaps, SaveOverlaps,
       ResolveOverlaps DEF HandlerStep
<1>5. CASE UNCHANGED homeVars
  <2>1. UNCHANGED <<approvals, job, runs, resolved, forgotten>>
    BY <1>5 DEF homeVars
  <2> QED
    BY <2>1 DEF OverlapInv, JobsTyped, JobTyped, CopiesNumbered, Numbered,
        IdsAreNew, IdsDiffer, ReadPending, SavesHold, Counted, IsResolved,
        NotIn, Reading, Making, Doing, At, Busy, Head1
<1> QED
    BY <1>1, <1>2, <1>3, <1>4, <1>5, CrashOverlaps DEF HomeNext

(* With any number of handlers that overlap and are cut anywhere, an       *)
(* approval acts once, and once more for each time a handler, having read  *)
(* approvals.json before a resolution, wrote it after (resolveApproval and *)
(* createApproval).                                                        *)
THEOREM ApprovalsActOnce == HomeSpec => []ApprovalActsOnce
<1>1. OverlapInv => ApprovalActsOnce
  <2> SUFFICES ASSUME OverlapInv, NEW i \in Ids
               PROVE  resolved[i] <= 1 + forgotten[i]
    BY DEF ApprovalActsOnce
  <2>1. /\ resolved[i] \in Nat /\ forgotten[i] \in Nat
        /\ resolved[i] <= forgotten[i]
               + (IF IsResolved(approvals, i) THEN 1 ELSE 0)
    BY DEF OverlapInv, Counted
  <2> QED
    BY <2>1
<1> QED
    BY <1>1, OverlapStarts, OverlapSteps, PTL DEF HomeSpec
=============================================================================
