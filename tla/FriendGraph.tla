---------------------------- MODULE FriendGraph ----------------------------
(***************************************************************************)
(* The friend graph of Edge Book: what each agent's home directory says    *)
(* about each peer (contacts.json), which capability grants it holds       *)
(* (grants.json), which friend_accept approvals wait for its owner         *)
(* (approvals.json), and the signed envelopes travelling between agents.   *)
(*                                                                         *)
(* One action is one whole handler of src/store-friends.ts or              *)
(* src/store-trust.ts, run without interruption: the interleaving of two   *)
(* handlers at their awaits is the subject of ContactFile, and the receive *)
(* path that hands each envelope to its handler is MailboxIntake.          *)
(*                                                                         *)
(* The network keeps envelopes in a set: they arrive in any order, and     *)
(* Drop loses them (an expired envelope, the inbound throttle, a failed    *)
(* relay: all of them consume the envelope and change nothing modelled     *)
(* here).  Scopes are one value, since acceptFriend issues them together;  *)
(* signatures verify, since agents sign what they send; the friend profile *)
(* that rides along a response is left out.                                *)
(***************************************************************************)
EXTENDS Naturals, Sequences

CONSTANTS
    Agents,       \* the agents, each with a home directory of its own
    InviteOnly,   \* those with open_friend_requests === false
    InviteUses,   \* uses of the invite code it has minted (0: none minted)
    MaxEnvelopes, \* bound: envelopes ever signed
    MaxGrants     \* bound: grants ever issued

ASSUME InviteOnlyAssumption == InviteOnly \subseteq Agents
ASSUME BoundsAssumption ==
    InviteUses \in Nat /\ MaxEnvelopes \in Nat /\ MaxGrants \in Nat

VARIABLES
    rel,      \* rel[a][b]: relationship_state of b in a's contacts.json
    grants,   \* grants[a]: a's grants.json, in the order of its keys
    pending,  \* pending[a][b]: pending friend_accept approvals about b
    uses,     \* uses[a]: remaining uses of a's invite code
    net,      \* envelopes signed and not yet consumed
    signed,   \* number of envelopes signed: the source of message ids
    issued,   \* number of grants issued: the source of grant ids
    inbox,    \* inbox[a]: privileged messages appended to a's inbox.jsonl
    standing  \* history: the last of accept, revoke, block a chose for b

vars == <<rel, grants, pending, uses, net, signed, issued, inbox,
          standing>>

(* "absent" stands for a peer with no contact record.                      *)
States == {"absent", "none", "request_sent", "request_received", "friend",
           "rejected", "revoked", "blocked"}
Standings == {"none", "accepted", "revoked", "blocked"}

Grant == [id : Nat, issuer : Agents, subject : Agents, active : BOOLEAN]

Envelope ==
    [type : {"friend_request"}, id : Nat, from : Agents, to : Agents,
     code : BOOLEAN]
    \cup [type : {"friend_response"}, id : Nat, from : Agents, to : Agents,
          accepted : {TRUE}, grant : Grant]
    \cup [type : {"friend_response"}, id : Nat, from : Agents, to : Agents,
          accepted : {FALSE}]
    \cup [type : {"privileged_message"}, id : Nat, from : Agents,
          to : Agents, capability : Nat]

-----------------------------------------------------------------------------
(* Operators on the stores.                                                *)

Elems(s) == {s[i] : i \in DOMAIN s}

(* storeGrant: a JSON object keeps the place of a key it already has and   *)
(* puts a new key last.                                                    *)
StoreGrant(s, g) ==
    IF \E i \in DOMAIN s : s[i].id = g.id
    THEN [i \in DOMAIN s |-> IF s[i].id = g.id THEN g ELSE s[i]]
    ELSE Append(s, g)

(* The slip of revoke is to forget the grants this agent issued.           *)
RevokeReceivedOnly(s, b) ==
    [i \in DOMAIN s |->
        IF b = s[i].issuer THEN [s[i] EXCEPT !.active = FALSE] ELSE s[i]]

(* revoke marks every grant that names the peer, in either direction.      *)
RevokeAllWith(s, b) ==
    [i \in DOMAIN s |->
        IF b \in {s[i].subject, s[i].issuer}
        THEN [s[i] EXCEPT !.active = FALSE] ELSE s[i]]

(* findUsableGrant: the first key of grants.json that matches.             *)
UsableAt(a, b, i) ==
    /\ i \in DOMAIN grants[a]
    /\ grants[a][i].issuer = b
    /\ grants[a][i].subject = a
    /\ grants[a][i].active

FindUsableGrant(a, b, i) ==
    UsableAt(a, b, i) /\ \A j \in 1..(i - 1) : ~UsableAt(a, b, j)

(* The checks of receivePrivilegedMessage on the grant a message carries.  *)
HonouredGrant(b, a, id) ==
    \E g \in Elems(grants[b]) : g.id = id /\ g.active /\ g.subject = a

(* b lets a in: some message of a's would be put into b's inbox.           *)
Admits(b, a) ==
    /\ rel[b][a] = "friend"
    /\ \E g \in Elems(grants[b]) : g.active /\ g.subject = a

(* upsertContactFromCard with a state other than blocked throws on a       *)
(* blocked contact; the slip is to leave that check out.                   *)
UpsertUnchecked(b, a) == TRUE
MayUpsert(b, a) == rel[b][a] # "blocked"

(* An approval is created unless one is pending for the same peer.         *)
AddApproval(n) == IF n > 0 THEN n ELSE n + 1

(* consumeInviteCode: the code is known and has a use left.                *)
CodeUsable(b, m) == m.code /\ uses[b] > 0

SetRel(a, b, state) == rel' = [rel EXCEPT ![a][b] = state]
Stand(a, b, s) == standing' = [standing EXCEPT ![a][b] = s]

(* signEnvelope: a fresh message id, and the envelope leaves for its       *)
(* recipient.                                                              *)
Sign(m) == /\ signed < MaxEnvelopes
           /\ signed' = signed + 1
           /\ net' = net \cup {m}
Consume(m) == net' = net \ {m} /\ UNCHANGED signed

-----------------------------------------------------------------------------
(* Operations of the owner, through the CLI or the reader's local API.     *)

(* contacts refresh, or any card upsert that names no state.               *)
RefreshContact(a, b) ==
    /\ rel[a][b] = "absent"
    /\ SetRel(a, b, "none")
    /\ UNCHANGED <<grants, pending, uses, net, signed, issued, inbox,
                   standing>>

CreateFriendRequest(a, b, code) ==
    /\ rel[a][b] # "blocked"
    /\ SetRel(a, b, "request_sent")
    /\ Sign([type |-> "friend_request", id |-> signed + 1,
             from |-> a, to |-> b, code |-> code])
    /\ UNCHANGED <<grants, pending, uses, issued, inbox, standing>>

(* acceptFriend: any contact that is not blocked, whatever its state.      *)
AcceptEffect(a, b) ==
    LET g == [id |-> issued + 1, issuer |-> a, subject |-> b,
              active |-> TRUE]
    IN  /\ issued < MaxGrants
        /\ issued' = issued + 1
        /\ SetRel(a, b, "friend")
        /\ grants' = [grants EXCEPT ![a] = StoreGrant(@, g)]
        /\ Sign([type |-> "friend_response", id |-> signed + 1,
                 from |-> a, to |-> b, accepted |-> TRUE, grant |-> g])
        /\ Stand(a, b, "accepted")
            /\ UNCHANGED <<uses, inbox>>

AcceptFriend(a, b) ==
    /\ rel[a][b] \notin {"absent", "blocked"}
    /\ AcceptEffect(a, b)
    /\ UNCHANGED pending

(* The reader resolves a friend_accept approval.  Approving checks the     *)
(* contact first; rejecting does not, and on a blocked contact rejectFriend*)
(* throws after the approval has been resolved.                            *)
ApproveRequest(a, b) ==
    /\ pending[a][b] > 0
    /\ rel[a][b] = "request_received"
    /\ pending' = [pending EXCEPT ![a][b] = @ - 1]
    /\ AcceptEffect(a, b)

RejectRequest(a, b) ==
    /\ pending[a][b] > 0
    /\ pending' = [pending EXCEPT ![a][b] = @ - 1]
    /\ IF rel[a][b] = "blocked"
       THEN UNCHANGED <<rel, net, signed>>
       ELSE /\ SetRel(a, b, "rejected")
            /\ Sign([type |-> "friend_response", id |-> signed + 1,
                     from |-> a, to |-> b, accepted |-> FALSE])
    /\ UNCHANGED <<grants, uses, issued, inbox, standing>>

(* Nothing is sent: the peer is not told.                                  *)
Revoke(a, b) ==
    /\ rel[a][b] # "absent"
    /\ SetRel(a, b, "revoked")
    /\ grants' = [grants EXCEPT ![a] = RevokeAllWith(@, b)]
    /\ Stand(a, b, "revoked")
    /\ UNCHANGED <<pending, uses, net, signed, issued, inbox>>

(* block leaves every grant as it is.                                      *)
Block(a, b) ==
    /\ rel[a][b] # "absent"
    /\ SetRel(a, b, "blocked")
    /\ Stand(a, b, "blocked")
    /\ UNCHANGED <<grants, pending, uses, net, signed, issued, inbox>>

SendPrivilegedMessage(a, b) ==
    /\ rel[a][b] = "friend"
    /\ \E i \in DOMAIN grants[a] :
          /\ FindUsableGrant(a, b, i)
          /\ Sign([type |-> "privileged_message", id |-> signed + 1,
                   from |-> a, to |-> b, capability |-> grants[a][i].id])
    /\ UNCHANGED <<rel, grants, pending, uses, issued, inbox, standing>>

-----------------------------------------------------------------------------
(* Handlers of inbound envelopes (receiveEnvelope).                        *)

InviteBypass == {"request_sent", "friend"}

(* The gate of invite-only mode; a code is spent only where the state of   *)
(* the contact does not already let the request through.                   *)
NeedsCode(b, a) == b \in InviteOnly /\ rel[b][a] \notin InviteBypass

ReceiveFriendRequest(m) ==
    LET b == m.to
        a == m.from
        admitted == NeedsCode(b, a) => CodeUsable(b, m)
    IN  /\ m.type = "friend_request"
        /\ Consume(m)
        /\ uses' = IF NeedsCode(b, a) /\ admitted
                   THEN [uses EXCEPT ![b] = @ - 1] ELSE uses
        /\ IF admitted /\ MayUpsert(b, a)
           THEN /\ SetRel(b, a, "request_received")
                /\ pending' = [pending EXCEPT ![b][a] = AddApproval(@)]
           ELSE UNCHANGED <<rel, pending>>
        /\ UNCHANGED <<grants, issued, inbox, standing>>

(* applyFriendResponse does not ask whether this agent sent a request.     *)
ApplyFriendResponse(m) ==
    LET b == m.to
        a == m.from
    IN  /\ m.type = "friend_response"
        /\ Consume(m)
        /\ IF MayUpsert(b, a)
           THEN /\ SetRel(b, a, IF m.accepted THEN "friend" ELSE "rejected")
                /\ grants' = IF m.accepted
                             THEN [grants EXCEPT ![b] = StoreGrant(@, m.grant)]
                             ELSE grants
           ELSE UNCHANGED <<rel, grants>>
        /\ UNCHANGED <<pending, uses, issued, inbox, standing>>

ReceivePrivilegedMessage(m) ==
    LET b == m.to
        a == m.from
    IN  /\ m.type = "privileged_message"
        /\ Consume(m)
        /\ inbox' = IF rel[b][a] = "friend" /\ HonouredGrant(b, a, m.capability)
                    THEN [inbox EXCEPT ![b] = @ \cup {[id |-> m.id, from |-> a]}]
                    ELSE inbox
        /\ UNCHANGED <<rel, grants, pending, uses, issued, standing>>

Drop(m) ==
    /\ Consume(m)
    /\ UNCHANGED <<rel, grants, pending, uses, issued, inbox, standing>>

-----------------------------------------------------------------------------

Init ==
    /\ rel = [a \in Agents |-> [b \in Agents |-> "absent"]]
    /\ grants = [a \in Agents |-> <<>>]
    /\ pending = [a \in Agents |-> [b \in Agents |-> 0]]
    /\ uses = [a \in Agents |-> InviteUses]
    /\ net = {}
    /\ signed = 0
    /\ issued = 0
    /\ inbox = [a \in Agents |-> {}]
    /\ standing = [a \in Agents |-> [b \in Agents |-> "none"]]

(* The commands `friend`, `contacts refresh` and `message send`.            *)
OwnerStep(a, b) ==
    \/ RefreshContact(a, b)
    \/ \E code \in BOOLEAN : CreateFriendRequest(a, b, code)
    \/ AcceptFriend(a, b)
    \/ ApproveRequest(a, b)
    \/ RejectRequest(a, b)
    \/ Revoke(a, b)
    \/ Block(a, b)
    \/ SendPrivilegedMessage(a, b)

ReceiveStep(m) ==
    \/ ReceiveFriendRequest(m)
    \/ ApplyFriendResponse(m)
    \/ ReceivePrivilegedMessage(m)
    \/ Drop(m)

Next ==
    \/ \E a, b \in Agents : a # b /\ OwnerStep(a, b)
    \/ \E m \in net : ReceiveStep(m)

Spec == Init /\ [][Next]_vars

-----------------------------------------------------------------------------
(* Properties.                                                             *)

(* Every store and every envelope in flight has the shape the code gives   *)
(* it.                                                                     *)
TypeOK ==
    /\ rel \in [Agents -> [Agents -> States]]
    /\ grants \in [Agents -> Seq(Grant)]
    /\ pending \in [Agents -> [Agents -> Nat]]
    /\ uses \in [Agents -> Nat]
    /\ net \subseteq Envelope
    /\ signed \in Nat
    /\ issued \in Nat
    /\ inbox \in [Agents -> SUBSET [id : Nat, from : Agents]]
    /\ standing \in [Agents -> [Agents -> Standings]]

(* A request an agent shows as received has exactly one approval waiting   *)
(* in the reader, whatever was accepted, rejected, revoked and requested   *)
(* again before (receiveFriendRequest's deduplication of approvals).       *)
RequestAwaitsApproval ==
    \A a, b \in Agents :
        /\ pending[a][b] <= 1
        /\ rel[a][b] = "request_received" => pending[a][b] = 1

(* An agent admits a peer's messages only while its owner's last accept,   *)
(* revoke or block of that peer is the accept: a late friend_response,     *)
(* which makes the peer a friend again without asking, must find no grant  *)
(* left to use.                                                            *)
AdmittedOnlyByAcceptance ==
    \A a, b \in Agents : Admits(b, a) => standing[b][a] = "accepted"

(* A block holds against everything the peer sends and every other local   *)
(* operation until the owner revokes, and nothing else blocks a contact.   *)
BlockHolds ==
    \A a, b \in Agents : rel[a][b] = "blocked" <=> standing[a][b] = "blocked"

(* No privileged message enters an inbox after its owner revoked or        *)
(* blocked the sender, until the owner accepts the sender again.           *)
NoMailAfterRevocation ==
    [][\A b \in Agents : \A e \in inbox'[b] \ inbox[b] :
          standing[b][e.from] = "accepted"]_vars

(* What all this promises: the abstract specification of admission.        *)
Pairs == {p \in Agents \X Agents : p[1] # p[2]}

Promise == INSTANCE Admission WITH
    admitted <- {p \in Pairs : Admits(p[1], p[2])},
    accepted <- {p \in Pairs : standing[p[1]][p[2]] = "accepted"}

AdmissionSpec == Promise!Spec

=============================================================================
