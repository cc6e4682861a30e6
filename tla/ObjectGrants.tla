---------------------------- MODULE ObjectGrants ----------------------------
(***************************************************************************)
(* Sharing one object behind one revocable grant (src/store-objects.ts).   *)
(*                                                                         *)
(* The owner issues an object.read grant, keeps it and sends it with the   *)
(* object; the reader keeps both and decides every read on its own copy.   *)
(* Revoking marks the owner's copy and sends an object_revoke; ending the  *)
(* relationship marks the grants of one side only and sends nothing.       *)
(*                                                                         *)
(* A channel holds the envelopes from one agent to another in the order    *)
(* they were signed.  Ordered says whether they take effect in that order: *)
(* a host that redelivers after a reconnect, two handlers that overlap     *)
(* (MailboxIntake) or a relay next to a mailbox do not keep it.  Lose is   *)
(* an envelope that expires, or that the inbound throttle refuses.         *)
(*                                                                         *)
(* Shares do not expire, as the CLI makes them; attachments follow their   *)
(* object; signatures verify.  How two agents become friends again is in   *)
(* FriendGraph.                                                            *)
(***************************************************************************)
EXTENDS Naturals, Sequences, SequencesExt

CONSTANTS
    Agents,
    Objects,
    Author,       \* Author[o]: the agent that creates o
    Ordered,      \* envelopes of a channel take effect in order
    MaxEnvelopes, \* bound: envelopes ever signed
    MaxParts      \* bound: relationships ended

ASSUME AuthorAssumption == Author \in [Objects -> Agents]
ASSUME BoundsAssumption ==
    Ordered \in BOOLEAN /\ MaxEnvelopes \in Nat /\ MaxParts \in Nat

VARIABLES
    rel,      \* rel[a][b]: relationship_state of b in a's contacts
    objects,  \* objects[a]: the objects in a's objects.json
    grants,   \* grants[a]: the object.read grants in a's grants.json
    channel,  \* channel[a][b]: envelopes from a to b
    signed,   \* envelopes signed: the source of ids
    parts,    \* relationships ended
    wish,     \* history: wish[o][b]: the author's last word, shared, revoked
    lost,     \* history: some envelope was lost
    parted    \* history: pairs one of which ended the relationship

vars == <<rel, objects, grants, channel, signed, parts, wish, lost, parted>>

States == {"friend", "revoked", "blocked"}
Grant == [id : Nat, object : Objects, issuer : Agents, subject : Agents,
          active : BOOLEAN]
Envelope ==
    [type : {"object_share"}, object : Objects, grant : Grant]
    \cup [type : {"object_revoke"}, object : Objects]

Pairs == {p \in Agents \X Agents : p[1] # p[2]}

-----------------------------------------------------------------------------
(* Operators on the stores.                                                *)

(* storeGrant: the record of an id is replaced.                            *)
StoreGrant(s, g) == {h \in s : h.id # g.id} \cup {g}

Deactivated(s, hits) ==
    {IF g \in hits THEN [g EXCEPT !.active = FALSE] ELSE g : g \in s}

(* canReadObject and readObject.                                           *)
CanRead(home, o, subject) ==
    /\ o \in objects[home]
    /\ \/ Author[o] = subject
       \/ \E g \in grants[home] :
             g.object = o /\ g.subject = subject /\ g.active

Send(a, b, m) ==
    /\ signed < MaxEnvelopes
    /\ signed' = signed + 1
    /\ channel' = [channel EXCEPT ![a][b] = Append(@, m)]

Wish(a, b, o, word) ==
    wish' = IF Author[o] = a THEN [wish EXCEPT ![o][b] = word] ELSE wish

-----------------------------------------------------------------------------
(* The owner.                                                              *)

CreateObject(a, o) ==
    /\ Author[o] = a
    /\ o \notin objects[a]
    /\ objects' = [objects EXCEPT ![a] = @ \cup {o}]
    /\ UNCHANGED <<rel, grants, channel, signed, parts, wish, lost, parted>>

(* shareObjectEnvelope; whatever objects.json holds can be named, the      *)
(* objects of others too.                                                  *)
Share(a, b, o) ==
    LET g == [id |-> signed + 1, object |-> o, issuer |-> a, subject |-> b,
              active |-> TRUE]
    IN  /\ rel[a][b] = "friend"
        /\ o \in objects[a]
        /\ grants' = [grants EXCEPT ![a] = StoreGrant(@, g)]
        /\ Send(a, b, [type |-> "object_share", object |-> o, grant |-> g])
        /\ Wish(a, b, o, "shared")
        /\ UNCHANGED <<rel, objects, parts, lost, parted>>

(* Slip of revokeObjectGrant: the first matching grant only.               *)
FirstOf(a, b, o) ==
    LET hits == {g \in grants[a] : g.object = o /\ g.subject = b /\ g.active}
    IN  {g \in hits : \A h \in hits : g.id <= h.id}

(* revokeObjectGrant: every active grant of the peer for the object.       *)
HitsOf(a, b, o) ==
    {g \in grants[a] : g.object = o /\ g.subject = b /\ g.active}

(* revokeObjectEnvelope asks nothing of the contact, and signs even when   *)
(* nothing was revoked.                                                    *)
Revoke(a, b, o) ==
    /\ grants' = [grants EXCEPT ![a] = Deactivated(@, HitsOf(a, b, o))]
    /\ Send(a, b, [type |-> "object_revoke", object |-> o])
    /\ Wish(a, b, o, "revoked")
    /\ UNCHANGED <<rel, objects, parts, lost, parted>>

(* store-friends.ts: revoke marks the object grants too, block does not.   *)
EndRelationship(a, b) ==
    /\ parts < MaxParts
    /\ parts' = parts + 1
    /\ parted' = parted \cup {<<a, b>>, <<b, a>>}
    /\ \/ /\ rel' = [rel EXCEPT ![a][b] = "revoked"]
          /\ grants' = [grants EXCEPT
                ![a] = Deactivated(@, {g \in @ : b \in {g.subject, g.issuer}})]
       \/ /\ rel' = [rel EXCEPT ![a][b] = "blocked"]
          /\ UNCHANGED grants
    /\ UNCHANGED <<objects, channel, signed, wish, lost>>

Befriend(a, b) ==
    /\ rel[a][b] = "revoked"
    /\ rel' = [rel EXCEPT ![a][b] = "friend"]
    /\ UNCHANGED <<objects, grants, channel, signed, parts, wish, lost,
                   parted>>

-----------------------------------------------------------------------------
(* The reader.  Neither handler looks at the relationship.                 *)

Take(a, b, i) == channel' = [channel EXCEPT ![a][b] = RemoveAt(@, i)]

(* Slip: the author of the object is not compared with the sender.         *)
AnySender(a, m) == TRUE
BindsSender(a, m) == Author[m.object] = a

ReceiveObjectShare(a, b, i) ==
    LET m == channel[a][b][i]
    IN  /\ m.type = "object_share"
        /\ Take(a, b, i)
        /\ IF BindsSender(a, m)
           THEN /\ objects' = [objects EXCEPT ![b] = @ \cup {m.object}]
                /\ grants' = [grants EXCEPT ![b] = StoreGrant(@, m.grant)]
           ELSE UNCHANGED <<objects, grants>>
        /\ UNCHANGED <<rel, signed, parts, wish, lost, parted>>

(* Slip: an object_revoke is received and changes nothing.                 *)
ReceiveAndForget(a, b, i) ==
    /\ channel[a][b][i].type = "object_revoke"
    /\ Take(a, b, i)
    /\ UNCHANGED <<rel, objects, grants, signed, parts, wish, lost, parted>>

ReceiveObjectRevoke(a, b, i) ==
    LET o == channel[a][b][i].object
    IN  /\ channel[a][b][i].type = "object_revoke"
        /\ Take(a, b, i)
        /\ grants' = [grants EXCEPT
              ![b] = Deactivated(@, {g \in @ : g.object = o /\ g.issuer = a})]
        /\ UNCHANGED <<rel, objects, signed, parts, wish, lost, parted>>

Lose(a, b, i) ==
    /\ Take(a, b, i)
    /\ lost' = TRUE
    /\ UNCHANGED <<rel, objects, grants, signed, parts, wish, parted>>

-----------------------------------------------------------------------------

Init ==
    /\ rel = [a \in Agents |-> [b \in Agents |-> "friend"]]
    /\ objects = [a \in Agents |-> {}]
    /\ grants = [a \in Agents |-> {}]
    /\ channel = [a \in Agents |-> [b \in Agents |-> <<>>]]
    /\ signed = 0
    /\ parts = 0
    /\ wish = [o \in Objects |-> [b \in Agents |-> "none"]]
    /\ lost = FALSE
    /\ parted = {}

(* The command `object`, and `friend` for the rest; what --deliver fails to *)
(* deliver is lost.                                                        *)
OwnerStep(a, b) ==
    \/ EndRelationship(a, b)
    \/ Befriend(a, b)
    \/ \E o \in Objects : Share(a, b, o) \/ Revoke(a, b, o)

Receive(a, b) ==
    \E i \in DOMAIN channel[a][b] :
        /\ Ordered => i = 1
        /\ ReceiveObjectShare(a, b, i) \/ ReceiveObjectRevoke(a, b, i)

Next ==
    \/ \E a \in Agents, o \in Objects : CreateObject(a, o)
    \/ \E p \in Pairs : OwnerStep(p[1], p[2])
    \/ \E p \in Pairs : Receive(p[1], p[2])
    \/ \E p \in Pairs : \E i \in DOMAIN channel[p[1]][p[2]] :
          Lose(p[1], p[2], i)

Spec == Init /\ [][Next]_vars

(* An envelope that is not lost is delivered.  Nobody has to share, revoke *)
(* or part.                                                                *)
FairSpec == Spec /\ \A p \in Pairs : WF_vars(Receive(p[1], p[2]))

-----------------------------------------------------------------------------
(* Properties.                                                             *)

(* The stores and the channels have the shape the code gives them.         *)
TypeOK ==
    /\ rel \in [Agents -> [Agents -> States]]
    /\ objects \in [Agents -> SUBSET Objects]
    /\ grants \in [Agents -> SUBSET Grant]
    /\ channel \in [Agents -> [Agents -> Seq(Envelope)]]
    /\ signed \in Nat
    /\ parts \in Nat
    /\ wish \in [Objects -> [Agents -> {"none", "shared", "revoked"}]]
    /\ lost \in BOOLEAN
    /\ parted \subseteq Pairs

(* Nobody but the author can read an object the author never shared with   *)
(* them, whatever others do with what was shared with them.                *)
ReadsWereShared ==
    \A o \in Objects : \A b \in Agents \ {Author[o]} :
        CanRead(b, o, b) => wish[o][b] # "none"

(* Owner and reader agree: once every envelope has arrived and none was    *)
(* lost, a reader whose relationship with the author never ended can read  *)
(* exactly what the author's own grants say.                               *)
ReadersAgreeWithOwner ==
    \A o \in Objects : \A b \in Agents \ {Author[o]} :
        LET a == Author[o]
        IN  channel[a][b] = <<>> /\ ~lost /\ <<a, b>> \notin parted
                => (CanRead(b, o, b) <=> CanRead(a, o, b))

(* A revoke takes effect at the reader, unless it is lost or the object is *)
(* shared again, and even if the relationship has ended meanwhile.         *)
RevokeArrives ==
    \A o \in Objects : \A b \in Agents \ {Author[o]} :
        wish[o][b] = "revoked"
            ~> ~CanRead(b, o, b) \/ lost \/ wish[o][b] = "shared"
=============================================================================
