------------------------ MODULE ObjectGrants_proofs ------------------------
(***************************************************************************)
(* Proofs about ObjectGrants, for any agents, objects and bounds: type     *)
(* correctness and that nobody reads an object its author did not share    *)
(* with them, with envelopes taking effect in any order; and, when they    *)
(* take effect in the order they were signed, that reader and owner agree. *)
(***************************************************************************)
EXTENDS ObjectGrants, TLAPS

(* An object a reader holds, or its author has under way to them, was      *)
(* shared with them by its author.                                         *)
SharedInv ==
    \A o \in Objects : \A b \in Agents \ {Author[o]} :
        /\ o \in objects[b] => wish[o][b] # "none"
        /\ \A i \in DOMAIN channel[Author[o]][b] :
              LET m == channel[Author[o]][b][i]
              IN  m.type = "object_share" /\ m.object = o
                      => wish[o][b] # "none"

-----------------------------------------------------------------------------
(* Channels.                                                               *)

LEMMA RemoveAtFacts ==
    ASSUME NEW S, NEW s \in Seq(S), NEW i \in DOMAIN s
    PROVE  /\ RemoveAt(s, i) \in Seq(S)
           /\ \A j \in DOMAIN RemoveAt(s, i) :
                 \E k \in DOMAIN s : RemoveAt(s, i)[j] = s[k]
           /\ Len(RemoveAt(s, i)) = Len(s) - 1
           /\ \A j \in i..(Len(s) - 1) : RemoveAt(s, i)[j] = s[j + 1]
<1> DEFINE l == SubSeq(s, 1, i - 1)
           r == SubSeq(s, i + 1, Len(s))
<1>1. i \in 1..Len(s) /\ Len(s) \in Nat
    OBVIOUS
<1>2. l \in Seq(S) /\ Len(l) = i - 1 /\ \A j \in 1..(i - 1) : l[j] = s[j]
    BY <1>1
<1>3. /\ r \in Seq(S) /\ Len(r) = Len(s) - i
      /\ \A j \in 1..(Len(s) - i) : r[j] = s[i + j]
    BY <1>1
<1>4. RemoveAt(s, i) = l \o r
    BY DEF RemoveAt
<1> HIDE DEF l, r
<1>5. /\ l \o r \in Seq(S) /\ DOMAIN (l \o r) = 1..(Len(s) - 1)
      /\ \A j \in 1..(i - 1) : (l \o r)[j] = s[j]
      /\ \A j \in i..(Len(s) - 1) : (l \o r)[j] = r[j - (i - 1)]
    BY <1>1, <1>2, <1>3
<1>6. ASSUME NEW j \in i..(Len(s) - 1)
      PROVE  (l \o r)[j] = s[j + 1]
    <2>1. j - (i - 1) \in 1..(Len(s) - i) /\ i + (j - (i - 1)) = j + 1
        BY <1>1
    <2>2. (l \o r)[j] = r[j - (i - 1)]
        BY <1>5
    <2>3. r[j - (i - 1)] = s[i + (j - (i - 1))]
        BY <1>3, <2>1
    <2> QED BY <2>1, <2>2, <2>3
<1>7. ASSUME NEW j \in 1..(Len(s) - 1)
      PROVE  \E k \in DOMAIN s : (l \o r)[j] = s[k]
    <2>0. DOMAIN s = 1..Len(s)
        OBVIOUS
    <2>1. CASE j < i
        <3>1. j \in 1..(i - 1) /\ j \in 1..Len(s)
            BY <1>1, <2>1
        <3>2. (l \o r)[j] = s[j]
            BY <1>5, <3>1
        <3> QED BY <2>0, <3>1, <3>2
    <2>2. CASE j >= i
        <3>1. j \in i..(Len(s) - 1) /\ j + 1 \in 1..Len(s)
            BY <1>1, <2>2
        <3>2. (l \o r)[j] = s[j + 1]
            BY <1>6, <3>1
        <3> QED BY <2>0, <3>1, <3>2
    <2>3. j < i \/ j >= i
        BY <1>1
    <2> QED BY <2>1, <2>2, <2>3
<1>8. Len(l \o r) = Len(s) - 1
    BY <1>1, <1>2, <1>3
<1> QED BY <1>4, <1>5, <1>6, <1>7, <1>8

Channels == [Agents -> [Agents -> Seq(Envelope)]]

(* Taking an envelope leaves a channel of envelopes that were there.       *)
LEMMA TakeFacts ==
    ASSUME TypeOK, NEW a \in Agents, NEW b \in Agents,
           NEW i \in DOMAIN channel[a][b], Take(a, b, i)
    PROVE  /\ channel' \in Channels
           /\ \A c, d \in Agents : \A j \in DOMAIN channel'[c][d] :
                 \E k \in DOMAIN channel[c][d] :
                    channel'[c][d][j] = channel[c][d][k]
<1>1. channel \in Channels /\ channel[a][b] \in Seq(Envelope)
    BY DEF TypeOK, Channels
<1>2. channel' = [channel EXCEPT ![a][b] = RemoveAt(channel[a][b], i)]
    BY DEF Take
<1> DEFINE rest == RemoveAt(channel[a][b], i)
<1>3. /\ rest \in Seq(Envelope)
      /\ \A j \in DOMAIN rest : \E k \in DOMAIN channel[a][b] :
            rest[j] = channel[a][b][k]
    BY <1>1, RemoveAtFacts
<1> HIDE DEF rest
<1>4. channel' = [channel EXCEPT ![a][b] = rest]
    BY <1>2 DEF rest
<1>5. channel' \in Channels
    BY <1>1, <1>3, <1>4 DEF Channels
<1>6. ASSUME NEW c \in Agents, NEW d \in Agents,
             NEW j \in DOMAIN channel'[c][d]
      PROVE  \E k \in DOMAIN channel[c][d] :
                channel'[c][d][j] = channel[c][d][k]
    <2>1. CASE c = a /\ d = b
        <3>1. channel'[c][d] = rest
            BY <1>1, <1>4, <2>1 DEF Channels
        <3> QED BY <1>3, <2>1, <3>1
    <2>2. CASE ~(c = a /\ d = b)
        <3>1. channel'[c][d] = channel[c][d]
            BY <1>1, <1>4, <2>2 DEF Channels
        <3> QED BY <3>1
    <2> QED BY <2>1, <2>2
<1> QED BY <1>5, <1>6

(* Sending adds one envelope to one channel.                               *)
LEMMA SendFacts ==
    ASSUME TypeOK, NEW a \in Agents, NEW b \in Agents, NEW m \in Envelope,
           Send(a, b, m)
    PROVE  /\ channel' \in Channels
           /\ signed' \in Nat
           /\ \A c, d \in Agents : \A j \in DOMAIN channel'[c][d] :
                 \/ \E k \in DOMAIN channel[c][d] :
                       channel'[c][d][j] = channel[c][d][k]
                 \/ c = a /\ d = b /\ channel'[c][d][j] = m
<1>1. channel \in Channels /\ channel[a][b] \in Seq(Envelope) /\ signed \in Nat
    BY DEF TypeOK, Channels
<1> DEFINE longer == Append(channel[a][b], m)
<1>2. /\ longer \in Seq(Envelope)
      /\ \A j \in DOMAIN longer :
            longer[j] = m \/ (j \in DOMAIN channel[a][b]
                              /\ longer[j] = channel[a][b][j])
    BY <1>1
<1>3. channel' = [channel EXCEPT ![a][b] = longer] /\ signed' \in Nat
    BY <1>1 DEF Send
<1> HIDE DEF longer
<1>4. channel' \in Channels
    BY <1>1, <1>2, <1>3 DEF Channels
<1>5. ASSUME NEW c \in Agents, NEW d \in Agents,
             NEW j \in DOMAIN channel'[c][d]
      PROVE  \/ \E k \in DOMAIN channel[c][d] :
                   channel'[c][d][j] = channel[c][d][k]
             \/ c = a /\ d = b /\ channel'[c][d][j] = m
    <2>1. CASE c = a /\ d = b
        <3>1. channel'[c][d] = longer
            BY <1>1, <1>3, <2>1 DEF Channels
        <3> QED BY <1>2, <2>1, <3>1
    <2>2. CASE ~(c = a /\ d = b)
        <3>1. channel'[c][d] = channel[c][d]
            BY <1>1, <1>3, <2>2 DEF Channels
        <3> QED BY <3>1
    <2> QED BY <2>1, <2>2
<1> QED BY <1>3, <1>4, <1>5

-----------------------------------------------------------------------------
(* The other stores.                                                       *)

LEMMA DeactivatedType ==
    ASSUME NEW s \in SUBSET Grant, NEW hits
    PROVE  Deactivated(s, hits) \in SUBSET Grant
BY DEF Deactivated, Grant

LEMMA StoreGrantType ==
    ASSUME NEW s \in SUBSET Grant, NEW g \in Grant
    PROVE  StoreGrant(s, g) \in SUBSET Grant
BY DEF StoreGrant

Wishes == [Objects -> [Agents -> {"none", "shared", "revoked"}]]

(* The author's last word changes, and is never taken back altogether.     *)
LEMMA WishFacts ==
    ASSUME TypeOK, NEW a \in Agents, NEW b \in Agents, NEW o \in Objects,
           NEW word \in {"shared", "revoked"}, Wish(a, b, o, word)
    PROVE  /\ wish' \in Wishes
           /\ \A q \in Objects : \A d \in Agents :
                 wish[q][d] # "none" => wish'[q][d] # "none"
           /\ Author[o] = a => wish'[o][b] # "none"
<1>1. wish \in Wishes
    BY DEF TypeOK, Wishes
<1>2. CASE Author[o] = a
    <2>1. wish' = [wish EXCEPT ![o][b] = word]
        BY <1>2 DEF Wish
    <2>2. wish' \in Wishes /\ wish'[o][b] = word
        BY <1>1, <2>1 DEF Wishes
    <2>3. ASSUME NEW q \in Objects, NEW d \in Agents, wish[q][d] # "none"
          PROVE  wish'[q][d] # "none"
        BY <1>1, <2>1, <2>3 DEF Wishes
    <2> QED BY <2>2, <2>3
<1>3. CASE Author[o] # a
    BY <1>1, <1>3 DEF Wish
<1> QED BY <1>2, <1>3

-----------------------------------------------------------------------------
(* Type correctness.                                                       *)

LEMMA ShareEnvelope ==
    ASSUME NEW a \in Agents, NEW b \in Agents, NEW o \in Objects,
           signed \in Nat
    PROVE  LET g == [id |-> signed + 1, object |-> o, issuer |-> a,
                     subject |-> b, active |-> TRUE]
           IN  /\ g \in Grant
               /\ [type |-> "object_share", object |-> o, grant |-> g]
                    \in Envelope
<1> DEFINE g == [id |-> signed + 1, object |-> o, issuer |-> a,
                 subject |-> b, active |-> TRUE]
<1>1. g \in Grant
    BY DEF Grant
<1> HIDE DEF g
<1>2. [type |-> "object_share", object |-> o, grant |-> g] \in Envelope
    BY <1>1 DEF Envelope
<1> QED BY <1>1, <1>2 DEF g

LEMMA EnvelopeParts ==
    ASSUME NEW m \in Envelope
    PROVE  /\ m.object \in Objects
           /\ m.type = "object_share" => m.grant \in Grant
BY DEF Envelope

LEMMA OwnerTypeOK ==
    ASSUME TypeOK, NEW a \in Agents, NEW b \in Agents, a # b, OwnerStep(a, b)
    PROVE  TypeOK'
<1>1. CASE EndRelationship(a, b)
    <2>1. rel' \in [Agents -> [Agents -> States]]
        <3>1. CASE rel' = [rel EXCEPT ![a][b] = "revoked"]
            BY <3>1 DEF TypeOK, States
        <3>2. CASE rel' = [rel EXCEPT ![a][b] = "blocked"]
            BY <3>2 DEF TypeOK, States
        <3> QED BY <1>1, <3>1, <3>2 DEF EndRelationship
    <2>2. parts' \in Nat /\ parted' \subseteq Pairs
        BY <1>1 DEF TypeOK, EndRelationship, Pairs
    <2> DEFINE off == Deactivated(grants[a],
                          {g \in grants[a] : b \in {g.subject, g.issuer}})
    <2>3. off \in SUBSET Grant
        BY DeactivatedType DEF TypeOK
    <2>4. grants' = [grants EXCEPT ![a] = off] \/ grants' = grants
        BY <1>1 DEF EndRelationship
    <2> HIDE DEF off
    <2>5. grants' \in [Agents -> SUBSET Grant]
        BY <2>3, <2>4 DEF TypeOK
    <2> QED BY <1>1, <2>1, <2>2, <2>5 DEF TypeOK, EndRelationship
<1>2. CASE Befriend(a, b)
    BY <1>2 DEF TypeOK, Befriend, States
<1>3. ASSUME NEW o \in Objects, Share(a, b, o)
      PROVE  TypeOK'
    <2> DEFINE g == [id |-> signed + 1, object |-> o, issuer |-> a,
                     subject |-> b, active |-> TRUE]
               m == [type |-> "object_share", object |-> o, grant |-> g]
    <2>1. g \in Grant /\ m \in Envelope
        BY ShareEnvelope DEF TypeOK
    <2>2. /\ grants' = [grants EXCEPT ![a] = StoreGrant(grants[a], g)]
          /\ Send(a, b, m)
          /\ Wish(a, b, o, "shared")
          /\ UNCHANGED <<rel, objects, parts, lost, parted>>
        BY <1>3 DEF Share
    <2> HIDE DEF g, m
    <2>3. StoreGrant(grants[a], g) \in SUBSET Grant
        BY <2>1, StoreGrantType DEF TypeOK
    <2>4. grants' \in [Agents -> SUBSET Grant]
        BY <2>2, <2>3 DEF TypeOK
    <2>5. channel' \in Channels /\ signed' \in Nat
        BY <2>1, <2>2, SendFacts
    <2>6. wish' \in Wishes
        BY <2>2, WishFacts
    <2> QED BY <2>2, <2>4, <2>5, <2>6 DEF TypeOK, Channels, Wishes
<1>4. ASSUME NEW o \in Objects, Revoke(a, b, o)
      PROVE  TypeOK'
    <2> DEFINE m == [type |-> "object_revoke", object |-> o]
               off == Deactivated(grants[a], HitsOf(a, b, o))
    <2>1. m \in Envelope
        BY DEF Envelope
    <2>2. off \in SUBSET Grant
        BY DeactivatedType DEF TypeOK
    <2>3. /\ grants' = [grants EXCEPT ![a] = off]
          /\ Send(a, b, m)
          /\ Wish(a, b, o, "revoked")
          /\ UNCHANGED <<rel, objects, parts, lost, parted>>
        BY <1>4 DEF Revoke
    <2> HIDE DEF m, off
    <2>4. grants' \in [Agents -> SUBSET Grant]
        BY <2>2, <2>3 DEF TypeOK
    <2>5. channel' \in Channels /\ signed' \in Nat
        BY <2>1, <2>3, SendFacts
    <2>6. wish' \in Wishes
        BY <2>3, WishFacts
    <2> QED BY <2>3, <2>4, <2>5, <2>6 DEF TypeOK, Channels, Wishes
<1> QED BY <1>1, <1>2, <1>3, <1>4 DEF OwnerStep

LEMMA ReceiveTypeOK ==
    ASSUME TypeOK, NEW a \in Agents, NEW b \in Agents,
           NEW i \in DOMAIN channel[a][b],
           \/ ReceiveObjectShare(a, b, i)
           \/ ReceiveObjectRevoke(a, b, i)
           \/ Lose(a, b, i)
    PROVE  TypeOK'
<1>1. Take(a, b, i)
    BY DEF ReceiveObjectShare, ReceiveObjectRevoke, Lose
<1>2. channel' \in Channels
    BY <1>1, TakeFacts
<1>3. CASE ReceiveObjectShare(a, b, i)
    <2> DEFINE m == channel[a][b][i]
    <2>1. m.type = "object_share" /\ m \in Envelope
        BY <1>3 DEF ReceiveObjectShare, TypeOK
    <2>2. m.object \in Objects /\ m.grant \in Grant
        BY <2>1, EnvelopeParts
    <2>3. CASE ~BindsSender(a, m)
        BY <1>2, <1>3, <2>3 DEF ReceiveObjectShare, TypeOK, Channels
    <2>4. CASE BindsSender(a, m)
        <3>1. /\ objects' = [objects EXCEPT ![b] = @ \cup {m.object}]
              /\ grants' = [grants EXCEPT ![b] = StoreGrant(grants[b], m.grant)]
              /\ UNCHANGED <<rel, signed, parts, wish, lost, parted>>
            BY <1>3, <2>4 DEF ReceiveObjectShare
        <3> HIDE DEF m
        <3>2. StoreGrant(grants[b], m.grant) \in SUBSET Grant
            BY <2>2, StoreGrantType DEF TypeOK
        <3>3. grants' \in [Agents -> SUBSET Grant]
            BY <3>1, <3>2 DEF TypeOK
        <3>4. objects' \in [Agents -> SUBSET Objects]
            BY <2>2, <3>1 DEF TypeOK
        <3> QED BY <1>2, <3>1, <3>3, <3>4 DEF TypeOK, Channels
    <2> QED BY <2>3, <2>4
<1>4. CASE ReceiveObjectRevoke(a, b, i)
    <2> DEFINE off == Deactivated(grants[b],
                          {g \in grants[b] : /\ g.object = channel[a][b][i].object
                                             /\ g.issuer = a})
    <2>1. off \in SUBSET Grant
        BY DeactivatedType DEF TypeOK
    <2>2. /\ grants' = [grants EXCEPT ![b] = off]
          /\ UNCHANGED <<rel, objects, signed, parts, wish, lost, parted>>
        BY <1>4 DEF ReceiveObjectRevoke
    <2> HIDE DEF off
    <2>3. grants' \in [Agents -> SUBSET Grant]
        BY <2>1, <2>2 DEF TypeOK
    <2> QED BY <1>2, <2>2, <2>3 DEF TypeOK, Channels
<1>5. CASE Lose(a, b, i)
    BY <1>2, <1>5 DEF Lose, TypeOK, Channels
<1> QED BY <1>3, <1>4, <1>5

LEMMA InitTypeOK == Init => TypeOK
<1> SUFFICES ASSUME Init
             PROVE  TypeOK
    OBVIOUS
<1>1. rel \in [Agents -> [Agents -> States]]
    BY DEF Init, States
<1>2. <<>> \in Seq(Envelope)
    OBVIOUS
<1>3. channel \in [Agents -> [Agents -> Seq(Envelope)]]
    BY <1>2 DEF Init
<1>4. wish \in [Objects -> [Agents -> {"none", "shared", "revoked"}]]
    BY DEF Init
<1> QED BY <1>1, <1>3, <1>4 DEF Init, TypeOK

LEMMA NextTypeOK == TypeOK /\ [Next]_vars => TypeOK'
<1> SUFFICES ASSUME TypeOK, [Next]_vars
             PROVE  TypeOK'
    OBVIOUS
<1>1. ASSUME NEW a \in Agents, NEW o \in Objects, CreateObject(a, o)
      PROVE  TypeOK'
    BY <1>1 DEF CreateObject, TypeOK
<1>2. ASSUME NEW p \in Pairs
      PROVE  p[1] \in Agents /\ p[2] \in Agents /\ p[1] # p[2]
    BY DEF Pairs
<1>3. ASSUME NEW p \in Pairs, OwnerStep(p[1], p[2])
      PROVE  TypeOK'
    BY <1>2, <1>3, OwnerTypeOK
<1>4. ASSUME NEW p \in Pairs, NEW i \in DOMAIN channel[p[1]][p[2]],
             \/ ReceiveObjectShare(p[1], p[2], i)
             \/ ReceiveObjectRevoke(p[1], p[2], i)
             \/ Lose(p[1], p[2], i)
      PROVE  TypeOK'
    BY <1>2, <1>4, ReceiveTypeOK
<1>5. CASE UNCHANGED vars
    BY <1>5 DEF vars, TypeOK
<1> QED BY <1>1, <1>3, <1>4, <1>5 DEF Next, Receive

(* Every store keeps its shape, for any agents and any order of envelopes. *)
THEOREM TypeCorrect == Spec => []TypeOK
<1> QED BY InitTypeOK, NextTypeOK, PTL DEF Spec

-----------------------------------------------------------------------------
(* Nobody reads what its author did not share.                             *)

Shares(m, o) == m.type = "object_share" /\ m.object = o

(* The shape every step has: the author's word is not taken back, an       *)
(* object reaches a store from a channel, and a share reaches the author's *)
(* channel from the author's word.                                         *)
LEMMA SharedStep ==
    ASSUME SharedInv,
           \A o \in Objects : \A b \in Agents :
               wish[o][b] # "none" => wish'[o][b] # "none",
           \A o \in Objects : \A b \in Agents \ {Author[o]} :
               o \in objects'[b] => o \in objects[b] \/ wish'[o][b] # "none",
           \A o \in Objects : \A b \in Agents \ {Author[o]} :
               \A i \in DOMAIN channel'[Author[o]][b] :
                   \/ \E k \in DOMAIN channel[Author[o]][b] :
                         channel'[Author[o]][b][i] = channel[Author[o]][b][k]
                   \/ ~Shares(channel'[Author[o]][b][i], o)
                   \/ wish'[o][b] # "none"
    PROVE  SharedInv'
<1> SUFFICES ASSUME NEW o \in Objects, NEW b \in Agents \ {Author[o]}
             PROVE  /\ o \in objects'[b] => wish'[o][b] # "none"
                    /\ \A i \in DOMAIN channel'[Author[o]][b] :
                          Shares(channel'[Author[o]][b][i], o)
                              => wish'[o][b] # "none"
    BY DEF SharedInv, Shares
<1>1. /\ o \in objects[b] => wish[o][b] # "none"
      /\ \A k \in DOMAIN channel[Author[o]][b] :
            Shares(channel[Author[o]][b][k], o) => wish[o][b] # "none"
    BY DEF SharedInv, Shares
<1>2. o \in objects'[b] => wish'[o][b] # "none"
    BY <1>1
<1>3. ASSUME NEW i \in DOMAIN channel'[Author[o]][b],
             Shares(channel'[Author[o]][b][i], o)
      PROVE  wish'[o][b] # "none"
    BY <1>1, <1>3
<1> QED BY <1>2, <1>3

LEMMA OwnerShares ==
    ASSUME TypeOK, SharedInv, NEW a \in Agents, NEW b \in Agents,
           OwnerStep(a, b)
    PROVE  SharedInv'
<1>1. CASE EndRelationship(a, b) \/ Befriend(a, b)
    <2>1. UNCHANGED <<objects, channel, wish>>
        BY <1>1 DEF EndRelationship, Befriend
    <2> QED BY <2>1 DEF SharedInv
<1>2. ASSUME NEW o \in Objects, NEW m \in Envelope,
             NEW word \in {"shared", "revoked"},
             Send(a, b, m), Wish(a, b, o, word), objects' = objects,
             Shares(m, m.object) => m.object = o
      PROVE  SharedInv'
    <2>1. /\ \A q \in Objects : \A d \in Agents :
                wish[q][d] # "none" => wish'[q][d] # "none"
          /\ Author[o] = a => wish'[o][b] # "none"
        BY <1>2, WishFacts
    <2>2. \A c, d \in Agents : \A j \in DOMAIN channel'[c][d] :
             \/ \E k \in DOMAIN channel[c][d] :
                   channel'[c][d][j] = channel[c][d][k]
             \/ c = a /\ d = b /\ channel'[c][d][j] = m
        BY <1>2, SendFacts
    <2>3. ASSUME NEW q \in Objects, NEW d \in Agents \ {Author[q]},
                 NEW i \in DOMAIN channel'[Author[q]][d]
          PROVE  \/ \E k \in DOMAIN channel[Author[q]][d] :
                       channel'[Author[q]][d][i] = channel[Author[q]][d][k]
                 \/ ~Shares(channel'[Author[q]][d][i], q)
                 \/ wish'[q][d] # "none"
        <3>1. Author[q] \in Agents
            BY AuthorAssumption
        <3>2. CASE \E k \in DOMAIN channel[Author[q]][d] :
                       channel'[Author[q]][d][i] = channel[Author[q]][d][k]
            BY <3>2
        <3>3. CASE Author[q] = a /\ d = b /\ channel'[Author[q]][d][i] = m
            <4>1. Shares(m, q) => q = o
                BY <1>2 DEF Shares
            <4> QED BY <2>1, <3>3, <4>1
        <3> QED BY <2>2, <3>1, <3>2, <3>3
    <2> QED BY <1>2, <2>1, <2>3, SharedStep
<1>3. ASSUME NEW o \in Objects, Share(a, b, o)
      PROVE  SharedInv'
    <2> DEFINE g == [id |-> signed + 1, object |-> o, issuer |-> a,
                     subject |-> b, active |-> TRUE]
               m == [type |-> "object_share", object |-> o, grant |-> g]
    <2>1. m \in Envelope
        BY ShareEnvelope DEF TypeOK
    <2>2. Send(a, b, m) /\ Wish(a, b, o, "shared") /\ objects' = objects
        BY <1>3 DEF Share
    <2>3. m.object = o
        OBVIOUS
    <2> HIDE DEF m
    <2> QED BY <1>2, <2>1, <2>2, <2>3
<1>4. ASSUME NEW o \in Objects, Revoke(a, b, o)
      PROVE  SharedInv'
    <2> DEFINE m == [type |-> "object_revoke", object |-> o]
    <2>1. m \in Envelope /\ m.object = o
        BY DEF Envelope
    <2>2. Send(a, b, m) /\ Wish(a, b, o, "revoked") /\ objects' = objects
        BY <1>4 DEF Revoke
    <2> HIDE DEF m
    <2> QED BY <1>2, <2>1, <2>2
<1> QED BY <1>1, <1>3, <1>4 DEF OwnerStep

LEMMA ReceiveShares ==
    ASSUME TypeOK, SharedInv, NEW a \in Agents, NEW b \in Agents,
           NEW i \in DOMAIN channel[a][b],
           \/ ReceiveObjectShare(a, b, i)
           \/ ReceiveObjectRevoke(a, b, i)
           \/ Lose(a, b, i)
    PROVE  SharedInv'
<1>1. Take(a, b, i) /\ wish' = wish
    BY DEF ReceiveObjectShare, ReceiveObjectRevoke, Lose
<1>2. \A c, d \in Agents : \A j \in DOMAIN channel'[c][d] :
          \E k \in DOMAIN channel[c][d] :
              channel'[c][d][j] = channel[c][d][k]
    BY <1>1, TakeFacts
<1>3. \A o \in Objects : Author[o] \in Agents
    BY AuthorAssumption
<1>4. ASSUME NEW o \in Objects, NEW d \in Agents \ {Author[o]},
             o \in objects'[d]
      PROVE  o \in objects[d] \/ wish'[o][d] # "none"
    <2> DEFINE m == channel[a][b][i]
    <2>1. CASE objects' = objects
        BY <1>4, <2>1
    <2>2. CASE ReceiveObjectShare(a, b, i) /\ BindsSender(a, m)
        <3>1. /\ objects' = [objects EXCEPT ![b] = @ \cup {m.object}]
              /\ m.type = "object_share" /\ Author[m.object] = a
            BY <2>2 DEF ReceiveObjectShare, BindsSender
        <3>2. o \in objects[d] \/ (d = b /\ o = m.object)
            BY <1>4, <3>1 DEF TypeOK
        <3>3. CASE d = b /\ o = m.object
            <4>1. i \in DOMAIN channel[Author[o]][d] /\ Author[o] = a
                BY <3>1, <3>3
            <4>2. wish[o][d] # "none"
                BY <3>1, <3>3, <4>1 DEF SharedInv
            <4> QED BY <1>1, <4>2
        <3> QED BY <3>2, <3>3
    <2> QED BY <2>1, <2>2
            DEF ReceiveObjectShare, ReceiveObjectRevoke, Lose
<1> QED BY <1>1, <1>2, <1>3, <1>4, SharedStep

LEMMA InitShared == Init => SharedInv
BY AuthorAssumption DEF Init, SharedInv

LEMMA NextShared == TypeOK /\ SharedInv /\ [Next]_vars => SharedInv'
<1> SUFFICES ASSUME TypeOK, SharedInv, [Next]_vars
             PROVE  SharedInv'
    OBVIOUS
<1>1. ASSUME NEW a \in Agents, NEW o \in Objects, CreateObject(a, o)
      PROVE  SharedInv'
    <2>1. /\ Author[o] = a
          /\ objects' = [objects EXCEPT ![a] = @ \cup {o}]
          /\ UNCHANGED <<channel, wish>>
        BY <1>1 DEF CreateObject
    <2>2. ASSUME NEW q \in Objects, NEW d \in Agents \ {Author[q]},
                 q \in objects'[d]
          PROVE  q \in objects[d]
        BY <2>1, <2>2 DEF TypeOK
    <2>3. \A q \in Objects : Author[q] \in Agents
        BY AuthorAssumption
    <2> QED BY <2>1, <2>2, <2>3, SharedStep
<1>2. ASSUME NEW p \in Pairs
      PROVE  p[1] \in Agents /\ p[2] \in Agents
    BY DEF Pairs
<1>3. ASSUME NEW p \in Pairs, OwnerStep(p[1], p[2])
      PROVE  SharedInv'
    BY <1>2, <1>3, OwnerShares
<1>4. ASSUME NEW p \in Pairs, NEW i \in DOMAIN channel[p[1]][p[2]],
             \/ ReceiveObjectShare(p[1], p[2], i)
             \/ ReceiveObjectRevoke(p[1], p[2], i)
             \/ Lose(p[1], p[2], i)
      PROVE  SharedInv'
    BY <1>2, <1>4, ReceiveShares
<1>5. CASE UNCHANGED vars
    BY <1>5 DEF vars, SharedInv
<1> QED BY <1>1, <1>3, <1>4, <1>5 DEF Next, Receive

(* Whatever is shared on, replayed or reordered, nobody but the author can *)
(* read an object the author did not share with them: receiveObjectShare   *)
(* takes an object from its author only.                                   *)
THEOREM OnlySharedIsRead == Spec => []ReadsWereShared
<1>1. SharedInv => ReadsWereShared
    BY DEF SharedInv, ReadsWereShared, CanRead
<1> QED BY <1>1, InitTypeOK, NextTypeOK, InitShared, NextShared, PTL DEF Spec

-----------------------------------------------------------------------------
(* Owner and reader agree.  The grants of one id, wherever they are, are   *)
(* about one issuer, subject and object, so that storing one replaces none *)
(* of another; a home holds the grants it issued, and those it received    *)
(* from the author of the object.                                          *)

Like(g, h) ==
    /\ g.id = h.id /\ g.issuer = h.issuer
    /\ g.subject = h.subject /\ g.object = h.object

Known(g) ==
    \/ \E h \in Agents : g \in grants[h]
    \/ \E x, y \in Agents : \E i \in DOMAIN channel[x][y] :
          /\ channel[x][y][i].type = "object_share"
          /\ channel[x][y][i].grant = g

Meaning == \A g, h \in Grant : Known(g) /\ Known(h) /\ g.id = h.id => Like(g, h)
Fresh == \A g \in Grant : Known(g) => g.id <= signed

Placed(h, g) ==
    /\ g.issuer # g.subject
    /\ g.issuer = h \/ (g.subject = h /\ g.issuer = Author[g.object])
Carries(x, y, m) ==
    m.type = "object_share" =>
        /\ x # y
        /\ m.grant.issuer = x /\ m.grant.subject = y
        /\ m.grant.object = m.object /\ m.grant.active

Located ==
    /\ \A h \in Agents : \A g \in grants[h] : Placed(h, g)
    /\ \A x, y \in Agents : \A i \in DOMAIN channel[x][y] :
          Carries(x, y, channel[x][y][i])

(* What a store lets b read o by, and what a channel says of o last.       *)
Matching(s, o, b) == {g \in s : g.object = o /\ g.subject = b /\ g.active}
Silent(c, o) == \A i \in DOMAIN c : c[i].object # o
LastWord(c, o, type) ==
    \E i \in DOMAIN c :
        /\ c[i].object = o /\ c[i].type = type
        /\ \A j \in DOMAIN c : j > i => c[j].object # o

(* The owner's grants say what the owner said last; the reader's do once   *)
(* the channel is silent, and until then the channel says it last.         *)
OwnerSide(o, b) ==
    LET a == Author[o]
    IN  /\ wish[o][b] = "shared" <=> Matching(grants[a], o, b) # {}
        /\ wish[o][b] = "shared" => o \in objects[a]
ReaderSide(o, b) ==
    LET c == channel[Author[o]][b]
    IN  /\ Silent(c, o) /\ wish[o][b] = "shared" =>
              o \in objects[b] /\ Matching(grants[b], o, b) # {}
        /\ Silent(c, o) /\ wish[o][b] # "shared" => Matching(grants[b], o, b) = {}
        /\ LastWord(c, o, "object_share") => wish[o][b] = "shared"
        /\ LastWord(c, o, "object_revoke") => wish[o][b] = "revoked"
Agrees(o, b) ==
    <<Author[o], b>> \notin parted =>
        OwnerSide(o, b) /\ (~lost => ReaderSide(o, b))

AgreeInv ==
    /\ TypeOK /\ Meaning /\ Fresh /\ Located
    /\ \A o \in Objects : \A b \in Agents \ {Author[o]} : Agrees(o, b)

(* The only new grant of a step is one that has the next id.               *)
Minted(g, n) == signed' = signed + 1 /\ n.id = signed' /\ Like(g, n)

LEMMA KnownStep ==
    ASSUME TypeOK, TypeOK', Meaning, Fresh, NEW n,
           signed' \in {signed, signed + 1},
           \A h \in Agents : \A g \in grants'[h] :
               (\E k \in Grant : Known(k) /\ Like(g, k)) \/ Minted(g, n),
           \A x, y \in Agents : \A i \in DOMAIN channel'[x][y] :
               \/ \E k \in DOMAIN channel[x][y] : channel'[x][y][i] = channel[x][y][k]
               \/ channel'[x][y][i].type = "object_share"
                      => Minted(channel'[x][y][i].grant, n)
    PROVE  (Meaning /\ Fresh)'
<1>1. signed \in Nat
    BY DEF TypeOK
<1>2. ASSUME NEW g \in Grant, Known(g)'
      PROVE  (\E k \in Grant : Known(k) /\ Like(g, k)) \/ Minted(g, n)
    <2>1. CASE \E h \in Agents : g \in grants'[h]
        BY <2>1
    <2>2. CASE \E x, y \in Agents : \E i \in DOMAIN channel'[x][y] :
                  /\ channel'[x][y][i].type = "object_share"
                  /\ channel'[x][y][i].grant = g
        <3>1. PICK x, y \in Agents : \E i \in DOMAIN channel'[x][y] :
                  /\ channel'[x][y][i].type = "object_share"
                  /\ channel'[x][y][i].grant = g
            BY <2>2
        <3>2. PICK i \in DOMAIN channel'[x][y] :
                  /\ channel'[x][y][i].type = "object_share"
                  /\ channel'[x][y][i].grant = g
            BY <3>1
        <3>3. CASE \E k \in DOMAIN channel[x][y] : channel'[x][y][i] = channel[x][y][k]
            <4>1. Known(g)
                BY <3>2, <3>3 DEF Known
            <4> QED BY <4>1 DEF Like
        <3> QED BY <3>2, <3>3
    <2> QED BY <1>2, <2>1, <2>2 DEF Known
<1>3. ASSUME NEW g \in Grant, Known(g)' PROVE g.id <= signed'
    BY <1>1, <1>2, <1>3 DEF Fresh, Minted, Like, Grant
<1>4. ASSUME NEW g \in Grant, NEW h \in Grant, Known(g)', Known(h)', g.id = h.id
      PROVE  Like(g, h)
    <2>1. CASE Minted(g, n) /\ Minted(h, n)
        BY <2>1 DEF Minted, Like
    <2>2. ASSUME NEW p \in Grant, NEW q \in Grant, Minted(p, n), ~Minted(q, n), Known(q)', p.id = q.id
          PROVE  FALSE
        <3>1. PICK k \in Grant : Known(k) /\ Like(q, k)
            BY <1>2, <2>2
        <3>2. k.id <= signed /\ k.id = signed + 1
            BY <2>2, <3>1 DEF Fresh, Minted, Like
        <3> QED BY <1>1, <3>2 DEF Grant
    <2>3. CASE ~Minted(g, n) /\ ~Minted(h, n)
        <3>1. PICK j \in Grant : Known(j) /\ Like(g, j)
            BY <1>2, <1>4, <2>3
        <3>2. PICK k \in Grant : Known(k) /\ Like(h, k)
            BY <1>2, <1>4, <2>3
        <3> QED BY <1>4, <3>1, <3>2 DEF Meaning, Like
    <2> QED BY <1>4, <2>1, <2>2, <2>3
<1> QED BY <1>3, <1>4 DEF Meaning, Fresh

-----------------------------------------------------------------------------
(* What the operators on the stores do to the grants that match.           *)

LEMMA MatchingDeactivated ==
    ASSUME NEW s \in SUBSET Grant, NEW hits, NEW o, NEW b
    PROVE  Matching(Deactivated(s, hits), o, b) = Matching(s, o, b) \ hits
<1> DEFINE off == Deactivated(s, hits)
<1>1. ASSUME NEW g \in Matching(off, o, b)
      PROVE  g \in Matching(s, o, b) \ hits
    <2>1. PICK h \in s : g = IF h \in hits THEN [h EXCEPT !.active = FALSE] ELSE h
        BY DEF Matching, Deactivated
    <2>2. h \notin hits
        BY <2>1 DEF Matching, Grant
    <2> QED BY <2>1, <2>2 DEF Matching
<1>2. ASSUME NEW g \in Matching(s, o, b) \ hits
      PROVE  g \in Matching(off, o, b)
    BY DEF Matching, Deactivated
<1> QED BY <1>1, <1>2

LEMMA DeactivatedLike ==
    ASSUME NEW s \in SUBSET Grant, NEW hits, NEW g \in Deactivated(s, hits)
    PROVE  \E h \in s : Like(g, h)
<1>1. PICK h \in s : g = IF h \in hits THEN [h EXCEPT !.active = FALSE] ELSE h
    BY DEF Deactivated
<1>2. Like(g, h)
    BY <1>1 DEF Like, Grant
<1> QED BY <1>2

(* A grant that matches is there once it is stored; one that does not      *)
(* changes nothing, unless it takes the id of one that does.               *)
LEMMA MatchingStored ==
    ASSUME NEW s \in SUBSET Grant, NEW g \in Grant, NEW o, NEW b
    PROVE  /\ g.object = o /\ g.subject = b /\ g.active
                  => Matching(StoreGrant(s, g), o, b) # {}
           /\ /\ ~(g.object = o /\ g.subject = b)
              /\ \A h \in s : h.id = g.id => Like(h, g)
              => Matching(StoreGrant(s, g), o, b) = Matching(s, o, b)
<1>1. ASSUME g.object = o, g.subject = b, g.active
      PROVE  Matching(StoreGrant(s, g), o, b) # {}
    <2>1. g \in Matching(StoreGrant(s, g), o, b)
        BY <1>1 DEF Matching, StoreGrant
    <2> QED BY <2>1
<1>2. ASSUME ~(g.object = o /\ g.subject = b), \A h \in s : h.id = g.id => Like(h, g)
      PROVE  Matching(StoreGrant(s, g), o, b) = Matching(s, o, b)
    <2>1. \A h \in Matching(s, o, b) : h.id # g.id
        BY <1>2 DEF Matching, Like
    <2> QED BY <1>2, <2>1 DEF Matching, StoreGrant
<1> QED BY <1>1, <1>2

-----------------------------------------------------------------------------
(* What the ends of a channel do to what it says.                          *)

LEMMA FirstRemoved ==
    ASSUME NEW S, NEW s \in Seq(S), 1 \in DOMAIN s
    PROVE  /\ Len(RemoveAt(s, 1)) = Len(s) - 1
           /\ \A j \in 1..(Len(s) - 1) : RemoveAt(s, 1)[j] = s[j + 1]
BY RemoveAtFacts

LEMMA FirstTaken ==
    ASSUME NEW c \in Seq(Envelope), NEW d \in Seq(Envelope), 1 \in DOMAIN c, NEW o, NEW type,
           d = RemoveAt(c, 1)
    PROVE  /\ Silent(d, o) /\ c[1].object # o => Silent(c, o)
           /\ Silent(d, o) /\ c[1].object = o => LastWord(c, o, c[1].type)
           /\ LastWord(d, o, type) => LastWord(c, o, type)
<1>1. /\ Len(d) = Len(c) - 1 /\ Len(c) \in Nat /\ Len(c) >= 1
      /\ DOMAIN c = 1..Len(c) /\ DOMAIN d = 1..(Len(c) - 1)
      /\ \A j \in 1..(Len(c) - 1) : d[j] = c[j + 1]
    BY FirstRemoved
<1>2. ASSUME NEW k \in DOMAIN c, k > 1
      PROVE  k - 1 \in DOMAIN d /\ d[k - 1] = c[k]
    <2>1. k - 1 \in 1..(Len(c) - 1) /\ (k - 1) + 1 = k
        BY <1>1, <1>2
    <2>2. d[k - 1] = c[(k - 1) + 1]
        BY <1>1, <2>1
    <2> QED BY <1>1, <2>1, <2>2
<1>3. ASSUME Silent(d, o), NEW k \in DOMAIN c, k > 1
      PROVE  c[k].object # o
    BY <1>2, <1>3 DEF Silent
<1>4. Silent(d, o) /\ c[1].object # o => Silent(c, o)
    BY <1>1, <1>3 DEF Silent
<1>5. Silent(d, o) /\ c[1].object = o => LastWord(c, o, c[1].type)
    BY <1>1, <1>3 DEF LastWord
<1>6. ASSUME LastWord(d, o, type) PROVE LastWord(c, o, type)
    <2>1. PICK i \in DOMAIN d :
              /\ d[i].object = o /\ d[i].type = type
              /\ \A j \in DOMAIN d : j > i => d[j].object # o
        BY <1>6 DEF LastWord
    <2>2. i + 1 \in DOMAIN c /\ c[i + 1] = d[i]
        BY <1>1
    <2>3. ASSUME NEW j \in DOMAIN c, j > i + 1
          PROVE  c[j].object # o
        <3>1. j > 1 /\ j - 1 > i
            BY <1>1, <2>3
        <3>2. j - 1 \in DOMAIN d /\ d[j - 1] = c[j]
            BY <1>2, <3>1
        <3> QED BY <2>1, <3>1, <3>2
    <2> QED BY <2>1, <2>2, <2>3 DEF LastWord
<1> QED BY <1>4, <1>5, <1>6

LEMMA Longer ==
    ASSUME NEW c \in Seq(Envelope), NEW m \in Envelope, NEW o, NEW type
    PROVE  /\ m.object # o => /\ Silent(Append(c, m), o) => Silent(c, o)
                              /\ LastWord(Append(c, m), o, type) => LastWord(c, o, type)
           /\ m.object = o => /\ ~Silent(Append(c, m), o)
                              /\ LastWord(Append(c, m), o, type) => m.type = type
<1> DEFINE d == Append(c, m)
<1>1. /\ DOMAIN c = 1..Len(c) /\ DOMAIN d = 1..(Len(c) + 1) /\ Len(c) \in Nat
      /\ \A j \in DOMAIN c : d[j] = c[j]
      /\ d[Len(c) + 1] = m
    OBVIOUS
<1> HIDE DEF d
<1>2. ASSUME m.object # o, Silent(d, o) PROVE Silent(c, o)
    BY <1>1, <1>2 DEF Silent
<1>3. ASSUME m.object # o, LastWord(d, o, type) PROVE LastWord(c, o, type)
    <2>1. PICK i \in DOMAIN d :
              /\ d[i].object = o /\ d[i].type = type
              /\ \A j \in DOMAIN d : j > i => d[j].object # o
        BY <1>3 DEF LastWord
    <2>2. i \in DOMAIN c
        BY <1>1, <1>3, <2>1
    <2> QED BY <1>1, <2>1, <2>2 DEF LastWord
<1>4. ASSUME m.object = o PROVE ~Silent(d, o)
    BY <1>1, <1>4 DEF Silent
<1>5. ASSUME m.object = o, LastWord(d, o, type) PROVE m.type = type
    <2>1. PICK i \in DOMAIN d :
              /\ d[i].object = o /\ d[i].type = type
              /\ \A j \in DOMAIN d : j > i => d[j].object # o
        BY <1>5 DEF LastWord
    <2>2. i = Len(c) + 1
        BY <1>1, <1>5, <2>1
    <2> QED BY <1>1, <2>1, <2>2
<1> QED BY <1>2, <1>3, <1>4, <1>5 DEF d

(* A step that leaves a pair, or only delivers to it or loses its share of *)
(* other objects, leaves it agreeing.                                      *)
LEMMA AgreesFrame ==
    ASSUME NEW o \in Objects, NEW b \in Agents, Agrees(o, b), parted \subseteq parted',
           NEW a, a = Author[o],
           wish'[o][b] = wish[o][b],
           Matching(grants'[a], o, b) = Matching(grants[a], o, b),
           objects[a] \subseteq objects'[a],
           lost => lost',
           ~lost' => /\ objects[b] \subseteq objects'[b]
                     /\ Matching(grants'[b], o, b) = Matching(grants[b], o, b)
                     /\ Silent(channel'[a][b], o) => Silent(channel[a][b], o)
                     /\ \A type \in {"object_share", "object_revoke"} :
                           LastWord(channel'[a][b], o, type) => LastWord(channel[a][b], o, type)
    PROVE  Agrees(o, b)'
<1>1. OwnerSide(o, b) => OwnerSide(o, b)'
    BY DEF OwnerSide
<1>2. ReaderSide(o, b) /\ ~lost' => ReaderSide(o, b)'
    BY DEF ReaderSide
<1> QED BY <1>1, <1>2 DEF Agrees

-----------------------------------------------------------------------------
(* The grants under a step.                                                *)

Apart == Meaning /\ Fresh /\ Located

Shrinks(x, hits) == grants' = [grants EXCEPT ![x] = Deactivated(grants[x], hits)]
Stores(x, g) == grants' = [grants EXCEPT ![x] = StoreGrant(grants[x], g)]

LEMMA PlacedLike ==
    ASSUME NEW x, NEW g, NEW h, Like(g, h), Placed(x, h)
    PROVE  Placed(x, g)
BY DEF Like, Placed

(* What matches in the author's home, or in the reader's, is the author's. *)
LEMMA MatchingIssuer ==
    ASSUME Located, NEW o \in Objects, NEW b \in Agents \ {Author[o]}
    PROVE  /\ \A g \in Matching(grants[Author[o]], o, b) : g.issuer = Author[o]
           /\ \A g \in Matching(grants[b], o, b) : g.issuer = Author[o]
<1>1. Author[o] \in Agents
    BY AuthorAssumption
<1>2. \A h \in Agents : \A g \in grants[h] : Placed(h, g)
    BY DEF Located
<1> QED BY <1>1, <1>2 DEF Matching, Placed

(* Marking grants as revoked keeps the grants apart, whatever the channels *)
(* do but carry new grants.                                                *)
LEMMA ShrinkStep ==
    ASSUME TypeOK, TypeOK', Apart, NEW x \in Agents, NEW hits,
           Shrinks(x, hits),
           signed' \in {signed, signed + 1},
           \A c, d \in Agents : \A j \in DOMAIN channel'[c][d] :
               \/ \E k \in DOMAIN channel[c][d] : channel'[c][d][j] = channel[c][d][k]
               \/ channel'[c][d][j].type # "object_share"
    PROVE  Apart'
<1>1. /\ grants \in [Agents -> SUBSET Grant]
      /\ grants'[x] = Deactivated(grants[x], hits)
      /\ \A h \in Agents : h # x => grants'[h] = grants[h]
    BY DEF TypeOK, Shrinks, Stores
<1>2. ASSUME NEW h \in Agents, NEW g \in grants'[h]
      PROVE  \E k \in grants[h] : Like(g, k)
    <2>1. CASE h = x
        BY <1>1, <2>1, DeactivatedLike
    <2>2. CASE h # x
        BY <1>1, <2>2 DEF Like
    <2> QED BY <2>1, <2>2
<1>3. ASSUME NEW h \in Agents, NEW g \in grants'[h]
      PROVE  \E k \in Grant : Known(k) /\ Like(g, k)
    <2>1. PICK k \in grants[h] : Like(g, k)
        BY <1>2
    <2> QED BY <1>1, <2>1 DEF Known
<1>4. (Meaning /\ Fresh)'
    BY <1>3, KnownStep DEF Apart
<1>5. Located'
    <2>1. ASSUME NEW h \in Agents, NEW g \in grants'[h]
          PROVE  Placed(h, g)
        BY <1>2, PlacedLike DEF Apart, Located
    <2>2. ASSUME NEW c \in Agents, NEW d \in Agents, NEW j \in DOMAIN channel'[c][d]
          PROVE  Carries(c, d, channel'[c][d][j])
        BY DEF Apart, Located, Carries
    <2> QED BY <2>1, <2>2 DEF Located, Placed, Carries
<1> QED BY <1>4, <1>5 DEF Apart

LEMMA ShrunkMatching ==
    ASSUME TypeOK, NEW x \in Agents, NEW hits,
           Shrinks(x, hits),
           NEW h \in Agents, NEW o, NEW b
    PROVE  Matching(grants'[h], o, b) =
               IF h = x THEN Matching(grants[x], o, b) \ hits
               ELSE Matching(grants[h], o, b)
<1>1. CASE h = x
    BY <1>1, MatchingDeactivated DEF TypeOK, Shrinks
<1>2. CASE h # x
    BY <1>2 DEF TypeOK, Shrinks
<1> QED BY <1>1, <1>2

LEMMA NothingShrinks ==
    ASSUME TypeOK, NEW x \in Agents, grants' = grants
    PROVE  Shrinks(x, {})
<1>1. \A s : Deactivated(s, {}) = s
    BY DEF Deactivated
<1> QED BY <1>1 DEF TypeOK, Shrinks

(* A grant is backed by a channel or by the counter, and what enters a     *)
(* channel encloses it.                                                    *)
Backed(g) ==
    \/ Known(g) /\ signed' = signed
    \/ g.id = signed + 1 /\ signed' = signed + 1
Enclosed(g) ==
    \A c, d \in Agents : \A j \in DOMAIN channel'[c][d] :
        \/ \E k \in DOMAIN channel[c][d] : channel'[c][d][j] = channel[c][d][k]
        \/ /\ channel'[c][d][j].grant = g /\ signed' = signed + 1
           /\ Carries(c, d, channel'[c][d][j])

(* So does storing a grant that is new or known.                           *)
LEMMA StoreStep ==
    ASSUME TypeOK, TypeOK', Apart, NEW x \in Agents, NEW g \in Grant, Placed(x, g),
           Stores(x, g), Backed(g), Enclosed(g)
    PROVE  /\ Apart'
           /\ \A h \in grants[x] : h.id = g.id => Like(h, g)
           /\ grants'[x] = StoreGrant(grants[x], g)
           /\ \A h \in Agents : h # x => grants'[h] = grants[h]
<1>1. /\ grants \in [Agents -> SUBSET Grant] /\ signed \in Nat
      /\ grants'[x] = StoreGrant(grants[x], g)
      /\ \A h \in Agents : h # x => grants'[h] = grants[h]
    BY DEF TypeOK, Shrinks, Stores
<1>2. \A h \in Agents : \A k \in grants'[h] : k \in grants[h] \/ (h = x /\ k = g)
    BY <1>1 DEF StoreGrant
<1>3. \A h \in Agents : \A k \in grants[h] : k \in Grant /\ Known(k)
    BY <1>1 DEF Known
<1>4. (Known(g) /\ Like(g, g)) \/ Minted(g, g)
    BY DEF Minted, Like, Backed
<1>5. ASSUME NEW h \in Agents, NEW k \in grants'[h]
      PROVE  (\E l \in Grant : Known(l) /\ Like(k, l)) \/ Minted(k, g)
    <2>1. CASE k \in grants[h]
        BY <1>3, <2>1 DEF Like
    <2>2. CASE k = g
        BY <1>4, <2>2
    <2> QED BY <1>2, <2>1, <2>2
<1>6. ASSUME NEW c \in Agents, NEW d \in Agents, NEW j \in DOMAIN channel'[c][d]
      PROVE  \/ \E k \in DOMAIN channel[c][d] : channel'[c][d][j] = channel[c][d][k]
             \/ channel'[c][d][j].type = "object_share" => Minted(channel'[c][d][j].grant, g)
    <2>1. CASE \E k \in DOMAIN channel[c][d] : channel'[c][d][j] = channel[c][d][k]
        BY <2>1
    <2>2. CASE channel'[c][d][j].grant = g /\ signed' = signed + 1
        BY <1>1, <2>2 DEF Minted, Like, Backed
    <2> QED BY <2>1, <2>2 DEF Enclosed
<1>7. (Meaning /\ Fresh)'
    <2>1. Meaning /\ Fresh /\ signed' \in {signed, signed + 1}
        BY DEF Apart, Backed
    <2>2. \A h \in Agents : \A k \in grants'[h] :
              (\E l \in Grant : Known(l) /\ Like(k, l)) \/ Minted(k, g)
        BY <1>5
    <2>3. \A c, d \in Agents : \A j \in DOMAIN channel'[c][d] :
              \/ \E k \in DOMAIN channel[c][d] : channel'[c][d][j] = channel[c][d][k]
              \/ channel'[c][d][j].type = "object_share"
                     => Minted(channel'[c][d][j].grant, g)
        BY <1>6
    <2> HIDE DEF Meaning, Fresh
    <2> QED BY <2>1, <2>2, <2>3, KnownStep
<1>8. Located'
    <2>1. \A h \in Agents : \A k \in grants'[h] : Placed(h, k)
        BY <1>2 DEF Apart, Located
    <2>2. ASSUME NEW c \in Agents, NEW d \in Agents, NEW j \in DOMAIN channel'[c][d]
          PROVE  Carries(c, d, channel'[c][d][j])
        BY DEF Apart, Located, Carries, Enclosed
    <2> QED BY <2>1, <2>2 DEF Located, Placed, Carries
<1>9. \A h \in grants[x] : h.id = g.id => Like(h, g)
    BY <1>1, <1>3 DEF Apart, Meaning, Fresh, Grant, Backed
<1> QED BY <1>1, <1>7, <1>8, <1>9 DEF Apart

-----------------------------------------------------------------------------
(* The steps.                                                              *)

(* A pair agrees after a step that changes nothing it depends on.          *)
LEMMA QuietAgrees ==
    ASSUME AgreeInv, NEW o \in Objects, NEW b \in Agents \ {Author[o]},
           Matching(grants'[Author[o]], o, b) = Matching(grants[Author[o]], o, b),
           Matching(grants'[b], o, b) = Matching(grants[b], o, b),
           \A h \in Agents : objects[h] \subseteq objects'[h],
           parted \subseteq parted', UNCHANGED <<channel, wish, lost>>
    PROVE  Agrees(o, b)'
<1>1. Author[o] \in Agents
    BY AuthorAssumption
<1>2. Agrees(o, b)
    BY DEF AgreeInv
<1> QED BY <1>1, <1>2, AgreesFrame

(* A relationship that ends may take grants of the pair, which is then     *)
(* remembered as parted; of no other pair.                                 *)
LEMMA EndAgrees ==
    ASSUME AgreeInv, TypeOK', NEW x \in Agents, NEW y \in Agents, x # y, EndRelationship(x, y)
    PROVE  AgreeInv'
<1> DEFINE H == {g \in grants[x] : y \in {g.subject, g.issuer}}
<1>1. UNCHANGED <<objects, channel, signed, wish, lost>> /\ parted' = parted \cup {<<x, y>>, <<y, x>>}
    BY DEF EndRelationship
<1>2. Shrinks(x, H) \/ Shrinks(x, {})
    <2>1. CASE grants' = grants
        BY <2>1, NothingShrinks DEF AgreeInv
    <2>2. CASE grants' = [grants EXCEPT ![x] = Deactivated(grants[x], H)]
        BY <2>2 DEF Shrinks
    <2> QED BY <2>1, <2>2 DEF EndRelationship
<1>3. PICK hits \in SUBSET H : Shrinks(x, hits)
    BY <1>2
<1>4. Apart'
    <2>1. TypeOK /\ Apart
        BY DEF AgreeInv, Apart
    <2>2. signed' \in {signed, signed + 1} /\ channel' = channel
        BY <1>1
    <2> HIDE DEF H
    <2> QED BY <1>3, <2>1, <2>2, ShrinkStep
<1>5. ASSUME NEW o \in Objects, NEW b \in Agents \ {Author[o]}
      PROVE  Agrees(o, b)'
    <2> DEFINE a == Author[o]
    <2>0. a \in Agents
        BY AuthorAssumption
    <2>1. CASE <<a, b>> \in parted'
        BY <2>1 DEF Agrees
    <2>2. CASE <<a, b>> \notin parted'
        <3>1. ~(x = a /\ y = b) /\ ~(x = b /\ y = a)
            BY <1>1, <2>2
        <3>2. /\ \A g \in Matching(grants[a], o, b) : g.issuer = a /\ g.subject = b
              /\ \A g \in Matching(grants[b], o, b) : g.issuer = a /\ g.subject = b
            BY MatchingIssuer DEF AgreeInv, Matching
        <3>3. x = a => Matching(grants[a], o, b) \ hits = Matching(grants[a], o, b)
            BY <1>3, <3>1, <3>2
        <3>4. x = b => Matching(grants[b], o, b) \ hits = Matching(grants[b], o, b)
            BY <1>3, <3>1, <3>2
        <3>5. /\ Matching(grants'[a], o, b) = Matching(grants[a], o, b)
              /\ Matching(grants'[b], o, b) = Matching(grants[b], o, b)
            <4>1. ASSUME NEW h \in {a, b}
                  PROVE  Matching(grants'[h], o, b) = Matching(grants[h], o, b)
                <5>1. h \in Agents
                    BY <2>0
                <5>2. Matching(grants'[h], o, b) =
                          IF h = x THEN Matching(grants[x], o, b) \ hits
                          ELSE Matching(grants[h], o, b)
                    BY <1>3, <5>1, ShrunkMatching DEF AgreeInv
                <5>3. CASE h = x
                    BY <3>3, <3>4, <5>2, <5>3
                <5>4. CASE h # x
                    BY <5>2, <5>4
                <5> QED BY <5>3, <5>4
            <4> QED BY <4>1
        <3>6. /\ \A h \in Agents : objects[h] \subseteq objects'[h]
              /\ parted \subseteq parted' /\ UNCHANGED <<channel, wish, lost>>
            BY <1>1
        <3> QED BY <3>5, <3>6, QuietAgrees
    <2> QED BY <2>1, <2>2
<1> QED BY <1>4, <1>5 DEF AgreeInv, Apart

(* Nor do new friends, or objects, disagree.                               *)
LEMMA QuietStep ==
    ASSUME AgreeInv, TypeOK', NEW x \in Agents,
           UNCHANGED <<grants, channel, signed, wish, lost, parted>>,
           \A h \in Agents : objects[h] \subseteq objects'[h]
    PROVE  AgreeInv'
<1>1. Shrinks(x, {})
    BY NothingShrinks DEF AgreeInv
<1>2. Apart'
    BY <1>1, ShrinkStep DEF AgreeInv, Apart
<1>3. \A o \in Objects : \A b \in Agents \ {Author[o]} : Agrees(o, b)'
    BY QuietAgrees
<1> QED BY <1>2, <1>3 DEF AgreeInv, Apart

(* A word of x to y about q goes to the end of their channel, and is the   *)
(* author's last word if x is the author.                                  *)
LEMMA SaidStep ==
    ASSUME TypeOK, NEW x \in Agents, NEW y \in Agents, NEW q \in Objects, NEW m \in Envelope,
           m.object = q, Send(x, y, m), NEW word \in {"shared", "revoked"}, Wish(x, y, q, word)
    PROVE  /\ channel'[x][y] = Append(channel[x][y], m)
           /\ \A c, d \in Agents : ~(c = x /\ d = y) => channel'[c][d] = channel[c][d]
           /\ Author[q] = x => wish'[q][y] = word
           /\ \A o \in Objects : \A b \in Agents :
                 ~(Author[o] = x /\ o = q /\ b = y) => wish'[o][b] = wish[o][b]
<1>1. channel \in Channels /\ wish \in Wishes
    BY DEF TypeOK, Channels, Wishes
<1>2. channel' = [channel EXCEPT ![x][y] = Append(channel[x][y], m)]
    BY DEF Send
<1>3. /\ channel'[x][y] = Append(channel[x][y], m)
      /\ \A c, d \in Agents : ~(c = x /\ d = y) => channel'[c][d] = channel[c][d]
    BY <1>1, <1>2 DEF Channels
<1>4. wish' = IF Author[q] = x THEN [wish EXCEPT ![q][y] = word] ELSE wish
    BY DEF Wish
<1> QED BY <1>1, <1>3, <1>4 DEF Wishes

(* So, for pairs and objects it is not about, it says nothing.             *)
LEMMA SaidElsewhere ==
    ASSUME AgreeInv, NEW x \in Agents, NEW y \in Agents, NEW q \in Objects, NEW m \in Envelope,
           m.object = q, Send(x, y, m), NEW word \in {"shared", "revoked"}, Wish(x, y, q, word),
           UNCHANGED <<objects, lost, parted>>,
           NEW o \in Objects, NEW b \in Agents \ {Author[o]},
           ~(Author[o] = x /\ o = q /\ b = y),
           Matching(grants'[Author[o]], o, b) = Matching(grants[Author[o]], o, b),
           Matching(grants'[b], o, b) = Matching(grants[b], o, b)
    PROVE  Agrees(o, b)'
<1> DEFINE a == Author[o]
<1>1. a \in Agents /\ Agrees(o, b) /\ channel[a][b] \in Seq(Envelope)
    BY AuthorAssumption DEF AgreeInv, TypeOK
<1>2. /\ channel'[x][y] = Append(channel[x][y], m)
      /\ \A c, d \in Agents : ~(c = x /\ d = y) => channel'[c][d] = channel[c][d]
      /\ wish'[o][b] = wish[o][b]
    BY SaidStep DEF AgreeInv
<1>3. /\ Silent(channel'[a][b], o) => Silent(channel[a][b], o)
      /\ \A type \in {"object_share", "object_revoke"} :
            LastWord(channel'[a][b], o, type) => LastWord(channel[a][b], o, type)
    <2>1. CASE x = a /\ y = b
        <3>1. o # q /\ channel'[a][b] = Append(channel[a][b], m)
            BY <1>2, <2>1
        <3> DEFINE c == channel[a][b]
        <3>2. c \in Seq(Envelope) /\ m.object # o
            BY <1>1, <3>1
        <3> HIDE DEF c
        <3>3. Silent(Append(c, m), o) => Silent(c, o)
            BY <3>2, Longer
        <3>4. ASSUME NEW type, LastWord(Append(c, m), o, type)
              PROVE  LastWord(c, o, type)
            BY <3>2, <3>4, Longer
        <3> QED BY <2>1, <3>1, <3>3, <3>4 DEF c
    <2>2. CASE ~(x = a /\ y = b)
        BY <1>1, <1>2, <2>2
    <2> QED BY <2>1, <2>2
<1> HIDE DEF a
<1> QED BY <1>1, <1>2, <1>3, AgreesFrame DEF a

LEMMA ShareAgrees ==
    ASSUME AgreeInv, TypeOK', NEW x \in Agents, NEW y \in Agents, x # y,
           NEW q \in Objects, Share(x, y, q)
    PROVE  AgreeInv'
<1> DEFINE g == [id |-> signed + 1, object |-> q, issuer |-> x, subject |-> y,
                 active |-> TRUE]
           m == [type |-> "object_share", object |-> q, grant |-> g]
<1>1. g \in Grant /\ m \in Envelope
    BY ShareEnvelope DEF AgreeInv, TypeOK
<1>2. /\ Stores(x, g)
      /\ Send(x, y, m) /\ Wish(x, y, q, "shared") /\ q \in objects[x]
      /\ UNCHANGED <<objects, lost, parted>>
    BY DEF Share, Stores
<1>3. /\ g.id = signed + 1 /\ g.object = q /\ g.issuer = x /\ g.subject = y /\ g.active
      /\ m.type = "object_share" /\ m.object = q /\ m.grant = g
    OBVIOUS
<1> HIDE DEF g, m
<1>4. Placed(x, g) /\ Carries(x, y, m)
    BY <1>3 DEF Placed, Carries
<1>5. TypeOK /\ Apart
    BY DEF AgreeInv, Apart
<1>6. signed' = signed + 1
    BY <1>2 DEF Send
<1>7. \A c, d \in Agents : \A j \in DOMAIN channel'[c][d] :
          \/ \E k \in DOMAIN channel[c][d] : channel'[c][d][j] = channel[c][d][k]
          \/ c = x /\ d = y /\ channel'[c][d][j] = m
    BY <1>1, <1>2, <1>5, SendFacts
<1>8. Enclosed(g) /\ Backed(g)
    BY <1>3, <1>4, <1>6, <1>7 DEF Enclosed, Backed
<1>9. /\ Apart'
      /\ \A h \in grants[x] : h.id = g.id => Like(h, g)
      /\ grants'[x] = StoreGrant(grants[x], g)
      /\ \A h \in Agents : h # x => grants'[h] = grants[h]
    BY <1>1, <1>2, <1>4, <1>5, <1>8, StoreStep
<1>10. grants[x] \in SUBSET Grant
    BY <1>5 DEF TypeOK
<1>11. ASSUME NEW o \in Objects, NEW b \in Agents \ {Author[o]}
       PROVE  Agrees(o, b)'
    <2>0. Author[o] \in Agents
        BY AuthorAssumption
    <2>1. CASE Author[o] = x /\ o = q /\ b = y
        <3> DEFINE c == channel[x][y]
        <3>1. c \in Seq(Envelope)
            BY <1>5 DEF TypeOK
        <3>2. channel'[x][y] = Append(c, m) /\ wish'[q][y] = "shared"
            BY <1>1, <1>2, <1>3, <1>5, <2>1, SaidStep
        <3> HIDE DEF c
        <3>3. /\ ~Silent(Append(c, m), q)
              /\ LastWord(Append(c, m), q, "object_revoke")
                    => m.type = "object_revoke"
            BY <1>1, <1>3, <3>1, Longer
        <3>4. Matching(grants'[x], q, y) # {}
            BY <1>1, <1>3, <1>9, <1>10, MatchingStored
        <3>5. q \in objects'[x]
            BY <1>2
        <3>6. OwnerSide(q, y)'
            BY <2>1, <3>2, <3>4, <3>5 DEF OwnerSide
        <3>7. ReaderSide(q, y)'
            BY <1>3, <2>1, <3>2, <3>3 DEF ReaderSide
        <3> QED BY <2>1, <3>6, <3>7 DEF Agrees
    <2>2. CASE ~(Author[o] = x /\ o = q /\ b = y)
        <3>1. ASSUME NEW h \in {Author[o], b}
              PROVE  Matching(grants'[h], o, b) = Matching(grants[h], o, b)
            <4>1. CASE h # x
                BY <1>9, <2>0, <4>1
            <4>2. CASE h = x
                <5>1. ~(q = o /\ y = b)
                    BY <2>2, <4>2
                <5> QED BY <1>1, <1>3, <1>9, <1>10, <4>2, <5>1, MatchingStored
            <4> QED BY <4>1, <4>2
        <3> QED BY <1>1, <1>2, <1>3, <2>2, <3>1, SaidElsewhere
    <2> QED BY <2>1, <2>2
<1> QED BY <1>9, <1>11 DEF AgreeInv, Apart

LEMMA RevokeAgrees ==
    ASSUME AgreeInv, TypeOK', NEW x \in Agents, NEW y \in Agents, x # y,
           NEW q \in Objects, Revoke(x, y, q)
    PROVE  AgreeInv'
<1> DEFINE m == [type |-> "object_revoke", object |-> q]
           hits == Matching(grants[x], q, y)
<1>1. m \in Envelope /\ m.object = q /\ m.type = "object_revoke"
    BY DEF Envelope
<1>2. /\ Shrinks(x, hits)
      /\ Send(x, y, m) /\ Wish(x, y, q, "revoked")
      /\ UNCHANGED <<objects, lost, parted>>
    BY DEF Revoke, HitsOf, Matching, Shrinks
<1>3. \A o, b : ~(o = q /\ b = y)
          => Matching(grants[x], o, b) \ hits = Matching(grants[x], o, b)
    BY DEF Matching
<1>4. Matching(grants[x], q, y) \ hits = {}
    OBVIOUS
<1> HIDE DEF m, hits
<1>5. TypeOK /\ Apart
    BY DEF AgreeInv, Apart
<1>6. signed' = signed + 1
    BY <1>2 DEF Send
<1>7. \A c, d \in Agents : \A j \in DOMAIN channel'[c][d] :
          \/ \E k \in DOMAIN channel[c][d] : channel'[c][d][j] = channel[c][d][k]
          \/ channel'[c][d][j].type # "object_share"
    BY <1>1, <1>2, <1>5, SendFacts
<1>8. Apart'
    BY <1>2, <1>5, <1>6, <1>7, ShrinkStep
<1>9. \A h \in Agents : \A o, b :
          Matching(grants'[h], o, b) =
              IF h = x THEN Matching(grants[x], o, b) \ hits
              ELSE Matching(grants[h], o, b)
    BY <1>2, <1>5, ShrunkMatching
<1>10. ASSUME NEW o \in Objects, NEW b \in Agents \ {Author[o]}
       PROVE  Agrees(o, b)'
    <2>0. Author[o] \in Agents
        BY AuthorAssumption
    <2>1. CASE Author[o] = x /\ o = q /\ b = y
        <3> DEFINE c == channel[x][y]
        <3>1. c \in Seq(Envelope)
            BY <1>5 DEF TypeOK
        <3>2. channel'[x][y] = Append(c, m) /\ wish'[q][y] = "revoked"
            BY <1>1, <1>2, <1>5, <2>1, SaidStep
        <3> HIDE DEF c
        <3>3. /\ ~Silent(channel'[x][y], q)
              /\ ~LastWord(channel'[x][y], q, "object_share")
            BY <1>1, <3>1, <3>2, Longer
        <3>4. Matching(grants'[x], q, y) = {}
            BY <1>4, <1>9
        <3>5. OwnerSide(q, y)'
            BY <2>1, <3>2, <3>4 DEF OwnerSide
        <3>6. ReaderSide(q, y)'
            BY <2>1, <3>2, <3>3 DEF ReaderSide
        <3> QED BY <2>1, <3>5, <3>6 DEF Agrees
    <2>2. CASE ~(Author[o] = x /\ o = q /\ b = y)
        <3>1. ASSUME NEW h \in {Author[o], b}
              PROVE  Matching(grants'[h], o, b) = Matching(grants[h], o, b)
            <4>1. CASE h # x
                BY <1>9, <2>0, <4>1
            <4>2. CASE h = x
                <5>1. ~(o = q /\ b = y)
                    BY <2>2, <4>2
                <5>2. Matching(grants'[h], o, b) = Matching(grants[x], o, b) \ hits
                    BY <1>9, <4>2
                <5> QED BY <1>3, <4>2, <5>1, <5>2
            <4> QED BY <4>1, <4>2
        <3> QED BY <1>1, <1>2, <2>2, <3>1, SaidElsewhere
    <2> QED BY <2>1, <2>2
<1> QED BY <1>8, <1>10 DEF AgreeInv, Apart

-----------------------------------------------------------------------------
(* The first envelope of a channel takes effect.                           *)

LEMMA FirstOfChannel ==
    ASSUME TypeOK, NEW x \in Agents, NEW y \in Agents, Take(x, y, 1)
    PROVE  /\ channel'[x][y] = RemoveAt(channel[x][y], 1)
           /\ \A c, d \in Agents : ~(c = x /\ d = y) => channel'[c][d] = channel[c][d]
<1>1. channel \in Channels
    BY DEF TypeOK, Channels
<1>2. channel' = [channel EXCEPT ![x][y] = RemoveAt(channel[x][y], 1)]
    BY DEF Take
<1> QED BY <1>1, <1>2 DEF Channels

(* It concerns its own object and its own pair only.                       *)
LEMMA TakenElsewhere ==
    ASSUME AgreeInv, TypeOK', NEW x \in Agents, NEW y \in Agents,
           1 \in DOMAIN channel[x][y], Take(x, y, 1),
           UNCHANGED <<wish, lost, parted>>,
           \A h \in Agents : objects[h] \subseteq objects'[h],
           NEW o \in Objects, NEW b \in Agents \ {Author[o]},
           ~(Author[o] = x /\ b = y /\ o = channel[x][y][1].object),
           Matching(grants'[Author[o]], o, b) = Matching(grants[Author[o]], o, b),
           Matching(grants'[b], o, b) = Matching(grants[b], o, b)
    PROVE  Agrees(o, b)'
<1> DEFINE a == Author[o]
<1>1. a \in Agents /\ Agrees(o, b) /\ TypeOK
    BY AuthorAssumption DEF AgreeInv
<1>2. /\ channel'[x][y] = RemoveAt(channel[x][y], 1)
      /\ \A c, d \in Agents : ~(c = x /\ d = y) => channel'[c][d] = channel[c][d]
    BY <1>1, FirstOfChannel
<1>3. /\ Silent(channel'[a][b], o) => Silent(channel[a][b], o)
      /\ \A type \in {"object_share", "object_revoke"} :
            LastWord(channel'[a][b], o, type) => LastWord(channel[a][b], o, type)
    <2>1. CASE x = a /\ y = b
        <3> DEFINE c == channel[x][y]
                   d == channel'[x][y]
        <3>1. /\ c \in Seq(Envelope) /\ d \in Seq(Envelope) /\ 1 \in DOMAIN c
              /\ d = RemoveAt(c, 1) /\ c[1].object # o
            BY <1>1, <1>2, <2>1 DEF TypeOK
        <3>2. channel[a][b] = c /\ channel'[a][b] = d
            BY <2>1
        <3> HIDE DEF c, d
        <3>3. Silent(d, o) => Silent(c, o)
            BY <3>1, FirstTaken
        <3>4. ASSUME NEW type, LastWord(d, o, type)
              PROVE  LastWord(c, o, type)
            BY <3>1, <3>4, FirstTaken
        <3> QED BY <3>2, <3>3, <3>4
    <2>2. CASE ~(x = a /\ y = b)
        BY <1>1, <1>2, <2>2
    <2> QED BY <2>1, <2>2
<1> HIDE DEF a
<1> QED BY <1>1, <1>3, AgreesFrame DEF a

(* A pair agrees after its envelope when the reader does what it says.     *)
LEMMA TakenHere ==
    ASSUME AgreeInv, TypeOK', NEW x \in Agents, NEW y \in Agents,
           1 \in DOMAIN channel[x][y], Take(x, y, 1),
           UNCHANGED <<wish, lost, parted>>,
           NEW o \in Objects, Author[o] = x, x # y, o = channel[x][y][1].object,
           Matching(grants'[x], o, y) = Matching(grants[x], o, y),
           objects[x] \subseteq objects'[x],
           channel[x][y][1].type = "object_share"
               => o \in objects'[y] /\ Matching(grants'[y], o, y) # {},
           channel[x][y][1].type = "object_revoke"
               => Matching(grants'[y], o, y) = {}
    PROVE  Agrees(o, y)'
<1> DEFINE c == channel[x][y]
           d == channel'[x][y]
<1>1. /\ c \in Seq(Envelope) /\ d \in Seq(Envelope) /\ 1 \in DOMAIN c
      /\ d = RemoveAt(c, 1) /\ c[1].object = o
    BY FirstOfChannel DEF AgreeInv, TypeOK
<1>2. c[1].type \in {"object_share", "object_revoke"}
    <2>1. c[1] \in Envelope
        BY <1>1
    <2> QED BY <2>1 DEF Envelope
<1>3. Agrees(o, y)
    BY DEF AgreeInv
<1>4. OwnerSide(o, y) => OwnerSide(o, y)'
    BY DEF OwnerSide
<1>5. ASSUME ReaderSide(o, y) PROVE ReaderSide(o, y)'
    <2>1. /\ LastWord(c, o, "object_share") => wish[o][y] = "shared"
          /\ LastWord(c, o, "object_revoke") => wish[o][y] = "revoked"
        BY <1>5 DEF ReaderSide
    <2> HIDE DEF c, d
    <2>2. /\ LastWord(d, o, "object_share") => wish[o][y] = "shared"
          /\ LastWord(d, o, "object_revoke") => wish[o][y] = "revoked"
        BY <1>1, <2>1, FirstTaken
    <2>3. Silent(d, o) => LastWord(c, o, c[1].type)
        BY <1>1, FirstTaken
    <2>4. CASE c[1].type = "object_share"
        <3>1. o \in objects'[y] /\ Matching(grants'[y], o, y) # {}
            BY <2>4 DEF c
        <3>2. Silent(d, o) => wish[o][y] = "shared"
            BY <2>1, <2>3, <2>4
        <3> QED BY <2>2, <3>1, <3>2 DEF ReaderSide, d
    <2>5. CASE c[1].type = "object_revoke"
        <3>1. Matching(grants'[y], o, y) = {}
            BY <2>5 DEF c
        <3>2. Silent(d, o) => wish[o][y] = "revoked"
            BY <2>1, <2>3, <2>5
        <3> QED BY <2>2, <3>1, <3>2 DEF ReaderSide, d
    <2> QED BY <1>2, <2>4, <2>5
<1> QED BY <1>3, <1>4, <1>5 DEF Agrees

(* A share stores its grant, or is refused and changes nothing.            *)
LEMMA TakeShareAgrees ==
    ASSUME AgreeInv, TypeOK', NEW x \in Agents, NEW y \in Agents, x # y,
           1 \in DOMAIN channel[x][y], ReceiveObjectShare(x, y, 1)
    PROVE  AgreeInv'
<1> DEFINE m == channel[x][y][1]
<1>1. TypeOK /\ Apart
    BY DEF AgreeInv, Apart
<1>2. /\ m.type = "object_share" /\ Take(x, y, 1)
      /\ UNCHANGED <<signed, wish, lost, parted>>
    BY DEF ReceiveObjectShare
<1>3. m \in Envelope
    BY <1>1 DEF TypeOK
<1>4. m.object \in Objects /\ m.grant \in Grant
    BY <1>2, <1>3, EnvelopeParts
<1>5. /\ m.grant.issuer = x /\ m.grant.subject = y
      /\ m.grant.object = m.object /\ m.grant.active
    BY <1>1, <1>2 DEF Apart, Located, Carries
<1>6. \A c, d \in Agents : \A j \in DOMAIN channel'[c][d] :
          \E k \in DOMAIN channel[c][d] : channel'[c][d][j] = channel[c][d][k]
    BY <1>1, <1>2, TakeFacts
<1>7. CASE ~BindsSender(x, m)
    <2>1. UNCHANGED <<objects, grants>> /\ Author[m.object] # x
        BY <1>7 DEF ReceiveObjectShare, BindsSender
    <2>2. Shrinks(x, {})
        BY <1>1, <2>1, NothingShrinks
    <2>3. Apart'
        BY <1>1, <1>2, <1>6, <2>2, ShrinkStep
    <2>4. ASSUME NEW o \in Objects, NEW b \in Agents \ {Author[o]}
          PROVE  Agrees(o, b)'
        <3>1. ~(Author[o] = x /\ b = y /\ o = channel[x][y][1].object)
            BY <2>1
        <3>2. \A h \in Agents : objects[h] \subseteq objects'[h]
            BY <2>1
        <3> QED BY <1>2, <2>1, <3>1, <3>2, TakenElsewhere
    <2> QED BY <2>3, <2>4 DEF AgreeInv, Apart
<1>8. CASE BindsSender(x, m)
    <2> DEFINE g == m.grant
               q == m.object
    <2>1. /\ Stores(y, g)
          /\ objects' = [objects EXCEPT ![y] = @ \cup {q}]
          /\ Author[q] = x
        BY <1>8 DEF ReceiveObjectShare, BindsSender, Stores
    <2>2. Placed(y, g) /\ g \in Grant
        BY <1>4, <1>5, <2>1 DEF Placed
    <2>3. Known(g)
        BY <1>2 DEF Known
    <2>4. q = channel[x][y][1].object /\ channel[x][y][1].type = "object_share"
        BY <1>2
    <2>5. /\ q \in Objects /\ g.object = q /\ g.subject = y /\ g.active
        BY <1>4, <1>5
    <2> HIDE DEF g, q, m
    <2> Enclosed(g) /\ Backed(g)
        BY <1>2, <1>6, <2>3 DEF Enclosed, Backed
    <2>6. /\ Apart'
          /\ \A h \in grants[y] : h.id = g.id => Like(h, g)
          /\ grants'[y] = StoreGrant(grants[y], g)
          /\ \A h \in Agents : h # y => grants'[h] = grants[h]
        BY <1>1, <2>1, <2>2, StoreStep
    <2>7. grants[y] \in SUBSET Grant /\ objects \in [Agents -> SUBSET Objects]
        BY <1>1 DEF TypeOK
    <2>8. /\ \A h \in Agents : objects[h] \subseteq objects'[h]
          /\ q \in objects'[y]
        BY <2>1, <2>7
    <2>9. ASSUME NEW o \in Objects, NEW b \in Agents \ {Author[o]}
          PROVE  Agrees(o, b)'
        <3>0. Author[o] \in Agents
            BY AuthorAssumption
        <3>1. CASE o = q /\ b = y
            <4>1. Matching(grants'[y], o, y) # {}
                BY <2>2, <2>5, <2>6, <2>7, <3>1, MatchingStored
            <4>2. Matching(grants'[x], o, y) = Matching(grants[x], o, y)
                BY <2>6
            <4>3. objects[x] \subseteq objects'[x] /\ o \in objects'[y]
                BY <2>8, <3>1
            <4>4. Author[o] = x /\ o = channel[x][y][1].object
                BY <2>1, <2>4, <3>1
            <4> QED BY <1>2, <2>4, <3>1, <4>1, <4>2, <4>3, <4>4, TakenHere
        <3>2. CASE ~(o = q /\ b = y)
            <4>1. ASSUME NEW h \in {Author[o], b}
                  PROVE  Matching(grants'[h], o, b) = Matching(grants[h], o, b)
                <5>1. CASE h # y
                    BY <2>6, <3>0, <5>1
                <5>2. CASE h = y
                    BY <2>2, <2>5, <2>6, <2>7, <3>2, <5>2, MatchingStored
                <5> QED BY <5>1, <5>2
            <4>2. ~(Author[o] = x /\ b = y /\ o = channel[x][y][1].object)
                BY <2>4, <3>2
            <4> QED BY <1>2, <2>8, <4>1, <4>2, TakenElsewhere
        <3> QED BY <3>1, <3>2
    <2> QED BY <2>6, <2>9 DEF AgreeInv, Apart
<1> QED BY <1>7, <1>8

(* A revoke marks every grant its sender issued for the object.            *)
LEMMA TakeRevokeAgrees ==
    ASSUME AgreeInv, TypeOK', NEW x \in Agents, NEW y \in Agents, x # y,
           1 \in DOMAIN channel[x][y], ReceiveObjectRevoke(x, y, 1)
    PROVE  AgreeInv'
<1> DEFINE q == channel[x][y][1].object
           hits == {g \in grants[y] : g.object = q /\ g.issuer = x}
<1>1. TypeOK /\ Apart
    BY DEF AgreeInv, Apart
<1>2. /\ channel[x][y][1].type = "object_revoke" /\ Take(x, y, 1)
      /\ Shrinks(y, hits)
      /\ UNCHANGED <<objects, signed, wish, lost, parted>>
    BY DEF ReceiveObjectRevoke, Shrinks
<1>3. \A c, d \in Agents : \A j \in DOMAIN channel'[c][d] :
          \E k \in DOMAIN channel[c][d] : channel'[c][d][j] = channel[c][d][k]
    BY <1>1, <1>2, TakeFacts
<1>4. ASSUME NEW o \in Objects, NEW b \in Agents \ {Author[o]}, NEW h \in {Author[o], b}
      PROVE  \A g \in Matching(grants[h], o, b) : g.issuer = Author[o] /\ g.object = o
    BY <1>1, MatchingIssuer DEF Apart, Matching
<1>5. ASSUME NEW o \in Objects, NEW b \in Agents \ {Author[o]},
             NEW h \in {Author[o], b}, ~(o = q /\ Author[o] = x)
      PROVE  Matching(grants[h], o, b) \ hits = Matching(grants[h], o, b)
    BY <1>4, <1>5
<1>6. ASSUME NEW b \in Agents \ {x}, q \in Objects, Author[q] = x, b = y
      PROVE  Matching(grants[y], q, b) \ hits = {}
    BY <1>4, <1>6 DEF Matching
<1>7. q = channel[x][y][1].object
    OBVIOUS
<1> HIDE DEF q, hits
<1>8. Apart'
    BY <1>1, <1>2, <1>3, ShrinkStep
<1>9. \A h \in Agents : \A o, b :
          Matching(grants'[h], o, b) =
              IF h = y THEN Matching(grants[y], o, b) \ hits
              ELSE Matching(grants[h], o, b)
    BY <1>1, <1>2, ShrunkMatching
<1>10. ASSUME NEW o \in Objects, NEW b \in Agents \ {Author[o]}
       PROVE  Agrees(o, b)'
    <2>0. Author[o] \in Agents
        BY AuthorAssumption
    <2>1. CASE Author[o] = x /\ o = q /\ b = y
        <3>1. Matching(grants'[y], o, y) = {}
            BY <1>6, <1>9, <2>1
        <3>2. Matching(grants'[x], o, y) = Matching(grants[x], o, y)
            BY <1>9
        <3> QED BY <1>2, <1>7, <2>1, <3>1, <3>2, TakenHere
    <2>2. CASE ~(Author[o] = x /\ o = q /\ b = y)
        <3>1. ASSUME NEW h \in {Author[o], b}
              PROVE  Matching(grants'[h], o, b) = Matching(grants[h], o, b)
            <4>1. CASE h # y
                BY <1>9, <2>0, <4>1
            <4>2. CASE h = y
                <5>1. ~(o = q /\ Author[o] = x)
                    BY <2>2, <4>2
                <5>2. Matching(grants'[h], o, b) = Matching(grants[h], o, b) \ hits
                    BY <1>9, <4>2
                <5> QED BY <1>5, <5>1, <5>2
            <4> QED BY <4>1, <4>2
        <3>2. ~(Author[o] = x /\ b = y /\ o = channel[x][y][1].object)
            BY <1>7, <2>2
        <3>3. \A h \in Agents : objects[h] \subseteq objects'[h]
            BY <1>2
        <3> QED BY <1>2, <3>1, <3>2, <3>3, TakenElsewhere
    <2> QED BY <2>1, <2>2
<1> QED BY <1>8, <1>10 DEF AgreeInv, Apart

(* Once an envelope is lost the reader's side is owed nothing.             *)
LEMMA LoseAgrees ==
    ASSUME AgreeInv, TypeOK', NEW x \in Agents, NEW y \in Agents,
           NEW i \in DOMAIN channel[x][y], Lose(x, y, i)
    PROVE  AgreeInv'
<1>1. TypeOK /\ Apart
    BY DEF AgreeInv, Apart
<1>2. Take(x, y, i) /\ lost' /\ UNCHANGED <<objects, grants, signed, wish, parted>>
    BY DEF Lose
<1>3. \A c, d \in Agents : \A j \in DOMAIN channel'[c][d] :
          \E k \in DOMAIN channel[c][d] : channel'[c][d][j] = channel[c][d][k]
    BY <1>1, <1>2, TakeFacts
<1>4. Apart'
    BY <1>1, <1>2, <1>3, NothingShrinks, ShrinkStep
<1>5. ASSUME NEW o \in Objects, NEW b \in Agents \ {Author[o]}
      PROVE  Agrees(o, b)'
    <2>1. Agrees(o, b)
        BY DEF AgreeInv
    <2>2. OwnerSide(o, b) => OwnerSide(o, b)'
        BY <1>2 DEF OwnerSide
    <2> QED BY <1>2, <2>1, <2>2 DEF Agrees
<1> QED BY <1>4, <1>5 DEF AgreeInv, Apart

-----------------------------------------------------------------------------
(* The invariant.                                                          *)

LEMMA InitAgrees == Init => AgreeInv
<1> SUFFICES ASSUME Init
             PROVE  AgreeInv
    OBVIOUS
<1>1. TypeOK
    BY InitTypeOK
<1>2. /\ \A h \in Agents : grants[h] = {}
      /\ \A x, y \in Agents : channel[x][y] = <<>> /\ DOMAIN channel[x][y] = {}
    BY DEF Init
<1>3. Meaning /\ Fresh
    BY <1>2 DEF Meaning, Fresh, Known
<1>4. Located
    BY <1>2 DEF Located
<1>5. ASSUME NEW o \in Objects, NEW b \in Agents \ {Author[o]}
      PROVE  Agrees(o, b)
    <2>1. Author[o] \in Agents
        BY AuthorAssumption
    <2>2. wish[o][b] = "none"
        BY DEF Init
    <2>3. /\ Matching(grants[Author[o]], o, b) = {}
          /\ Matching(grants[b], o, b) = {}
        BY <1>2, <2>1 DEF Matching
    <2>4. \A type : ~LastWord(channel[Author[o]][b], o, type)
        BY <1>2, <2>1 DEF LastWord
    <2>5. OwnerSide(o, b)
        BY <2>2, <2>3 DEF OwnerSide
    <2>6. ReaderSide(o, b)
        BY <2>2, <2>3, <2>4 DEF ReaderSide
    <2> QED BY <2>5, <2>6 DEF Agrees
<1> QED BY <1>1, <1>3, <1>4, <1>5 DEF AgreeInv

LEMMA NextAgrees ==
    ASSUME Ordered, AgreeInv, [Next]_vars
    PROVE  AgreeInv'
<1>1. TypeOK /\ TypeOK'
    BY NextTypeOK DEF AgreeInv
<1>2. ASSUME NEW a \in Agents, NEW o \in Objects, CreateObject(a, o)
      PROVE  AgreeInv'
    <2>1. /\ objects' = [objects EXCEPT ![a] = @ \cup {o}]
          /\ UNCHANGED <<grants, channel, signed, wish, lost, parted>>
        BY <1>2 DEF CreateObject
    <2>2. \A h \in Agents : objects[h] \subseteq objects'[h]
        BY <1>1, <2>1 DEF TypeOK
    <2> QED BY <1>1, <2>1, <2>2, QuietStep
<1>3. ASSUME NEW x \in Agents, NEW y \in Agents, x # y, OwnerStep(x, y)
      PROVE  AgreeInv'
    <2>1. CASE EndRelationship(x, y)
        BY <1>1, <1>3, <2>1, EndAgrees
    <2>2. CASE Befriend(x, y)
        <3>1. /\ UNCHANGED <<grants, channel, signed, wish, lost, parted>>
              /\ \A h \in Agents : objects[h] \subseteq objects'[h]
            BY <2>2 DEF Befriend
        <3> QED BY <1>1, <3>1, QuietStep
    <2>3. CASE \E o \in Objects : Share(x, y, o)
        BY <1>1, <1>3, <2>3, ShareAgrees
    <2>4. CASE \E o \in Objects : Revoke(x, y, o)
        BY <1>1, <1>3, <2>4, RevokeAgrees
    <2> QED BY <1>3, <2>1, <2>2, <2>3, <2>4 DEF OwnerStep
<1>4. ASSUME NEW x \in Agents, NEW y \in Agents, x # y, Receive(x, y)
      PROVE  AgreeInv'
    <2>1. /\ 1 \in DOMAIN channel[x][y]
          /\ ReceiveObjectShare(x, y, 1) \/ ReceiveObjectRevoke(x, y, 1)
        BY <1>4 DEF Receive
    <2> QED BY <1>1, <1>4, <2>1, TakeShareAgrees, TakeRevokeAgrees
<1>5. ASSUME NEW x \in Agents, NEW y \in Agents, NEW i \in DOMAIN channel[x][y],
             Lose(x, y, i)
      PROVE  AgreeInv'
    BY <1>1, <1>5, LoseAgrees
<1>6. CASE UNCHANGED vars
    <2>1. /\ UNCHANGED <<grants, channel, signed, wish, lost, parted, objects>>
          /\ \A h \in Agents : objects[h] \subseteq objects'[h]
        BY <1>6 DEF vars
    <2>2. CASE Agents = {}
        BY <1>1, <2>1, <2>2 DEF AgreeInv, Meaning, Fresh, Known, Located
    <2>3. CASE Agents # {}
        BY <1>1, <2>1, <2>3, QuietStep
    <2> QED BY <2>2, <2>3
<1>7. \A p \in Pairs : p[1] \in Agents /\ p[2] \in Agents /\ p[1] # p[2]
    BY DEF Pairs
<1> QED BY <1>2, <1>3, <1>4, <1>5, <1>6, <1>7 DEF Next

(* When envelopes take effect in the order they were signed and none is    *)
(* lost, a reader whose channel is empty reads what the author's grants    *)
(* say: neither handler drops, forgets or mixes up a grant.                *)
THEOREM ReadersAgree == Ordered => (Spec => []ReadersAgreeWithOwner)
<1> SUFFICES ASSUME Ordered
             PROVE  Spec => []ReadersAgreeWithOwner
    OBVIOUS
<1>1. ASSUME AgreeInv
      PROVE  ReadersAgreeWithOwner
    <2> SUFFICES ASSUME NEW o \in Objects, NEW b \in Agents \ {Author[o]},
                        channel[Author[o]][b] = <<>>, ~lost,
                        <<Author[o], b>> \notin parted
                 PROVE  CanRead(b, o, b) <=> CanRead(Author[o], o, b)
        BY DEF ReadersAgreeWithOwner
    <2>1. OwnerSide(o, b) /\ ReaderSide(o, b)
        BY <1>1 DEF AgreeInv, Agrees
    <2>2. Silent(channel[Author[o]][b], o)
        BY DEF Silent
    <2>3. \A h \in Agents :
              CanRead(h, o, b) <=> o \in objects[h] /\ Matching(grants[h], o, b) # {}
        BY DEF CanRead, Matching
    <2>4. Author[o] \in Agents
        BY AuthorAssumption
    <2> QED BY <2>1, <2>2, <2>3, <2>4 DEF OwnerSide, ReaderSide
<1>2. AgreeInv /\ [Next]_vars => AgreeInv'
    BY NextAgrees
<1> QED BY <1>1, <1>2, InitAgrees, PTL DEF Spec
=============================================================================
