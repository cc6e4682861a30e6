------------------------ MODULE PostTaxonomy_proofs ------------------------
(* The stores of PostTaxonomy keep their shape; a post only moves on; what a *)
(* friend is offered is live or was ended by its owner; answers follow their *)
(* query.                                                                    *)
EXTENDS PostTaxonomy, TLAPS

\* The part of the type invariant that the author's files are in.
Files ==
    /\ post \in [Posts -> Post \cup {Absent}]
    /\ life \in [Posts -> {"active", "stale", "deprecated"} \cup Terminal]
    /\ \A p \in Posts : life[p] \in LifecyclesOf(post[p].kind)
    /\ past \subseteq Made
    /\ late \subseteq Made /\ cut \subseteq Made /\ ended \subseteq Made

\* The part that deliveries are in.
Deliveries ==
    /\ friend \in [Agents -> SUBSET Agents]
    /\ stage \in [Posts -> {"idle", "broadcast", "sent"}]
    /\ todo \in [Posts -> SUBSET Agents]
    /\ net \subseteq Made \X Agents
    /\ received \in [Agents -> SUBSET Made]
    /\ crashes \in 0..MaxCrashes
    /\ lost \subseteq Posts \X Agents

\* An answer has an ephemeral post to answer.
Parented ==
    \A p \in Made : post[p].kind = "answer" =>
        /\ post[p].parent \in Made
        /\ post[post[p].parent].kind \in EphemeralTypes

\* Only the clock makes a post stale, and it does not run backwards.
Aged == \A p \in Made : life[p] = "stale" => p \in past

\* Time and owners alone end an ephemeral post.
LiveUnlessEnded ==
    \A p \in Made :
        post[p].kind \in EphemeralTypes /\ p \notin past \cup ended => life[p] = "active"

\* Only a post that was made is delivered.
Staged == \A p \in Posts : stage[p] = "broadcast" => p \in Made

FileInv == Files /\ Parented /\ Aged /\ LiveUnlessEnded /\ AnswersFollowTheirQuery
IInv == FileInv /\ Deliveries /\ Staged

\* A post that was made has a kind, an author and a parent of their types.
LEMMA PostShape ==
    ASSUME Files, NEW p \in Made
    PROVE  p \in Posts /\ post[p] \in Post /\ post[p].kind \in Kinds
BY DEF Files, Made, Absent, Post

---------------------------------------------------------------------------
(* How the lifecycle of one post moves                                      *)

\* A step leaves the lifecycle of p, writes the computed one back, or ends p.
Moved(p) ==
    \/ life'[p] = life[p]
    \/ life'[p] = Shown(p)
    \/ /\ life'[p] \in Terminal \cup {"deprecated"}
       /\ life'[p] \in LifecyclesOf(post[p].kind)
       /\ p \in ended' \/ p \in past \/ post[p].kind \notin EphemeralTypes

\* Whichever it is, the lifecycle stays one of its type, does not go back, is
\* stale only by the clock, and ends only by the clock or the owner.
LEMMA MovedOn ==
    ASSUME FileInv, NEW p \in Made, post'[p] = post[p], Moved(p),
           past \subseteq past', ended \subseteq ended'
    PROVE  /\ life'[p] \in LifecyclesOf(post[p].kind)
           /\ life'[p] = "stale" => p \in past'
           /\ post[p].kind \in EphemeralTypes /\ p \notin past' \cup ended' => life'[p] = "active"
           /\ Rank(life[p]') >= Rank(life[p])
           /\ Rank(Shown(p)') >= Rank(Shown(p))
<1>1. /\ post[p].kind \in Kinds /\ life[p] \in LifecyclesOf(post[p].kind)
      /\ life[p] = "stale" => p \in past
      /\ post[p].kind \in EphemeralTypes /\ p \notin past \cup ended => life[p] = "active"
    BY PostShape DEF FileInv, Files, Aged, LiveUnlessEnded
<1>2. CASE post[p].kind \in HardTypes
    BY <1>1, <1>2 DEF Moved, Shown, Computed, ComputeLifecycle, ByTheClock, LifecyclesOf,
       Terminal, HardTypes, EphemeralTypes, Rank
<1>3. CASE post[p].kind \in (EphemeralTypes \ HardTypes) \cup {"signal"}
    BY <1>1, <1>3 DEF Moved, Shown, Computed, ComputeLifecycle, ByTheClock, LifecyclesOf,
       Terminal, HardTypes, EphemeralTypes, Rank
<1>4. CASE post[p].kind \in {"answer", "endorse", "result_attestation", "capability_advertisement"}
    BY <1>1, <1>4 DEF Moved, Shown, LifecyclesOf, Terminal, HardTypes, EphemeralTypes, Rank
<1> QED
    BY <1>1, <1>2, <1>3, <1>4 DEF Kinds, HardTypes, EphemeralTypes

\* What the properties ask of a step that only moves lifecycles.
Moves ==
    /\ UNCHANGED post
    /\ past \subseteq past' /\ past' \subseteq Made
    /\ ended \subseteq ended' /\ ended' \subseteq Made
    /\ late' \subseteq Made /\ cut' \subseteq Made
    /\ life' \in [Posts -> {"active", "stale", "deprecated"} \cup Terminal]
    /\ \A p \in Posts \ Made : life'[p] = life[p]
    /\ \A p \in Made : Moved(p)

\* Such a step keeps the files, but for the answers to a deleted query.
LEMMA MovesFiles ==
    ASSUME FileInv, Moves
    PROVE  (Files /\ Parented /\ Aged /\ LiveUnlessEnded)'
<1>1. Made' = Made
    BY DEF Moves, Made
<1>2. \A p \in Made :
           /\ life'[p] \in LifecyclesOf(post[p].kind)
           /\ life'[p] = "stale" => p \in past'
           /\ post[p].kind \in EphemeralTypes /\ p \notin past' \cup ended' => life'[p] = "active"
    BY MovedOn DEF Moves
<1>3. Files'
    BY <1>1, <1>2 DEF Moves, Files, FileInv
<1> QED
    BY <1>1, <1>2, <1>3 DEF Moves, FileInv, Parented, Aged, LiveUnlessEnded

\* It also lets no post go back.
LEMMA MovesOn ==
    ASSUME FileInv, Moves
    PROVE  \A p \in Made : /\ Rank(life[p]') >= Rank(life[p])
                           /\ Rank(Shown(p)') >= Rank(Shown(p))
BY MovedOn DEF Moves

---------------------------------------------------------------------------
(* The steps of the files                                                   *)

\* The steps that only move lifecycles.
MoveStep ==
    \/ \E p \in Posts : Lapse(p) \/ CancelEphemeral(p) \/ DeprecateCapability(p)
    \/ \E p \in Posts : \E writes \in 1..2 : DeleteQuery(p, writes)
    \/ \E a \in Agents : ExpireSignals(a) \/ ExpireEphemeral(a)
    \/ \E a \in Agents : \E writes \in 1..4 : Deregister(a, writes)

\* What is computed is a lifecycle of the type.
LEMMA ShownType ==
    ASSUME Files, NEW p \in Made
    PROVE  Shown(p) \in {"active", "stale", "deprecated"} \cup Terminal
BY PostShape DEF Files, Shown, Computed, ComputeLifecycle, ByTheClock, Terminal

\* Deregistering closes what is not closed yet.
LEMMA ClosedMoves ==
    ASSUME FileInv, NEW a \in Agents, NEW writes \in 1..4, Deregister(a, writes)
    PROVE  Moves
<1>1. /\ UNCHANGED <<post, past, late, cut>>
      /\ ended' = ended \cup PostsOf(a, ClosedIn(writes))
      /\ life' = [p \in Posts |-> IF p \in PostsOf(a, ClosedIn(writes)) THEN Closed(p) ELSE life[p]]
    BY DEF Deregister, Rewrite
<1>2. ASSUME NEW p \in PostsOf(a, ClosedIn(writes))
      PROVE  /\ p \in Made
             /\ post[p].kind \in {"capability_advertisement", "signal", "answer"} \cup EphemeralTypes
    BY DEF PostsOf, ClosedIn
<1>3. ASSUME NEW p \in PostsOf(a, ClosedIn(writes))
      PROVE  Closed(p) \in Terminal \cup {"deprecated"} /\ Closed(p) \in LifecyclesOf(post[p].kind)
  <2>1. p \in Made /\ life[p] \in LifecyclesOf(post[p].kind)
      BY <1>2, PostShape DEF FileInv, Files
  <2>2. CASE post[p].kind = "capability_advertisement"
      BY <2>1, <2>2 DEF Closed, LifecyclesOf, Terminal, HardTypes, EphemeralTypes
  <2>3. CASE post[p].kind = "signal"
      BY <2>1, <2>3 DEF Closed, LifecyclesOf, Terminal, HardTypes, EphemeralTypes
  <2>4. CASE post[p].kind = "answer"
      BY <2>1, <2>4 DEF Closed, LifecyclesOf, Terminal, HardTypes, EphemeralTypes
  <2>5. CASE post[p].kind \in EphemeralTypes
      BY <2>1, <2>5 DEF Closed, LifecyclesOf, Terminal, HardTypes, EphemeralTypes
  <2> QED
      BY <1>2, <2>2, <2>3, <2>4, <2>5
<1>4. \A p \in Made : Moved(p)
  <2> TAKE p \in Made
  <2>1. p \in Posts
      BY DEF Made
  <2>2. CASE p \in PostsOf(a, ClosedIn(writes))
      BY <1>1, <1>3, <2>1, <2>2 DEF Moved
  <2>3. CASE p \notin PostsOf(a, ClosedIn(writes))
      BY <1>1, <2>1, <2>3 DEF Moved
  <2> QED
      BY <2>2, <2>3
<1>5. life' \in [Posts -> {"active", "stale", "deprecated"} \cup Terminal]
    BY <1>1, <1>3 DEF FileInv, Files
<1>6. \A p \in Posts \ Made : life'[p] = life[p]
    BY <1>1 DEF PostsOf
<1> QED
    BY <1>1, <1>2, <1>4, <1>5, <1>6 DEF Moves, FileInv, Files

\* Each of the others does as well.
LEMMA StepMoves ==
    ASSUME FileInv, MoveStep
    PROVE  Moves
<1> USE DEF FileInv, Files
<1>1. ASSUME NEW p \in Posts, Lapse(p) PROVE Moves
    BY <1>1 DEF Lapse, Moves, Moved, file, Made
<1>2. ASSUME NEW p \in Posts, CancelEphemeral(p) PROVE Moves
    BY <1>2 DEF CancelEphemeral, Moves, Moved, Terminal, LifecyclesOf, HardTypes, EphemeralTypes
<1>3. ASSUME NEW p \in Posts, DeprecateCapability(p) PROVE Moves
    BY <1>3 DEF DeprecateCapability, Moves, Moved, Terminal, LifecyclesOf, HardTypes, EphemeralTypes
<1>4. ASSUME NEW q \in Posts, NEW writes \in 1..2, DeleteQuery(q, writes) PROVE Moves
  <2>1. /\ q \in Made /\ post[q].kind = "query" /\ UNCHANGED <<post, past>>
        /\ ended' = ended \cup {q} /\ late' \subseteq late /\ cut' \subseteq cut \cup {q}
        /\ life' = [p \in Posts |-> IF p = q \/ (writes = 2 /\ p \in TombstonedWith(q))
                                    THEN "tombstoned" ELSE life[p]]
      BY <1>4 DEF DeleteQuery
  <2>2. \A p \in TombstonedWith(q) : p \in Made /\ post[p].kind = "answer"
      BY DEF TombstonedWith, AnswersTo, PostsOf
  <2>3. \A p \in Made : Moved(p)
    <3> TAKE p \in Made
    <3>1. CASE p = q
        BY <2>1, <3>1 DEF Moved, Terminal, LifecyclesOf, HardTypes, EphemeralTypes
    <3>2. CASE p # q /\ writes = 2 /\ p \in TombstonedWith(q)
        BY <2>1, <2>2, <3>2 DEF Moved, Made, Terminal, LifecyclesOf, HardTypes, EphemeralTypes
    <3>3. CASE p # q /\ ~(writes = 2 /\ p \in TombstonedWith(q))
        BY <2>1, <3>3 DEF Moved, Made
    <3> QED
        BY <3>1, <3>2, <3>3
  <2>4. life' \in [Posts -> {"active", "stale", "deprecated"} \cup Terminal]
      BY <2>1 DEF Terminal
  <2>5. \A p \in Posts \ Made : life'[p] = life[p]
      BY <2>1, <2>2
  <2> QED
      BY <2>1, <2>3, <2>4, <2>5 DEF Moves
<1>5. ASSUME NEW a \in Agents, ExpireSignals(a) PROVE Moves
  <2>1. /\ UNCHANGED <<post, past, late, cut, ended>>
        /\ life' = [p \in Posts |-> IF p \in PostsOf(a, {"signal"})
                                    THEN (IF p \in past THEN "expired" ELSE life[p]) ELSE life[p]]
      BY <1>5 DEF ExpireSignals, Rewrite
  <2> QED
      BY <2>1 DEF Moves, Moved, PostsOf, Made, Terminal, LifecyclesOf, HardTypes, EphemeralTypes
<1>6. ASSUME NEW a \in Agents, ExpireEphemeral(a) PROVE Moves
  <2>1. /\ UNCHANGED <<post, past, late, cut, ended>>
        /\ life' = [p \in Posts |-> IF p \in PostsOf(a, EphemeralTypes)
                                    THEN Computed(p) ELSE life[p]]
      BY <1>6 DEF ExpireEphemeral, Rewrite
  <2>2. \A p \in PostsOf(a, EphemeralTypes) : p \in Made /\ Computed(p) = Shown(p)
      BY DEF PostsOf, Shown
  <2>3. life' \in [Posts -> {"active", "stale", "deprecated"} \cup Terminal]
      BY <2>1, <2>2, ShownType
  <2> QED
      BY <2>1, <2>2, <2>3 DEF Moves, Moved, Made
<1>7. ASSUME NEW a \in Agents, NEW writes \in 1..4, Deregister(a, writes) PROVE Moves
    BY <1>7, ClosedMoves
<1> QED
    BY <1>1, <1>2, <1>3, <1>4, <1>5, <1>6, <1>7 DEF MoveStep

\* A query that is deleted takes its answers along, or the deletion was cut;
\* nothing else makes a tombstone of a query, or brings an answer back.
LEMMA MoveFollows ==
    ASSUME FileInv, MoveStep
    PROVE  AnswersFollowTheirQuery'
<1>1. Moves
    BY StepMoves
<1>2. SUFFICES ASSUME NEW p \in Made, post[p].kind = "answer",
                      post[post[p].parent].author = post[p].author,
                      life'[post[p].parent] = "tombstoned"
               PROVE  life'[p] = "tombstoned" \/ p \in late' \/ post[p].parent \in cut'
    BY <1>1 DEF AnswersFollowTheirQuery, Moves, Made
<1> DEFINE q == post[p].parent
           Leaves == /\ late' = late /\ cut' = cut
                     /\ life'[q] = "tombstoned" => life[q] = "tombstoned"
                     /\ life[p] = "tombstoned" => life'[p] = "tombstoned"
<1>3. /\ p \in Posts /\ q \in Made /\ q \in Posts /\ q # p /\ post[q].kind \in EphemeralTypes
      /\ post[p].kind \notin EphemeralTypes
      /\ post[p].author \in Agents
    BY <1>2, PostShape DEF FileInv, Parented, EphemeralTypes, Post
<1>4. life[q] = "tombstoned" => life[p] = "tombstoned" \/ p \in late \/ q \in cut
    BY <1>2, <1>3 DEF FileInv, AnswersFollowTheirQuery
<1>5. life[p] \in {"active", "tombstoned"} /\ life[q] \in {"active", "stale"} \cup Terminal
    BY <1>2, <1>3 DEF FileInv, Files, LifecyclesOf, Terminal, HardTypes, EphemeralTypes
<1>6. life \in [Posts -> {"active", "stale", "deprecated"} \cup Terminal]
    BY DEF FileInv, Files
<1> HIDE DEF q
<1>7. ASSUME NEW w \in Posts, NEW writes \in 1..2, DeleteQuery(w, writes)
      PROVE  life'[p] = "tombstoned" \/ p \in late' \/ q \in cut'
  <2>1. /\ post[w].kind = "query"
        /\ life' = [x \in Posts |-> IF x = w \/ (writes = 2 /\ x \in TombstonedWith(w))
                                    THEN "tombstoned" ELSE life[x]]
        /\ cut' = IF writes = 2 THEN cut \ {w} ELSE cut \cup {w}
        /\ late' = IF writes = 2 THEN late \ AnswersTo(post[w].author, w) ELSE late
      BY <1>7 DEF DeleteQuery
  <2>2. p \in TombstonedWith(q)
      BY <1>2, <1>3 DEF TombstonedWith, AnswersTo, PostsOf, q
  <2>3. q \notin TombstonedWith(w)
      BY <1>3 DEF TombstonedWith, AnswersTo, PostsOf, EphemeralTypes
  <2>4. CASE w = q
      BY <1>3, <2>1, <2>2, <2>4
  <2>5. CASE w # q
    <3>1. life'[q] = life[q]
        BY <1>3, <2>1, <2>3, <2>5
    <3>2. life[p] = "tombstoned" \/ p \in late \/ q \in cut
        BY <1>2, <1>4, <3>1 DEF q
    <3>3. p \notin AnswersTo(post[w].author, w)
        BY <2>5 DEF AnswersTo, q
    <3> QED
        BY <1>3, <2>1, <2>5, <3>2, <3>3
  <2> QED
      BY <2>4, <2>5
<1>8. ASSUME ~ \E w \in Posts : \E writes \in 1..2 : DeleteQuery(w, writes)
      PROVE  Leaves
  <2>1. ASSUME NEW x \in Posts, Lapse(x) \/ CancelEphemeral(x) \/ DeprecateCapability(x)
        PROVE  Leaves
      BY <1>2, <1>3, <1>6, <2>1 DEF Lapse, CancelEphemeral, DeprecateCapability, file, EphemeralTypes
  <2>2. ASSUME NEW a \in Agents, ExpireSignals(a) \/ ExpireEphemeral(a) PROVE Leaves
    <3>1. \/ life' = [x \in Posts |-> IF x \in PostsOf(a, {"signal"})
                                      THEN (IF x \in past THEN "expired" ELSE life[x]) ELSE life[x]]
          \/ life' = [x \in Posts |-> IF x \in PostsOf(a, EphemeralTypes) THEN Computed(x) ELSE life[x]]
        BY <2>2 DEF ExpireSignals, ExpireEphemeral, Rewrite
    <3>2. late' = late /\ cut' = cut
        BY <2>2 DEF ExpireSignals, ExpireEphemeral
    <3>3. Computed(q) = "tombstoned" => life[q] = "tombstoned"
        BY DEF Computed, ComputeLifecycle, ByTheClock
    <3>4. p \notin PostsOf(a, {"signal"}) /\ p \notin PostsOf(a, EphemeralTypes) /\ q \notin PostsOf(a, {"signal"})
        BY <1>2, <1>3 DEF PostsOf, EphemeralTypes
    <3> QED
        BY <1>3, <3>1, <3>2, <3>3, <3>4
  <2>3. ASSUME NEW a \in Agents, NEW writes \in 1..4, Deregister(a, writes) PROVE Leaves
    <3>1. life' = [x \in Posts |-> IF x \in PostsOf(a, ClosedIn(writes)) THEN Closed(x) ELSE life[x]]
        BY <2>3 DEF Deregister, Rewrite
    <3>2. late' = late /\ cut' = cut
        BY <2>3 DEF Deregister
    <3>3. Closed(p) = "tombstoned"
        BY <1>2, <1>5 DEF Closed, Terminal, HardTypes
    <3>4. Closed(q) = "tombstoned" => life[q] = "tombstoned"
        BY <1>3, <1>5 DEF Closed, Terminal, EphemeralTypes, HardTypes
    <3> QED
        BY <1>3, <3>1, <3>2, <3>3, <3>4
  <2> QED
      BY <1>8, <2>1, <2>2, <2>3 DEF MoveStep
<1> QED
    BY <1>2, <1>4, <1>7, <1>8 DEF q

---------------------------------------------------------------------------
(* Making a post                                                            *)

\* The steps that make a post, with what it answers.
MakeStep(a, p, kind, parent) ==
    /\ Put(a, p, kind, parent)
    /\ IF kind = "answer"
       THEN /\ parent \in Answerable(a)
            /\ late' = IF life[parent] = "tombstoned" THEN late \cup {p} ELSE late
       ELSE late' = late
    /\ UNCHANGED <<past, cut, ended>>

\* Every command that makes a post is such a step.
LEMMA CreateMakes ==
    ASSUME NEW a \in Agents, NEW p \in Posts, CreateAndDeliver(a, p) \/ CreateOnly(a, p)
    PROVE  \E kind \in Kinds, parent \in Posts : MakeStep(a, p, kind, parent)
<1> USE DEF MakeStep, Kinds, EphemeralTypes
<1>1. UNCHANGED <<past, cut, ended>>
    BY DEF CreateAndDeliver, CreateOnly
<1>2. CASE CreateSignal(a, p)
    BY <1>1, <1>2 DEF CreateSignal
<1>3. CASE CreateEphemeral(a, p)
    BY <1>1, <1>3 DEF CreateEphemeral
<1>4. CASE CreateEndorsement(a, p)
    BY <1>1, <1>4 DEF CreateEndorsement
<1>5. CASE CreateAttestation(a, p)
    BY <1>1, <1>5 DEF CreateAttestation
<1>6. CASE AdvertiseCapability(a, p)
    BY <1>1, <1>6 DEF AdvertiseCapability
<1>7. CASE CreateAnswer(a, p)
    BY <1>1, <1>7 DEF CreateAnswer, Answerable, Made
<1> QED
    BY <1>2, <1>3, <1>4, <1>5, <1>6, <1>7 DEF CreateAndDeliver, CreateOnly

\* The new post is live; the others of its file have their lifecycle computed.
LEMMA MakeParts ==
    ASSUME FileInv, NEW a \in Agents, NEW p \in Posts, NEW kind \in Kinds, NEW parent \in Posts,
           MakeStep(a, p, kind, parent)
    PROVE  /\ p \notin Made /\ Made' = Made \cup {p}
           /\ post' \in [Posts -> Post \cup {Absent}]
           /\ post'[p] = [author |-> a, kind |-> kind, parent |-> parent]
           /\ life' \in [Posts -> {"active", "stale", "deprecated"} \cup Terminal]
           /\ life'[p] = "active"
           /\ \A q \in Posts \ {p} : post'[q] = post[q]
           /\ \A q \in Made : Moved(q)
           /\ \A q \in Posts \ (Made \cup {p}) : life'[q] = life[q]
<1>1. /\ p \notin Made
      /\ post' = [post EXCEPT ![p] = [author |-> a, kind |-> kind, parent |-> parent]]
      /\ life' = [q \in Posts |-> IF q = p THEN "active"
                                  ELSE IF q \in PostsOf(a, FileOf(kind)) THEN Shown(q) ELSE life[q]]
    BY DEF MakeStep, Put
<1>2. post \in [Posts -> Post \cup {Absent}] /\ life \in [Posts -> {"active", "stale", "deprecated"} \cup Terminal]
    BY DEF FileInv, Files
<1>3. [author |-> a, kind |-> kind, parent |-> parent] \in Post
    BY DEF Post
<1>4. post' \in [Posts -> Post \cup {Absent}] /\ \A q \in Posts \ {p} : post'[q] = post[q]
    BY <1>1, <1>2, <1>3
<1>5. kind # "none"
    BY DEF Kinds, EphemeralTypes
<1>6. post'[p] = [author |-> a, kind |-> kind, parent |-> parent]
    BY <1>1, <1>2
<1>7. Made' = Made \cup {p}
    BY <1>4, <1>5, <1>6 DEF Made
<1>8. \A q \in PostsOf(a, FileOf(kind)) : q \in Made /\ q \in Posts
    BY DEF PostsOf, Made
<1>9. life' \in [Posts -> {"active", "stale", "deprecated"} \cup Terminal]
    BY <1>1, <1>2, <1>8, ShownType DEF FileInv
<1>10. \A q \in Made : q \in Posts /\ q # p
    BY <1>1 DEF Made
<1>11. \A q \in Made : Moved(q)
    BY <1>1, <1>10 DEF Moved
<1> QED
    BY <1>1, <1>4, <1>6, <1>7, <1>8, <1>9, <1>11

\* A new post keeps the invariant of the files, a late answer included.
LEMMA MakeFiles ==
    ASSUME FileInv, NEW a \in Agents, NEW p \in Posts, NEW kind \in Kinds, NEW parent \in Posts,
           MakeStep(a, p, kind, parent)
    PROVE  FileInv'
<1>1. /\ p \notin Made /\ Made' = Made \cup {p}
      /\ post' \in [Posts -> Post \cup {Absent}]
      /\ post'[p] = [author |-> a, kind |-> kind, parent |-> parent]
      /\ life' \in [Posts -> {"active", "stale", "deprecated"} \cup Terminal]
      /\ life'[p] = "active"
      /\ \A q \in Posts \ {p} : post'[q] = post[q]
      /\ \A q \in Made : Moved(q)
      /\ \A q \in Posts \ (Made \cup {p}) : life'[q] = life[q]
    BY MakeParts
<1>2. UNCHANGED <<past, cut, ended>> /\ late \subseteq late' /\ late' \subseteq late \cup {p}
    BY DEF MakeStep
<1>3. \A q \in Made : q \in Posts /\ q # p /\ post'[q] = post[q]
    BY <1>1 DEF Made
<1>4. \A q \in Made :
           /\ life'[q] \in LifecyclesOf(post[q].kind)
           /\ life'[q] = "stale" => q \in past'
           /\ post[q].kind \in EphemeralTypes /\ q \notin past' \cup ended' => life'[q] = "active"
    BY <1>1, <1>2, <1>3, MovedOn
<1>5. Files'
  <2>1. "active" \in LifecyclesOf(kind)
      BY DEF LifecyclesOf
  <2>2. \A q \in Posts : life'[q] \in LifecyclesOf(post'[q].kind)
    <3> TAKE q \in Posts
    <3>1. CASE q = p
        BY <1>1, <2>1, <3>1
    <3>2. CASE q \in Made
        BY <1>3, <1>4, <3>2
    <3>3. CASE q \notin Made \cup {p}
        BY <1>1, <3>3 DEF FileInv, Files
    <3> QED
        BY <3>1, <3>2, <3>3
  <2> QED
      BY <1>1, <1>2, <2>2 DEF FileInv, Files
<1>6. Parented'
  <2>1. ASSUME NEW q \in Made, post[q].kind = "answer"
        PROVE  post'[q].parent \in Made' /\ post'[post'[q].parent].kind \in EphemeralTypes
      BY <1>1, <1>3, <2>1 DEF FileInv, Parented
  <2>2. kind = "answer" => parent \in Made /\ post[parent].kind \in EphemeralTypes
      BY DEF MakeStep, Answerable
  <2>3. kind = "answer" => post'[p].parent \in Made' /\ post'[post'[p].parent].kind \in EphemeralTypes
      BY <1>1, <1>3, <2>2
  <2> QED
      BY <1>1, <1>3, <2>1, <2>3 DEF Parented
<1>7. Aged' /\ LiveUnlessEnded'
    BY <1>1, <1>3, <1>4 DEF Aged, LiveUnlessEnded
<1>8. AnswersFollowTheirQuery'
  <2>1. SUFFICES ASSUME NEW r \in Made', post'[r].kind = "answer",
                        post'[post'[r].parent].author = post'[r].author,
                        life'[post'[r].parent] = "tombstoned"
                 PROVE  life'[r] = "tombstoned" \/ r \in late' \/ post'[r].parent \in cut'
      BY DEF AnswersFollowTheirQuery
  <2>2. \A q \in Made : (life'[q] = "tombstoned") <=> (life[q] = "tombstoned")
    <3> TAKE q \in Made
    <3>1. q \in Posts
        BY <1>3
    <3>2. life' = [x \in Posts |-> IF x = p THEN "active"
                                   ELSE IF x \in PostsOf(a, FileOf(kind)) THEN Shown(x) ELSE life[x]]
        BY DEF MakeStep, Put
    <3>3. Shown(q) = "tombstoned" <=> life[q] = "tombstoned"
        BY DEF Shown, Computed, ComputeLifecycle, ByTheClock, Terminal
    <3> QED
        BY <1>3, <3>1, <3>2, <3>3
  <2>3. CASE r = p
    <3>1. kind = "answer" /\ post'[r].parent = parent
        BY <1>1, <2>1, <2>3
    <3>2. parent \in Made
        BY <3>1 DEF MakeStep, Answerable
    <3>3. life[parent] = "tombstoned"
        BY <2>1, <2>2, <3>1, <3>2
    <3> QED
        BY <2>3, <3>1, <3>3 DEF MakeStep
  <2>4. CASE r \in Made
    <3>1. /\ post'[r] = post[r] /\ post[r].kind = "answer" /\ post[r].parent \in Made
          /\ post'[post[r].parent] = post[post[r].parent]
        BY <1>3, <2>1, <2>4 DEF FileInv, Parented
    <3>2. life[post[r].parent] = "tombstoned"
        BY <2>1, <2>2, <3>1
    <3>3. life[r] = "tombstoned" \/ r \in late \/ post[r].parent \in cut
        BY <2>1, <2>4, <3>1, <3>2 DEF FileInv, AnswersFollowTheirQuery
    <3> QED
        BY <1>2, <2>2, <2>4, <3>1, <3>3
  <2> QED
      BY <1>1, <2>3, <2>4
<1> QED
    BY <1>5, <1>6, <1>7, <1>8 DEF FileInv

---------------------------------------------------------------------------
(* Deliveries                                                               *)

\* The steps of deliveries, and of friendships.
SendStep ==
    \/ \E p \in Posts : EndBroadcast(p) \/ CutBroadcast(p)
    \/ \E p \in Posts : \E b \in Agents : Broadcast(p, b) \/ ReceivePostPublish(p, b) \/ Lose(p, b)
    \/ \E a \in Agents : \E b \in Agents : Part(a, b)

\* Nothing of the files changes in them.
LEMMA SendFiles ==
    ASSUME FileInv, SendStep
    PROVE  UNCHANGED <<file, past>>
BY DEF SendStep, EndBroadcast, CutBroadcast, Broadcast, ReceivePostPublish, Lose, Part, file

\* The invariant of the files depends on nothing else.
LEMMA FrameFiles ==
    ASSUME FileInv, UNCHANGED <<file, past>>
    PROVE  FileInv' /\ Made' = Made
BY DEF FileInv, Files, Parented, Aged, LiveUnlessEnded, AnswersFollowTheirQuery, Made, file

\* They send only posts that were made, to agents.
LEMMA SendDeliveries ==
    ASSUME IInv, SendStep
    PROVE  (Deliveries /\ Staged)'
<1>1. Made' = Made /\ UNCHANGED post
    BY SendFiles, FrameFiles DEF IInv, file
<1> USE DEF Deliveries, Staged, IInv
<1>2. ASSUME NEW p \in Posts, NEW b \in Agents, Broadcast(p, b) PROVE Deliveries' /\ Staged'
  <2>1. /\ p \in Made /\ net' = net \cup {<<p, b>>} /\ todo' = [todo EXCEPT ![p] = @ \ {b}]
        /\ UNCHANGED <<friend, stage, received, crashes, lost>>
      BY <1>2 DEF Broadcast, SignPostPublishEnvelope
  <2>2. net' \subseteq Made' \X Agents
      BY <1>1, <2>1
  <2>3. todo' \in [Posts -> SUBSET Agents]
      BY <2>1
  <2> QED
      BY <1>1, <2>1, <2>2, <2>3
<1>3. ASSUME NEW p \in Posts, EndBroadcast(p) PROVE Deliveries' /\ Staged'
  <2>1. /\ p \in Made /\ stage' = [stage EXCEPT ![p] = "sent"]
        /\ net' = IF AskerMissed(p) THEN net \cup {<<p, Asker(p)>>} ELSE net
        /\ UNCHANGED <<friend, todo, received, crashes, lost>>
      BY <1>3 DEF EndBroadcast, SignPostPublishEnvelope
  <2>2. ASSUME AskerMissed(p) PROVE Asker(p) \in Agents
    <3>1. post[p].parent \in Made
        BY <2>1, <2>2 DEF AskerMissed, AnswersAnother, FileInv, Parented
    <3> QED
        BY <3>1, PostShape DEF Asker, FileInv, Post
  <2>3. net' \subseteq Made' \X Agents
      BY <1>1, <2>1, <2>2
  <2> QED
      BY <1>1, <2>1, <2>3
<1>4. ASSUME NEW p \in Posts, CutBroadcast(p) PROVE Deliveries' /\ Staged'
  <2>1. crashes' \in 0..MaxCrashes
      BY <1>4, CrashesAssumption DEF CutBroadcast
  <2>2. /\ stage' = [stage EXCEPT ![p] = "sent"] /\ todo' = [todo EXCEPT ![p] = {}]
        /\ lost' = lost \cup ({p} \X Agents) /\ UNCHANGED <<friend, net, received>>
      BY <1>4 DEF CutBroadcast
  <2>3. lost' \subseteq Posts \X Agents
      BY <2>2
  <2> QED
      BY <1>1, <2>1, <2>2, <2>3
<1>5. ASSUME NEW p \in Posts, NEW b \in Agents, ReceivePostPublish(p, b) PROVE Deliveries' /\ Staged'
  <2>1. /\ <<p, b>> \in net /\ net' = net \ {<<p, b>>}
        /\ \/ received' = [received EXCEPT ![b] = @ \cup {p}] \/ received' = received
        /\ UNCHANGED <<friend, stage, todo, crashes, lost>>
      BY <1>5 DEF ReceivePostPublish
  <2>2. p \in Made
      BY <2>1
  <2>3. received' \in [Agents -> SUBSET Made']
      BY <1>1, <2>1, <2>2
  <2> QED
      BY <1>1, <2>1, <2>3
<1>6. ASSUME NEW p \in Posts, NEW b \in Agents, Lose(p, b) PROVE Deliveries' /\ Staged'
    BY <1>1, <1>6 DEF Lose
<1>7. ASSUME NEW a \in Agents, NEW b \in Agents, Part(a, b) PROVE Deliveries' /\ Staged'
  <2>1. friend' \in [Agents -> SUBSET Agents]
      BY <1>7 DEF Part
  <2> QED
      BY <1>1, <1>7, <2>1 DEF Part, delivery
<1> QED
    BY <1>2, <1>3, <1>4, <1>5, <1>6, <1>7 DEF SendStep

\* The files move on under them.
LEMMA MoveDeliveries ==
    ASSUME IInv, MoveStep
    PROVE  (Deliveries /\ Staged)'
<1>1. Made' = Made
    BY StepMoves DEF IInv, Moves, Made
<1>2. UNCHANGED <<friend, delivery>>
    BY DEF MoveStep, Lapse, CancelEphemeral, DeprecateCapability, DeleteQuery, ExpireSignals,
           ExpireEphemeral, Deregister
<1>3. crashes' \in 0..MaxCrashes
  <2>1. CASE \E a \in Agents : ExpireSignals(a) \/ ExpireEphemeral(a)
      BY <2>1 DEF ExpireSignals, ExpireEphemeral, IInv, Deliveries
  <2>2. CASE \E p \in Posts : Lapse(p) \/ CancelEphemeral(p) \/ DeprecateCapability(p)
      BY <2>2 DEF Lapse, CancelEphemeral, DeprecateCapability, IInv, Deliveries
  <2>3. ASSUME NEW all, NEW writes, Writes(writes, all) PROVE crashes' \in 0..MaxCrashes
      BY <2>3, CrashesAssumption DEF Writes, IInv, Deliveries
  <2>4. ASSUME NEW p \in Posts, NEW writes \in 1..2, DeleteQuery(p, writes)
        PROVE  crashes' \in 0..MaxCrashes
      BY <2>3, <2>4 DEF DeleteQuery
  <2>5. ASSUME NEW a \in Agents, NEW writes \in 1..4, Deregister(a, writes)
        PROVE  crashes' \in 0..MaxCrashes
      BY <2>3, <2>5 DEF Deregister
  <2> QED
      BY <2>1, <2>2, <2>4, <2>5 DEF MoveStep
<1> QED
    BY <1>1, <1>2, <1>3 DEF IInv, Deliveries, Staged, delivery

\* A new post may be sent.
LEMMA MakeDeliveries ==
    ASSUME IInv, NEW a \in Agents, NEW p \in Posts, CreateAndDeliver(a, p) \/ CreateOnly(a, p)
    PROVE  (Deliveries /\ Staged)'
<1>1. Made' = Made \cup {p}
    BY CreateMakes, MakeParts DEF IInv
<1>2. UNCHANGED <<friend, net, received, lost, crashes>>
    BY DEF CreateAndDeliver, CreateOnly, delivery
<1>3. \/ UNCHANGED <<stage, todo>>
      \/ stage' = [stage EXCEPT ![p] = "broadcast"] /\ todo' = [todo EXCEPT ![p] = friend[a]]
    BY DEF CreateAndDeliver, CreateOnly, delivery
<1> USE DEF IInv, Deliveries, Staged
<1>4. stage' \in [Posts -> {"idle", "broadcast", "sent"}] /\ todo' \in [Posts -> SUBSET Agents]
    BY <1>3
<1>5. \A q \in Posts : stage'[q] = "broadcast" => q \in Made'
    BY <1>1, <1>3
<1>6. received' \in [Agents -> SUBSET Made'] /\ net' \subseteq Made' \X Agents
    BY <1>1, <1>2
<1> QED
    BY <1>2, <1>4, <1>5, <1>6

---------------------------------------------------------------------------
(* The inductive invariant                                                  *)

\* There are no posts at first.
LEMMA InitInv == Init => IInv
<1> SUFFICES ASSUME Init PROVE IInv
    OBVIOUS
<1>1. Made = {}
    BY DEF Init, Made, Absent
<1>2. Files
    BY <1>1 DEF Init, Files, LifecyclesOf, Absent, HardTypes, EphemeralTypes
<1>3. Deliveries
    BY <1>1, CrashesAssumption DEF Init, Deliveries
<1> QED
    BY <1>1, <1>2, <1>3 DEF Init, IInv, FileInv, Parented, Aged, LiveUnlessEnded,
       AnswersFollowTheirQuery, Staged

\* The three kinds of step are all there are.
LEMMA Steps ==
    ASSUME Next
    PROVE  \/ MoveStep \/ SendStep
           \/ \E a \in Agents, p \in Posts : CreateAndDeliver(a, p) \/ CreateOnly(a, p)
BY DEF Next, OwnerStep, PostStep, MoveStep, SendStep

\* Every step keeps the invariant.
LEMMA NextInv == IInv /\ [Next]_vars => IInv'
<1> SUFFICES ASSUME IInv, [Next]_vars PROVE IInv'
    OBVIOUS
<1>1. CASE MoveStep
    BY <1>1, StepMoves, MovesFiles, MoveFollows, MoveDeliveries DEF IInv, FileInv
<1>2. CASE SendStep
    BY <1>2, SendFiles, FrameFiles, SendDeliveries DEF IInv
<1>3. ASSUME NEW a \in Agents, NEW p \in Posts, CreateAndDeliver(a, p) \/ CreateOnly(a, p)
      PROVE  IInv'
    BY <1>3, CreateMakes, MakeFiles, MakeDeliveries DEF IInv
<1>4. CASE UNCHANGED vars
  <2>1. FileInv' /\ Made' = Made
      BY <1>4, FrameFiles DEF IInv, vars, file
  <2> QED
      BY <1>4, <2>1 DEF IInv, Deliveries, Staged, vars
<1> QED
    BY <1>1, <1>2, <1>3, <1>4, Steps

\* The invariant holds always.
THEOREM Invariance == Spec => []IInv
<1>1. IInv /\ [Next]_vars => IInv'
    BY NextInv
<1> QED
    BY <1>1, InitInv, PTL DEF Spec

\* Every store of post types keeps its shape (store-taxonomy.ts).
THEOREM TypeCorrect == Spec => []TypeOK
<1>1. IInv => TypeOK
    BY DEF IInv, FileInv, Files, Deliveries, TypeOK
<1> QED
    BY <1>1, Invariance, PTL

\* An answer to a query of one's own is a tombstone like its query, but for
\* the two exceptions the property names (deleteQuery, createAnswer).
THEOREM AnswersFollow == Spec => []AnswersFollowTheirQuery
<1>1. IInv => AnswersFollowTheirQuery
    BY DEF IInv, FileInv
<1> QED
    BY <1>1, Invariance, PTL

\* What a friend is offered is live at its author, or its owner ended it
\* (activeReceivedEphemeral).
THEOREM OffersAreLive == Spec => []OfferedIsLive
<1>1. IInv => OfferedIsLive
  <2> SUFFICES ASSUME IInv, NEW b \in Agents, NEW p \in Offered(b)
               PROVE  Shown(p) = "active" \/ p \in ended
      BY DEF OfferedIsLive
  <2>1. p \in Made /\ post[p].kind \in EphemeralTypes /\ p \notin past
      BY DEF Offered, IInv, Deliveries
  <2>2. p \in ended \/ life[p] = "active"
      BY <2>1 DEF IInv, FileInv, LiveUnlessEnded
  <2> QED
      BY <2>1, <2>2 DEF Shown, Computed, ComputeLifecycle, ByTheClock, Terminal
<1> QED
    BY <1>1, Invariance, PTL

\* No post goes back in its life (computeLifecycle and every writer).
THEOREM LivesMoveOn == Spec => LifeMovesOn
<1> DEFINE Forward == \A p \in Made : /\ Rank(life[p]') >= Rank(life[p])
                                      /\ Rank(Shown(p)') >= Rank(Shown(p))
<1>1. IInv /\ [Next]_vars => [Forward]_vars
  <2> SUFFICES ASSUME IInv, Next PROVE Forward
      OBVIOUS
  <2>1. CASE MoveStep
      BY <2>1, StepMoves, MovesOn DEF IInv
  <2>2. CASE SendStep
    <3>1. UNCHANGED <<post, life, past>>
        BY <2>2, SendFiles DEF IInv, file
    <3>2. \A p \in Made : Shown(p)' = Shown(p) /\ Rank(life[p]) \in 0..2 /\ Rank(Shown(p)) \in 0..2
        BY <3>1 DEF Shown, Computed, ComputeLifecycle, ByTheClock, Rank
    <3> QED
        BY <3>1, <3>2
  <2>3. ASSUME NEW a \in Agents, NEW q \in Posts, CreateAndDeliver(a, q) \/ CreateOnly(a, q)
        PROVE  Forward
    <3>1. PICK kind \in Kinds, parent \in Posts : MakeStep(a, q, kind, parent)
        BY <2>3, CreateMakes
    <3>2. \A p \in Made : post'[p] = post[p] /\ Moved(p)
        BY <3>1, MakeParts DEF IInv, Made
    <3>3. UNCHANGED <<past, ended>>
        BY <3>1 DEF MakeStep
    <3> QED
        BY <3>2, <3>3, MovedOn DEF IInv
  <2> QED
      BY <2>1, <2>2, <2>3, Steps
<1> QED
    BY <1>1, Invariance, PTL DEF Spec, LifeMovesOn
=============================================================================
