---------------------------- MODULE Feed_proofs ----------------------------
(***************************************************************************)
(* Proofs about Feed, for any posts and any number of crashes: type        *)
(* correctness, that nothing is shown or served before its approval, that  *)
(* what waits can be approved, and what the feed of a reader never takes.  *)
(***************************************************************************)
EXTENDS Feed, TLAPS

(* The parts of the properties that speak of one post, and that what the   *)
(* reader has was written at the author.                                   *)
Sound(p) ==
    /\ Has(p) => Exists(p)
    /\ Live(p) \/ Has(p) =>
           /\ post[p].linked => approval[p] = "approved"
           /\ post[p].basis = "agent-authored" => p \in direct
    /\ post[p].status = "pending_approval" =>
           \/ post[p].linked /\ approval[p] = "pending"
           \/ p \in decided \cup cut

(* A friend with a grant has not been parted from, but for a torn revoke.  *)
Parted == parted /\ ~torn => ~granted \/ contact = "blocked"

IInv == TypeOK /\ (\A p \in Posts : Sound(p)) /\ Parted

-----------------------------------------------------------------------------
(* Operators.                                                              *)

LEMMA PostTypes ==
    ASSUME TypeOK, NEW p \in Posts
    PROVE  /\ post[p] \in Post \cup {Absent}
           /\ Exists(p) <=> post[p] \in Post
           /\ post[p].linked \in BOOLEAN
           /\ fresh[p] \in 0..1 /\ hidden[p] \in 0..1
           /\ fresh[p] + hidden[p] \in 0..1
           /\ local[p] \in 0..1
<1>1. post[p] \in Post \cup {Absent}
    BY DEF TypeOK
<1>2. /\ Exists(p) <=> post[p] \in Post
      /\ post[p].linked \in BOOLEAN
    <2>1. CASE post[p] \in Post
        BY <2>1 DEF Exists, Post, Statuses
    <2>2. CASE post[p] = Absent
        <3>1. post[p].status = "absent" /\ post[p].linked = FALSE
            BY <2>2 DEF Absent
        <3>2. post[p] \notin Post
            BY <3>1 DEF Post, Statuses
        <3> QED BY <3>1, <3>2 DEF Exists
    <2> QED BY <1>1, <2>1, <2>2
<1>3. fresh[p] \in 0..1 /\ hidden[p] \in 0..1 /\ local[p] \in 0..1
    BY DEF TypeOK
<1>4. fresh[p] + hidden[p] <= 1
    BY DEF TypeOK
<1> QED BY <1>1, <1>2, <1>3, <1>4

LEMMA MakesTypeOK ==
    ASSUME TypeOK, NEW p \in Posts, NEW n \in 1..3, NEW all \in 1..3,
           Makes(p, n, all)
    PROVE  /\ cuts' \in 0..MaxCuts /\ cut' \subseteq Posts
           /\ cut \subseteq cut'
           /\ n < all => p \in cut'
BY CutsAssumption DEF TypeOK, Makes

LEMMA EnsureTypeOK ==
    ASSUME TypeOK, NEW p \in Posts, EnsureLocalItem(p) \/ UNCHANGED local
    PROVE  local' \in [Posts -> 0..1]
<1>1. CASE EnsureLocalItem(p)
    BY <1>1 DEF TypeOK, EnsureLocalItem
<1>2. CASE UNCHANGED local /\ ~EnsureLocalItem(p)
    BY <1>2 DEF TypeOK
<1> QED BY <1>1, <1>2

LEMMA ApprovedPost ==
    ASSUME TypeOK, NEW p \in Posts, Exists(p)
    PROVE  /\ Approved(p) \in Post
           /\ Approved(p).status = "published"
           /\ Approved(p).linked = post[p].linked
           /\ Approved(p).basis # "agent-authored"
<1>1. post[p] \in Post
    BY PostTypes
<1> QED BY <1>1 DEF Approved, Published, Post, Statuses, Bases

-----------------------------------------------------------------------------
(* Type correctness.                                                       *)

LEMMA InitTypeOK == Init => TypeOK
<1> SUFFICES ASSUME Init PROVE TypeOK
    OBVIOUS
<1>1. post \in [Posts -> Post \cup {Absent}]
    BY DEF Init
<1>2. /\ fresh \in [Posts -> 0..1] /\ hidden \in [Posts -> 0..1]
      /\ \A p \in Posts : fresh[p] + hidden[p] <= 1
      /\ local \in [Posts -> 0..1] /\ cuts \in 0..MaxCuts
    BY CutsAssumption DEF Init
<1> QED BY <1>1, <1>2 DEF Init, TypeOK

LEMMA CreateTypeOK ==
    ASSUME TypeOK, NEW p \in Posts, NEW n \in 1..3, Create(p, n)
    PROVE  TypeOK'
<1>1. PICK status \in {"draft", "pending_approval", "published"},
           basis \in {"human-authored", "agent-authored"},
           visibility \in Visibilities :
              CreatePost(p, status, basis, visibility, n)
    BY DEF Create
<1> DEFINE all == CASE status = "pending_approval" -> 3
                    [] status = "published" -> 2
                    [] OTHER -> 1
           new == [status |-> status, basis |-> basis,
                   visibility |-> visibility, linked |-> n = 3]
<1>2. all \in 1..3 /\ Makes(p, n, all)
    BY <1>1 DEF CreatePost
<1>3. cuts' \in 0..MaxCuts /\ cut' \subseteq Posts
    BY <1>2, MakesTypeOK
<1>4. new \in Post
    BY DEF Post, Statuses, Bases
<1>5. post' = [post EXCEPT ![p] = new]
    BY <1>1 DEF CreatePost
<1>6. post' \in [Posts -> Post \cup {Absent}]
    BY <1>4, <1>5 DEF TypeOK
<1>7. approval' \in [Posts -> {"none", "pending", "approved", "rejected"}]
    <2>1. CASE status = "pending_approval" /\ n >= 2
        BY <1>1, <2>1 DEF CreatePost, TypeOK
    <2>2. CASE ~(status = "pending_approval" /\ n >= 2)
        BY <1>1, <2>2 DEF CreatePost, TypeOK
    <2> QED BY <2>1, <2>2
<1>8. EnsureLocalItem(p) \/ UNCHANGED local
    BY <1>1 DEF CreatePost
<1>9. local' \in [Posts -> 0..1]
    BY <1>8, EnsureTypeOK
<1>10. direct' \subseteq Posts
    BY <1>1 DEF CreatePost, TypeOK
<1> QED BY <1>1, <1>3, <1>6, <1>7, <1>9, <1>10
        DEF CreatePost, TypeOK, friendship, reader

LEMMA ApproveTypeOK ==
    ASSUME TypeOK, NEW p \in Posts, NEW n \in 1..3, ApprovePost(p, n)
    PROVE  TypeOK'
<1>1. cuts' \in 0..MaxCuts /\ cut' \subseteq Posts
    BY MakesTypeOK DEF ApprovePost
<1>2. Approved(p) \in Post
    BY ApprovedPost DEF ApprovePost
<1>3. post' \in [Posts -> Post \cup {Absent}]
    BY <1>2 DEF ApprovePost, TypeOK
<1>4. approval' \in [Posts -> {"none", "pending", "approved", "rejected"}]
    BY DEF ApprovePost, TypeOK
<1>5. EnsureLocalItem(p) \/ UNCHANGED local
    BY DEF ApprovePost
<1>6. local' \in [Posts -> 0..1]
    BY <1>5, EnsureTypeOK
<1> QED BY <1>1, <1>3, <1>4, <1>6 DEF ApprovePost, TypeOK, friendship, reader

(* Editing, removing and expiring change a post that exists.               *)
LEMMA ChangeTypeOK ==
    ASSUME TypeOK, NEW p \in Posts,
           EditPost(p) \/ RemovePost(p) \/ ExpirePost(p)
    PROVE  TypeOK'
<1>1. post[p] \in Post
    BY PostTypes DEF EditPost, RemovePost, ExpirePost, EndPost
<1>2. EditedStatus(p) \in Statuses
    BY <1>1 DEF EditedStatus, Post, Statuses
<1>3. post' \in [Posts -> Post \cup {Absent}]
    <2>1. CASE EditPost(p)
        <3>1. PICK v \in Visibilities :
                 post' = [post EXCEPT ![p].visibility = v,
                                      ![p].status = EditedStatus(p)]
            BY <2>1 DEF EditPost
        <3>2. [post[p] EXCEPT !.visibility = v, !.status = EditedStatus(p)]
                 \in Post
            BY <1>1, <1>2 DEF Post
        <3> QED BY <3>1, <3>2 DEF TypeOK
    <2>2. ASSUME NEW status \in {"removed", "expired"}, EndPost(p, status)
          PROVE  post' \in [Posts -> Post \cup {Absent}]
        <3>1. [post[p] EXCEPT !.status = status] \in Post
            BY <1>1 DEF Post, Statuses
        <3> QED BY <2>2, <3>1 DEF TypeOK, EndPost
    <2> QED BY <2>1, <2>2 DEF RemovePost, ExpirePost
<1> QED BY <1>3 DEF TypeOK, EditPost, RemovePost, ExpirePost, EndPost,
                    friendship, reader, crash

LEMMA PostTypeOK ==
    ASSUME TypeOK, NEW p \in Posts, PostStep(p)
    PROVE  TypeOK'
<1>1. CASE \E n \in 1..3 : Create(p, n) \/ ApprovePost(p, n)
    BY <1>1, CreateTypeOK, ApproveTypeOK
<1>2. CASE ResolveApproval(p)
    BY <1>2 DEF ResolveApproval, TypeOK, friendship, reader, crash
<1>3. CASE EditPost(p) \/ RemovePost(p) \/ ExpirePost(p)
    BY <1>3, ChangeTypeOK
<1>4. CASE Lapse(p)
    BY <1>4 DEF Lapse, TypeOK, friendship, reader, crash
<1>5. CASE HideFeedItem(p)
    <2>1. fresh[p] = 1 /\ hidden[p] = 0
        BY <1>5, PostTypes DEF HideFeedItem
    <2>2. /\ fresh' = [fresh EXCEPT ![p] = 0]
          /\ hidden' = [hidden EXCEPT ![p] = 1]
        BY <1>5, <2>1 DEF HideFeedItem
    <2>3. /\ fresh' \in [Posts -> 0..1] /\ hidden' \in [Posts -> 0..1]
          /\ \A q \in Posts : fresh'[q] + hidden'[q] <= 1
        BY <2>2 DEF TypeOK
    <2> QED BY <1>5, <2>3
            DEF HideFeedItem, TypeOK, author, friendship, crash
<1> QED BY <1>1, <1>2, <1>3, <1>4, <1>5 DEF PostStep

LEMMA FriendTypeOK == TypeOK /\ FriendStep => TypeOK'
<1> SUFFICES ASSUME TypeOK, FriendStep PROVE TypeOK'
    OBVIOUS
<1>1. ASSUME NEW n \in 1..2, Accept(n) \/ Revoke(n) PROVE TypeOK'
    <2>1. cuts' \in 0..MaxCuts
        BY <1>1, CutsAssumption DEF Accept, Revoke, TypeOK
    <2> QED BY <1>1, <2>1 DEF Accept, Revoke, TypeOK, author, reader
<1>2. CASE Block
    BY <1>2 DEF Block, TypeOK, author, reader, crash
<1>3. CASE ApplyFriendResponse
    BY <1>3 DEF ApplyFriendResponse, TypeOK, author, reader, crash
<1> QED BY <1>1, <1>2, <1>3 DEF FriendStep

LEMMA ReaderTypeOK == TypeOK /\ ReaderStep => TypeOK'
<1> SUFFICES ASSUME TypeOK, ReaderStep PROVE TypeOK'
    OBVIOUS
<1>1. CASE VisiblePosts
    BY <1>1 DEF VisiblePosts, TypeOK, author, friendship, crash
<1>2. CASE ImportFeedPosts
    <2>1. ASSUME NEW p \in Posts
          PROVE  fresh'[p] \in 0..1 /\ fresh'[p] + hidden[p] <= 1
        BY <1>2, PostTypes DEF ImportFeedPosts, NotThere
    <2>2. /\ fresh' \in [Posts -> 0..1] /\ hidden' = hidden
          /\ pulled' \subseteq Posts
        <3>1. fresh' = [p \in Posts |-> fresh'[p]]
            BY <1>2 DEF ImportFeedPosts
        <3> QED BY <1>2, <2>1, <3>1 DEF ImportFeedPosts, TypeOK
    <2> QED BY <1>2, <2>1, <2>2
            DEF ImportFeedPosts, TypeOK, author, friendship, crash
<1>3. CASE LosePulled \/ Decide
    BY <1>3 DEF LosePulled, Decide, TypeOK, author, friendship, crash
<1> QED BY <1>1, <1>2, <1>3 DEF ReaderStep

LEMMA NextTypeOK == TypeOK /\ [Next]_vars => TypeOK'
<1> SUFFICES ASSUME TypeOK, [Next]_vars PROVE TypeOK'
    OBVIOUS
<1>1. CASE \E p \in Posts : PostStep(p)
    BY <1>1, PostTypeOK
<1>2. CASE FriendStep
    BY <1>2, FriendTypeOK
<1>3. CASE ReaderStep
    BY <1>3, ReaderTypeOK
<1>4. CASE UNCHANGED vars
    BY <1>4 DEF vars, author, friendship, reader, crash, TypeOK
<1> QED BY <1>1, <1>2, <1>3, <1>4 DEF Next

(* The stores keep their shape, and no feed ever has two items of a post.  *)
THEOREM TypeCorrect == Spec => []TypeOK
<1>1. Init => TypeOK
    BY InitTypeOK
<1>2. TypeOK /\ [Next]_vars => TypeOK'
    BY NextTypeOK
<1> QED BY <1>1, <1>2, PTL DEF Spec

-----------------------------------------------------------------------------
(* What is approved, and what waits.                                       *)

LEMMA InitSound == Init => (\A p \in Posts : Sound(p)) /\ Parted
<1> SUFFICES ASSUME Init
             PROVE  (\A p \in Posts : Sound(p)) /\ Parted
    OBVIOUS
<1>1. ASSUME NEW p \in Posts PROVE Sound(p)
    <2>1. post[p].status = "absent" /\ post[p].linked = FALSE
        BY DEF Init, Absent
    <2>2. ~Has(p)
        BY DEF Init, Has
    <2> QED BY <2>1, <2>2 DEF Sound, Live
<1>2. Parted
    BY DEF Init, Parted
<1> QED BY <1>1, <1>2

(* A step that leaves the post and its approval.                           *)
LEMMA SoundFrame ==
    ASSUME NEW p \in Posts, Sound(p),
           post'[p] = post[p], approval'[p] = approval[p],
           p \in decided => p \in decided', p \in direct => p \in direct',
           p \in cut => p \in cut',
           Has(p)' => Has(p) \/ Live(p)
    PROVE  Sound(p)'
<1>1. (Live(p) <=> Live(p)') /\ (Exists(p) <=> Exists(p)')
    BY DEF Live, Exists
<1>2. Live(p) => Exists(p)
    BY DEF Live, Exists
<1> QED BY <1>1, <1>2 DEF Sound

(* A step that leaves what the reader has.                                 *)
LEMMA HasFrame ==
    ASSUME UNCHANGED <<pulled, fresh, hidden>>, NEW p \in Posts
    PROVE  Has(p)' <=> Has(p)
BY DEF Has

LEMMA CreateSound ==
    ASSUME IInv, NEW p \in Posts, NEW n \in 1..3, Create(p, n),
           NEW q \in Posts
    PROVE  Sound(q)'
<1>1. PICK status \in {"draft", "pending_approval", "published"},
           basis \in {"human-authored", "agent-authored"},
           visibility \in Visibilities :
              CreatePost(p, status, basis, visibility, n)
    BY DEF Create
<1> DEFINE all == CASE status = "pending_approval" -> 3
                    [] status = "published" -> 2
                    [] OTHER -> 1
           new == [status |-> status, basis |-> basis,
                   visibility |-> visibility, linked |-> n = 3]
<1>2. all \in 1..3 /\ Makes(p, n, all) /\ n <= all
    BY <1>1 DEF CreatePost
<1>3. cut \subseteq cut' /\ (n < all => p \in cut')
    BY <1>2, MakesTypeOK DEF IInv
<1>6. UNCHANGED <<pulled, fresh, hidden, decided>>
    BY <1>1 DEF CreatePost, reader
<1>7. direct \subseteq direct' /\ (status = "published" => p \in direct')
    BY <1>1 DEF CreatePost
<1>8. post' = [post EXCEPT ![p] = new]
    BY <1>1 DEF CreatePost
<1>9. Has(q)' <=> Has(q)
    BY <1>6, HasFrame
<1>10. CASE q # p
    <2>1. post'[q] = post[q]
        BY <1>8, <1>10 DEF IInv, TypeOK
    <2>2. approval'[q] = approval[q]
        BY <1>1, <1>10 DEF CreatePost, IInv, TypeOK
    <2>3. Sound(q)
        BY DEF IInv
    <2> QED BY <1>3, <1>6, <1>7, <1>9, <2>1, <2>2, <2>3, SoundFrame
<1>11. CASE q = p
    <2>1. post'[p] = new
        BY <1>8 DEF IInv, TypeOK
    <2>2. /\ post'[p].status = status
          /\ post'[p].linked = (n = 3)
        BY <2>1
    <2>3. ~Has(p)
        BY <1>1 DEF CreatePost, IInv, Sound
    <2>4. CASE status = "draft"
        BY <1>9, <1>11, <2>2, <2>3, <2>4 DEF Sound, Live
    <2>5. CASE status = "pending_approval"
        <3>1. all = 3
            BY <2>5
        <3>2. n = 3 => approval'[p] = "pending"
            BY <1>1, <2>5 DEF CreatePost, IInv, TypeOK
        <3>3. n = 3 \/ p \in cut'
            BY <1>2, <1>3, <3>1
        <3> QED BY <1>9, <1>11, <2>2, <2>3, <2>5, <3>2, <3>3 DEF Sound, Live
    <2>6. CASE status = "published"
        <3>1. all = 2
            BY <2>6
        <3>2. n # 3
            BY <1>2, <3>1
        <3> QED BY <1>7, <1>9, <1>11, <2>2, <2>3, <2>6, <3>2
                DEF Sound, Live
    <2> QED BY <2>4, <2>5, <2>6
<1> QED BY <1>10, <1>11

LEMMA ApproveSound ==
    ASSUME IInv, NEW p \in Posts, NEW n \in 1..3, ApprovePost(p, n),
           NEW q \in Posts
    PROVE  Sound(q)'
<1>1. cut \subseteq cut' /\ (n < 3 => p \in cut')
    BY MakesTypeOK DEF ApprovePost, IInv
<1>4. UNCHANGED <<pulled, fresh, hidden, decided, direct>>
    BY DEF ApprovePost, reader
<1>5. Has(q)' <=> Has(q)
    BY <1>4, HasFrame
<1>6. Sound(q)
    BY DEF IInv
<1>7. CASE q # p
    <2>1. post'[q] = post[q] /\ approval'[q] = approval[q]
        BY <1>7 DEF ApprovePost, IInv, TypeOK
    <2> QED BY <1>1, <1>4, <1>5, <1>6, <2>1, SoundFrame
<1>8. CASE q = p
    <2>1. post[p].linked => /\ approval[p] = "pending"
                            /\ approval'[p] = "approved"
        BY DEF ApprovePost, Resolvable, IInv, TypeOK
    <2>2. ~post[p].linked => approval'[p] = approval[p]
        BY DEF ApprovePost
    <2>3. CASE n = 1
        <3>1. post'[p] = post[p] /\ post[p].linked
            BY <2>3 DEF ApprovePost
        <3>2. p \in cut'
            BY <1>1, <2>3
        <3>3. (Live(p)' <=> Live(p)) /\ (Exists(p)' <=> Exists(p))
            BY <3>1 DEF Live, Exists
        <3>4. ~Live(p) /\ ~Has(p)
            BY <1>6, <1>8, <2>1, <3>1 DEF Sound
        <3> QED BY <1>5, <1>8, <3>2, <3>3, <3>4 DEF Sound
    <2>4. CASE n >= 2
        <3>1. post'[p] = Approved(p)
            BY <2>4 DEF ApprovePost, IInv, TypeOK
        <3>2. /\ post'[p].status = "published"
              /\ post'[p].linked = post[p].linked
              /\ post'[p].basis # "agent-authored"
            BY <3>1, ApprovedPost DEF ApprovePost, IInv
        <3>3. Exists(p)' /\ Live(p)'
            BY <3>2 DEF Exists, Live
        <3> QED BY <1>8, <2>1, <3>2, <3>3 DEF Sound
    <2> QED BY <2>3, <2>4
<1> QED BY <1>7, <1>8

LEMMA ResolveSound ==
    ASSUME IInv, NEW p \in Posts, ResolveApproval(p), NEW q \in Posts
    PROVE  Sound(q)'
<1>1. UNCHANGED <<post, local, pulled, fresh, hidden, cut, direct>>
    BY DEF ResolveApproval, reader, crash
<1>2. Has(q)' <=> Has(q)
    BY <1>1, HasFrame
<1>3. Sound(q)
    BY DEF IInv
<1>4. decided' = decided \cup {p}
    BY DEF ResolveApproval
<1>5. CASE q # p
    <2>1. approval'[q] = approval[q]
        BY <1>5 DEF ResolveApproval, IInv, TypeOK
    <2> QED BY <1>1, <1>2, <1>3, <1>4, <2>1, SoundFrame
<1>6. CASE q = p
    <2>1. approval[p] = "pending"
        BY DEF ResolveApproval, Resolvable
    <2>2. (Live(p)' <=> Live(p)) /\ (Exists(p)' <=> Exists(p))
        BY <1>1 DEF Live, Exists
    <2> QED BY <1>1, <1>2, <1>3, <1>4, <1>6, <2>1, <2>2 DEF Sound
<1> QED BY <1>5, <1>6

LEMMA ChangeSound ==
    ASSUME IInv, NEW p \in Posts,
           EditPost(p) \/ RemovePost(p) \/ ExpirePost(p), NEW q \in Posts
    PROVE  Sound(q)'
<1>1. UNCHANGED <<approval, local, pulled, fresh, hidden, cut, decided,
                  direct>>
    BY DEF EditPost, RemovePost, ExpirePost, EndPost, reader, crash
<1>2. Has(q)' <=> Has(q)
    BY <1>1, HasFrame
<1>3. Sound(q)
    BY DEF IInv
<1>4. CASE q # p
    <2>1. post'[q] = post[q]
        BY <1>4 DEF EditPost, RemovePost, ExpirePost, EndPost, IInv, TypeOK
    <2> QED BY <1>1, <1>2, <1>3, <2>1, SoundFrame
<1>5. CASE q = p
    <2>1. post[p] \in Post
        BY PostTypes DEF EditPost, RemovePost, ExpirePost, EndPost, IInv
    <2>2. /\ post'[p].linked = post[p].linked
          /\ post'[p].basis = post[p].basis
          /\ post'[p].status \in {EditedStatus(p), "removed", "expired"}
        <3>1. CASE EditPost(p)
            <4>1. PICK v \in Visibilities :
                     post' = [post EXCEPT ![p].visibility = v,
                                          ![p].status = EditedStatus(p)]
                BY <3>1 DEF EditPost
            <4>2. post'[p] = [post[p] EXCEPT !.visibility = v,
                                             !.status = EditedStatus(p)]
                BY <4>1 DEF IInv, TypeOK
            <4> QED BY <2>1, <4>2 DEF Post
        <3>2. ASSUME NEW status \in {"removed", "expired"},
                     EndPost(p, status)
              PROVE  /\ post'[p].linked = post[p].linked
                     /\ post'[p].basis = post[p].basis
                     /\ post'[p].status = status
            <4>1. post'[p] = [post[p] EXCEPT !.status = status]
                BY <3>2 DEF EndPost, IInv, TypeOK
            <4> QED BY <2>1, <4>1 DEF Post
        <3> QED BY <3>1, <3>2 DEF RemovePost, ExpirePost
    <2>3. EditedStatus(p) = post[p].status
            \/ (EditedStatus(p) = "edited" /\ Live(p))
        BY DEF EditedStatus, Live
    <2>4. /\ Live(p)' => Live(p)
          /\ Exists(p) /\ Exists(p)'
          /\ post'[p].status = "pending_approval"
                => post[p].status = "pending_approval"
        BY <2>1, <2>2, <2>3 DEF Live, Exists, Post, Statuses
    <2> QED BY <1>1, <1>2, <1>3, <1>5, <2>2, <2>4 DEF Sound
<1> QED BY <1>4, <1>5

(* Hiding and the reader's steps, and what the reader has.                 *)
LEMMA HasStays ==
    ASSUME IInv, NEW p \in Posts, HideFeedItem(p), NEW q \in Posts
    PROVE  Has(q)' => Has(q)
<1>1. fresh[p] = 1 /\ hidden[p] = 0
    BY PostTypes DEF HideFeedItem, IInv
<1>2. CASE q = p
    BY <1>1, <1>2 DEF Has
<1>3. CASE q # p
    <2>1. fresh'[q] = fresh[q] /\ hidden'[q] = hidden[q] /\ pulled' = pulled
        BY <1>3 DEF HideFeedItem, IInv, TypeOK
    <2> QED BY <2>1 DEF Has
<1> QED BY <1>2, <1>3

LEMMA HasReader ==
    ASSUME IInv, ReaderStep, NEW q \in Posts
    PROVE  Has(q)' => Has(q) \/ (VisiblePosts /\ Visible(q))
<1>1. CASE VisiblePosts
    BY <1>1 DEF VisiblePosts, Has
<1>2. CASE ImportFeedPosts
    BY <1>2 DEF ImportFeedPosts, Has, IInv, TypeOK
<1>3. CASE LosePulled \/ Decide
    BY <1>3 DEF LosePulled, Decide, Has
<1> QED BY <1>1, <1>2, <1>3 DEF ReaderStep

LEMMA PostSound ==
    ASSUME IInv, NEW p \in Posts, PostStep(p), NEW q \in Posts
    PROVE  Sound(q)'
<1>1. CASE \E n \in 1..3 : Create(p, n) \/ ApprovePost(p, n)
    BY <1>1, CreateSound, ApproveSound
<1>2. CASE ResolveApproval(p)
    BY <1>2, ResolveSound
<1>3. CASE EditPost(p) \/ RemovePost(p) \/ ExpirePost(p)
    BY <1>3, ChangeSound
<1>4. CASE Lapse(p)
    <2>1. Has(q)' <=> Has(q)
        BY <1>4, HasFrame DEF Lapse, reader
    <2> QED BY <1>4, <2>1, SoundFrame DEF Lapse, crash, IInv
<1>5. CASE HideFeedItem(p)
    <2>1. Has(q)' => Has(q)
        BY <1>5, HasStays
    <2> QED BY <1>5, <2>1, SoundFrame DEF HideFeedItem, author, crash, IInv
<1> QED BY <1>1, <1>2, <1>3, <1>4, <1>5 DEF PostStep

LEMMA ReaderSound ==
    ASSUME IInv, ReaderStep, NEW q \in Posts
    PROVE  Sound(q)'
<1>1. UNCHANGED <<post, approval, local, cut, decided, direct>>
    BY DEF ReaderStep, VisiblePosts, ImportFeedPosts, LosePulled, Decide, author, crash
<1>2. Has(q)' => Has(q) \/ (VisiblePosts /\ Visible(q))
    BY HasReader DEF IInv
<1>3. Visible(q) => Live(q)
    BY DEF Visible
<1> QED BY <1>1, <1>2, <1>3, SoundFrame DEF IInv

LEMMA FriendSound ==
    ASSUME IInv, FriendStep, NEW q \in Posts
    PROVE  Sound(q)'
<1>1. UNCHANGED <<post, approval, local, cut, decided, direct, pulled, fresh,
                  hidden>>
    BY DEF FriendStep, Accept, Revoke, Block, ApplyFriendResponse, author,
           reader, crash
<1>2. Has(q)' <=> Has(q)
    BY <1>1, HasFrame
<1> QED BY <1>1, <1>2, SoundFrame DEF IInv

LEMMA NextParted == IInv /\ [Next]_vars => Parted'
<1> SUFFICES ASSUME IInv, [Next]_vars PROVE Parted'
    OBVIOUS
<1>1. CASE FriendStep
    BY <1>1 DEF FriendStep, Accept, Revoke, Block, ApplyFriendResponse,
                Parted, IInv, TypeOK
<1>2. CASE ~FriendStep
    <2>1. UNCHANGED <<contact, granted, parted, torn>>
        BY <1>2 DEF Next, PostStep, Create, CreatePost, ApprovePost,
            ResolveApproval, EditPost, RemovePost, ExpirePost, EndPost,
            Lapse, HideFeedItem, ReaderStep, VisiblePosts, ImportFeedPosts,
            LosePulled, Decide, vars, friendship
    <2> QED BY <2>1 DEF Parted, IInv
<1> QED BY <1>1, <1>2

LEMMA NextIInv == IInv /\ [Next]_vars => IInv'
<1> SUFFICES ASSUME IInv, [Next]_vars PROVE IInv'
    OBVIOUS
<1>1. TypeOK'
    BY NextTypeOK DEF IInv
<1>2. ASSUME NEW q \in Posts PROVE Sound(q)'
    <2>1. CASE \E p \in Posts : PostStep(p)
        BY <2>1, PostSound
    <2>2. CASE FriendStep
        BY <2>2, FriendSound
    <2>3. CASE ReaderStep
        BY <2>3, ReaderSound
    <2>4. CASE UNCHANGED vars
        <3>1. UNCHANGED <<post, approval, local, cut, decided, direct,
                          pulled, fresh, hidden>>
            BY <2>4 DEF vars, author, reader, crash
        <3>2. Has(q)' <=> Has(q)
            BY <3>1, HasFrame
        <3> QED BY <3>1, <3>2, SoundFrame DEF IInv
    <2> QED BY <2>1, <2>2, <2>3, <2>4 DEF Next
<1> QED BY <1>1, <1>2, NextParted DEF IInv

LEMMA Invariance == Spec => []IInv
<1>1. Init => IInv
    BY InitTypeOK, InitSound DEF IInv
<1>2. IInv /\ [Next]_vars => IInv'
    BY NextIInv
<1> QED BY <1>1, <1>2, PTL DEF Spec

(* For any posts and crashes: nothing that was made to wait is shown or    *)
(* with a reader before its approval, and nothing is called an agent's but *)
(* what was created as published.                                          *)
THEOREM NothingUnapproved == Spec => []ApprovedFirst
<1>1. IInv => ApprovedFirst
    BY DEF IInv, Sound, ApprovedFirst
<1> QED BY <1>1, Invariance, PTL

(* A post that waits can be approved, unless its approval was resolved in  *)
(* the approvals view or a crash cut one of its handlers.                  *)
THEOREM WaitingCanBeApproved == Spec => []PendingIsApprovable
<1>1. IInv => PendingIsApprovable
    BY DEF IInv, Sound, PendingIsApprovable
<1> QED BY <1>1, Invariance, PTL

-----------------------------------------------------------------------------
(* What a step may not bring to the reader.                                *)

(* What a reader gets, it got from visiblePostsForPeer.                    *)
LEMMA OnlyByPulling ==
    ASSUME IInv, [Next]_vars, NEW q \in Posts, ~Has(q), Has(q)'
    PROVE  Admits /\ Visible(q)
<1>1. CASE \E p \in Posts : PostStep(p)
    <2>1. PICK p \in Posts : PostStep(p)
        BY <1>1
    <2>2. CASE HideFeedItem(p)
        BY <2>2, HasStays DEF IInv
    <2>3. CASE ~HideFeedItem(p)
        <3>1. UNCHANGED <<pulled, fresh, hidden>>
            BY <2>1, <2>3 DEF PostStep, Create, CreatePost, ApprovePost,
                ResolveApproval, EditPost, RemovePost, ExpirePost, EndPost,
                Lapse, reader
        <3> QED BY <3>1, HasFrame
    <2> QED BY <2>2, <2>3
<1>2. CASE ReaderStep
    BY <1>2, HasReader DEF VisiblePosts, IInv
<1>3. CASE FriendStep \/ UNCHANGED vars
    <2>1. UNCHANGED <<pulled, fresh, hidden>>
        BY <1>3 DEF FriendStep, Accept, Revoke, Block, ApplyFriendResponse,
                    vars, reader
    <2> QED BY <2>1, HasFrame
<1> QED BY <1>1, <1>2, <1>3 DEF Next

(* The reader gets nothing new that is removed, expired or past its time.  *)
THEOREM GoneStaysAway == Spec => GoneIsNotServed
<1>1. IInv /\ [Next]_vars =>
        [\A p \in Posts : (Gone(p) \/ p \in due) /\ ~Has(p) => ~Has(p)']_vars
    BY OnlyByPulling DEF Visible, Gone, Live
<1> QED BY <1>1, Invariance, PTL DEF Spec, GoneIsNotServed

(* Whom the author revoked or blocked gets nothing new.                    *)
THEOREM PartedGetNothing == Spec => PartedIsNotServed
<1>1. IInv /\ [Next]_vars =>
        [parted /\ ~torn => \A p \in Posts : ~Has(p) => ~Has(p)']_vars
    BY OnlyByPulling DEF Admits, Parted, IInv
<1> QED BY <1>1, Invariance, PTL DEF Spec, PartedIsNotServed
=============================================================================
