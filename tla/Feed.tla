-------------------------------- MODULE Feed --------------------------------
(***************************************************************************)
(* Posts, their approval, and the feed (src/store-posts.ts): the home of   *)
(* an author, and the feed of one reader.                                  *)
(*                                                                         *)
(* The handlers of a home run one after the other, as the tests of the     *)
(* feed assume; what overlap does to a file is in ContactFile.  But a      *)
(* handler may be cut by a crash: it makes its writes in order, and n is   *)
(* the number of them it makes.                                            *)
(*                                                                         *)
(* A post is known by its id; a post has one approval at most.  Reading    *)
(* and importing are two calls: what visiblePostsForPeer returned travels  *)
(* outside of the stores, and may arrive late, twice or never.             *)
(***************************************************************************)
EXTENDS Naturals

CONSTANTS
    Posts,
    MaxCuts     \* bound: handlers cut by a crash

ASSUME CutsAssumption == MaxCuts \in Nat

VARIABLES
    post,       \* posts.json
    approval,   \* approvals.json: the status of the approval of each post
    local,      \* the author's feed.json: items of each post
    due,        \* posts whose expires_at has passed
    contact,    \* relationship_state of the reader, at the author
    granted,    \* an active grant of feed.read.friends to the reader
    follows,    \* the author is a friend, at the reader
    pulled,     \* posts served to the reader and not imported yet
    fresh,      \* the reader's feed.json: items of each post not hidden ...
    hidden,     \* ... and hidden
    cuts, cut,  \* crashes, and history: posts one of whose handlers was cut
    decided,    \* history: approvals resolved in the approvals view
    direct,     \* history: posts created as published
    parted,     \* history: the author's last decision was revoke or block
    torn        \* history: ... and a crash left the grants of a revoke

author == <<post, approval, local, due>>
friendship == <<contact, granted, parted, torn>>
reader == <<follows, pulled, fresh, hidden>>
crash == <<cuts, cut>>
vars == <<author, friendship, reader, crash, decided, direct>>

Statuses == {"draft", "pending_approval", "published", "edited", "removed",
             "expired"}
Bases == {"human-authored", "agent-authored", "human-approved"}
Visibilities == {"private", "friends"}
Post == [status : Statuses, basis : Bases, visibility : Visibilities,
         linked : BOOLEAN]      \* approval_ref is set
Absent == [status |-> "absent", basis |-> "human-authored",
           visibility |-> "private", linked |-> FALSE]

Exists(p) == post[p].status # "absent"
Live(p) == post[p].status \in {"published", "edited"}
Gone(p) == post[p].status \in {"removed", "expired"}
Has(p) == p \in pulled \/ fresh[p] + hidden[p] > 0

(* The handler for p makes n of its writes.                                *)
Makes(p, n, all) ==
    /\ n < all => cuts < MaxCuts
    /\ cuts' = IF n < all THEN cuts + 1 ELSE cuts
    /\ cut' = IF n < all THEN cut \cup {p} ELSE cut

-----------------------------------------------------------------------------
(* The author.                                                             *)

(* A post has one item at most in its author's feed.                       *)
EnsureLocalItem(p) == local' = [local EXCEPT ![p] = IF @ > 0 THEN @ ELSE @ + 1]

(* The post, then its approval and the reference to it, or its feed item.  *)
CreatePost(p, status, basis, visibility, n) ==
    LET all == CASE status = "pending_approval" -> 3
                 [] status = "published" -> 2
                 [] OTHER -> 1
    IN  /\ ~Exists(p)
        /\ n <= all
        /\ Makes(p, n, all)
        /\ post' = [post EXCEPT ![p] =
                       [status |-> status, basis |-> basis,
                        visibility |-> visibility, linked |-> n = 3]]
        /\ IF status = "pending_approval" /\ n >= 2
           THEN approval' = [approval EXCEPT ![p] = "pending"]
           ELSE UNCHANGED approval
        /\ IF status = "published" /\ n >= 2
           THEN EnsureLocalItem(p) ELSE UNCHANGED local
        /\ direct' = IF status = "published" THEN direct \cup {p} ELSE direct
        /\ UNCHANGED <<due, friendship, reader, decided>>

(* The local API hands on any basis and status it is given; without a      *)
(* status, agents wait for approval and humans make drafts.                *)
Create(p, n) ==
    \E status \in {"draft", "pending_approval", "published"},
      basis \in {"human-authored", "agent-authored"},
      visibility \in Visibilities :
        CreatePost(p, status, basis, visibility, n)

(* resolveApproval throws unless the approval is pending.  The slip goes   *)
(* on with a resolved one.                                                 *)
ResolvableAnyway(p) == approval[p] # "none"
Resolvable(p) == approval[p] = "pending"

Published(p) ==
    [post[p] EXCEPT !.status = "published",
                    !.basis = IF @ = "agent-authored" THEN "human-approved"
                              ELSE @]

(* The approval, the post, and its feed item.  The slip writes the post as *)
(* it was.                                                                 *)
AsItWas(p) == post[p]
Approved(p) == Published(p)

ApprovePost(p, n) ==
    /\ Exists(p) /\ ~Gone(p)
    /\ post[p].linked => Resolvable(p)
    /\ n >= (IF post[p].linked THEN 1 ELSE 2)
    /\ Makes(p, n, 3)
    /\ approval' = IF post[p].linked THEN [approval EXCEPT ![p] = "approved"]
                   ELSE approval
    /\ post' = IF n >= 2 THEN [post EXCEPT ![p] = Approved(p)] ELSE post
    /\ IF n = 3 THEN EnsureLocalItem(p) ELSE UNCHANGED local
    /\ UNCHANGED <<due, friendship, reader, decided, direct>>

(* The approvals view: nothing but the approval changes.                   *)
ResolveApproval(p) ==
    /\ Resolvable(p)
    /\ \E result \in {"approved", "rejected"} :
          approval' = [approval EXCEPT ![p] = result]
    /\ decided' = decided \cup {p}
    /\ UNCHANGED <<post, local, due, friendship, reader, crash, direct>>

(* Only what was published becomes edited.                                 *)
EditedStatus(p) ==
    IF post[p].status = "published" THEN "edited" ELSE post[p].status

EditPost(p) ==
    /\ Exists(p) /\ post[p].status # "removed"
    /\ \E visibility \in Visibilities :
          post' = [post EXCEPT ![p].visibility = visibility,
                               ![p].status = EditedStatus(p)]
    /\ UNCHANGED <<approval, local, due, friendship, reader, crash, decided,
                   direct>>

EndPost(p, status) ==
    /\ Exists(p)
    /\ post' = [post EXCEPT ![p].status = status]
    /\ UNCHANGED <<approval, local, due, friendship, reader, crash, decided,
                   direct>>
RemovePost(p) == EndPost(p, "removed")
ExpirePost(p) == EndPost(p, "expired")

(* Time passes the expires_at of a post that has one.                      *)
Lapse(p) ==
    /\ Exists(p)
    /\ due' = due \cup {p}
    /\ UNCHANGED <<post, approval, local, friendship, reader, crash, decided,
                   direct>>

-----------------------------------------------------------------------------
(* The friendship, as the feed sees it.                                    *)

(* acceptFriend writes the contact, then a grant of feed.read.friends.     *)
Accept(n) ==
    /\ contact # "blocked"
    /\ n < 2 => cuts < MaxCuts
    /\ cuts' = IF n < 2 THEN cuts + 1 ELSE cuts
    /\ contact' = "friend"
    /\ granted' = (granted \/ n = 2)
    /\ parted' = FALSE /\ torn' = FALSE
    /\ UNCHANGED <<author, reader, cut, decided, direct>>

(* revoke writes the contact, then every grant to it.                      *)
Revoke(n) ==
    /\ n < 2 => cuts < MaxCuts
    /\ cuts' = IF n < 2 THEN cuts + 1 ELSE cuts
    /\ contact' = "revoked"
    /\ granted' = (granted /\ n < 2)
    /\ parted' = TRUE /\ torn' = granted'
    /\ UNCHANGED <<author, reader, cut, decided, direct>>

(* block leaves the grants.                                                *)
Block ==
    /\ contact' = "blocked"
    /\ parted' = TRUE
    /\ UNCHANGED <<granted, torn, author, reader, crash, decided, direct>>

(* A friend_response of the reader, late or not.                           *)
ApplyFriendResponse ==
    /\ contact # "blocked"
    /\ contact' = "friend"
    /\ UNCHANGED <<granted, parted, torn, author, reader, crash, decided,
                   direct>>

-----------------------------------------------------------------------------
(* The reader.                                                             *)

(* visiblePostsForPeer: the contact, the grant, then each post.  The slip  *)
(* asks for the contact only.                                              *)
AdmitsFriend == contact = "friend"
Admits == contact = "friend" /\ granted

Visible(p) == post[p].visibility = "friends" /\ Live(p) /\ p \notin due

VisiblePosts ==
    /\ Admits
    /\ pulled' = pulled \cup {p \in Posts : Visible(p)}
    /\ UNCHANGED <<author, friendship, follows, fresh, hidden, crash,
                   decided, direct>>

(* importFeedPosts: a post already in the feed is left as it is.           *)
NotThere(p) == fresh[p] + hidden[p] = 0

ImportFeedPosts ==
    /\ follows
    /\ fresh' = [p \in Posts |-> IF p \in pulled /\ NotThere(p)
                                 THEN fresh[p] + 1 ELSE fresh[p]]
    /\ pulled' \in {pulled, {}}
    /\ UNCHANGED <<author, friendship, follows, hidden, crash, decided,
                   direct>>

LosePulled ==
    /\ pulled' = {}
    /\ UNCHANGED <<author, friendship, follows, fresh, hidden, crash,
                   decided, direct>>

HideFeedItem(p) ==
    /\ fresh[p] > 0
    /\ fresh' = [fresh EXCEPT ![p] = @ - 1]
    /\ hidden' = [hidden EXCEPT ![p] = @ + 1]
    /\ UNCHANGED <<author, friendship, follows, pulled, crash, decided,
                   direct>>

(* The reader accepts, revokes or blocks the author.                       *)
Decide ==
    /\ follows' \in BOOLEAN
    /\ UNCHANGED <<author, friendship, pulled, fresh, hidden, crash,
                   decided, direct>>

-----------------------------------------------------------------------------

Init ==
    /\ post = [p \in Posts |-> Absent]
    /\ approval = [p \in Posts |-> "none"]
    /\ local = [p \in Posts |-> 0]
    /\ due = {}
    /\ contact = "request_received" /\ granted = FALSE
    /\ follows = FALSE /\ pulled = {}
    /\ fresh = [p \in Posts |-> 0] /\ hidden = [p \in Posts |-> 0]
    /\ cuts = 0 /\ cut = {}
    /\ decided = {} /\ direct = {}
    /\ parted = FALSE /\ torn = FALSE

(* The routes of posts and of feed items, and those that no route calls:   *)
(* expiry and the clock.                                                   *)
PostStep(p) ==
    \/ \E n \in 1..3 : Create(p, n) \/ ApprovePost(p, n)
    \/ ResolveApproval(p)
    \/ EditPost(p) \/ RemovePost(p) \/ ExpirePost(p) \/ Lapse(p)
    \/ HideFeedItem(p)

FriendStep ==
    \/ \E n \in 1..2 : Accept(n) \/ Revoke(n)
    \/ Block \/ ApplyFriendResponse

ReaderStep ==
    \/ VisiblePosts \/ ImportFeedPosts \/ LosePulled
    \/ Decide

Next ==
    \/ \E p \in Posts : PostStep(p)
    \/ FriendStep
    \/ ReaderStep

Spec == Init /\ [][Next]_vars

-----------------------------------------------------------------------------
(* Properties.                                                             *)

(* The stores keep their shape, and a feed has one item of a post at most, *)
(* however often a post is approved or imported.                           *)
TypeOK ==
    /\ post \in [Posts -> Post \cup {Absent}]
    /\ approval \in [Posts -> {"none", "pending", "approved", "rejected"}]
    /\ local \in [Posts -> 0..1]
    /\ due \subseteq Posts
    /\ contact \in {"request_received", "friend", "revoked", "blocked"}
    /\ granted \in BOOLEAN /\ parted \in BOOLEAN /\ torn \in BOOLEAN
    /\ follows \in BOOLEAN
    /\ pulled \subseteq Posts
    /\ fresh \in [Posts -> 0..1] /\ hidden \in [Posts -> 0..1]
    /\ \A p \in Posts : fresh[p] + hidden[p] <= 1
    /\ cuts \in 0..MaxCuts /\ cut \subseteq Posts
    /\ decided \subseteq Posts /\ direct \subseteq Posts

(* "agent-authored posts require a human ApprovalRequest before publishing *)
(* (status pending_approval -> published only via approvePost)": a post    *)
(* that was made to wait, and is shown or with the reader, was approved,   *)
(* and one of an agent is no longer called that unless it was created as   *)
(* published.                                                              *)
ApprovedFirst ==
    \A p \in Posts : Live(p) \/ Has(p) =>
        /\ post[p].linked => approval[p] = "approved"
        /\ post[p].basis = "agent-authored" => p \in direct

(* A post that waits can be approved, unless its approval was resolved in  *)
(* the approvals view or a crash cut a handler of the post.                *)
PendingIsApprovable ==
    \A p \in Posts : post[p].status = "pending_approval" =>
        \/ post[p].linked /\ approval[p] = "pending"
        \/ p \in decided \cup cut

(* The reader gets no post, of those it does not have, that was removed,   *)
(* that expired or whose time is up; no edit or approval brings one back.  *)
GoneIsNotServed ==
    [][\A p \in Posts : (Gone(p) \/ p \in due) /\ ~Has(p) => ~Has(p)']_vars

(* After the author revoked or blocked it, the reader gets nothing it did  *)
(* not have, though a late friend_response makes it a friend again, until  *)
(* the author accepts it.                                                  *)
PartedIsNotServed ==
    [][parted /\ ~torn => \A p \in Posts : ~Has(p) => ~Has(p)']_vars
=============================================================================
