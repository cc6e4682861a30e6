# Edge Book CLI: a verification project

TLA+ models of the protocol that `edge-book-cli` runs between personal agents,
TLC configurations that check them on small instances, and TLAPS proofs of
their main invariants for every instance. Paths are relative to the root of
the repository; `src/` there holds the TypeScript sources.

## The system

An Edge Book agent is a process with a home directory of JSON files. It meets
other agents through signed envelopes that travel by a host's mailbox (over
one outgoing WebSocket, the *dial-out*), by a development relay, or by files
carried by hand. Its owner acts through the command line and through a local
HTTP API, which the host also proxies for a hosted reader. Two crons of the
owner's own scheduler run commands of it: the notifier and the greeter.

| Component | State | Operations | Hard behaviour | What makes it correct | Module |
|---|---|---|---|---|---|
| Friend graph (`store-friends.ts`, `store-trust.ts`) | `contacts.json`, `grants.json` of each agent | request, accept, reject, revoke, block, message, and their receivers | envelopes cross, arrive late or never; nothing tells a peer of a revoke | only a peer the owner last accepted gets in; a block holds; a received request can be answered | `FriendGraph`, `Admission` |
| Mailbox intake (`dialout.ts`, `store-trust.ts`, `notify.ts`) and the notifier cron (`host-cron.ts`) | seen messages, notified ledger, `notified_at`, the socket | deliver, verify, mark seen, apply, ack, notify, record; list, mark, reply | redelivery, reconnection, crash between two awaits, handlers that overlap, two channels that tell | nothing acked is lost, nothing is applied twice, the mailbox drains, the owner hears of every request | `MailboxIntake`, `Receipt` |
| Home directory (`fs-json.ts`) | every JSON file | read whole, change, write whole | no lock: two handlers between read and write; a crash between two files | what a crash leaves can be repaired or is harmless | `ContactFile`, `Inbound` |
| Approvals (`store-posts.ts`, `http.ts`) | `approvals.json` | create, resolve, act | double clicks, approvals that outlive their subject | one approval acts once, but for resolutions that an overlap overwrote | `ContactFile`, `FriendGraph`, `Feed` |
| Shared objects (`store-objects.ts`) | `objects.json`, `grants.json` of owner and readers | create, share, revoke, read | share and revoke reordered or lost; readers share on | readers read what was shared with them, and agree with the owner | `ObjectGrants` |
| Throttle, invites, relay queue, support inbox (`store-trust.ts`, `store-friends.ts`, `http-relay.ts`, `cli-social.ts`, `store-support.ts`) | rate windows, invite codes, queue files, `support-bundles.json` | count, consume, append, drain, pull, keep, dismiss | read-modify-write by two processes, drain in two steps, a command that stops half way | caps hold, no envelope disappears, room is made in order | `Inbound` |
| Escalations (`store-escalations.ts`) | `escalations.json` on both sides | raise, receive, answer, apply, expire | an answer races the expiry | each is answered once, both sides agree | `Escalations`, `Consultation` |
| Dial-out (`dialout*.ts`) | socket, timers, pending requests, key | connect, stop, stand down, rpc, pair | timers against close and stop, late answers | one connection at most, every wait ends | `DialoutConnection` |
| Posts and feed (`store-posts.ts`) | posts, feed, approvals | draft, approve, edit, remove, expire, serve, import, hide | a crash between approval and post, posts that arrive late or twice, friendships that come and go | nothing unapproved, removed or expired is served, nobody parted is, what waits can be approved | `Feed` |
| Post taxonomy (`store-taxonomy.ts`, `cli-taxonomy.ts`, `cli-shared.ts`) | signals, queries, answers, endorsements, attestations, capabilities; received copies | create, broadcast, receive, expire, cancel, delete, deprecate, deregister | lifecycles computed from the clock and stored, two-file deletions, a broadcast that stops half way | no post comes back to life, answers go with their query, an answer reaches who asked | `PostTaxonomy` |
| Greeter, starter packs, resolver (`store-greeter.ts`, `cli-pack.ts`, `resolver.ts`) | welcome ledger, contacts on both sides | join, request, pass, deliver | partial passes, lookups that fail, repeated joins | nobody is sent two welcomes, who asks is answered and a friend is sent a welcome unless that envelope was lost, joins ask again only by overlapping | `Outreach` |
| Self-update and nudges (`self-update.ts`, `update-drift.ts`, `update-nudge.ts`, `notifier-nudge.ts`, `host-cron.ts`) | install root, lock file, config, the notifier job | check, lock, take over, install, verify, record, drift, nudge, migrate | two runs and a daemon on one tree, a stale lock, who decides a release | no two installs at once, a release reaches the daemon or the owner | `SelfUpdate` |
| Identity, cards, signatures, frames, outbox, event log, dashboard, smoke harness | keys, caches, text | pure or read-mostly | none of concurrency | not modelled, see the end and `PROJECT.json` | |

The components meet in three places: the home directory (every handler reads
and writes the same files), `receiveEnvelope` (the intake hands each envelope
to the handler of its type), and the envelopes themselves, which carry grants
from one home to another.

## The modules

Names are those of the code where a module stands alone. `ContactFile`,
`Inbound` and `Outreach` are proved in the proofs module of another component,
which extends both, so their `Init`, `Next` and `Spec` carry a prefix (`Home`,
`Inbound`, `Outreach`) and no name of theirs is one of the other's.

### FriendGraph, Admission

`FriendGraph` has one home per agent and a set of envelopes in flight. One
action is one handler of `store-friends.ts` or `store-trust.ts`, run whole:
its guard is the handler's throws, its effect every store it changes.
`rel[a][b]` is `relationship_state` of `b` in `a`'s `contacts.json`,
`grants[a]` is `grants.json` in the order of its keys (the order matters:
`findUsableGrant` takes the first match), `pending` counts the pending
`friend_accept` approvals, `uses` the uses left of the invite code. `standing`
and `asked` are history: the last accept, revoke or block of an owner, and
whom it ever requested or accepted. Envelopes arrive in any order; `Drop`
stands for everything that consumes an envelope and changes nothing here (it
expired, the throttle refused it).

`Admission` is what the friend graph promises an owner, without envelopes or
grants: a peer is admitted only between an accept and the revoke or block
that follows it. `FriendGraph` implements it (`AdmissionSpec`): `admitted` is
mapped to the pairs one of which would take a message of the other, and
`accepted` to the standing of the owner.

### MailboxIntake, Receipt

What happens to an envelope between the host and the stores, cut at the
awaits: a slot is a running `handleMailboxDeliver`, and each action is what it
does between two awaits. With one slot, frames do not overlap; with more, as
in the code, they do. `Close` drops the socket under the handlers, which run
on; `Crash` ends them and keeps the files; `AckOnConnecting` is the `send` on
a socket that is still connecting, which throws out of a promise nobody
awaits. The host is external: it keeps an envelope until it is acked and
offers it once per connection. Applying is counted; what it does is
`FriendGraph`.

Two channels tell the owner of a friend request: the hook, which a handler
runs after it acked (`notify`, `run`, `record`), and the cron, a process of its
own whose agent lists the requests without a `notified_at`, marks them one by
one and ends with a reply that the scheduler delivers. The hook looks only at
the ledger and the cron only at `notified_at`, so that each may tell once;
`docs/superpowers/specs/2026-06-09-inbound-notify-hook.md:102` promises "never
double-notify" of the hook alone. The cron marks before its reply goes out: a
run that is cut in between (`untold`) leaves its owner without a word, and
nothing makes up for it.

`Receipt` is what a mailbox client promises, without connections, handlers or
files: an envelope is applied once at most and while the host holds it, and
the host lets go of what was applied, refused or forgotten, which is for good.
With one slot `MailboxIntake` implements it (`ReceiptSpec`): what is forgotten
is `orphaned`, the envelopes a crash caught between the mark and the
application.

### ContactFile

One home under handlers that interleave and crash. A handler is a list of
operations on files (`Programs`); an operation that changes a file reads all of
it into the copy of its slot, and a later step writes the copy back. A home has
one of the `Worlds` of slots and crashes (`slots`, `crashes`): with one slot
the handlers run one after the other and only a crash comes between their
steps; with two they overlap as an envelope, a click and a command may. The
programs are those of the friend graph, of `reportPeer` (which blocks and files
a report) and of `receiveProfileShare` (which refreshes a contact).
`resolved[i]` counts how often approval `i` was decided and `forgotten[i]` how
often a write of `approvals.json` put back a copy without its decision: a
double click reads the approval as pending twice, and the check in
`resolveApproval` (`store-posts.ts:86`) sees only what was read.

### ObjectGrants

The owner of an object, its readers, and the channels between them. The
reader's decision is its own copy of the grant. `Ordered` says whether a
channel keeps its order; `wish` is history, the author's last word to a
reader, and `parted` remembers pairs that ended their relationship, since
revoking marks the object grants of one side only.

### Inbound

The way of a stranger's envelope into one home. Two processes, the daemon and a
command, share the files, and each keeps in `work` the copy it has read:
`enforceInboundRate` reads, prunes, counts and writes `inbound-rate.json`;
`verifyEnvelope` reads the seen list (`VerifyEnvelope`) and writes it with the
message added after the lookups in between (`MarkSeen`); `consumeInviteCode`
reads and writes the code; `receiveSupportBundle` and the owner's marks rewrite
the whole inbox. A bundle is a record with its `received_at`, which is what
`pruneSupportBundles` sorts by. It is stamped from `clock` when the envelope has
been verified, so that of two that overlap the one stamped first may be written
last: it is then the oldest in a full inbox, and kept all the same, because it
is the one that arrives (`store-support.ts:36`). The relay is a
third process: a `GET` reads the queue file (`relayed`) into `drain` and then
truncates it, and `inbox pull` applies its `batch` one by one until an envelope
throws or the command ends. `passed`, `byCode`, `settled`, `lost`, `spoiled` and
`respent` are history; the last two are the hits and the uses that an overlap
overwrote. The code assumes that envelopes are received serially
(`store-trust.ts:26`), and the models show that the assumption carries the caps:
what passes a cap is what was spoiled.

### Escalations, Consultation

An agent asks its own owner, or a friend's. A remote escalation is two records
of one id in two homes and two envelopes, and nothing ties the records
together afterwards: `esc[a][i]` is record `i` of `a`'s `escalations.json`,
`net` the envelopes that may be delivered (those delivered before included:
the mailbox may repeat them), `seen` the ones in their recipient's
`seen_messages.json`. Either owner can answer the copy in its own reader, each
home expires its copy when it sweeps, and friends may part at any time.
`asked` and `given` are history: whose owner was asked, and how often an owner
answered. `Answer` stands for the handler and the relay that follows it
(`maybeRelayResponseEnvelope`): a relay that fails is an envelope lost.
Friends only part here; the cycle back is `FriendGraph`.

Nothing in `src/` calls `expireEscalations`, so the sweep is a step that may
happen or not, and an escalation past its time that no sweep has marked can
still be answered. An expiry sends nothing to the agent that asked.

`Consultation` is one question without homes and envelopes: the owner asked
decides once, or its time is up first, and who asked learns that decision.
`Escalations` implements it (`ConsultationSpec`): the verdict is the answer in
the record of the owner asked, and what was learnt is what the asker's record
says once a response was received. Until then the asker's own owner may have
answered the copy in its reader, which the response replaces.

### DialoutConnection

One client in one process, in one of its four programs (`role`): the daemon,
the service of the OpenClaw plugin (`index.js`), a one-shot command,
`edge-book pair`. A socket is a number; `cur` is
`this.socket`, `conn[k]` the state of socket `k`, `promise[k]` the promise its
`connect` made, and `opened` says whose promise `this.opened` resolves: a
`hello_ok` resolves that one, whatever socket it came on. `Connect` is the
whole of `connect`, cut at the await of `openLocalApi` (`opening`); the `open`
listener is cut where it reads the key and the identity, `standDown` at its log
entry. `Reject` ends the process when nobody awaits the promise, which is so of
every `connect` but that of `start()`, and so does the timer of an abandoned
request: nothing in the repository handles an unhandled rejection. `SocketErrors` is
the client on a Node without a `WebSocket` of its own (`dialout.ts:77`): a
socket of the ws package that fails reports an `error` that the client does
not listen for, which ends the process. A request is
one of `sendMailbox`, `rpc` and a proxied API call; how many requests and
sockets there are is a constant. The host, the network and time are external.

A one-shot whose socket closes before `hello_ok` awaits a promise that nobody
settles: `StartSettles` excepts it. `sendSessionsRevoke` and
`sendPairRegistration` do not stop when their request fails (`Abandon`).

OpenClaw may stop the service of the plugin at any time (`ServiceStops`), also
while `connect` awaits `openLocalApi` (`dialout.ts:349`). `connect` does not look
at `stopped` again: it opens the API and a socket that nobody closes, so the
stopped client stays connected. `QuietAfterStop` excepts a client that was
stopped like this (`early`), and `StandDownIsFinal` its first socket. Not
modelled is a second client of the plugin: of two overlapping `startManaged`
calls (`index.js:36`) one overwrites `managedClient` of the other, and
`edge-book pair` given to the plugin runs a client next to it. A stopped
client is never started again: the plugin makes a new one.
`dialout.ts:10` speaks of a jittered backoff; the code has no jitter.

### Feed

The home of an author, seen by one reader, and the feed of that reader; posts
do not read each other's state, so a post has its own `post` and `approval`,
and the author's `contact` and `granted` stand for the reader's contact and
for any active `feed.read.friends` grant to it. `visiblePostsForPeer` and
`importFeedPosts` are two steps, since no code carries the posts from one to
the other: what was `pulled` arrives late, twice or never. Handlers do not
overlap here (that is `ContactFile`), but a crash cuts one after `n` of its
writes, in the order of the code: post, approval, reference; approval, post,
feed item; contact, grants. `public_if_enabled` is served to nobody, like
`private`. Mutes are left out: `store-posts.ts:10` says that items of muted
contacts are surfaced as hidden, but no code that serves or shows the feed
reads the mutes.

What the two exceptions of `PendingIsApprovable` stand for: approving a
`publish_post` approval in the approvals view (`POST /api/approvals/.../resolve`)
changes the approval alone, and `approvePost` then throws `approval_resolved`,
so the post can never be published; and a crash in `approvePost` after its
first write does the same. `ApprovedFirst` excepts posts created as published
(`direct`): `createPost` publishes what an agent authored when asked to,
although `store-posts.ts:6` says that only `approvePost` does. A post cut before its
`approval_ref` was written has an approval that nothing resolves any more
once the post is approved.

### PostTaxonomy

The other posts, by the classes of their lifecycle. `post[p]` is what the
author signed and never changes; `life[p]` is the lifecycle in the author's
file, `Shown(p)` what a reader of the file computes from it and the clock
(`computeLifecycle`), and every creation writes the computed lifecycles of its
file back. `received[b]` is the copy of a friend, which is offered by the clock
alone (`activeReceivedEphemeral`). A publishing command is a creation and a
`broadcastPost`, friend by friend (`stage`, `todo`), to the asker of an answer
first; it stops at the first friend that cannot be reached. `DeleteQuery` and
`Deregister` write several files, and a crash leaves a prefix of them written.

What the code leaves open, and the properties except: `cancelEphemeral` writes
`cancelled` over a tombstone or an expiry, although `store-taxonomy.ts:15` says
that terminal states are preserved (an end stays an end, which is what
`LifeMovesOn` says); `createAnswer` does not look whether the query was
deleted (`late`); a cancelled or deleted query stays actionable at friends,
which are never told (`ended`). And `cli-taxonomy.ts:118` says that the author
of a query must get the answer even when unfriended, but `receivePostPublish`
refuses what a non-friend sends: `AnswerArrives` promises delivery to an asker
who still has the answerer as a friend.

### SelfUpdate

One install root and who changes it: two runs of `self-update` (the notifier
cron's and the owner's), the daemon that exits on drift and is started again by
its supervisor, and the nudges that are printed with the owner's and the
agent's commands. `run[r]` is cut where the code awaits: registry, lock,
takeover of a stale lock, the second attempt, install, verification, record,
release. `tree` and `sound` are what is in the root, `lock` the lock file,
`job` the notifier cron, whose prompt is changed by removing and creating the
job. `AutoUpdateAllowed` says which jumps need no decision of the owner (any from a
release before 1.0, and within a major), and is used in two places that must
agree.

Left open by the code: an install that fails its verification leaves the new
files in place, although `self-update.ts:10` says that the previous install
remains, and the daemon's drift check then exits onto them (`sound`); between
the check and the lock another run may install a newer release, which the older
then replaces, although `self-update.ts:9` says that it never downgrades; two
runs that find a stale lock may both take it over, and the `finally` of one
removes the lock of the other (`InstallsAlone` is therefore about runs of which
none died); a Hermes whose `cron show` fails gets neither migration
(`scheduler = "unreadable"`), and a listing or a change of the cron that fails
once leaves it to the next start of the daemon (`missed`); an owner in mode `auto` whose
root cannot be updated is never nudged. Throttles of checks and nudges are left
out.

### Outreach

Newcomers join packs of which the greeter is a member; what passes between the
two homes is in `requests` and `answers`. `pack join` runs member by member in a
newcomer's home: the state of the contact is looked at, the candidate is
resolved (which may fail), and after a pause the request is created and
delivered (which may fail too). A newcomer may run several at the same time
(`Shells`): `join[n][j]` is cut between the look, whose answer is `seen`, and the
request. `runGreeterPass` accepts each request, records the welcome and collects
what is to be delivered; the deliveries follow, and the first that throws ends
the pass with the rest undelivered. The cron starts passes again. The other
members ask, answer and are answered at any time (`MemberAsks`, `MemberAnswers`,
`NewcomerAccepts`, `NewcomerRejects`), which changes a contact and nothing else.

Three history variables carry the exceptions. `parted` counts decisions of two
agents against each other, after which asking again is right. `late` counts the
requests of a join to a member that had become one to skip since it looked.
`fell` are the envelopes of the greeter that were lost: built by a pass that
stopped before it delivered them, or received more than ten minutes after they
were signed (`store-trust.ts:191`, `:217`).

Left open by the code: two joins that overlap (a retry of a slow one) ask a
member twice, since `joinMember` looks, sleeps and asks without a lock
(`cli-pack.ts:211-215`, `:226-239`), and `JoinAsksOnce` is exact about it. The
summary of `pack join` recommends `--deliver` again, but a second join passes
over every member it has asked already, so that a failed delivery is not
retried by joining; an invite link, and a request that is resolved slowly, may
overwrite `request_received`; a pass that throws loses every accept it has not
delivered, and every welcome, whose key is in the ledger: that friend is never
welcomed, as `store-greeter.ts:13` says; a newcomer who is offline for more
than ten minutes loses its accept for good, and its home shows
`request_sent` while the greeter's shows a friend; a crash between the creation
of the welcome object and the configuration that remembers it makes a second
object (the object is taken as there).

Left out: two passes that overlap, an acceptance by the hand of the greeter's
owner (a pass does the same), and a newcomer that accepts the greeter, which
asks nobody.

## The runs

| Run | Asks | Instance |
|---|---|---|
| `friend_graph` | a block holds until the owner undoes it; `Admission` is implemented: nobody is admitted whom the owner has not last accepted | two agents, one invite-only with a code for one use, 4 envelopes, 2 grants |
| `intake_serial` | nothing acked is lost, `Receipt` is implemented (so that nothing is applied twice), the mailbox drains, the owner hears of every request | 3 envelopes, one of them refused, 1 slot, 1 drop, 1 crash, 1 failing notification, 1 cut cron |
| `files` | blocks, admissions and requests survive serial handlers and a crash; an approval acts once, and again only as often as an overlap overwrote its decision | 2 peers, 4 handlers; 1 slot and 1 crash, or 2 slots |
| `objects_ordered` | readers read what was shared with them, agree with the owner, and lose what was revoked | 3 agents, 1 object, 4 envelopes, 1 end of a relationship |
| `inbound` | caps hold but for what overlaps overwrite, no envelope disappears but in two ways, what leaves the support inbox leaves in order, and what arrives is kept | one bundle filed before, then 2 requests with one single-use code and a bundle, or 3 bundles; caps of 1 per agent and 2 in all, room for 2 bundles, 1 end of a process, 1 command |
| `escalations` | the asker gets the answer, agrees with the owner asked, asks nothing after the end, and `Consultation` is implemented | 2 agents, 2 escalations, 2 answers, 1 end of a relationship |
| `dialout` | one way to the host until stopped, none after (but for a stop while the API opens); every wait ends | 4 programs, 3 sockets, 1 request, backoff 10 to 20, files, hellos and sockets that fail |
| `dialout_drop` | a disagreement, see below | the daemon, 2 sockets, 1 request |
| `feed` | nothing unapproved or gone is served, nobody parted is, and what waits can be approved | 1 post, 2 crashes |
| `taxonomy` | no post comes back to life, answers go with their query, an answer reaches who asked | an author and a reader, 2 posts of every class of lifecycle, 1 crash |
| `self_update` | no two installs at once, a release reaches the daemon or the owner is told, the cron's prompt is migrated | 2 runs, 3 releases in two version histories, an own and a system root, 1 failing command, 1 death |
| `outreach` | nobody is sent two welcomes; joins ask a member again only after the two parted, or by a request that was late; who asks is answered and a friend is sent a welcome, unless that envelope was lost | 2 newcomers, a pack of the greeter and one of two members, 2 joins at a time, 2 joins and commands, 1 mishap, 1 parting |

Deadlock is not checked: a user who does nothing more, a mailbox that has
drained and a bound that is reached all stop a model rightly.

### Why the bounds are enough

Four envelopes and two grants hold every chain the code can distinguish: a
request, its response, a second request and response (or a message) between
the same two agents, with a revoke or block at any place, and the second grant
that makes the order of `grants.json` matter. A home treats its peers
independently, so a second peer matters only where files are written whole
(`files` has two) and where objects are passed on (`objects_ordered`
has three agents). In the intake, a drop and a crash together make a
redelivery of a redelivery; three envelopes make one overtake another and one
be poison. Four handlers on one home are a request, its acceptance, a revoke
or a block, and a late response; two that overlap are a double click. In
`inbound`, two requests race for one use and the windows of their senders, or
three bundles meet an inbox that holds one and has room for two: they push out
a bundle twice, stamped and written in different orders. Two escalations are
one in each direction, or two of one agent, one asked of its own owner; two
answers let the two owners answer one escalation differently. Three sockets
make a reconnection of a reconnection, the last of which finds the listener of
the first still reading its files, and the backoff 10, 17, 20 reaches its cap;
requests do not read each other's state. Nor do posts of the feed; two crashes
cut both a creation and an approval, or a post's handler and a revoke. In the
taxonomy a post is read with others of its file and, if it is an answer, with
its query: two posts are both; the two kinds left out share their class with
one that is there. Three releases let an update be replaced while a second is
checked, and put the step that needs the owner before or after one that does
not. In `outreach` a pass has two newcomers to lose the answers of, one of whom
can ask in every way there is and has a member to ask before the greeter, so
that a join can fail before it comes to the greeter. Two joins of a newcomer
overlap in every way, or follow each other with a parting between.
What holds on these instances and is listed under *Proofs* holds on all.

### Fairness

Each module states the fairness its liveness properties need, and no more.

- `MailboxIntake`: the client reconnects (`scheduleReconnect` rearms itself
  after every close), an await that has started ends, the host offers what it
  holds, the cron fires. Drops, crashes and failures are bounded and never fair.
- `ObjectGrants`: an envelope that is not lost is delivered; no owner has to
  share, revoke or part, and losing an envelope is never owed.
- `Escalations`: an envelope in flight is received sooner or later; no owner
  has to answer and no home has to sweep, so what is promised starts with an
  answer given (`AnswerReturns`).
- `DialoutConnection`: timers fire, awaits end, a connecting socket opens (or
  drops, which is bounded), a closed one reports it, and the host answers a
  hello one way or the other; it need not answer a request, no file need fail,
  and nobody need make a request or stop.
- `PostTaxonomy`: a broadcast that has started goes on or is cut, and an
  envelope that is not lost is received. Nobody has to publish.
- `SelfUpdate`: the notifier cron fires, a run that started goes on, a lock
  grows old, a supervisor starts the daemon, its timers fire, and its start
  finishes what it began; the owner and the agent run commands now and then,
  which is when a nudge is printed, and an agent follows the notifier nudge
  (that is all a nudge can rely on). Nothing makes the owner update, a release
  appear or a command fail.
- `Outreach`: an envelope that is under way arrives, in time or (as a mishap,
  which is bounded) too late; the greeter's cron fires, and a pass goes on.
  Nobody has to join.

## What the documentation says and the code does not do

`dialout_drop` is a run that TLC ends with a violation, and a finding in
`PROJECT.json` with the line it quotes: a request sent while the next socket is
still connecting ends the process five seconds later, where any drop should be
followed by a reconnection (`dialout.ts:10`).

More were met while modelling and have no run of their own; the models show
them where their constants allow:

- An envelope can be acked and never applied: a crash after it was marked seen
  makes its redelivery a replay, which is acked (`dialout.ts:13`; `orphaned` in
  `NothingLost`).
- Overlapping handlers of a redelivered envelope apply it twice
  (`dialout.ts:14`, `store-trust.ts:218`; `MailboxIntake` with two slots).
- A request that is being received undoes a block (`README.md:182`;
  `ContactFile` with two slots).
- Two resolutions of one approval that overlap both act: a second click does not
  always meet the guard of `resolveApproval`, as `http.ts:354` expects
  (`forgotten` in `files`).
- A client that is stopped while its local API opens connects after the stop
  (`dialout.ts:349`; `early` in `dialout`).
- Two overlapping joins ask a member twice (`cli-pack.ts:211`; `late` in
  `outreach`).
- A share that arrives after its revoke restores the read (`README.md:203`;
  `ObjectGrants` with `Ordered = FALSE`).
- An unsolicited `friend_response` turns a request that waits into a friendship
  (`store-friends.ts:250`), although `README.md:128` says that every inbound
  request needs an explicit `friend accept`; it admits nobody, since the grants
  are what admits.
- Accepting issues one grant (`store-friends.ts:211`), not a mutual one as
  `README.md:88` says: the accepter cannot message first.
- A failed notification is not made again by the hook (`notify.ts:105`): the
  envelope is acked, and its redelivery is a replay. The cron makes up for it,
  for friend requests.
- Those of *Feed*, *PostTaxonomy*, *SelfUpdate* and *Outreach* above.

## Proofs

TLAPS checks the theorems below for every value of the constants, under the
named assumptions of each module on its constants and no other. A hypothesis
of a theorem is named here with what it stands for.

- `FriendGraph_proofs`, first part: `TypeCorrect`; the inductive invariant
  `IInv`, and from it `RequestsAwaitApproval`, `BlocksHold`, `GrantsWereIssued`,
  `AdmissionNeedsAcceptance`; the action property `NoMailFromOutsiders`; and
  `Refinement`, that `FriendGraph` implements `Admission`. That only an
  accepted peer is admitted is not inductive: a friendship comes back by a
  late response, so what keeps a revoked peer out is that no active grant to
  it is left. `IInv` says so of the stores and adds that no envelope can
  bring one back: a grant in flight is on record at its issuer.
- `FriendGraph_proofs`, second part, about `ContactFile`: `BlocksSurvive`,
  `OnlyAcceptedAdmitted` and `RequestsAreAnswerable`, for any peers and any
  number of handlers and crashes. These three properties have the premise
  `OneAtATime`: the handlers of this home do not overlap. Without it they fail,
  which is the hazard at `store-friends.ts:67`. `ApprovalsActOnce` has no such
  premise: for any number of overlapping handlers, `OverlapInv` says that an
  approval was decided at most as often as its decision was overwritten, and
  once more while the file has it. The
  invariants are about files between two steps of a handler, where they are
  exactly not in order, so `HomeInv` ties the rest of each program to the files:
  a copy in hand is the file, what a handler has still to do explains what the
  files do not say yet, and a crash leaves of it only what the exceptions of
  the properties name. It also needs what follows what in the programs
  (`Linked`), which is proved of each program of the code.
- `MailboxIntake_proofs`, first part: `TypeCorrect`; `NothingIsLost` for any
  number of overlapping handlers (`LossInv` adds where each handler stands: past
  the mark an envelope is applied, being applied or orphaned); `AppliedOnce` and
  `NotifiedOnce` for a single slot (`OnceInv` relates the seen file and the
  ledger to the step of the one handler); and `ReceiptIsKept`, that a single
  slot implements `Receipt` (`HeldInv` adds that the host holds what a handler
  has not applied, and that no handler comes to apply what a crash caught).
  With two slots the hypothesis `Serial` fails and so do the last three; what
  is left is `RepeatsAreBounded`, for any number of slots: an envelope is applied
  at most once per connection (a redelivery needs a new one) and the hook
  notifies of it at most once per application. Its `CountInv` counts: an
  envelope's applications and the handlers that may still apply it are at most
  the connections that have offered it, and likewise notifications within
  applications.
- `MailboxIntake_proofs`, second part, about `Inbound`, for any envelopes,
  limits and overlaps: `InboundLimits`, `EnvelopesAccounted`, `InboundTypes`
  and the action property `RoomIsMadeInOrder`. `InInv` says where each process
  stands (`WorkOK`), that the relay's lists are of envelopes (`RelayOK`), that
  every envelope is somewhere (`AllHeld`), and of the windows and the code that
  file and copies are within the limits, and that what was let in is in the
  file or was overwritten (`RateOK`, `CodeOK`). `BoxInv` says of the inbox that
  file and copies are in order and that a bundle being received is new to both
  (`FileOK`, `CopyOK`, `ReceivingOK`); that pruning keeps the cap, takes in
  order and leaves the bundle that arrives rests on the least of a finite set
  by age (`LeastNumber`, from well-foundedness). `LimitsAreExact` closes the
  gap of `LimitsHold`: in every behaviour in which one process at a time is at
  work (`[]OneAtWork`, the "serially" of `store-trust.ts:26`, about steps and
  not the number of processes), nothing is overwritten and every cap holds
  exactly. `EveryPassLeavesAHit` says why caps on hits are caps on envelopes:
  no two share a hit.
- `ObjectGrants_proofs`: `TypeCorrect` and `OnlySharedIsRead`, for any order
  of delivery, and `ReadersAgree` under the hypothesis `Ordered`. `SharedInv`
  extends the property to the shares under way from the author: those of
  others carry an object the receiver will refuse. `AgreeInv` says of the
  owner that its grants are its last word, and of the reader that its grants
  are too, once the channel says nothing more of the object; until then the
  channel says it last (`LastWord`). It also needs that grants do not replace
  each other: those of one id mean one issuer, subject and object wherever
  they are (`Meaning`), ids in use are below the counter (`Fresh`), and a home
  holds only what it issued or got from the author (`Located`).
- `Escalations_proofs`: `TypeCorrect`, `OwnersAnswerOnce`, `AskersAgree`, and
  the action properties `AnswersStand` and `PartedAreNotAsked`. `AskerAgrees`
  reads two homes and one seen envelope, and none of the three says why a
  repeated escalation cannot reopen what was answered. `IInv` does: an
  escalation in flight that is not seen has no record at its recipient
  (`Messages`), every record of an id names one raiser (`OneRaiser`), so a
  response comes only from the owner asked, after its only answer
  (`Counted`), and ids not yet raised are nowhere (`Fresh`). From the same
  invariant, `ConsultationIsKept`, step by step: only the owner asked decides,
  a sweep expires what is undecided, an escalation that comes in is filed where
  nothing was settled, and a response brings the verdict.
- `DialoutConnection_proofs`: `TypeCorrect`, `ClientOnItsWay` and
  `StandDownHolds`, for all four programs: no step opens a socket once the
  client was stood down, or was stopped with no API opening. `IInv` adds to
  `OnItsWay` that a timer was armed by a drop, which bounds the sockets
  (`Counted`); that only who stops closes a socket, so the close event of one
  arms nothing (`Halting`); that the local API opens before the first socket
  and never again (`Opening`); and that only `edge-book pair`, which opens
  none, waits for a pairing (`Pairing`).
- `Feed_proofs`: every property of the run, for any posts and number of
  crashes. `Sound` is the inductive form of the invariants for one post: it
  adds that what a reader has was once written, so that a post is not created
  under a reader that has it. The action properties follow from
  `OnlyByPulling` (a reader gets a post it did not have by
  `visiblePostsForPeer` alone) and from `Parted`: a revoke that was not torn
  left no grant, and a block no way back, so a late response does not admit.
- `PostTaxonomy_proofs`: `TypeCorrect`, `AnswersFollow`, `OffersAreLive` and the
  action property `LivesMoveOn`. Whatever the operation, the lifecycle of a
  post stays, becomes what is computed, or becomes an end that the clock or
  the owner gave it (`Moved`), and each conjunct of the invariant follows from
  that alone: an answer's parent is an ephemeral post (`Parented`), only the
  clock makes a post stale (`Aged`), only the clock and owners end one
  (`LiveUnlessEnded`), and what is delivered was made (`Staged`).
- `SelfUpdate_proofs`: `TypeCorrect`, `OneInstalls` and `RecordedIsThere`. As
  long as no process died, the lock is held exactly while one run is between
  taking and removing it, and nobody takes a lock over (`Apart`); `RecordsWhatRuns`
  is part of it, since what a run verified is in the tree until it lets go.
- `SelfUpdate_proofs`, second part, about `Outreach`, for any newcomers, packs
  and mishaps: `WelcomesOnce`, `JoinsAskOnce` (with any number of joins at a
  time) and `OutTypes`. `OutInv` adds that a pass goes through its lists once
  and has none of its friends in the ledger (`PassKeepsCount`), that a welcome
  that waits for its delivery is in the ledger and is the only one
  (`OneWelcome`), and that for a member a join would not skip, the decisions of
  the two against each other and the late requests leave room for one request
  more (`RoomToAsk`).

Only model-checked is liveness, which the prover cannot reach: `MailboxDrains`,
`OwnerIsTold`, `RevokeArrives`, `AnswerReturns`, `AnswerArrives`,
`QuietAfterStop`, `ComesBack`, `EveryWaitEnds`, `StartSettles`,
`ReleaseReachesDaemon`, `OwnerIsNudged`, `NotifierMigrates`,
`AskersAreAnswered` and `FriendsAreWelcomed`. Every invariant and action
property of a passing run, and every refinement, is also a theorem.

## The plan

1. Done: every component of the table above whose steps meet those of another
   actor; proofs of every safety property that a run checks.
2. Left: the intake feeding the friend graph, so that a promise of `Receipt`
   becomes one of `Admission`; what is left of `ContactFile` when handlers
   overlap on different files.

## Not modelled

- Sessions. The local API logs in once for 24 hours and never again
  (`dialout-local-api.ts:58`), so a daemon that runs longer answers every
  proxied request with its own 401; and `requireSession` writes back all of
  `sessions.json` (`store-trust.ts:264`), so a request that overlaps a logout
  undoes it. Both are losses of the kind `ContactFile` and `Inbound` show, and
  there is no property that holds.
- The outbox: an append to a capped list after a delivery; nothing depends on it.
- Throttles of checks and nudges, `dialout_respawn_expected` switched off, and
  the overlapping rewrites of `config.json`.
- Attachments and grants that expire; marks of reading and mutes.
- Text, markup and command-line parsing, key material and signatures (what an
  agent signs verifies), the schema of wire frames (a frame it refuses is a
  frame not delivered), diagnostics, and the smoke harness.
