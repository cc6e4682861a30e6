------------------------------ MODULE Inbound ------------------------------
(***************************************************************************)
(* What a stranger's envelope passes on its way into a home: the queue of  *)
(* a relay (src/http-relay.ts) that `inbox pull` drains and applies        *)
(* (src/cli-social.ts), or the mailbox of the host; the inbound windows    *)
(* (enforceInboundRate of src/store-trust.ts); the invite codes of an      *)
(* invite-only home (consumeInviteCode of src/store-friends.ts); and the   *)
(* support inbox with its cap (src/store-support.ts).                      *)
(*                                                                         *)
(* Two processes share the home, the daemon and a command, and each of     *)
(* these files is read whole, changed and written whole with nothing       *)
(* locked, so each keeps the copy it has read.  What filing a friend       *)
(* request does is FriendGraph; overlapping frames of one daemon are       *)
(* MailboxIntake.                                                          *)
(***************************************************************************)
EXTENDS Naturals, Sequences, FiniteSets, SequencesExt

CONSTANTS
    Requests,   \* friend_request envelopes
    Bundles,    \* support_bundle envelopes
    From,       \* From[e]: the agent that sent e
    Earlier,    \* the bundles in the inbox at the start, a sequence
    Pasts,      \* what was filed or refused before the start, one of these
    ViaRelay,   \* the envelopes sent by the relay, not by the host
    WithCode,   \* the requests that carry the invite code
    Known,      \* agents in state request_sent or friend: need no code
    MaxPeer,    \* inbound_max_per_peer
    MaxGlobal,  \* inbound_max_global
    MaxUses,    \* max_uses of the code; 0 is unlimited
    Keep,       \* SUPPORT_BUNDLE_KEEP
    MaxEnds,    \* bound: ends of a process
    MaxOwner    \* bound: commands of the owner

Envelopes == Requests \cup Bundles

(* A limit that is 0 lets nobody in.                                       *)
ASSUME LimitsAssumption ==
    /\ Keep \in Nat \ {0}
    /\ MaxPeer \in Nat /\ MaxGlobal \in Nat /\ MaxUses \in Nat
    /\ MaxEnds \in Nat /\ MaxOwner \in Nat
ASSUME FromAssumption ==
    DOMAIN From = Envelopes /\ Requests \cap Bundles = {}
ASSUME PastAssumption ==
    /\ Earlier \in Seq(Bundles) /\ IsInjective(Earlier) /\ Len(Earlier) <= Keep
    /\ ViaRelay \subseteq Envelopes
    /\ Pasts \subseteq SUBSET Envelopes
    /\ \A past \in Pasts : ToSet(Earlier) \subseteq past

VARIABLES
    unsent,     \* envelopes nobody has posted to the relay yet
    relayed,    \* the relay's file for this agent
    drain,      \* the copy a running GET has read, or NotDraining
    batch,      \* what `inbox pull` was given and has not applied
    mailbox,    \* envelopes the host holds until they are acked
    work,       \* work[s]: the envelope or command in hand
    verified,   \* seen-messages.json
    rate,       \* inbound-rate.json: hits
    uses,       \* uses of the code in invite-codes.json
    expired,    \* the code has expired
    bundles,    \* support-bundles.json
    clock,      \* the last received_at that was stamped
    settled,    \* envelopes that were filed or refused
    ends,
    owner,      \* commands the owner has given
    passed,     \* history: every hit of the window that passed
    byCode,     \* history: requests that passed by the code
    spoiled,    \* history: hits a stale copy overwrote
    respent,    \* history: uses a stale copy overwrote
    lost        \* history: envelopes torn from the relay or a batch

relayVars == <<unsent, relayed, drain, batch, mailbox>>
rateVars == <<rate, passed, spoiled>>
codeVars == <<uses, expired, byCode, respent>>
inboundVars == <<relayVars, work, verified, rateVars, codeVars, bundles, clock,
                 settled, ends, owner, lost>>

NotDraining == <<"none">>
Processes == {"daemon", "cli"}
AtRest == [at |-> "idle", env |-> "none", hits |-> {}, uses |-> 0,
           received |-> 0, kept |-> {}, seen |-> {}]

InStep(s, step) == work[s].at = step
Sender(s) == From[work[s].env]
Advance(s, step) == work' = [work EXCEPT ![s].at = step]

-----------------------------------------------------------------------------
(* The relay and the mailbox.  What the host has not delivered it may as   *)
(* well not have been sent, so all of it is there from the start.          *)

PostToRelay(e) ==
    /\ e \in unsent
    /\ unsent' = unsent \ {e}
    /\ relayed' = Append(relayed, e)
    /\ UNCHANGED <<drain, batch, mailbox, work, verified, rateVars, codeVars,
                   bundles, clock, settled, ends, lost, owner>>

(* `inbox pull` asks the relay, which reads the file ...                   *)
DrainRead ==
    /\ drain = NotDraining /\ batch = <<>> /\ InStep("cli", "idle")
    /\ relayed # <<>>
    /\ drain' = relayed
    /\ UNCHANGED <<unsent, relayed, batch, mailbox, work, verified, rateVars,
                   codeVars, bundles, clock, settled, ends, lost, owner>>

(* ... and empties it, whatever was appended in between.  The slip is to   *)
(* answer with the first envelope alone.                                   *)
FirstOf(lines) == <<Head(lines)>>
Answer(lines) == lines

DrainTruncate ==
    /\ drain # NotDraining
    /\ relayed' = <<>>
    /\ batch' = Answer(drain)
    /\ drain' = NotDraining
    /\ lost' = lost \cup (ToSet(relayed) \ ToSet(drain))
    /\ UNCHANGED <<unsent, mailbox, work, verified, rateVars, codeVars, bundles,
                   clock, settled, ends, owner>>

(* The gate of a support inbox comes before everything else; a request is  *)
(* verified first, and throttled when it is already marked as seen.        *)
FirstStep(e) == IF e \in Requests THEN "verify" ELSE "rate"
Begin(s, e) == work' = [work EXCEPT ![s] = [AtRest EXCEPT !.at = FirstStep(e),
                                                          !.env = e]]

ApplyNext ==
    /\ InStep("cli", "idle") /\ batch # <<>>
    /\ Begin("cli", Head(batch))
    /\ batch' = Tail(batch)
    /\ UNCHANGED <<unsent, relayed, drain, mailbox, verified, rateVars, codeVars,
                   bundles, clock, settled, ends, lost, owner>>

DeliverMail(e) ==
    /\ InStep("daemon", "idle") /\ e \in mailbox
    /\ Begin("daemon", e)
    /\ UNCHANGED <<relayVars, verified, rateVars, codeVars, bundles, clock, settled,
                   ends, lost, owner>>

(* The end of a handler.  The daemon acks, whatever came of it; a throw    *)
(* ends the command, and what it has not applied is in nobody's hands.     *)
Settle(s) ==
    /\ work' = [work EXCEPT ![s] = AtRest]
    /\ settled' = settled \cup {work[s].env}
    /\ mailbox' = IF s = "daemon" THEN mailbox \ {work[s].env} ELSE mailbox
File(s) == Settle(s) /\ UNCHANGED <<batch, lost>>
Refuse(s) ==
    /\ Settle(s)
    /\ IF s = "cli"
       THEN batch' = <<>> /\ lost' = lost \cup ToSet(batch)
       ELSE UNCHANGED <<batch, lost>>

EndProcess(s) ==
    /\ ends < MaxEnds
    /\ ends' = ends + 1
    /\ work' = [work EXCEPT ![s] = AtRest]
    /\ IF s = "cli"
       THEN /\ batch' = <<>>
            /\ lost' = lost \cup ToSet(batch) \cup {work[s].env}
       ELSE UNCHANGED <<batch, lost>>
    /\ UNCHANGED <<unsent, relayed, drain, mailbox, verified, rateVars, codeVars,
                   bundles, clock, settled, owner>>

-----------------------------------------------------------------------------
(* The handlers.                                                           *)

(* A message seen before is a replay, and refused.                         *)
VerifyEnvelope(s) ==
    /\ InStep(s, "verify")
    /\ IF work[s].env \in verified
       THEN Refuse(s)
       ELSE /\ work' = [work EXCEPT ![s].at = "mark", ![s].seen = verified]
            /\ UNCHANGED <<batch, mailbox, settled, lost>>
    /\ UNCHANGED <<unsent, relayed, drain, verified, rateVars, codeVars, bundles,
                   clock, ends, owner>>

(* The contacts and the signature are looked at in between, so the list    *)
(* that is written back may miss a mark.  A bundle gets its received_at.   *)
MarkSeen(s) ==
    /\ InStep(s, "mark")
    /\ verified' = work[s].seen \cup {work[s].env}
    /\ IF work[s].env \in Requests
       THEN /\ work' = [work EXCEPT ![s].seen = {}, ![s].at = "rate"]
            /\ UNCHANGED clock
       ELSE /\ clock' = clock + 1
            /\ work' = [work EXCEPT ![s].seen = {}, ![s].at = "bundle",
                                    ![s].received = clock + 1]
    /\ UNCHANGED <<relayVars, rateVars, codeVars, bundles, settled, ends, lost, owner>>

(* enforceInboundRate: the hits of the window, per sender and of all; the  *)
(* slip is to let one more in.                                             *)
HitsOf(p) == Cardinality({h \in rate : h.from = p})
OverByOne(p) == HitsOf(p) > MaxPeer \/ Cardinality(rate) > MaxGlobal
Over(p) == HitsOf(p) >= MaxPeer \/ Cardinality(rate) >= MaxGlobal

RateRead(s) ==
    /\ InStep(s, "rate")
    /\ IF Over(Sender(s))
       THEN Refuse(s)
       ELSE /\ work' = [work EXCEPT ![s].at = "hit", ![s].hits = rate]
            /\ UNCHANGED <<batch, mailbox, settled, lost>>
    /\ UNCHANGED <<unsent, relayed, drain, verified, rateVars, codeVars, bundles,
                   clock, ends, owner>>

RateWrite(s) ==
    LET hit == [from |-> Sender(s),
                n |-> CHOOSE n \in 1 .. Cardinality(passed) + 1 :
                          [from |-> Sender(s), n |-> n] \notin passed]
    IN  /\ InStep(s, "hit")
        /\ rate' = work[s].hits \cup {hit}
        /\ passed' = passed \cup {hit}
        /\ spoiled' = spoiled \cup (rate \ work[s].hits)
        /\ work' = [work EXCEPT ![s].hits = {},
                                ![s].at = IF work[s].env \in Requests THEN "gate"
                                          ELSE "verify"]
        /\ UNCHANGED <<relayVars, verified, codeVars, bundles, clock, settled, ends,
                       lost, owner>>

(* A hit leaves the window: whoever reads the file or has read it drops it *)
(* before it counts.                                                       *)
Age(h) ==
    /\ h \in passed
    /\ rate' = rate \ {h} /\ passed' = passed \ {h} /\ spoiled' = spoiled \ {h}
    /\ work' = [s \in Processes |-> [work[s] EXCEPT !.hits = @ \ {h}]]
    /\ UNCHANGED <<relayVars, verified, codeVars, bundles, clock, settled, ends, lost, owner>>

(* The invite-only gate: request_sent and friend bypass it, a usable code  *)
(* opens it.  The slip is to look at its expiry alone.                     *)
CodeCurrent == ~expired
CodeUsable == ~expired /\ (MaxUses = 0 \/ uses < MaxUses)
Gate(s) ==
    /\ InStep(s, "gate")
    /\ \/ /\ Sender(s) \in Known
          /\ Advance(s, "file")
          /\ UNCHANGED <<batch, mailbox, settled, lost>>
       \/ /\ Sender(s) \notin Known /\ work[s].env \in WithCode /\ CodeUsable
          /\ work' = [work EXCEPT ![s].at = "use", ![s].uses = uses]
          /\ UNCHANGED <<batch, mailbox, settled, lost>>
       \/ /\ Sender(s) \notin Known
          /\ ~(work[s].env \in WithCode /\ CodeUsable)
          /\ Refuse(s)
    /\ UNCHANGED <<unsent, relayed, drain, verified, rateVars, codeVars, bundles,
                   clock, ends, owner>>

(* The use is written back before the request is filed.                    *)
ConsumeInviteCode(s) ==
    /\ InStep(s, "use")
    /\ uses' = work[s].uses + 1
    /\ byCode' = byCode \cup {work[s].env}
    /\ respent' = respent + (uses - work[s].uses)
    /\ work' = [work EXCEPT ![s].at = "file", ![s].uses = 0]
    /\ UNCHANGED <<relayVars, verified, rateVars, expired, bundles, clock, settled,
                   ends, lost, owner>>

CodeExpires ==
    /\ ~expired
    /\ expired' = TRUE
    /\ UNCHANGED <<relayVars, work, verified, rateVars, uses, byCode, respent,
                   bundles, clock, settled, ends, lost, owner>>

FileRequest(s) ==
    /\ InStep(s, "file")
    /\ File(s)
    /\ UNCHANGED <<unsent, relayed, drain, verified, rateVars, codeVars, bundles,
                   clock, ends, owner>>

BundlesRead(s) ==
    /\ InStep(s, "bundle")
    /\ work' = [work EXCEPT ![s].at = "keep", ![s].kept = bundles]
    /\ UNCHANGED <<relayVars, verified, rateVars, codeVars, bundles, clock, settled,
                   ends, lost, owner>>

(* pruneSupportBundles: the dismissed go first, then the others, oldest    *)
(* first, and never the one just received.  The slip is to take any.        *)
GoesBefore(q, r) ==
    \/ q.status = "dismissed" /\ r.status # "dismissed"
    \/ /\ (q.status = "dismissed") = (r.status = "dismissed")
       /\ q.received < r.received

PruneAny(all, newest) ==
    all \ {r \in all : Cardinality({q \in all : GoesBefore(q, r)})
                           < Cardinality(all) - Keep}
Prune(all, newest) ==
    LET evictable == {r \in all : r.id # newest}
    IN  all \ {r \in evictable : Cardinality({q \in evictable : GoesBefore(q, r)})
                                     < Cardinality(all) - Keep}

ReceiveSupportBundle(s) ==
    LET record == [id |-> work[s].env, status |-> "pending",
                   received |-> work[s].received]
        others == {r \in work[s].kept : r.id # record.id}
    IN  /\ InStep(s, "keep")
        /\ bundles' = Prune(others \cup {record}, record.id)
        /\ File(s)
        /\ UNCHANGED <<unsent, relayed, drain, verified, rateVars, codeVars, clock,
                       ends, owner>>

-----------------------------------------------------------------------------
(* The owner's commands: `support read`, `support dismiss` and             *)
(* `friend invite` rewrite the files they read.                            *)

SetStatus(copy, id, status) ==
    {IF r.id = id THEN [r EXCEPT !.status = status] ELSE r : r \in copy}

SetSupportBundleStatusRead(id, status) ==
    /\ InStep("cli", "idle") /\ batch = <<>> /\ drain = NotDraining
    /\ \E r \in bundles : r.id = id
    /\ work' = [work EXCEPT !["cli"].at = "status",
                            !["cli"].kept = SetStatus(bundles, id, status)]
    /\ owner < MaxOwner /\ owner' = owner + 1
    /\ UNCHANGED <<relayVars, verified, rateVars, codeVars, bundles, clock, settled,
                   ends, lost>>

SetSupportBundleStatusWrite ==
    /\ InStep("cli", "status")
    /\ bundles' = work["cli"].kept
    /\ work' = [work EXCEPT !["cli"] = AtRest]
    /\ UNCHANGED <<relayVars, verified, rateVars, codeVars, clock, settled, ends, lost, owner>>

MintInviteCodeRead ==
    /\ InStep("cli", "idle") /\ batch = <<>> /\ drain = NotDraining
    /\ work' = [work EXCEPT !["cli"].at = "mint", !["cli"].uses = uses]
    /\ owner < MaxOwner /\ owner' = owner + 1
    /\ UNCHANGED <<relayVars, verified, rateVars, codeVars, bundles, clock, settled,
                   ends, lost>>

(* The other codes go back as they were read.                              *)
MintInviteCodeWrite ==
    /\ InStep("cli", "mint")
    /\ uses' = work["cli"].uses
    /\ respent' = respent + (uses - work["cli"].uses)
    /\ work' = [work EXCEPT !["cli"] = AtRest]
    /\ UNCHANGED <<relayVars, verified, rateVars, expired, byCode, bundles,
                   clock, settled, ends, lost, owner>>

-----------------------------------------------------------------------------
InboundInit ==
    /\ \E past \in Pasts :
         /\ verified = past /\ settled = past
         /\ unsent = ViaRelay \ past /\ mailbox = Envelopes \ (ViaRelay \cup past)
    /\ relayed = <<>> /\ drain = NotDraining /\ batch = <<>> /\ lost = {}
    /\ work = [s \in Processes |-> AtRest]
    /\ clock = Len(Earlier) /\ ends = 0 /\ owner = 0
    /\ rate = {} /\ passed = {} /\ spoiled = {}
    /\ uses = 0 /\ expired = FALSE /\ byCode = {} /\ respent = 0
    /\ bundles = {[id |-> Earlier[i], status |-> "pending", received |-> i] :
                      i \in DOMAIN Earlier}

Handler(s) ==
    \/ VerifyEnvelope(s)
    \/ MarkSeen(s)
    \/ RateRead(s)
    \/ RateWrite(s)
    \/ Gate(s)
    \/ ConsumeInviteCode(s)
    \/ FileRequest(s)
    \/ BundlesRead(s)
    \/ ReceiveSupportBundle(s)

InboundNext ==
    \/ \E e \in Envelopes : PostToRelay(e)
    \/ \E e \in Envelopes : DeliverMail(e)
    \/ DrainRead
    \/ DrainTruncate
    \/ ApplyNext
    \/ \E s \in Processes : Handler(s)
    \/ \E s \in Processes : EndProcess(s)
    \/ \E h \in passed : Age(h)
    \/ CodeExpires
    \/ \E b \in Bundles, status \in {"read", "dismissed"} :
          SetSupportBundleStatusRead(b, status)
    \/ SetSupportBundleStatusWrite
    \/ MintInviteCodeRead
    \/ MintInviteCodeWrite

InboundSpec == InboundInit /\ [][InboundNext]_inboundVars

-----------------------------------------------------------------------------
Ids(file) == {r.id : r \in file}
InHand == {work[s].env : s \in Processes}

(* Every file keeps its shape, the code no more uses than it allows, and   *)
(* the support inbox is within its cap and holds no bundle twice, however  *)
(* the handlers that rewrite it overlap.                                   *)
InboundTypeOK ==
    /\ relayed \in Seq(Envelopes) /\ batch \in Seq(Envelopes)
    /\ drain = NotDraining \/ drain \in Seq(Envelopes)
    /\ unsent \cup mailbox \cup verified \subseteq Envelopes
    /\ {work[s].at : s \in Processes} \subseteq
            {"idle", "verify", "mark", "rate", "hit", "gate", "use", "file", "bundle",
             "keep", "status", "mint"}
    /\ uses \in Nat /\ (MaxUses > 0 => uses <= MaxUses)
    /\ rate \subseteq passed
    /\ bundles \subseteq [id : Bundles, status : {"pending", "read", "dismissed"},
                           received : Nat]
    /\ Cardinality(bundles) <= Keep
    /\ \A q, r \in bundles : q.id = r.id => q = r

(* The limits hold, but for what overlapping handlers overwrote: never     *)
(* more hits of one agent or of all in a window than configured, and never *)
(* more requests by a code than it has uses (enforceInboundRate,           *)
(* consumeInviteCode).  Without overlaps nothing is overwritten.           *)
LimitsHold ==
    LET counted == passed \ spoiled IN
    /\ \A h \in counted : Cardinality({g \in counted : g.from = h.from}) <= MaxPeer
    /\ Cardinality(counted) <= MaxGlobal
    /\ MaxUses > 0 => Cardinality(byCode) <= MaxUses + respent

(* No envelope disappears but two ways: appended to the relay between its  *)
(* read and its truncation, or drained by a command that ended before it   *)
(* came to it.                                                             *)
Accounted ==
    \A e \in Envelopes :
        e \in unsent \cup ToSet(relayed) \cup ToSet(batch) \cup mailbox
              \cup InHand \cup settled \cup lost
              \cup (IF drain = NotDraining THEN {} ELSE ToSet(drain))

(* A received bundle is taken out to make room only: what is dismissed     *)
(* before what is not, and the older before the newer; and the one just    *)
(* received is in the file that its handler writes, also when it was       *)
(* stamped before everything that is in there (pruneSupportBundles).  The  *)
(* exception is a bundle that came, or was marked, after the writer read   *)
(* the file.                                                               *)
Writes(s) == ~InStep(s, "idle") /\ InStep(s, "idle")'
Arriving == {work[s].env : s \in {t \in Processes : Writes(t)}}
Received(s) == InStep(s, "keep") /\ Writes(s) /\ ends' = ends
Leaving == {r \in bundles : r.id \notin Ids(bundles')}
Unread == {r \in bundles : \A s \in Processes : Writes(s) => r \notin work[s].kept}
MakesRoomInOrder ==
    [][/\ \A s \in Processes : Received(s) => work[s].env \in Ids(bundles')
       /\ \A r \in Leaving \ Unread :
             /\ Cardinality(bundles') = Keep
             /\ \A q \in bundles' : q.id \notin Arriving => GoesBefore(r, q)]_inboundVars
=============================================================================
