------------------------- MODULE DialoutConnection -------------------------
(***************************************************************************)
(* One run of EdgeBookDialoutClient (src/dialout.ts): the socket and its   *)
(* successors, the promises of connect(), the reconnect timer, the local   *)
(* API, stand-down, and what waits for an answer of the host.              *)
(*                                                                         *)
(* The client runs in one of four programs: the daemon of edge-book        *)
(* dialout, the service of the OpenClaw plugin (index.js), a one-shot      *)
(* command (dialout-oneshot.ts), and edge-book pair.                       *)
(* Each promise nobody awaits ends the process when it rejects: nothing in *)
(* the repository handles unhandledRejection.  The host, the network and   *)
(* time are external: a socket may close at any time, the host accepts or  *)
(* refuses a hello, answers or not.  Envelopes are in MailboxIntake.       *)
(***************************************************************************)
EXTENDS Naturals

CONSTANTS
    Requests,     \* mailbox sends, rpcs and proxied API calls
    Roles,        \* the programs considered
    Faults,       \* "refusal": the host may answer hello_err;
                  \* "files": the key or the identity may be unreadable;
                  \* "ws": a Node without a WebSocket of its own
    BackoffMs, MaxBackoffMs,
    MaxDrops      \* bound: sockets that close although nobody closed them

ASSUME RolesAssumption == Roles \subseteq {"daemon", "plugin", "oneshot", "pair"}
ASSUME BackoffAssumption ==
    /\ BackoffMs \in Nat /\ MaxBackoffMs \in Nat
    /\ BackoffMs <= MaxBackoffMs
ASSUME BoundsAssumption == MaxDrops \in Nat

VARIABLES
    role, proc, prog,
    stopped, standing,  \* standing: how far standDown has come
    early,              \* history: stop() came while openLocalApi was awaited
    opening, api,       \* connect awaits openLocalApi; localApi is set
    timers, backoff,    \* reconnect timers armed; currentBackoff
    cur, conn,          \* this.socket, and the state of each socket
    greeting,           \* sockets whose open listener awaits key or identity
    hello,              \* sockets on which a hello waits for its answer
    opened, promise,    \* this.opened, and the promise of each connect
    up, refused,        \* history: sockets with a hello_ok, a hello_err
    req, sentOn,        \* requests, and the socket each was sent on
    orphans,            \* requests whose promise was abandoned, timer armed
    pairing,            \* the PairCompleteWaiter of edge-book pair
    monitor, stale,     \* the drift timer; the install on disk is newer
    drops

process == <<role, prog>>
ending == <<stopped, standing, api, early>>
link == <<opening, timers, backoff, cur, conn, drops>>
handshake == <<greeting, hello, opened, promise, up, refused>>
waits == <<req, sentOn, orphans, pairing>>
update == <<monitor, stale>>
vars == <<process, proc, ending, link, handshake, waits, update>>

Sockets == 1..(MaxDrops + 1)
Reconnect == role # "oneshot"
WithApi == role \in {"daemon", "plugin"}
Live(k) == conn[k] \in {"connecting", "open"}
Sent(k) == cur = k /\ conn[k] = "open"
CannotSend == cur # 0 /\ conn[cur] = "connecting"

-----------------------------------------------------------------------------
(* connect, and the promise it waits for.                                  *)

NewSocket ==
    /\ cur' = cur + 1
    /\ conn' = [conn EXCEPT ![cur + 1] = "connecting"]
    /\ promise' = [promise EXCEPT ![cur + 1] = "pending"]
    /\ opened' = cur + 1

Resolve(k) ==
    promise' = IF k = 0 THEN promise
               ELSE [promise EXCEPT ![k] = IF @ = "pending" THEN "resolved"
                                           ELSE @]

(* Only start() awaits a connect; the others are void.                     *)
Reject(k) ==
    /\ promise' = IF k = 0 THEN promise
                  ELSE [promise EXCEPT ![k] = IF @ = "pending"
                                              THEN "rejected" ELSE @]
    /\ proc' = IF k > 1 /\ promise[k] = "pending" THEN "ended" ELSE proc

(* Slip: a connect that is not attempted while one was under way.          *)
ConnectOnce ==
    IF stopped \/ opened # 0 THEN UNCHANGED <<opening, cur, conn, promise, opened>>
    ELSE IF WithApi /\ ~api
         THEN opening' = TRUE /\ UNCHANGED <<cur, conn, promise, opened>>
         ELSE NewSocket /\ UNCHANGED opening

Connect ==
    IF stopped THEN UNCHANGED <<opening, cur, conn, promise, opened>>
    ELSE IF WithApi /\ ~api
         THEN opening' = TRUE /\ UNCHANGED <<cur, conn, promise, opened>>
         ELSE NewSocket /\ UNCHANGED opening

Start ==
    /\ prog = "idle"
    /\ prog' = "starting"
    /\ Connect
    /\ UNCHANGED <<role, proc, ending, timers, backoff, drops, greeting,
                   hello, up, refused, waits, update>>

(* connect does not look at stopped again.                                 *)
ApiOpened ==
    /\ opening
    /\ opening' = FALSE
    /\ api' = TRUE
    /\ NewSocket
    /\ UNCHANGED <<process, proc, stopped, standing, early, timers, backoff,
                   drops, greeting, hello, up, refused, waits, update>>

(* openLocalApi throws, and so does the start() that waits for it.         *)
ApiFails ==
    /\ opening
    /\ opening' = FALSE
    /\ prog' = "failed"
    /\ UNCHANGED <<role, proc, ending, timers, backoff, drops, cur, conn,
                   handshake, waits, update>>

(* The open listener resets the backoff and begins to read its files.      *)
SocketOpens(k) ==
    /\ conn[k] = "connecting"
    /\ conn' = [conn EXCEPT ![k] = "open"]
    /\ backoff' = BackoffMs
    /\ greeting' = greeting \cup {k}
    /\ UNCHANGED <<process, proc, ending, opening, timers, cur, drops, hello,
                   opened, promise, up, refused, waits, update>>

(* ... and then sends hello, on the socket that is this.socket by then.    *)
(* A socket still connecting throws, one that has closed drops it.         *)
SendHello(k) ==
    /\ k \in greeting
    /\ greeting' = greeting \ {k}
    /\ IF CannotSend
       THEN Reject(k) /\ opened' = 0 /\ UNCHANGED hello
       ELSE /\ hello' = hello \cup {j \in Sockets : Sent(j)}
            /\ UNCHANGED <<proc, opened, promise>>
    /\ UNCHANGED <<process, ending, link, up, refused, waits, update>>

(* The key or the identity cannot be read.                                 *)
HelloFails(k) ==
    /\ "files" \in Faults
    /\ k \in greeting
    /\ greeting' = greeting \ {k}
    /\ Reject(k)
    /\ opened' = 0
    /\ UNCHANGED <<process, ending, link, hello, up, refused, waits, update>>

(* hello_ok resolves whatever promise is in this.opened, and arms the      *)
(* drift monitor.                                                          *)

HelloOk(k) ==
    /\ k \in hello /\ conn[k] = "open"
    /\ hello' = hello \ {k}
    /\ up' = up \cup {k}
    /\ Resolve(opened)
    /\ opened' = 0
    /\ monitor' = TRUE
    /\ UNCHANGED <<process, proc, ending, link, greeting, refused, waits, stale>>

(* Slip: the refusal is not told to whoever waits.                         *)
RefuseQuietly == UNCHANGED <<proc, promise>>
Refuse == Reject(opened)

HelloErr(k) ==
    /\ "refusal" \in Faults
    /\ k \in hello /\ conn[k] = "open"
    /\ hello' = hello \ {k}
    /\ refused' = refused \cup {k}
    /\ Refuse
    /\ opened' = 0
    /\ UNCHANGED <<process, ending, link, greeting, up, waits, update>>

-----------------------------------------------------------------------------
(* The close listener, and the timer it arms.                              *)

Grown ==
    LET next == (17 * backoff + 5) \div 10   \* Math.round(1.7 * backoff)
    IN  IF next < MaxBackoffMs THEN next ELSE MaxBackoffMs

(* Slip: only a connection that was up is made again.                      *)
ReconnectsOnceUp(k) == ~stopped /\ Reconnect /\ k \in up
Reconnects(k) == ~stopped /\ Reconnect

OnClose(k) ==
    /\ conn' = [conn EXCEPT ![k] = "closed"]
    /\ IF Reconnects(k)
       THEN timers' = timers + 1 /\ backoff' = Grown
       ELSE UNCHANGED <<timers, backoff>>
    /\ UNCHANGED <<process, proc, ending, opening, cur, handshake, waits, update>>

Drop(k) ==
    /\ Live(k)
    /\ drops < MaxDrops
    /\ drops' = drops + 1
    /\ OnClose(k)

(* The sockets of the ws package report an error to listeners the client   *)
(* has not added, and so to the process.                                   *)
SocketErrors(k) ==
    /\ "ws" \in Faults
    /\ Live(k)
    /\ proc' = "ended"
    /\ UNCHANGED <<process, ending, link, handshake, waits, update>>

(* The close event of a socket that this side closed.                      *)
Closed(k) ==
    /\ conn[k] = "closing"
    /\ OnClose(k)
    /\ UNCHANGED drops

Fire ==
    /\ timers > 0
    /\ timers' = timers - 1
    /\ Connect
    /\ UNCHANGED <<process, proc, ending, backoff, drops, greeting, hello, up,
                   refused, waits, update>>

(* What stop and standDown do after stopped was set: the timer is cleared, *)
(* the socket closed, the local API closed.  The slip leaves the API open. *)
HaltSocket ==
    /\ timers' = 0
    /\ conn' = [k \in Sockets |-> IF k = cur /\ Live(k) THEN "closing"
                                  ELSE conn[k]]
    /\ UNCHANGED api
Halt ==
    /\ timers' = 0
    /\ conn' = [k \in Sockets |-> IF k = cur /\ Live(k) THEN "closing"
                                  ELSE conn[k]]
    /\ api' = FALSE

(* A stand_down frame, up to the await of its log entry.                   *)
StandDown(k) ==
    /\ k \in up /\ conn[k] = "open"
    /\ standing = "no"
    /\ standing' = "closing"
    /\ stopped' = TRUE
    /\ monitor' = FALSE
    /\ UNCHANGED <<process, proc, api, early, link, handshake, waits, stale>>

StandDownCloses ==
    /\ standing = "closing"
    /\ standing' = "done"
    /\ Halt
    /\ UNCHANGED <<process, proc, stopped, early, opening, backoff, cur, drops,
                   handshake, waits, update>>

-----------------------------------------------------------------------------
(* What waits for an answer.                                               *)

(* sendMailbox and rpc: the promise is made and its timer armed before the *)
(* frame is sent.  When send throws, the promise stays behind.             *)
Ask(r) ==
    IF CannotSend
    THEN /\ req' = [req EXCEPT ![r] = "failed"]
         /\ orphans' = orphans \cup {r}
         /\ UNCHANGED sentOn
    ELSE /\ req' = [req EXCEPT ![r] = "pending"]
         /\ sentOn' = [sentOn EXCEPT ![r] =
                          IF conn[cur] = "open" THEN cur ELSE 0]
         /\ UNCHANGED orphans

(* The answer of the host arrives, before or after the timer.              *)
Answer(r) ==
    /\ sentOn[r] # 0 /\ conn[sentOn[r]] = "open"
    /\ sentOn' = [sentOn EXCEPT ![r] = 0]
    /\ IF req[r] = "pending"
       THEN \E result \in {"ok", "failed"} : req' = [req EXCEPT ![r] = result]
       ELSE UNCHANGED req
    /\ UNCHANGED <<process, proc, ending, link, handshake, orphans, pairing, update>>

(* Slip: a socket that closes takes the timers of its requests with it.    *)
ArmedOnOpen(r) == sentOn[r] # 0 /\ conn[sentOn[r]] = "open"
Armed(r) == TRUE

TimesOut(r) ==
    /\ req[r] = "pending" /\ Armed(r)
    /\ req' = [req EXCEPT ![r] = "failed"]
    /\ UNCHANGED <<process, proc, ending, link, handshake, sentOn, orphans,
                   pairing, update>>

(* The timer of an abandoned promise rejects it.                           *)
OrphanTimesOut(r) ==
    /\ r \in orphans
    /\ proc' = "ended"
    /\ UNCHANGED <<process, ending, link, handshake, waits, update>>

(* The daemon and the plugin: an api_request frame goes to the local API.  *)
Call(r) ==
    /\ WithApi /\ req[r] = "idle"
    /\ \E k \in up : conn[k] = "open"
    /\ req' = [req EXCEPT ![r] = "fetching"]
    /\ UNCHANGED <<process, proc, ending, link, handshake, sentOn, orphans,
                   pairing, update>>

(* The local API has answered; a response_envelope is relayed first.       *)
Fetched(r) ==
    /\ req[r] = "fetching"
    /\ \/ Ask(r)
       \/ req' = [req EXCEPT ![r] = "ok"] /\ UNCHANGED <<sentOn, orphans>>
    /\ UNCHANGED <<process, proc, ending, link, handshake, pairing, update>>

(* The api_response goes out on this.socket; nobody catches what it throws.*)
Respond(r) ==
    /\ WithApi /\ req[r] \in {"ok", "failed"}
    /\ req' = [req EXCEPT ![r] = "done"]
    /\ proc' = IF CannotSend THEN "ended" ELSE proc
    /\ UNCHANGED <<process, ending, link, handshake, sentOn, orphans, pairing,
                   update>>

-----------------------------------------------------------------------------
(* The programs.                                                           *)

Settled(r) == req[r] \in {"ok", "failed"}

Begin ==
    /\ prog = "starting"
    /\ promise[1] \in {"resolved", "rejected"}
    /\ prog' = IF promise[1] = "resolved" THEN "running" ELSE "failed"
    /\ UNCHANGED <<role, proc, ending, link, handshake, waits, update>>

(* A command makes its one request.                                        *)
Command(r) ==
    /\ ~WithApi /\ prog = "running"
    /\ \A q \in Requests : req[q] = "idle"
    /\ Ask(r)
    /\ UNCHANGED <<process, proc, ending, link, handshake, pairing, update>>

(* A refusal is thrown; pair takes the silence of an old host for consent. *)
Registered(r) ==
    /\ role = "pair" /\ prog = "running" /\ Settled(r) /\ pairing = "none"
    /\ \/ pairing' = "waiting" /\ UNCHANGED prog
       \/ req[r] = "failed" /\ prog' = "failed" /\ UNCHANGED pairing
    /\ UNCHANGED <<role, proc, ending, link, handshake, req, sentOn, orphans,
                   update>>

PairComplete(k) ==
    /\ conn[k] = "open" /\ k \in up
    /\ pairing = "waiting"
    /\ pairing' = "paired"
    /\ UNCHANGED <<process, proc, ending, link, handshake, req, sentOn,
                   orphans, update>>

PairTimesOut ==
    /\ pairing = "waiting"
    /\ pairing' = "expired"
    /\ UNCHANGED <<process, proc, ending, link, handshake, req, sentOn,
                   orphans, update>>

Stops ==
    /\ stopped' = TRUE
    /\ monitor' = FALSE
    /\ early' = (early \/ opening)
    /\ Halt
    /\ UNCHANGED <<role, proc, standing, opening, backoff, cur, drops,
                   handshake, waits, stale>>

(* stop(), once the command has what it waited for.                        *)
Stop ==
    /\ prog = "running"
    /\ \/ role = "oneshot" /\ \E r \in Requests : Settled(r)
       \/ pairing \in {"paired", "expired"}
    /\ prog' = "done"
    /\ Stops

(* OpenClaw stops the service of the plugin whenever it likes, while start *)
(* waits and while standDown does; after either there is no managedClient. *)
ServiceStops ==
    /\ role = "plugin" /\ prog # "idle"
    /\ ~stopped \/ standing = "closing"
    /\ Stops
    /\ UNCHANGED prog

(* sendSessionsRevoke and sendPairRegistration do not stop when they fail. *)
Abandon ==
    /\ role = "oneshot" /\ prog = "running"
    /\ \E r \in Requests : req[r] = "failed"
    /\ prog' = "failed"
    /\ UNCHANGED <<role, proc, ending, link, handshake, waits, update>>

(* edge-book self-update replaces the files under the process; the drift   *)
(* check, on a hello_ok or every six hours, exits for the supervisor (in   *)
(* auto mode, with a respawn expected: the defaults).                      *)
SelfUpdate ==
    /\ ~stale
    /\ stale' = TRUE
    /\ UNCHANGED <<process, proc, ending, link, handshake, waits, monitor>>

DriftCheck ==
    /\ monitor /\ stale
    /\ proc' = "respawn"
    /\ UNCHANGED <<process, ending, link, handshake, waits, update>>

-----------------------------------------------------------------------------

Init ==
    /\ role \in Roles
    /\ proc = "up" /\ prog = "idle"
    /\ stopped = FALSE /\ standing = "no" /\ early = FALSE
    /\ opening = FALSE /\ api = FALSE
    /\ timers = 0 /\ backoff = BackoffMs
    /\ cur = 0 /\ conn = [k \in Sockets |-> "unused"]
    /\ greeting = {} /\ hello = {} /\ up = {} /\ refused = {}
    /\ opened = 0 /\ promise = [k \in Sockets |-> "none"]
    /\ req = [r \in Requests |-> "idle"]
    /\ sentOn = [r \in Requests |-> 0]
    /\ orphans = {} /\ pairing = "none"
    /\ monitor = FALSE /\ stale = FALSE
    /\ drops = 0

SocketStep(k) ==
    \/ SocketOpens(k) \/ SendHello(k) \/ HelloFails(k)
    \/ HelloOk(k) \/ HelloErr(k)
    \/ Drop(k) \/ SocketErrors(k) \/ Closed(k)
    \/ StandDown(k) \/ PairComplete(k)

RequestStep(r) ==
    \/ Answer(r) \/ TimesOut(r) \/ OrphanTimesOut(r)
    \/ Call(r) \/ Fetched(r) \/ Respond(r)
    \/ Command(r) \/ Registered(r)

ClientStep ==
    \/ Start \/ ApiOpened \/ ApiFails \/ Begin
    \/ Fire \/ StandDownCloses
    \/ PairTimesOut \/ Stop \/ ServiceStops \/ Abandon
    \/ SelfUpdate \/ DriftCheck

Next ==
    /\ proc = "up"
    /\ \/ ClientStep
       \/ \E k \in Sockets : SocketStep(k)
       \/ \E r \in Requests : RequestStep(r)

Spec == Init /\ [][Next]_vars

(* Timers fire, awaits end, sockets open or close, and the host answers a  *)
(* hello.  It need not answer a request, and nobody need make one.         *)
Runs(A) == proc = "up" /\ A
FairSpec ==
    /\ Spec
    /\ WF_vars(Runs(Start))
    /\ WF_vars(Runs(ApiOpened \/ ApiFails))
    /\ WF_vars(Runs(Begin))
    /\ WF_vars(Runs(Fire))
    /\ WF_vars(Runs(StandDownCloses))
    /\ WF_vars(Runs(PairTimesOut))
    /\ WF_vars(Runs(DriftCheck))
    /\ \A k \in Sockets :
          /\ WF_vars(Runs(SocketOpens(k)))
          /\ WF_vars(Runs(SendHello(k) \/ HelloFails(k)))
          /\ WF_vars(Runs(HelloOk(k) \/ HelloErr(k)))
          /\ WF_vars(Runs(Closed(k)))
    /\ \A r \in Requests :
          /\ WF_vars(Runs(TimesOut(r)))
          /\ WF_vars(Runs(OrphanTimesOut(r)))
          /\ WF_vars(Runs(Fetched(r)))
          /\ WF_vars(Runs(Respond(r)))

-----------------------------------------------------------------------------
(* Properties.                                                             *)

(* Every variable keeps its shape; the backoff never passes its cap.       *)
TypeOK ==
    /\ role \in Roles
    /\ proc \in {"up", "ended", "respawn"}
    /\ prog \in {"idle", "starting", "running", "failed", "done"}
    /\ stopped \in BOOLEAN /\ standing \in {"no", "closing", "done"}
    /\ early \in BOOLEAN
    /\ opening \in BOOLEAN /\ api \in BOOLEAN
    /\ timers \in Nat /\ backoff \in BackoffMs..MaxBackoffMs
    /\ drops \in 0..MaxDrops /\ cur \in 0..(MaxDrops + 1)
    /\ conn \in [Sockets -> {"unused", "connecting", "open", "closing", "closed"}]
    /\ greeting \subseteq Sockets /\ hello \subseteq Sockets
    /\ up \subseteq Sockets /\ refused \subseteq Sockets
    /\ opened \in 0..(MaxDrops + 1)
    /\ promise \in [Sockets -> {"none", "pending", "resolved", "rejected"}]
    /\ req \in [Requests -> {"idle", "fetching", "pending", "ok", "failed", "done"}]
    /\ sentOn \in [Requests -> 0..(MaxDrops + 1)]
    /\ orphans \subseteq Requests
    /\ pairing \in {"none", "waiting", "paired", "expired"}
    /\ monitor \in BOOLEAN /\ stale \in BOOLEAN

(* A client that reconnects and was not stopped is on its way to the host  *)
(* from its start on, and on one way only: an opening local API, an armed  *)
(* timer, or a live socket, which is then this.socket.                     *)
OneWay ==
    /\ timers <= 1
    /\ opening => timers = 0
    /\ \A k \in Sockets : Live(k) => k = cur /\ timers = 0 /\ ~opening
SomeWay ==
    Reconnect /\ ~stopped /\ proc = "up" /\ prog # "idle"
    /\ (prog = "failed" => cur # 0)
        => opening \/ timers = 1 \/ (cur # 0 /\ Live(cur))
OnItsWay == OneWay /\ SomeWay

(* No socket is opened after a stand_down frame, whatever closes in        *)
(* between, and none after a stop() but the first one of a client that was *)
(* stopped while its local API opened.                                     *)
StandDownIsFinal ==
    [][standing # "no" \/ (stopped /\ ~opening) => cur' = cur]_vars

(* A client that was stopped comes to rest, with its sockets and the local *)
(* API closed and no timer armed: nothing keeps its process alive.  The    *)
(* exception is the plugin's, stopped while its local API opened: connect  *)
(* then goes on to a socket that nobody closes.                            *)
Quiet ==
    /\ timers = 0 /\ ~opening /\ ~api
    /\ \A k \in Sockets : conn[k] \in {"unused", "closed"}
QuietAfterStop == stopped /\ ~early ~> [](Quiet \/ proc # "up")

(* A client that reconnects is connected again and again, until it is      *)
(* stopped, refused by the host, or its process has ended.                 *)
Connected == cur \in up /\ conn[cur] = "open"
ComesBack ==
    Reconnect ~> \/ Connected \/ stopped \/ proc # "up"
                 \/ prog = "failed" \/ cur \in refused

(* Whatever waits for the host stops waiting, also when the socket closes. *)
EveryWaitEnds ==
    /\ \A r \in Requests : req[r] \in {"fetching", "pending"}
                              ~> req[r] \notin {"fetching", "pending"} \/ proc # "up"
    /\ pairing = "waiting" ~> pairing # "waiting" \/ proc # "up"

(* start() resolves or rejects, unless its socket closes before the host   *)
(* has answered: then only the promises of later connects do.              *)
StartSettles ==
    prog = "starting" ~> \/ prog # "starting" \/ proc # "up"
                         \/ conn[1] = "closed"

(* A drop is followed by a reconnection: it does not end the process.      *)
DropReconnects == drops > 0 /\ ~stopped => proc # "ended"
=============================================================================
