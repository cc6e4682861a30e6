---------------------- MODULE DialoutConnection_proofs ----------------------
(***************************************************************************)
(* Proofs about DialoutConnection, for any requests, programs, faults,     *)
(* backoff and number of drops.                                            *)
(***************************************************************************)
EXTENDS DialoutConnection, TLAPS

(* A timer was armed by a socket that closed, and each socket but the      *)
(* first follows a drop.                                                   *)
Counted ==
    /\ cur <= drops + 1
    /\ timers > 0 => cur # 0 /\ cur <= drops
    /\ prog = "idle" => cur = 0 /\ timers = 0 /\ ~opening

(* Only who stops closes a socket.                                         *)
Halting ==
    /\ standing # "no" => stopped
    /\ \A k \in Sockets : conn[k] = "closing" => stopped

(* Only the first connect of a daemon or plugin opens the local API.       *)
Opening ==
    /\ opening => cur = 0 /\ WithApi
    /\ WithApi /\ cur # 0 /\ ~stopped => api
    /\ standing # "no" => cur # 0
    /\ \A k \in Sockets : Live(k) => cur # 0

Pairing == pairing # "none" => role = "pair"

IInv ==
    /\ TypeOK /\ OneWay /\ SomeWay
    /\ Counted /\ Halting /\ Opening /\ Pairing

-----------------------------------------------------------------------------
(* The initial states.                                                     *)

LEMMA InitInv == Init => IInv
<1> SUFFICES ASSUME Init PROVE IInv
    OBVIOUS
<1>1. TypeOK
    <2>1. /\ timers \in Nat /\ backoff \in BackoffMs..MaxBackoffMs
          /\ drops \in 0..MaxDrops
          /\ cur \in 0..(MaxDrops + 1) /\ opened \in 0..(MaxDrops + 1)
        BY BackoffAssumption, BoundsAssumption DEF Init
    <2>2. /\ conn \in [Sockets -> {"unused", "connecting", "open", "closing",
                                   "closed"}]
          /\ promise \in [Sockets -> {"none", "pending", "resolved",
                                      "rejected"}]
          /\ req \in [Requests -> {"idle", "fetching", "pending", "ok",
                                   "failed", "done"}]
        BY DEF Init
    <2>3. sentOn \in [Requests -> 0..(MaxDrops + 1)]
        BY BoundsAssumption DEF Init
    <2> QED BY <2>1, <2>2, <2>3 DEF Init, TypeOK
<1>2. OneWay /\ SomeWay /\ Counted /\ Halting /\ Opening /\ Pairing
    BY BoundsAssumption
    DEF Init, OneWay, SomeWay, Counted, Halting, Opening, Pairing, Live
<1> QED BY <1>1, <1>2 DEF IInv

-----------------------------------------------------------------------------
(* Steps that leave the connection alone.                                  *)

LEMMA QuietStep ==
    ASSUME IInv, UNCHANGED <<role, ending, link>>, TypeOK',
           proc' = "up" => proc = "up",
           \/ UNCHANGED prog
           \/ prog # "idle" /\ prog # "failed"
              /\ prog' \in {"running", "failed", "done"},
           \/ UNCHANGED pairing
           \/ role = "pair" \/ pairing # "none"
    PROVE  IInv'
<1>1. OneWay'
    BY DEF IInv, OneWay, Live, link
<1>2. SomeWay'
    <2>1. /\ UNCHANGED <<role, stopped, opening, timers, cur, conn>>
          /\ prog' # "idle" => prog # "idle"
          /\ prog = "failed" => prog' = "failed"
        BY DEF link, ending
    <2> SUFFICES ASSUME Reconnect, ~stopped, proc = "up", prog' # "idle",
                        prog' = "failed" => cur # 0
                 PROVE  opening \/ timers = 1 \/ (cur # 0 /\ Live(cur))
        BY <2>1 DEF SomeWay, Reconnect, Live
    <2> QED BY <2>1 DEF IInv, SomeWay
<1>3. Counted' /\ Halting' /\ Opening'
    BY DEF IInv, Counted, Halting, Opening, WithApi, Live, link, ending
<1>4. Pairing'
    BY DEF IInv, Pairing
<1> QED BY <1>1, <1>2, <1>3, <1>4 DEF IInv

-----------------------------------------------------------------------------
(* Types.                                                                  *)

LEMMA SocketRange ==
    ASSUME TypeOK
    PROVE  /\ MaxDrops \in Nat /\ 1 \in Sockets
           /\ \A k : k \in Sockets <=> k \in 0..(MaxDrops + 1) /\ k # 0
<1>1. MaxDrops \in Nat
    BY BoundsAssumption
<1> QED BY <1>1 DEF Sockets

LEMMA NewSocketType ==
    ASSUME TypeOK, cur <= MaxDrops, NewSocket
    PROVE  /\ cur' = cur + 1 /\ cur' \in Sockets /\ opened' = cur'
           /\ cur' \in 0..(MaxDrops + 1)
           /\ conn' = [conn EXCEPT ![cur'] = "connecting"]
           /\ conn' \in [Sockets -> {"unused", "connecting", "open", "closing",
                                     "closed"}]
           /\ promise' \in [Sockets -> {"none", "pending", "resolved",
                                        "rejected"}]
<1>1. cur + 1 \in Sockets /\ cur + 1 \in 0..(MaxDrops + 1)
    BY BoundsAssumption DEF TypeOK, Sockets
<1> QED BY <1>1 DEF NewSocket, TypeOK

LEMMA ConnectType ==
    ASSUME TypeOK, cur <= MaxDrops, Connect
    PROVE  /\ opening' \in BOOLEAN
           /\ cur' \in 0..(MaxDrops + 1) /\ opened' \in 0..(MaxDrops + 1)
           /\ conn' \in [Sockets -> {"unused", "connecting", "open", "closing",
                                     "closed"}]
           /\ promise' \in [Sockets -> {"none", "pending", "resolved",
                                        "rejected"}]
<1>1. CASE stopped
    BY <1>1 DEF Connect, TypeOK
<1>2. CASE ~stopped /\ WithApi /\ ~api
    BY <1>2 DEF Connect, TypeOK
<1>3. CASE ~stopped /\ ~(WithApi /\ ~api)
    BY <1>3, NewSocketType DEF Connect, TypeOK
<1> QED BY <1>1, <1>2, <1>3

LEMMA PromiseType ==
    ASSUME TypeOK, NEW k
    PROVE  /\ Resolve(k) => promise' \in [Sockets -> {"none", "pending",
                                             "resolved", "rejected"}]
           /\ Reject(k) => /\ promise' \in [Sockets -> {"none", "pending",
                                               "resolved", "rejected"}]
                           /\ proc' \in {proc, "ended"}
    BY DEF TypeOK, Resolve, Reject

LEMMA GrownType == TypeOK => Grown \in BackoffMs..MaxBackoffMs
<1> SUFFICES ASSUME TypeOK PROVE Grown \in BackoffMs..MaxBackoffMs
    OBVIOUS
<1> DEFINE next == (17 * backoff + 5) \div 10
<1>1. backoff \in Nat /\ BackoffMs <= backoff
    BY BackoffAssumption DEF TypeOK
<1>2. next \in Nat /\ backoff <= next
    BY <1>1
<1> HIDE DEF next
<1>3. Grown = IF next < MaxBackoffMs THEN next ELSE MaxBackoffMs
    BY DEF Grown, next
<1> QED BY <1>1, <1>2, <1>3, BackoffAssumption

LEMMA AskType ==
    ASSUME TypeOK, NEW r \in Requests, Ask(r)
    PROVE  /\ req' \in [Requests -> {"idle", "fetching", "pending", "ok",
                                     "failed", "done"}]
           /\ sentOn' \in [Requests -> 0..(MaxDrops + 1)]
           /\ orphans' \subseteq Requests
<1>1. 0 \in 0..(MaxDrops + 1)
    BY BoundsAssumption
<1>2. CASE CannotSend
    BY <1>2 DEF Ask, TypeOK
<1>3. CASE ~CannotSend
    <2>1. req' = [req EXCEPT ![r] = "pending"] /\ UNCHANGED orphans
        BY <1>3 DEF Ask
    <2>2. PICK k \in 0..(MaxDrops + 1) : sentOn' = [sentOn EXCEPT ![r] = k]
        <3>1. CASE conn[cur] = "open"
            BY <1>3, <3>1 DEF Ask, TypeOK
        <3>2. CASE conn[cur] # "open"
            BY <1>1, <1>3, <3>2 DEF Ask
        <3> QED BY <3>1, <3>2
    <2> QED BY <2>1, <2>2 DEF TypeOK
<1> QED BY <1>2, <1>3

(* The steps that leave the connection alone.                              *)
LEMMA HandshakeTypes ==
    ASSUME TypeOK, NEW k \in Sockets,
           \/ SendHello(k) \/ HelloFails(k)
           \/ HelloOk(k) \/ HelloErr(k) \/ PairComplete(k) \/ SocketErrors(k)
    PROVE  TypeOK'
<1>0. 0 \in 0..(MaxDrops + 1)
    BY BoundsAssumption
<1>1. CASE SendHello(k)
    <2>1. CASE CannotSend
        BY <1>0, <1>1, <2>1, PromiseType
        DEF SendHello, TypeOK, process, ending, link, waits, update
    <2>2. CASE ~CannotSend
        BY <1>1, <2>2
        DEF SendHello, TypeOK, process, ending, link, waits, update
    <2> QED BY <2>1, <2>2
<1>2. CASE HelloFails(k)
    BY <1>0, <1>2, PromiseType
    DEF HelloFails, TypeOK, process, ending, link, waits, update
<1>3. CASE HelloOk(k)
    BY <1>0, <1>3, PromiseType
    DEF HelloOk, TypeOK, process, ending, link, waits, update
<1>4. CASE HelloErr(k)
    BY <1>0, <1>4, PromiseType
    DEF HelloErr, Refuse, TypeOK, process, ending, link, waits, update
<1>5. CASE PairComplete(k)
    BY <1>5
    DEF PairComplete, TypeOK, process, ending, link, handshake, waits, update
<1>6. CASE SocketErrors(k)
    BY <1>6
    DEF SocketErrors, TypeOK, process, ending, link, handshake, waits, update
<1> QED BY <1>1, <1>2, <1>3, <1>4, <1>5, <1>6

LEMMA RequestTypes ==
    ASSUME TypeOK, NEW r \in Requests, RequestStep(r)
    PROVE  TypeOK'
<1> USE DEF process, ending, link, handshake, waits, update
<1>0. 0 \in 0..(MaxDrops + 1)
    BY BoundsAssumption
<1>1. CASE Answer(r)
    <2>1. CASE req[r] = "pending"
        <3>1. PICK result \in {"ok", "failed"} :
                 req' = [req EXCEPT ![r] = result]
            BY <1>1, <2>1 DEF Answer
        <3>2. /\ sentOn' = [sentOn EXCEPT ![r] = 0]
              /\ UNCHANGED <<process, proc, ending, link, handshake, orphans,
                             pairing, update>>
            BY <1>1 DEF Answer
        <3> QED BY <1>0, <3>1, <3>2 DEF TypeOK
    <2>2. CASE req[r] # "pending"
        BY <1>0, <1>1, <2>2 DEF Answer, TypeOK
    <2> QED BY <2>1, <2>2
<1>2. CASE TimesOut(r)
    BY <1>2 DEF TimesOut, TypeOK
<1>3. CASE OrphanTimesOut(r)
    BY <1>3 DEF OrphanTimesOut, TypeOK
<1>4. CASE Call(r)
    BY <1>4 DEF Call, TypeOK
<1>5. CASE Fetched(r)
    <2>1. CASE Ask(r)
        BY <1>5, <2>1, AskType DEF Fetched, TypeOK
    <2>2. CASE req' = [req EXCEPT ![r] = "ok"] /\ UNCHANGED <<sentOn, orphans>>
        BY <1>5, <2>2 DEF Fetched, TypeOK
    <2> QED BY <1>5, <2>1, <2>2 DEF Fetched
<1>6. CASE Respond(r)
    BY <1>6 DEF Respond, TypeOK
<1>7. CASE Command(r)
    BY <1>7, AskType DEF Command, TypeOK
<1>8. CASE Registered(r)
    BY <1>8 DEF Registered, TypeOK
<1> QED BY <1>1, <1>2, <1>3, <1>4, <1>5, <1>6, <1>7, <1>8 DEF RequestStep

LEMMA ProgramTypes ==
    ASSUME TypeOK,
           \/ Begin \/ PairTimesOut \/ Abandon \/ SelfUpdate \/ DriftCheck
    PROVE  TypeOK'
<1> USE DEF process, ending, link, handshake, waits, update
<1>1. CASE Begin
    BY <1>1 DEF Begin, TypeOK
<1>2. CASE PairTimesOut
    BY <1>2 DEF PairTimesOut, TypeOK
<1>3. CASE Abandon
    BY <1>3 DEF Abandon, TypeOK
<1>4. CASE SelfUpdate
    BY <1>4 DEF SelfUpdate, TypeOK
<1>5. CASE DriftCheck
    BY <1>5 DEF DriftCheck, TypeOK
<1> QED BY <1>1, <1>2, <1>3, <1>4, <1>5

-----------------------------------------------------------------------------
(* The steps of the connection.                                            *)

LEMMA StartInv ==
    ASSUME IInv, proc = "up", Start
    PROVE  IInv'
<1> USE DEF process, ending, handshake, waits, update
<1>1. /\ TypeOK /\ prog = "idle" /\ cur = 0 /\ timers = 0 /\ ~opening
      /\ cur <= MaxDrops /\ MaxDrops \in Nat
    BY BoundsAssumption DEF IInv, Counted, Start
<1>2. TypeOK'
    BY <1>1, ConnectType DEF Start, TypeOK
<1>3. \A k \in Sockets : ~Live(k)
    BY <1>1 DEF IInv, Opening
<1>4. CASE stopped
    BY <1>1, <1>2, <1>3, <1>4
    DEF Start, Connect, IInv, OneWay, SomeWay, Counted, Halting, Opening,
        Pairing, Live, Reconnect, WithApi, link
<1>5. CASE ~stopped /\ WithApi /\ ~api
    BY <1>1, <1>2, <1>3, <1>5
    DEF Start, Connect, IInv, OneWay, SomeWay, Counted, Halting, Opening,
        Pairing, Live, Reconnect, WithApi, link
<1>6. CASE ~stopped /\ ~(WithApi /\ ~api)
    <2>1. NewSocket /\ UNCHANGED <<opening, timers, drops, stopped, standing,
                                   api, role, pairing, proc>>
        BY <1>6 DEF Start, Connect
    <2>2. /\ cur' = 1 /\ 1 \in Sockets
          /\ conn' = [conn EXCEPT ![1] = "connecting"]
        BY <1>1, <2>1, SocketRange DEF NewSocket
    <2>3. OneWay' /\ SomeWay'
        BY <1>1, <1>3, <2>1, <2>2 DEF OneWay, SomeWay, Live, TypeOK
    <2>4. Counted' /\ Halting' /\ Opening' /\ Pairing'
        BY <1>1, <1>6, <2>1, <2>2
        DEF Start, IInv, Counted, Halting, Opening, Pairing, Live, WithApi,
            TypeOK
    <2> QED BY <1>2, <2>3, <2>4 DEF IInv
<1> QED BY <1>4, <1>5, <1>6

LEMMA ApiOpenedInv ==
    ASSUME IInv, proc = "up", ApiOpened
    PROVE  IInv'
<1> USE DEF process, ending, handshake, waits, update
<1>1. /\ TypeOK /\ opening /\ cur = 0 /\ timers = 0 /\ prog # "idle"
      /\ WithApi
      /\ cur <= MaxDrops /\ MaxDrops \in Nat
    BY BoundsAssumption DEF IInv, Counted, ApiOpened, OneWay, Opening
<1>2. TypeOK'
    BY <1>1, NewSocketType DEF ApiOpened, TypeOK
<1>3. \A k \in Sockets : ~Live(k)
    BY <1>1 DEF IInv, OneWay
<1>4. /\ NewSocket /\ opening' = FALSE /\ api'
      /\ UNCHANGED <<timers, drops, stopped, standing, role, pairing, proc,
                     prog>>
    BY DEF ApiOpened
<1>5. /\ cur' = 1 /\ 1 \in Sockets
      /\ conn' = [conn EXCEPT ![1] = "connecting"]
    BY <1>1, <1>4, SocketRange DEF NewSocket
<1>6. OneWay' /\ SomeWay'
    BY <1>1, <1>3, <1>4, <1>5 DEF OneWay, SomeWay, Live, TypeOK
<1>7. Counted' /\ Halting' /\ Opening' /\ Pairing'
    BY <1>1, <1>4, <1>5
    DEF IInv, Counted, Halting, Opening, WithApi, Pairing, Live, TypeOK
<1> QED BY <1>2, <1>6, <1>7 DEF IInv

LEMMA ApiFailsInv ==
    ASSUME IInv, proc = "up", ApiFails
    PROVE  IInv'
<1>1. cur = 0 /\ opening /\ TypeOK
    BY DEF IInv, Opening, ApiFails
<1>2. TypeOK'
    BY <1>1 DEF ApiFails, TypeOK, process, ending, handshake, waits, update
<1>3. /\ opening' = FALSE /\ prog' = "failed"
      /\ UNCHANGED <<timers, cur, conn, drops, stopped, standing, api, role,
                     pairing, proc>>
    BY DEF ApiFails, ending, waits
<1>4. OneWay' /\ SomeWay'
    BY <1>1, <1>3 DEF IInv, OneWay, SomeWay, Live
<1>5. Counted' /\ Halting' /\ Opening' /\ Pairing'
    BY <1>1, <1>3
    DEF IInv, Counted, Halting, Opening, WithApi, Pairing, Live
<1> QED BY <1>2, <1>4, <1>5 DEF IInv

LEMMA SocketOpensInv ==
    ASSUME IInv, proc = "up", NEW k \in Sockets, SocketOpens(k)
    PROVE  IInv'
<1>1. TypeOK
    BY DEF IInv
<1>2. TypeOK'
    BY <1>1, BackoffAssumption
    DEF SocketOpens, TypeOK, process, ending, waits, update
<1>3. /\ conn[k] = "connecting" /\ conn' = [conn EXCEPT ![k] = "open"]
      /\ UNCHANGED <<timers, cur, drops, opening, stopped, standing, api,
                     role, pairing, proc, prog>>
    BY DEF SocketOpens, ending, waits, process
<1>4. \A j \in Sockets : /\ Live(j)' <=> Live(j)
                         /\ conn'[j] = "closing" <=> conn[j] = "closing"
    BY <1>1, <1>3 DEF Live, TypeOK
<1>5. cur # 0 => cur \in Sockets
    BY <1>1, SocketRange DEF TypeOK
<1>6. OneWay'
    BY <1>3, <1>4 DEF IInv, OneWay
<1>7. SomeWay'
    BY <1>3, <1>4, <1>5 DEF IInv, SomeWay, Reconnect
<1>8. Counted' /\ Halting' /\ Opening' /\ Pairing'
    BY <1>3, <1>4 DEF IInv, Counted, Halting, Opening, WithApi, Pairing
<1> QED BY <1>2, <1>6, <1>7, <1>8 DEF IInv

(* The close event of a socket that was live: the way is now the timer.    *)
LEMMA DropInv ==
    ASSUME IInv, proc = "up", NEW k \in Sockets, Drop(k)
    PROVE  IInv'
<1>1. /\ TypeOK /\ Live(k) /\ k = cur /\ timers = 0 /\ ~opening
    BY DEF IInv, OneWay, Drop
<1>2. /\ conn' = [conn EXCEPT ![k] = "closed"] /\ drops' = drops + 1
      /\ drops < MaxDrops
      /\ UNCHANGED <<cur, opening, stopped, standing, api, role, pairing,
                     proc, prog>>
      /\ IF ~stopped /\ Reconnect
         THEN timers' = timers + 1 /\ backoff' = Grown
         ELSE UNCHANGED <<timers, backoff>>
    BY DEF Drop, OnClose, Reconnects, ending, waits, process
<1>3. TypeOK'
    <2>1. /\ timers' \in Nat /\ backoff' \in BackoffMs..MaxBackoffMs
          /\ drops' \in 0..MaxDrops
        <3>1. Grown \in BackoffMs..MaxBackoffMs
            BY <1>1, GrownType
        <3>2. drops' \in 0..MaxDrops
            BY <1>1, <1>2, BoundsAssumption DEF TypeOK
        <3> QED BY <1>1, <1>2, <3>1, <3>2 DEF TypeOK
    <2> QED BY <1>1, <1>2, <2>1
            DEF Drop, OnClose, TypeOK, process, ending, handshake, waits, update
<1>4. \A j \in Sockets : /\ ~Live(j)'
                         /\ conn'[j] = "closing" => conn[j] = "closing"
    BY <1>1, <1>2 DEF IInv, OneWay, Live, TypeOK
<1>5. timers' = IF ~stopped /\ Reconnect THEN 1 ELSE 0
    BY <1>1, <1>2
<1>6. OneWay' /\ SomeWay'
    BY <1>1, <1>2, <1>4, <1>5 DEF OneWay, SomeWay, Reconnect
<1>7. prog # "idle" /\ cur # 0 /\ cur <= drops + 1
    BY <1>1, SocketRange DEF IInv, Counted
<1>8. Counted' /\ Halting' /\ Opening' /\ Pairing'
    BY <1>1, <1>2, <1>4, <1>7
    DEF IInv, Counted, Halting, Opening, WithApi, Pairing, TypeOK
<1> QED BY <1>3, <1>6, <1>8 DEF IInv

(* The close event of a socket this side closed finds the client stopped.  *)
LEMMA ClosedInv ==
    ASSUME IInv, proc = "up", NEW k \in Sockets, Closed(k)
    PROVE  IInv'
<1>1. TypeOK /\ conn[k] = "closing" /\ stopped
    BY DEF IInv, Halting, Closed
<1>2. /\ conn' = [conn EXCEPT ![k] = "closed"]
      /\ UNCHANGED <<timers, backoff, cur, drops, opening, stopped, standing,
                     api, role, pairing, proc, prog>>
    BY <1>1 DEF Closed, OnClose, Reconnects, ending, waits, process
<1>3. TypeOK'
    BY <1>1, <1>2
    DEF Closed, OnClose, TypeOK, process, ending, handshake, waits, update
<1>4. \A j \in Sockets : /\ Live(j)' => Live(j)
                         /\ conn'[j] = "closing" => conn[j] = "closing"
    BY <1>1, <1>2 DEF Live, TypeOK
<1>5. OneWay' /\ SomeWay'
    BY <1>1, <1>2, <1>4 DEF IInv, OneWay, SomeWay
<1>6. Counted' /\ Halting' /\ Opening' /\ Pairing'
    BY <1>1, <1>2, <1>4
    DEF IInv, Counted, Halting, Opening, WithApi, Pairing
<1> QED BY <1>3, <1>5, <1>6 DEF IInv

LEMMA FireInv ==
    ASSUME IInv, proc = "up", Fire
    PROVE  IInv'
<1>1. /\ TypeOK /\ timers = 1 /\ ~opening /\ prog # "idle" /\ cur # 0
      /\ cur <= drops /\ cur <= MaxDrops
    BY BoundsAssumption DEF IInv, OneWay, Counted, Fire, TypeOK
<1>2. /\ timers' = 0 /\ Connect
      /\ UNCHANGED <<drops, stopped, standing, api, role, pairing, proc, prog>>
    BY <1>1 DEF Fire, ending, waits, process
<1>3. TypeOK'
    BY <1>1, <1>2, ConnectType
    DEF Fire, TypeOK, process, ending, waits, update
<1>4. \A j \in Sockets : ~Live(j)
    BY <1>1 DEF IInv, OneWay
<1>5. CASE stopped
    BY <1>1, <1>2, <1>3, <1>4, <1>5
    DEF Connect, IInv, OneWay, SomeWay, Counted, Halting, Opening, WithApi,
        Pairing, Live
<1>6. CASE ~stopped
    <2>1. NewSocket /\ UNCHANGED opening
        BY <1>1, <1>2, <1>6 DEF Connect, IInv, Opening, WithApi
    <2>2. /\ cur' = cur + 1 /\ cur' \in Sockets
          /\ conn' = [conn EXCEPT ![cur'] = "connecting"]
        BY <1>1, <2>1, NewSocketType
    <2>3. \A j \in Sockets : /\ Live(j)' <=> j = cur'
                             /\ conn'[j] = "closing" => conn[j] = "closing"
        BY <1>1, <1>4, <2>2 DEF Live, TypeOK
    <2>4. OneWay' /\ SomeWay'
        BY <1>1, <1>2, <2>1, <2>2, <2>3 DEF OneWay, SomeWay, TypeOK
    <2>5. Counted' /\ Halting' /\ Opening' /\ Pairing'
        BY <1>1, <1>2, <1>6, <2>1, <2>2, <2>3
        DEF IInv, Counted, Halting, Opening, WithApi, Pairing, TypeOK
    <2> QED BY <1>3, <2>4, <2>5 DEF IInv
<1> QED BY <1>5, <1>6

LEMMA StandDownInv ==
    ASSUME IInv, proc = "up", NEW k \in Sockets, StandDown(k)
    PROVE  IInv'
<1>1. /\ stopped' /\ standing' = "closing"
      /\ UNCHANGED <<timers, backoff, cur, conn, drops, opening, api, role,
                     pairing, proc, prog>>
    BY DEF StandDown, link, waits, process
<1>2. conn[k] = "open" /\ Live(k) /\ ~opening
    BY DEF StandDown, Live, IInv, OneWay
<1>3. TypeOK'
    BY DEF IInv, StandDown, TypeOK, process, link, handshake, waits
<1>4. OneWay' /\ SomeWay'
    BY <1>1 DEF IInv, OneWay, SomeWay, Live
<1>5. Counted' /\ Halting' /\ Opening' /\ Pairing'
    BY <1>1, <1>2
    DEF IInv, Counted, Halting, Opening, WithApi, Pairing, Live
<1> QED BY <1>3, <1>4, <1>5 DEF IInv

(* Whatever is stopped may be halted.                                      *)
LEMMA HaltInv ==
    ASSUME IInv, Halt, stopped', TypeOK',
           UNCHANGED <<role, opening, cur, drops, pairing>>,
           standing' # "no" => standing # "no",
           prog' = "idle" => prog = "idle"
    PROVE  IInv'
<1>1. \A j \in Sockets : ~Live(j)'
    BY DEF IInv, OneWay, Halt, Live
<1>2. OneWay' /\ SomeWay'
    BY <1>1 DEF Halt, OneWay, SomeWay
<1>3. Counted' /\ Halting' /\ Opening' /\ Pairing'
    BY <1>1 DEF IInv, Halt, Counted, Halting, Opening, WithApi, Pairing
<1> QED BY <1>2, <1>3 DEF IInv

LEMMA HaltType ==
    ASSUME TypeOK, Halt
    PROVE  /\ timers' \in Nat /\ api' \in BOOLEAN
           /\ conn' \in [Sockets -> {"unused", "connecting", "open", "closing",
                                     "closed"}]
    BY DEF Halt, TypeOK

LEMMA StandDownClosesInv ==
    ASSUME IInv, proc = "up", StandDownCloses
    PROVE  IInv'
<1>1. /\ Halt /\ stopped /\ stopped' /\ standing # "no"
      /\ UNCHANGED <<role, opening, cur, drops, pairing, prog>>
    BY DEF StandDownCloses, IInv, Halting, process, waits
<1>2. TypeOK'
    BY <1>1, HaltType
    DEF IInv, StandDownCloses, TypeOK, process, handshake, waits, update
<1> QED BY <1>1, <1>2, HaltInv

LEMMA StopInv ==
    ASSUME IInv, proc = "up", Stop \/ ServiceStops
    PROVE  IInv'
<1>1. /\ Stops /\ prog # "idle"
      /\ prog' \in {prog, "done"}
    BY DEF Stop, ServiceStops
<1>2. /\ Halt /\ stopped'
      /\ UNCHANGED <<role, standing, opening, cur, drops, pairing>>
    BY <1>1 DEF Stops, waits
<1>3. TypeOK'
    BY <1>1, <1>2, HaltType DEF IInv, Stops, TypeOK, handshake, waits
<1> QED BY <1>1, <1>2, <1>3, HaltInv

-----------------------------------------------------------------------------
(* The invariant.                                                          *)

LEMMA HandshakeInv ==
    ASSUME IInv, proc = "up", NEW k \in Sockets,
           \/ SendHello(k) \/ HelloFails(k)
           \/ HelloOk(k) \/ HelloErr(k) \/ PairComplete(k) \/ SocketErrors(k)
    PROVE  IInv'
<1>1. TypeOK'
    BY HandshakeTypes DEF IInv
<1>2. UNCHANGED <<role, prog, ending, link>>
    BY DEF SendHello, HelloFails, HelloOk, HelloErr, PairComplete, SocketErrors,
           process
<1>3. UNCHANGED pairing \/ pairing # "none"
    BY DEF SendHello, HelloFails, HelloOk, HelloErr, PairComplete, SocketErrors,
           waits
<1> QED BY <1>1, <1>2, <1>3, QuietStep

LEMMA RequestInv ==
    ASSUME IInv, proc = "up", NEW r \in Requests, RequestStep(r)
    PROVE  IInv'
<1>1. TypeOK'
    BY RequestTypes DEF IInv
<1>2. CASE Registered(r)
    <2>1. /\ UNCHANGED <<role, proc, ending, link>> /\ prog = "running"
          /\ role = "pair" /\ (UNCHANGED prog \/ prog' = "failed")
        BY <1>2 DEF Registered
    <2> QED BY <1>1, <2>1, QuietStep
<1>3. CASE ~Registered(r)
    <2>1. UNCHANGED <<role, prog, ending, link, pairing>>
        BY <1>3 DEF RequestStep, Answer, TimesOut, OrphanTimesOut, Call,
                    Fetched, Respond, Command, process, waits
    <2> QED BY <1>1, <2>1, QuietStep
<1> QED BY <1>2, <1>3

LEMMA ProgramInv ==
    ASSUME IInv, proc = "up",
           \/ Begin \/ PairTimesOut \/ Abandon \/ SelfUpdate \/ DriftCheck
    PROVE  IInv'
<1>1. TypeOK'
    BY ProgramTypes DEF IInv
<1>2. UNCHANGED <<role, ending, link>>
    BY DEF Begin, PairTimesOut, Abandon, SelfUpdate, DriftCheck, process
<1>3. \/ UNCHANGED prog
      \/ prog # "idle" /\ prog # "failed" /\ prog' \in {"running", "failed"}
    BY DEF Begin, PairTimesOut, Abandon, SelfUpdate, DriftCheck, process
<1>4. UNCHANGED pairing \/ pairing # "none"
    BY DEF Begin, PairTimesOut, Abandon, SelfUpdate, DriftCheck, waits
<1> QED BY <1>1, <1>2, <1>3, <1>4, QuietStep

LEMMA NextInv == IInv /\ [Next]_vars => IInv'
<1> SUFFICES ASSUME IInv, [Next]_vars PROVE IInv'
    OBVIOUS
<1>1. CASE UNCHANGED vars
    BY <1>1 DEF vars, process, ending, link, handshake, waits, update, IInv,
        TypeOK, OneWay, SomeWay, Reconnect, Live, Counted, Halting, Opening,
        WithApi, Pairing
<1>2. CASE proc = "up" /\ ClientStep
    BY <1>2, StartInv, ApiOpenedInv, ApiFailsInv, FireInv, StandDownClosesInv,
       StopInv, ProgramInv
    DEF ClientStep
<1>3. ASSUME proc = "up", NEW k \in Sockets, SocketStep(k)
      PROVE  IInv'
    BY <1>3, HandshakeInv, SocketOpensInv, DropInv, ClosedInv, StandDownInv
    DEF SocketStep
<1>4. ASSUME proc = "up", NEW r \in Requests, RequestStep(r)
      PROVE  IInv'
    BY <1>4, RequestInv
<1> QED BY <1>1, <1>2, <1>3, <1>4 DEF Next

THEOREM Invariant == Spec => []IInv
<1> QED BY InitInv, NextInv, PTL DEF Spec

(* Type correctness for every number of sockets: in particular Math.round  *)
(* and the cap keep the backoff between its two bounds.                    *)
THEOREM TypeCorrect == Spec => []TypeOK
<1>1. IInv => TypeOK
    BY DEF IInv
<1> QED BY <1>1, Invariant, PTL

(* The close listener, the timer and standDown between them never leave a  *)
(* running client without a way to the host, nor with two.                 *)
THEOREM ClientOnItsWay == Spec => []OnItsWay
<1>1. IInv => OnItsWay
    BY DEF IInv, OnItsWay
<1> QED BY <1>1, Invariant, PTL

(* connect() checks this.stopped, standDown sets it before it awaits, and  *)
(* no local API is opening by then: so no socket is opened afterwards.  A  *)
(* stop() can come while one is opening, and then one socket is.           *)
THEOREM StandDownHolds == Spec => StandDownIsFinal
<1> DEFINE Over == standing # "no" \/ (stopped /\ ~opening)
<1>1. IInv /\ [Next]_vars => [Over => cur' = cur]_vars
    <2> SUFFICES ASSUME IInv, Next, Over PROVE cur' = cur
        OBVIOUS
    <2>1. ~opening /\ stopped
        BY DEF IInv, Opening, Halting
    <2>2. CASE ClientStep
        BY <2>1, <2>2
        DEF ClientStep, Start, ApiOpened, ApiFails, Begin, Fire, Connect,
            StandDownCloses, PairTimesOut, Stop, ServiceStops, Stops,
            Abandon, SelfUpdate, DriftCheck, link
    <2>3. ASSUME NEW k \in Sockets, SocketStep(k)
          PROVE  cur' = cur
        BY <2>3
        DEF SocketStep, SocketOpens, SendHello, HelloFails, HelloOk, HelloErr,
            Drop, SocketErrors, Closed, OnClose, StandDown, PairComplete,
            link
    <2>4. ASSUME NEW r \in Requests, RequestStep(r)
          PROVE  cur' = cur
        BY <2>4
        DEF RequestStep, Answer, TimesOut, OrphanTimesOut, Call, Fetched,
            Respond, Command, Registered, link
    <2> QED BY <2>2, <2>3, <2>4 DEF Next
<1> QED BY <1>1, Invariant, PTL DEF Spec, StandDownIsFinal
=============================================================================
