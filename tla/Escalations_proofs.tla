------------------------- MODULE Escalations_proofs -------------------------
(***************************************************************************)
(* Proofs about Escalations, for any agents, answers and bounds: type      *)
(* correctness, that an owner answers once and that its answer stands,     *)
(* that the asker has the answer once the response is received, that an    *)
(* owner that has parted is not asked, and that Consultation is            *)
(* implemented.                                                            *)
(***************************************************************************)
EXTENDS Escalations, TLAPS

(* Nothing is known of an escalation that was not raised.                  *)
Fresh ==
    \A i \in Ids : i > raised =>
        asked[i] = Nobody /\ \A a \in Agents : esc[a][i] = Absent

(* All records of an escalation name the agent that raised it, which has   *)
(* one itself; any other is with the owner that was asked.                 *)
OneRaiser ==
    \A i \in Ids : \A a \in Agents :
        esc[a][i] # Absent =>
            /\ esc[a][i].raiser = a \/ asked[i] = a
            /\ esc[esc[a][i].raiser][i].raiser = esc[a][i].raiser
            /\ \A b \in Agents :
                  esc[b][i] # Absent => esc[b][i].raiser = esc[a][i].raiser

(* An escalation under way was raised by its sender, put to its recipient, *)
(* and not filed there before it was received.                             *)
Question(m) ==
    /\ asked[m.id] = m.to
    /\ m.from # m.to
    /\ esc[m.from][m.id].raiser = m.from
    /\ m \notin seen => esc[m.to][m.id] = Absent

(* A response carries what its sender, the owner asked, has on record, and *)
(* goes to the agent that raised the escalation.                           *)
Response(m) ==
    /\ asked[m.id] = m.from
    /\ m.from # m.to
    /\ esc[m.from][m.id].raiser = m.to
    /\ esc[m.from][m.id].status = "answered"
    /\ esc[m.from][m.id].answer = m.answer
    /\ m \in seen => /\ esc[m.to][m.id].status = "answered"
                     /\ esc[m.to][m.id].answer = m.answer

Messages ==
    \A m \in net \cup seen :
        /\ m.type = "escalation" => Question(m)
        /\ m.type = "escalation_response" => Response(m)

(* An owner has not yet answered what is not answered.                     *)
Counted ==
    \A a \in Agents, i \in Ids :
        /\ given[a][i] <= 1
        /\ esc[a][i].status # "answered" => given[a][i] = 0

Parted == \A p \in ended : ~friend[p[1]][p[2]]

IInv == TypeOK /\ Fresh /\ OneRaiser /\ Messages /\ Counted /\ Parted

-----------------------------------------------------------------------------
(* Operators.                                                              *)

Records == Record \cup {Absent}

LEMMA Statuses ==
    ASSUME TypeOK, NEW a \in Agents, NEW i \in Ids
    PROVE  /\ esc[a][i] \in Records
           /\ esc[a][i] = Absent <=> esc[a][i].status = "absent"
           /\ esc[a][i] = Absent <=> esc[a][i].raiser \notin Agents
           /\ esc[a][i] # Absent => esc[a][i] \in Record
<1>1. esc[a][i] \in Records
    BY DEF TypeOK, Records
<1> QED BY <1>1, AgentsAssumption DEF Records, Record, Absent, Nobody

LEMMA EnvelopeParts ==
    ASSUME NEW m \in Envelope
    PROVE  /\ m.id \in Ids /\ m.from \in Agents /\ m.to \in Agents
           /\ m.type \in {"escalation", "escalation_response"}
           /\ m.type = "escalation_response" => m.answer \in Answers
BY DEF Envelope

(* Writing one record leaves the others.                                   *)
LEMMA PutAt ==
    ASSUME TypeOK, NEW a \in Agents, NEW i \in Ids, NEW r, Put(a, i, r)
    PROVE  /\ esc'[a][i] = r
           /\ \A x \in Agents, j \in Ids :
                 ~ (x = a /\ j = i) => esc'[x][j] = esc[x][j]
           /\ r \in Records => esc' \in [Agents -> [Ids -> Records]]
<1>1. esc \in [Agents -> [Ids -> Records]]
    BY DEF TypeOK, Records
<1> QED BY <1>1 DEF Put

LEMMA AskedIsRecord ==
    ASSUME NEW a \in Agents
    PROVE  /\ Asked(a) \in Record
           /\ Asked(a).raiser = a /\ Asked(a).status = "pending"
           /\ Asked(a).answer = NoAnswer
           /\ Asked(a) # Absent
BY AgentsAssumption DEF Asked, Record, Absent, Nobody

-----------------------------------------------------------------------------
(* Type correctness.                                                       *)

(* An answered record holds an answer, and no other does.                  *)
Filled(r) == r.status = "answered" <=> r.answer # NoAnswer

LEMMA PutType ==
    ASSUME TypeOK, NEW a \in Agents, NEW i \in Ids, NEW r \in Record,
           Filled(r), Put(a, i, r)
    PROVE  /\ esc' \in [Agents -> [Ids -> Record \cup {Absent}]]
           /\ \A x \in Agents, j \in Ids :
                 esc'[x][j].status = "answered"
                    <=> esc'[x][j].answer # NoAnswer
<1>1. /\ esc'[a][i] = r
      /\ \A x \in Agents, j \in Ids :
            ~ (x = a /\ j = i) => esc'[x][j] = esc[x][j]
      /\ esc' \in [Agents -> [Ids -> Records]]
    BY PutAt DEF Records
<1>2. ASSUME NEW x \in Agents, NEW j \in Ids
      PROVE  esc'[x][j].status = "answered" <=> esc'[x][j].answer # NoAnswer
    <2>1. CASE x = a /\ j = i
        BY <1>1, <2>1 DEF Filled
    <2>2. CASE ~ (x = a /\ j = i)
        <3>1. esc'[x][j] = esc[x][j]
            BY <1>1, <2>2
        <3> QED BY <3>1 DEF TypeOK
    <2> QED BY <2>1, <2>2
<1> QED BY <1>1, <1>2 DEF Records

LEMMA NewIdType ==
    ASSUME TypeOK, NEW i \in Ids, NEW b \in Agents, NewId(i, b)
    PROVE  /\ raised' \in 0..MaxRaised
           /\ due \subseteq 1..raised'
           /\ asked' \in [Ids -> Agents \cup {Nobody}]
<1>1. raised \in 0..MaxRaised /\ due \subseteq 1..raised
    BY DEF TypeOK
<1>2. raised' = raised + 1 /\ raised < MaxRaised
    BY DEF NewId
<1>3. raised' \in 0..MaxRaised /\ 1..raised \subseteq 1..raised'
    BY <1>1, <1>2, BoundsAssumption
<1>4. asked' \in [Ids -> Agents \cup {Nobody}]
    BY DEF NewId, TypeOK
<1> QED BY <1>1, <1>3, <1>4

LEMMA RaiseType ==
    ASSUME TypeOK, NEW a \in Agents, NEW b \in Agents,
           RaiseLocal(a) \/ (a # b /\ RaiseRemote(a, b))
    PROVE  TypeOK'
<1>1. PICK i \in Ids, c \in Agents :
          /\ NewId(i, c)
          /\ Put(a, i, Asked(a))
          /\ UNCHANGED <<friend, holds, honours, parts, ended>>
          /\ UNCHANGED <<seen, due, given, lost>>
          /\ \/ net' = net
             \/ net' = net \cup {[type |-> "escalation", id |-> i, from |-> a,
                                  to |-> b, answer |-> NoAnswer]}
    BY DEF RaiseLocal, RaiseRemote, relations
<1>2. net' \subseteq Envelope
    BY <1>1 DEF TypeOK, Envelope
<1>3. /\ raised' \in 0..MaxRaised /\ due' \subseteq 1..raised'
      /\ asked' \in [Ids -> Agents \cup {Nobody}]
    BY <1>1, NewIdType
<1>4. /\ esc' \in [Agents -> [Ids -> Record \cup {Absent}]]
      /\ \A x \in Agents, j \in Ids :
            esc'[x][j].status = "answered" <=> esc'[x][j].answer # NoAnswer
    BY <1>1, PutType, AskedIsRecord DEF Filled
<1> QED BY <1>1, <1>2, <1>3, <1>4 DEF TypeOK

LEMMA AnswerType ==
    ASSUME TypeOK, NEW a \in Agents, NEW i \in Ids, NEW v \in Answers,
           Answer(a, i, v)
    PROVE  TypeOK'
<1> DEFINE r == esc[a][i]
           s == [r EXCEPT !.status = "answered", !.answer = v]
<1>1. r \in Record
    BY Statuses DEF Answer
<1>2. s \in Record /\ Filled(s)
    BY <1>1, AnswersAssumption DEF Record, Filled
<1>3. Put(a, i, s) /\ given' = [given EXCEPT ![a][i] = @ + 1]
    BY DEF Answer
<1>4. net' \subseteq Envelope
    <2>1. r.raiser \in Agents
        BY <1>1 DEF Record
    <2>2. net' \subseteq net \cup {[type |-> "escalation_response", id |-> i,
                                    from |-> a, to |-> r.raiser,
                                    answer |-> v]}
        BY DEF Answer
    <2> QED BY <2>1, <2>2 DEF TypeOK, Envelope
<1>5. given' \in [Agents -> [Ids -> Nat]]
    BY <1>3 DEF TypeOK
<1> HIDE DEF s
<1>6. /\ esc' \in [Agents -> [Ids -> Record \cup {Absent}]]
      /\ \A x \in Agents, j \in Ids :
            esc'[x][j].status = "answered" <=> esc'[x][j].answer # NoAnswer
    BY <1>2, <1>3, PutType
<1> QED BY <1>4, <1>5, <1>6 DEF Answer, relations, TypeOK

(* A sweep changes the status of pending records that are due.             *)
LEMMA ExpireAt ==
    ASSUME TypeOK, NEW a \in Agents, Expire(a)
    PROVE  /\ esc' \in [Agents -> [Ids -> Records]]
           /\ \A x \in Agents, j \in Ids :
                 \/ esc'[x][j] = esc[x][j]
                 \/ /\ esc[x][j].status = "pending"
                    /\ esc'[x][j] = [esc[x][j] EXCEPT !.status = "expired"]
<1>1. esc \in [Agents -> [Ids -> Records]]
    BY DEF TypeOK, Records
<1> DEFINE row == [i \in Ids |-> IF i \in Swept(a)
                                 THEN [esc[a][i] EXCEPT !.status = "expired"]
                                 ELSE esc[a][i]]
<1>2. ASSUME NEW j \in Ids
      PROVE  /\ row[j] \in Records
             /\ \/ row[j] = esc[a][j]
                \/ /\ esc[a][j].status = "pending"
                   /\ row[j] = [esc[a][j] EXCEPT !.status = "expired"]
    <2>1. CASE j \in Swept(a)
        <3>1. esc[a][j].status = "pending"
            BY <2>1 DEF Swept
        <3>2. esc[a][j] \in Record
            BY <3>1, Statuses
        <3> QED BY <2>1, <3>1, <3>2 DEF Records, Record
    <2>2. CASE j \notin Swept(a)
        BY <1>1, <2>2
    <2> QED BY <2>1, <2>2
<1>3. row \in [Ids -> Records]
    BY <1>2
<1>4. esc' = [esc EXCEPT ![a] = row]
    BY DEF Expire
<1> HIDE DEF row
<1>5. \A x \in Agents : esc'[x] = IF x = a THEN row ELSE esc[x]
    BY <1>1, <1>4
<1> QED BY <1>1, <1>2, <1>3, <1>4, <1>5

LEMMA ExpireType ==
    ASSUME TypeOK, NEW a \in Agents, Expire(a)
    PROVE  TypeOK'
<1>1. esc' \in [Agents -> [Ids -> Record \cup {Absent}]]
    BY ExpireAt DEF Records
<1>2. ASSUME NEW x \in Agents, NEW j \in Ids
      PROVE  esc'[x][j].status = "answered" <=> esc'[x][j].answer # NoAnswer
    <2>1. CASE esc'[x][j] = esc[x][j]
        BY <2>1 DEF TypeOK
    <2>2. CASE /\ esc[x][j].status = "pending"
               /\ esc'[x][j] = [esc[x][j] EXCEPT !.status = "expired"]
        <3>1. esc[x][j] \in Record /\ esc[x][j].answer = NoAnswer
            BY <2>2, Statuses DEF TypeOK
        <3> QED BY <2>2, <3>1 DEF Record
    <2> QED BY <2>1, <2>2, ExpireAt
<1> QED BY <1>1, <1>2 DEF Expire, relations, TypeOK

LEMMA ReceiveType ==
    ASSUME TypeOK, NEW m \in net, Receive(m)
    PROVE  TypeOK'
<1>1. m \in Envelope
    BY DEF TypeOK
<1>2. /\ seen' \subseteq Envelope
      /\ UNCHANGED <<friend, holds, honours, parts, ended>>
      /\ UNCHANGED <<net, raised, due, asked, given, lost>>
    BY <1>1 DEF Receive, ReceiveEscalation, ApplyEscalationResponse, Verify,
                relations, TypeOK
<1>3. CASE esc' = esc
    BY <1>2, <1>3 DEF TypeOK
<1>4. CASE esc' # esc
    <2>1. \E r \in Record : Filled(r) /\ Put(m.to, m.id, r)
        <3>1. CASE ReceiveEscalation(m)
            <4>1. Put(m.to, m.id, Asked(m.from))
                BY <1>4, <3>1 DEF ReceiveEscalation
            <4> QED BY <1>1, <4>1, AskedIsRecord, EnvelopeParts DEF Filled
        <3>2. CASE ApplyEscalationResponse(m)
            <4>1. /\ m.type = "escalation_response"
                  /\ Takes(m.to, m.id)
                  /\ Put(m.to, m.id, [esc[m.to][m.id] EXCEPT
                                         !.status = "answered",
                                         !.answer = m.answer])
                BY <1>4, <3>2 DEF ApplyEscalationResponse
            <4>2. esc[m.to][m.id] \in Record
                BY <1>1, <4>1, Statuses, EnvelopeParts DEF Takes
            <4>3. m.answer \in Answers
                BY <1>1, <4>1, EnvelopeParts
            <4> QED BY <4>1, <4>2, <4>3, AnswersAssumption DEF Record, Filled
        <3> QED BY <3>1, <3>2 DEF Receive
    <2>2. /\ esc' \in [Agents -> [Ids -> Record \cup {Absent}]]
          /\ \A x \in Agents, j \in Ids :
                esc'[x][j].status = "answered" <=> esc'[x][j].answer # NoAnswer
        BY <1>1, <2>1, PutType, EnvelopeParts
    <2> QED BY <1>2, <2>2 DEF TypeOK
<1> QED BY <1>3, <1>4

LEMMA EndType ==
    ASSUME TypeOK, NEW a \in Agents, NEW b \in Agents, EndRelationship(a, b)
    PROVE  TypeOK'
<1>1. parts' \in 0..MaxParts
    BY BoundsAssumption DEF EndRelationship, TypeOK
<1>2. friend' \in [Agents -> [Agents -> BOOLEAN]]
    BY DEF EndRelationship, TypeOK
<1>3. /\ holds' \in [Agents -> [Agents -> BOOLEAN]]
      /\ honours' \in [Agents -> [Agents -> BOOLEAN]]
    <2>1. CASE UNCHANGED <<holds, honours>>
        BY <2>1 DEF TypeOK
    <2>2. CASE /\ holds' = [holds EXCEPT ![a][b] = FALSE]
               /\ honours' = [honours EXCEPT ![a][b] = FALSE]
        BY <2>2 DEF TypeOK
    <2> QED BY <2>1, <2>2 DEF EndRelationship
<1>4. ended' \subseteq Agents \X Agents
    BY DEF EndRelationship, TypeOK
<1> QED BY <1>1, <1>2, <1>3, <1>4 DEF EndRelationship, TypeOK

LEMMA TypeStep ==
    ASSUME TypeOK, [Next]_vars
    PROVE  TypeOK'
<1>1. CASE UNCHANGED vars
    BY <1>1 DEF vars, relations, TypeOK
<1>2. ASSUME NEW i \in Ids, Lapse(i)
      PROVE  TypeOK'
    BY <1>2 DEF Lapse, relations, TypeOK
<1>3. ASSUME NEW m \in net, Lose(m)
      PROVE  TypeOK'
    BY <1>3 DEF Lose, relations, TypeOK
<1>4. ASSUME NEW a \in Agents, OwnerStep(a)
      PROVE  TypeOK'
    BY <1>4, RaiseType, EndType, AnswerType, ExpireType DEF OwnerStep
<1> QED BY <1>1, <1>2, <1>3, <1>4, ReceiveType DEF Next

LEMMA TypeInit == Init => TypeOK
<1> SUFFICES ASSUME Init PROVE TypeOK
    OBVIOUS
<1>1. esc \in [Agents -> [Ids -> Record \cup {Absent}]]
    BY DEF Init
<1>2. \A a \in Agents, i \in Ids :
          esc[a][i].status = "answered" <=> esc[a][i].answer # NoAnswer
    BY DEF Init, Absent
<1>3. 0 \in 0..MaxRaised /\ 0 \in 0..MaxParts
    BY BoundsAssumption
<1> QED BY <1>1, <1>2, <1>3 DEF Init, Everyone, TypeOK

(* The files and the envelopes keep their shape.                           *)
THEOREM TypeCorrect == Spec => []TypeOK
BY TypeInit, TypeStep, PTL DEF Spec

-----------------------------------------------------------------------------
(* The rest of the invariant.                                              *)

(* A step that files nothing and counts nothing.                           *)
LEMMA QuietStep ==
    ASSUME IInv, UNCHANGED <<esc, seen, raised, asked, given>>,
           net' \subseteq net
    PROVE  Fresh' /\ OneRaiser' /\ Messages' /\ Counted'
<1>1. Fresh' /\ OneRaiser' /\ Counted'
    BY DEF IInv, Fresh, OneRaiser, Counted
<1>2. Messages'
    BY DEF IInv, Messages, Question, Response
<1> QED BY <1>1, <1>2

LEMMA RaiseStep ==
    ASSUME IInv, NEW a \in Agents, NEW b \in Agents,
           RaiseLocal(a) \/ (a # b /\ RaiseRemote(a, b))
    PROVE  Fresh' /\ OneRaiser' /\ Messages' /\ Counted'
<1>0. TypeOK
    BY DEF IInv
<1>1. PICK i \in Ids, c \in Agents :
          /\ NewId(i, c)
          /\ Put(a, i, Asked(a))
          /\ UNCHANGED <<seen, given>>
          /\ \/ c = a /\ net' = net
             \/ /\ c = b /\ a # b
                /\ net' = net \cup {[type |-> "escalation", id |-> i,
                                     from |-> a, to |-> b,
                                     answer |-> NoAnswer]}
    BY DEF RaiseLocal, RaiseRemote
<1>2. /\ i = raised + 1 /\ raised' = i /\ raised \in Nat
      /\ asked'[i] = c
      /\ \A j \in Ids : j # i => asked'[j] = asked[j]
    BY <1>0, <1>1 DEF NewId, TypeOK
<1>3. asked[i] = Nobody /\ \A x \in Agents : esc[x][i] = Absent
    BY <1>2 DEF IInv, Fresh
<1>4. /\ esc'[a][i] = Asked(a)
      /\ \A x \in Agents, j \in Ids :
            ~ (x = a /\ j = i) => esc'[x][j] = esc[x][j]
    BY <1>0, <1>1, PutAt
<1>5. Fresh'
    BY <1>2, <1>4 DEF IInv, Fresh, Ids
<1>6. Counted'
    <2>1. \A j \in Ids : given[a][j] <= 1
        BY DEF IInv, Counted
    <2>2. given[a][i] = 0
        BY <1>3 DEF IInv, Counted, Absent
    <2> QED BY <1>1, <1>4, <2>1, <2>2 DEF IInv, Counted
<1>7. OneRaiser'
    <2>1. ASSUME NEW j \in Ids, NEW x \in Agents, esc'[x][j] # Absent
          PROVE  /\ esc'[x][j].raiser = x \/ asked'[j] = x
                 /\ esc'[esc'[x][j].raiser][j].raiser = esc'[x][j].raiser
                 /\ \A y \in Agents : esc'[y][j] # Absent =>
                        esc'[y][j].raiser = esc'[x][j].raiser
        <3>1. CASE j = i
            BY <1>3, <1>4, <2>1, <3>1, AskedIsRecord
        <3>2. CASE j # i
            <4>1. /\ \A y \in Agents : esc'[y][j] = esc[y][j]
                  /\ asked'[j] = asked[j]
                BY <1>2, <1>4, <3>2
            <4>2. esc[x][j] # Absent /\ esc[x][j].raiser \in Agents
                BY <1>0, <2>1, <4>1, Statuses
            <4> QED BY <4>1, <4>2 DEF IInv, OneRaiser
        <3> QED BY <3>1, <3>2
    <2> QED BY <2>1 DEF OneRaiser
<1>8. Messages'
    <2>1. ASSUME NEW m \in net \cup seen
          PROVE  /\ m.type = "escalation" => Question(m)'
                 /\ m.type = "escalation_response" => Response(m)'
        <3>1. m \in Envelope
            BY <1>0 DEF TypeOK
        <3>2. m.id \in Ids /\ m.from \in Agents /\ m.to \in Agents
            BY <3>1, EnvelopeParts
        <3>3. /\ m.type = "escalation" => Question(m)
              /\ m.type = "escalation_response" => Response(m)
            BY DEF IInv, Messages
        <3>4. m.id # i
            <4>1. m.type \in {"escalation", "escalation_response"}
                BY <3>1, EnvelopeParts
            <4>2. asked[m.id] \in Agents
                BY <3>2, <3>3, <4>1 DEF Question, Response
            <4> QED BY <1>3, <4>2, AgentsAssumption DEF Nobody
        <3>5. /\ esc'[m.from][m.id] = esc[m.from][m.id]
              /\ esc'[m.to][m.id] = esc[m.to][m.id]
              /\ asked'[m.id] = asked[m.id] /\ seen' = seen
            BY <1>1, <1>2, <1>4, <3>2, <3>4
        <3> QED BY <3>3, <3>5 DEF Question, Response
    <2>2. ASSUME NEW m \in net', m \notin net
          PROVE  m.type = "escalation" /\ Question(m)'
        <3>1. /\ m.type = "escalation" /\ m.id = i /\ m.from = a /\ m.to = b
              /\ c = b /\ a # b
            BY <1>1, <2>2
        <3> QED BY <1>2, <1>3, <1>4, <3>1, AskedIsRecord DEF Question
    <2> QED BY <1>1, <2>1, <2>2 DEF Messages
<1> QED BY <1>5, <1>6, <1>7, <1>8

LEMMA AnswerStep ==
    ASSUME IInv, NEW a \in Agents, NEW i \in Ids, NEW v \in Answers,
           Answer(a, i, v)
    PROVE  Fresh' /\ OneRaiser' /\ Messages' /\ Counted'
<1>0. TypeOK
    BY DEF IInv
<1> DEFINE r == esc[a][i]
           s == [r EXCEPT !.status = "answered", !.answer = v]
<1>1. r \in Record /\ r.status = "pending" /\ r # Absent
    BY <1>0, Statuses DEF Answer, Absent
<1>2. /\ s \in Record /\ s.raiser = r.raiser /\ s.status = "answered"
      /\ s.answer = v /\ s # Absent
    BY <1>1 DEF Record, Absent
<1>3. Put(a, i, s) /\ UNCHANGED <<seen, raised, asked>>
    BY DEF Answer
<1>4. /\ given' = [given EXCEPT ![a][i] = @ + 1]
      /\ net' = IF RoutesBack(a, r)
                THEN net \cup {[type |-> "escalation_response", id |-> i,
                                from |-> a, to |-> r.raiser, answer |-> v]}
                ELSE net
    BY DEF Answer
<1> HIDE DEF s
<1>5. /\ esc'[a][i] = s
      /\ \A x \in Agents, j \in Ids :
            ~ (x = a /\ j = i) => esc'[x][j] = esc[x][j]
    BY <1>0, <1>3, PutAt
<1>6. \A x \in Agents, j \in Ids :
          /\ esc'[x][j].raiser = esc[x][j].raiser
          /\ esc'[x][j] = Absent <=> esc[x][j] = Absent
    BY <1>1, <1>2, <1>5
<1>7. Fresh'
    BY <1>3, <1>6 DEF IInv, Fresh
<1>8. OneRaiser'
    <2>1. \A x \in Agents, j \in Ids :
              esc[x][j] # Absent => esc[x][j].raiser \in Agents
        BY <1>0, Statuses
    <2> QED BY <1>3, <1>6, <2>1 DEF IInv, OneRaiser
<1>9. Counted'
    <2>1. given[a][i] = 0
        BY <1>1 DEF IInv, Counted
    <2>2. \A x \in Agents, j \in Ids :
              given'[x][j] = IF x = a /\ j = i THEN 1 ELSE given[x][j]
        BY <1>0, <1>4, <2>1 DEF TypeOK
    <2> QED BY <1>2, <1>5, <2>2 DEF IInv, Counted
<1>10. Messages'
    <2>1. ASSUME NEW m \in net \cup seen
          PROVE  /\ m.type = "escalation" => Question(m)'
                 /\ m.type = "escalation_response" => Response(m)'
        <3>1. m.id \in Ids /\ m.from \in Agents /\ m.to \in Agents
            BY <1>0, EnvelopeParts DEF TypeOK
        <3>2. CASE m.type = "escalation"
            <4>1. Question(m)
                BY <3>2 DEF IInv, Messages
            <4> QED BY <1>3, <1>6, <3>1, <3>2, <4>1 DEF Question
        <3>3. CASE m.type = "escalation_response"
            <4>1. Response(m)
                BY <3>3 DEF IInv, Messages
            <4>2. esc'[m.from][m.id] = esc[m.from][m.id]
                BY <1>1, <1>5, <3>1, <4>1 DEF Response
            <4>3. m \in seen => esc'[m.to][m.id] = esc[m.to][m.id]
                BY <1>1, <1>5, <3>1, <4>1 DEF Response
            <4> QED BY <1>3, <3>3, <4>1, <4>2, <4>3 DEF Response
        <3> QED BY <3>2, <3>3
    <2>2. ASSUME NEW m \in net', m \notin net
          PROVE  /\ m.type = "escalation_response"
                 /\ m \notin seen => Response(m)'
        <3>1. /\ m.type = "escalation_response" /\ m.id = i /\ m.from = a
              /\ m.to = r.raiser /\ m.answer = v /\ r.raiser # a
            BY <1>4, <2>2 DEF RoutesBack
        <3>2. asked[i] = a
            BY <1>1, <3>1 DEF IInv, OneRaiser
        <3> QED BY <1>2, <1>3, <1>5, <3>1, <3>2 DEF Response
    <2> QED BY <1>3, <2>1, <2>2 DEF Messages
<1> QED BY <1>7, <1>8, <1>9, <1>10

LEMMA ExpireStep ==
    ASSUME IInv, NEW a \in Agents, Expire(a)
    PROVE  Fresh' /\ OneRaiser' /\ Messages' /\ Counted'
<1>0. TypeOK
    BY DEF IInv
<1>1. ASSUME NEW x \in Agents, NEW j \in Ids
      PROVE  /\ esc'[x][j].raiser = esc[x][j].raiser
             /\ esc'[x][j] = Absent <=> esc[x][j] = Absent
             /\ esc[x][j].status = "answered" => esc'[x][j] = esc[x][j]
             /\ esc'[x][j].status = "answered" => esc[x][j].status = "answered"
    <2>1. CASE esc'[x][j] = esc[x][j]
        BY <2>1
    <2>2. CASE /\ esc[x][j].status = "pending"
               /\ esc'[x][j] = [esc[x][j] EXCEPT !.status = "expired"]
        <3>1. esc[x][j] \in Record /\ esc[x][j] # Absent
            BY <1>0, <2>2, Statuses DEF Absent
        <3>2. /\ esc'[x][j].raiser = esc[x][j].raiser
              /\ esc'[x][j].status = "expired"
            BY <2>2, <3>1 DEF Record
        <3> QED BY <2>2, <3>1, <3>2 DEF Absent
    <2> QED BY <1>0, <2>1, <2>2, ExpireAt
<1>2. UNCHANGED <<seen, raised, asked, given, net>>
    BY DEF Expire
<1>3. Fresh' /\ Counted'
    BY <1>1, <1>2 DEF IInv, Fresh, Counted
<1>4. OneRaiser'
    <2>1. \A x \in Agents, j \in Ids :
              esc[x][j] # Absent => esc[x][j].raiser \in Agents
        BY <1>0, Statuses
    <2> QED BY <1>1, <1>2, <2>1 DEF IInv, OneRaiser
<1>5. Messages'
    <2>1. ASSUME NEW m \in net \cup seen
          PROVE  /\ m.type = "escalation" => Question(m)'
                 /\ m.type = "escalation_response" => Response(m)'
        <3>1. m.id \in Ids /\ m.from \in Agents /\ m.to \in Agents
            BY <1>0, EnvelopeParts DEF TypeOK
        <3>2. CASE m.type = "escalation"
            <4>1. Question(m)
                BY <3>2 DEF IInv, Messages
            <4> QED BY <1>1, <1>2, <3>1, <3>2, <4>1 DEF Question
        <3>3. CASE m.type = "escalation_response"
            <4>1. Response(m)
                BY <3>3 DEF IInv, Messages
            <4> QED BY <1>1, <1>2, <3>1, <3>3, <4>1 DEF Response
        <3> QED BY <3>2, <3>3
    <2> QED BY <1>2, <2>1 DEF Messages
<1> QED BY <1>3, <1>4, <1>5

LEMMA ReceiveStepKeeps ==
    ASSUME IInv, NEW m \in net, ReceiveEscalation(m)
    PROVE  Fresh' /\ OneRaiser' /\ Messages' /\ Counted'
<1>0. TypeOK
    BY DEF IInv
<1> DEFINE a == m.from
           b == m.to
           i == m.id
<1>1. a \in Agents /\ b \in Agents /\ i \in Ids
    BY <1>0, EnvelopeParts DEF TypeOK
<1>2. /\ asked[i] = b /\ a # b /\ esc[a][i].raiser = a /\ esc[b][i] = Absent
      /\ m.type = "escalation"
    BY DEF ReceiveEscalation, Verify, IInv, Messages, Question
<1>3. /\ UNCHANGED <<net, raised, asked, given>>
      /\ seen' = seen \cup {m}
      /\ esc' = esc \/ Put(b, i, Asked(a))
    BY DEF ReceiveEscalation, Verify
<1>4. \A k \in net \cup seen :
          /\ k.id \in Ids /\ k.from \in Agents /\ k.to \in Agents
          /\ k.type \in {"escalation", "escalation_response"}
    BY <1>0, EnvelopeParts DEF TypeOK
<1> HIDE DEF a, b, i
<1>5. CASE esc' = esc
    <2>1. Fresh' /\ OneRaiser' /\ Counted'
        BY <1>3, <1>5 DEF IInv, Fresh, OneRaiser, Counted
    <2>2. Messages'
        BY <1>2, <1>3, <1>5 DEF IInv, Messages, Question, Response
    <2> QED BY <2>1, <2>2
<1>6. CASE Put(b, i, Asked(a))
    <2>1. /\ esc'[b][i] = Asked(a)
          /\ \A x \in Agents, j \in Ids :
                ~ (x = b /\ j = i) => esc'[x][j] = esc[x][j]
        BY <1>0, <1>1, <1>6, PutAt
    <2>2. esc[a][i] # Absent
        BY <1>0, <1>1, <1>2, Statuses
    <2>3. Fresh'
        BY <1>1, <1>2, <1>3, <2>1, AgentsAssumption DEF IInv, Fresh, Nobody
    <2>4. Counted'
        <3>1. given[b][i] = 0
            BY <1>1, <1>2 DEF IInv, Counted, Absent
        <3> QED BY <1>1, <1>3, <2>1, <3>1 DEF IInv, Counted
    <2>5. OneRaiser'
        <3>1. ASSUME NEW j \in Ids, NEW x \in Agents, esc'[x][j] # Absent
              PROVE  /\ esc'[x][j].raiser = x \/ asked'[j] = x
                     /\ esc'[esc'[x][j].raiser][j].raiser = esc'[x][j].raiser
                     /\ \A y \in Agents : esc'[y][j] # Absent =>
                            esc'[y][j].raiser = esc'[x][j].raiser
            <4>1. CASE j # i
                <5>1. esc'[x][j] = esc[x][j] /\ esc[x][j].raiser \in Agents
                    BY <1>0, <2>1, <3>1, <4>1, Statuses
                <5> QED BY <1>3, <2>1, <3>1, <4>1, <5>1 DEF IInv, OneRaiser
            <4>2. CASE j = i
                <5>1. \A y \in Agents : esc[y][i] # Absent =>
                          /\ esc[y][i].raiser = a
                          /\ esc[y][i].raiser = y \/ asked[i] = y
                    BY <1>1, <1>2, <2>2 DEF IInv, OneRaiser
                <5>2. \A y \in Agents : esc'[y][i] # Absent =>
                          /\ esc'[y][i].raiser = a
                          /\ esc'[y][i].raiser = y \/ asked[i] = y
                    BY <1>1, <1>2, <2>1, <5>1, AskedIsRecord
                <5>3. esc'[a][i].raiser = a
                    BY <1>1, <1>2, <2>1
                <5> QED BY <1>3, <3>1, <4>2, <5>2, <5>3
            <4> QED BY <4>1, <4>2
        <3> QED BY <3>1 DEF OneRaiser
    <2>6. Messages'
        <3>1. ASSUME NEW k \in net \cup seen, k.type = "escalation"
              PROVE  Question(k)'
            <4>1. Question(k)
                BY <3>1 DEF IInv, Messages
            <4>2. esc'[k.from][k.id].raiser = k.from
                <5>1. CASE k.from = b /\ k.id = i
                    BY <1>2, <4>1, <5>1 DEF Question
                <5>2. CASE ~ (k.from = b /\ k.id = i)
                    BY <1>4, <2>1, <4>1, <5>2 DEF Question
                <5> QED BY <5>1, <5>2
            <4>3. k \notin seen' => esc'[k.to][k.id] = Absent
                <5>1. CASE k.to = b /\ k.id = i
                    <6>0. k.from \in Agents /\ esc[k.from][i].raiser = k.from
                        BY <1>4, <4>1, <5>1 DEF Question
                    <6>1. k.from = a
                        <7>1. esc[k.from][i] # Absent
                            BY <1>0, <1>1, <6>0, Statuses
                        <7>2. esc[k.from][i].raiser = esc[a][i].raiser
                            BY <1>1, <2>2, <6>0, <7>1 DEF IInv, OneRaiser
                        <7> QED BY <1>2, <6>0, <7>2
                    <6>2. k \in Envelope /\ m \in Envelope
                        BY <1>0 DEF TypeOK
                    <6>3. k = m
                        BY <1>2, <3>1, <5>1, <6>1, <6>2 DEF Envelope, a, b, i
                    <6> QED BY <1>3, <6>3
                <5>2. CASE ~ (k.to = b /\ k.id = i)
                    BY <1>3, <1>4, <2>1, <4>1, <5>2 DEF Question
                <5> QED BY <5>1, <5>2
            <4> QED BY <1>3, <4>1, <4>2, <4>3 DEF Question
        <3>2. ASSUME NEW k \in net \cup seen, k.type = "escalation_response"
              PROVE  Response(k)'
            <4>1. Response(k)
                BY <3>2 DEF IInv, Messages
            <4>2. esc'[k.from][k.id] = esc[k.from][k.id]
                BY <1>2, <1>4, <2>1, <4>1 DEF Response, Absent
            <4>3. ~ (k.to = b /\ k.id = i)
                BY <1>2, <4>1 DEF Response
            <4>4. esc'[k.to][k.id] = esc[k.to][k.id]
                BY <1>4, <2>1, <4>3
            <4>5. k \in seen' => k \in seen
                BY <1>2, <1>3, <3>2
            <4> QED BY <1>3, <4>1, <4>2, <4>4, <4>5 DEF Response
        <3>3. net' \cup seen' = net \cup seen
            BY <1>3
        <3> QED BY <3>1, <3>2, <3>3 DEF Messages
    <2> QED BY <2>3, <2>4, <2>5, <2>6
<1> QED BY <1>3, <1>5, <1>6

LEMMA ApplyStepKeeps ==
    ASSUME IInv, NEW m \in net, ApplyEscalationResponse(m)
    PROVE  Fresh' /\ OneRaiser' /\ Messages' /\ Counted'
<1>0. TypeOK
    BY DEF IInv
<1> DEFINE a == m.to
           b == m.from
           i == m.id
           r == [esc[a][i] EXCEPT !.status = "answered", !.answer = m.answer]
<1>1. a \in Agents /\ b \in Agents /\ i \in Ids
    BY <1>0, EnvelopeParts DEF TypeOK
<1>2. /\ asked[i] = b /\ a # b /\ esc[b][i].raiser = a
      /\ esc[b][i].answer = m.answer
      /\ m.type = "escalation_response"
    BY DEF ApplyEscalationResponse, IInv, Messages, Response
<1>3. esc[a][i] # Absent /\ esc[a][i].raiser = a
    <2>1. esc[b][i] # Absent
        BY <1>0, <1>1, <1>2, Statuses
    <2>2. esc[a][i].raiser = a
        BY <1>1, <1>2, <2>1 DEF IInv, OneRaiser
    <2> QED BY <1>0, <1>1, <2>2, Statuses
<1>4. esc[a][i] \in Record
    BY <1>0, <1>1, <1>3, Statuses
<1>5. /\ UNCHANGED <<net, raised, asked, given>>
      /\ seen' = seen \cup {m}
      /\ Put(a, i, r)
    <2>1. Takes(a, i)
        BY <1>0, <1>1, <1>3, Statuses DEF Takes
    <2> QED BY <2>1 DEF ApplyEscalationResponse, Verify
<1>6. /\ r.raiser = esc[a][i].raiser /\ r.status = "answered"
      /\ r.answer = m.answer /\ r # Absent
    BY <1>4 DEF Record, Absent
<1>7. \A k \in net \cup seen :
          k.id \in Ids /\ k.from \in Agents /\ k.to \in Agents
    BY <1>0, EnvelopeParts DEF TypeOK
<1> HIDE DEF a, b, i, r
<1>8. /\ esc'[a][i] = r
      /\ \A x \in Agents, j \in Ids :
            ~ (x = a /\ j = i) => esc'[x][j] = esc[x][j]
    BY <1>0, <1>1, <1>5, PutAt
<1>9. \A x \in Agents, j \in Ids :
          /\ esc'[x][j].raiser = esc[x][j].raiser
          /\ esc'[x][j] = Absent <=> esc[x][j] = Absent
    BY <1>3, <1>6, <1>8
<1>10. Fresh'
    BY <1>5, <1>9 DEF IInv, Fresh
<1>11. OneRaiser'
    <2>1. \A x \in Agents, j \in Ids :
              esc[x][j] # Absent => esc[x][j].raiser \in Agents
        BY <1>0, Statuses
    <2> QED BY <1>5, <1>9, <2>1 DEF IInv, OneRaiser
<1>12. Counted'
    BY <1>5, <1>6, <1>8 DEF IInv, Counted
<1>13. Messages'
    <2>1. ASSUME NEW k \in net \cup seen, k.type = "escalation"
          PROVE  Question(k)'
        <3>1. Question(k)
            BY <2>1 DEF IInv, Messages
        <3> QED BY <1>5, <1>7, <1>9, <3>1 DEF Question
    <2>2. ASSUME NEW k \in net \cup seen, k.type = "escalation_response"
          PROVE  Response(k)'
        <3>1. Response(k)
            BY <2>2 DEF IInv, Messages
        <3>2. esc'[k.from][k.id] = esc[k.from][k.id]
            BY <1>2, <1>7, <1>8, <3>1 DEF Response
        <3>3. k \in seen' => /\ esc'[k.to][k.id].status = "answered"
                             /\ esc'[k.to][k.id].answer = k.answer
            <4>1. CASE k.to = a /\ k.id = i
                <5>1. k.answer = m.answer
                    BY <1>2, <3>1, <4>1 DEF Response
                <5> QED BY <1>6, <1>8, <4>1, <5>1
            <4>2. CASE ~ (k.to = a /\ k.id = i)
                <5>1. esc'[k.to][k.id] = esc[k.to][k.id]
                    BY <1>7, <1>8, <4>2
                <5>2. k # m
                    BY <4>2 DEF a, i
                <5> QED BY <1>5, <3>1, <5>1, <5>2 DEF Response
            <4> QED BY <4>1, <4>2
        <3> QED BY <1>5, <3>1, <3>2, <3>3 DEF Response
    <2>3. net' \cup seen' = net \cup seen
        BY <1>5
    <2> QED BY <2>1, <2>2, <2>3 DEF Messages
<1> QED BY <1>10, <1>11, <1>12, <1>13

(* Friendships only end.                                                   *)
LEMMA PartedStep ==
    ASSUME TypeOK, Parted, [Next]_vars
    PROVE  Parted'
<1>1. CASE UNCHANGED <<friend, ended>>
    BY <1>1 DEF Parted
<1>2. ASSUME NEW a \in Agents, NEW b \in Agents, EndRelationship(a, b)
      PROVE  Parted'
    <2>1. \A p \in Agents \X Agents :
              friend'[p[1]][p[2]] <=> friend[p[1]][p[2]] /\ p # <<a, b>>
        BY <1>2 DEF EndRelationship, TypeOK
    <2>2. \A p \in ended' : p \in Agents \X Agents /\ (p \in ended \/ p = <<a, b>>)
        BY <1>2 DEF EndRelationship, TypeOK
    <2> QED BY <2>1, <2>2 DEF Parted
<1>3. ASSUME NEW m \in net, Receive(m) \/ Lose(m)
      PROVE  UNCHANGED <<friend, ended>>
    BY <1>3 DEF Receive, ReceiveEscalation, ApplyEscalationResponse, Lose,
                relations
<1>4. ASSUME NEW a \in Agents, OwnerStep(a)
      PROVE  \/ UNCHANGED <<friend, ended>>
             \/ \E b \in Agents : EndRelationship(a, b)
    BY <1>4 DEF OwnerStep, RaiseLocal, RaiseRemote, Answer, Expire, relations
<1>5. ASSUME NEW i \in Ids, Lapse(i)
      PROVE  UNCHANGED <<friend, ended>>
    BY <1>5 DEF Lapse, relations
<1>6. CASE UNCHANGED vars
    BY <1>1, <1>6 DEF vars, relations
<1> QED BY <1>1, <1>2, <1>3, <1>4, <1>5, <1>6 DEF Next

LEMMA Invariance == Spec => []IInv
<1>1. Init => IInv
    <2> SUFFICES ASSUME Init PROVE IInv
        OBVIOUS
    <2>1. Fresh /\ OneRaiser /\ Messages /\ Counted /\ Parted
        BY DEF Init, Fresh, OneRaiser, Messages, Counted, Parted
    <2> QED BY <2>1, TypeInit DEF IInv
<1>2. IInv /\ [Next]_vars => IInv'
    <2> SUFFICES ASSUME IInv, [Next]_vars
                 PROVE  IInv'
        OBVIOUS
    <2>0. TypeOK' /\ Parted'
        BY TypeStep, PartedStep DEF IInv
    <2>1. ASSUME NEW a \in Agents, OwnerStep(a)
          PROVE  Fresh' /\ OneRaiser' /\ Messages' /\ Counted'
        <3>1. ASSUME NEW b \in Agents, EndRelationship(a, b)
              PROVE  UNCHANGED <<esc, seen, raised, asked, given, net>>
            BY <3>1 DEF EndRelationship
        <3> QED BY <2>1, <3>1, RaiseStep, AnswerStep, ExpireStep, QuietStep
            DEF OwnerStep
    <2>2. CASE \E i \in Ids : Lapse(i)
        <3>1. UNCHANGED <<esc, seen, raised, asked, given>> /\ net' \subseteq net
            BY <2>2 DEF Lapse
        <3> QED BY <2>0, <3>1, QuietStep DEF IInv
    <2>3. CASE \E m \in net : Lose(m)
        <3>1. UNCHANGED <<esc, seen, raised, asked, given>> /\ net' \subseteq net
            BY <2>3 DEF Lose
        <3> QED BY <2>0, <3>1, QuietStep DEF IInv
    <2>4. ASSUME NEW m \in net, Receive(m)
          PROVE  Fresh' /\ OneRaiser' /\ Messages' /\ Counted'
        BY <2>4, ReceiveStepKeeps, ApplyStepKeeps DEF Receive
    <2>5. CASE UNCHANGED vars
        <3>1. UNCHANGED <<esc, seen, raised, asked, given>> /\ net' \subseteq net
            BY <2>5 DEF vars
        <3> QED BY <2>0, <3>1, QuietStep DEF IInv
    <2> QED BY <2>0, <2>1, <2>2, <2>3, <2>4, <2>5 DEF Next, IInv
<1> QED BY <1>1, <1>2, PTL DEF Spec

(* An owner answers an escalation once, however often its envelope comes.  *)
THEOREM OwnersAnswerOnce == Spec => []AnsweredOnce
<1>1. IInv => AnsweredOnce
    BY DEF IInv, Counted, AnsweredOnce
<1> QED BY <1>1, Invariance, PTL

(* From the receipt of the response on, the asker has the answer given.    *)
THEOREM AskersAgree == Spec => []AskerAgrees
<1>1. IInv => AskerAgrees
    BY DEF IInv, Messages, Response, AskerAgrees
<1> QED BY <1>1, Invariance, PTL

(* Where the owner was asked, its answer and an expiry stand.              *)
THEOREM AnswersStand == Spec => AnswerStands
<1> DEFINE Stands == \A i \in Ids : \A b \in Agents :
              b = asked[i] /\ esc[b][i].status \in {"answered", "expired"}
                  => esc'[b][i] = esc[b][i]
<1>1. IInv /\ [Next]_vars => [Stands]_vars
    <2> SUFFICES ASSUME IInv, Next, NEW i \in Ids, NEW b \in Agents,
                        b = asked[i],
                        esc[b][i].status \in {"answered", "expired"},
                        esc' # esc
                 PROVE  esc'[b][i] = esc[b][i]
        OBVIOUS
    <2>0. TypeOK /\ esc[b][i] # Absent
        BY DEF IInv, Absent
    <2>1. ASSUME NEW a \in Agents, NEW j \in Ids, NEW r, Put(a, j, r),
                 ~ (a = b /\ j = i)
          PROVE  esc'[b][i] = esc[b][i]
        BY <2>0, <2>1, PutAt
    <2>2. ASSUME NEW a \in Agents, OwnerStep(a)
          PROVE  esc'[b][i] = esc[b][i]
        <3>1. ASSUME NEW j \in Ids, NEW c \in Agents, NewId(j, c),
                     Put(a, j, Asked(a))
              PROVE  esc'[b][i] = esc[b][i]
            <4>0. raised \in Nat /\ j > raised
                BY <2>0, <3>1, BoundsAssumption DEF NewId, TypeOK
            <4>1. esc[b][j] = Absent
                BY <4>0 DEF IInv, Fresh
            <4>2. ~ (a = b /\ j = i)
                BY <2>0, <4>1
            <4> QED BY <2>1, <3>1, <4>2
        <3>2. ASSUME NEW j \in Ids, NEW v \in Answers, Answer(a, j, v)
              PROVE  esc'[b][i] = esc[b][i]
            <4>1. \E r : Put(a, j, r)
                BY <3>2 DEF Answer
            <4>2. ~ (a = b /\ j = i)
                BY <3>2 DEF Answer
            <4> QED BY <2>1, <4>1, <4>2
        <3>3. CASE Expire(a)
            BY <2>0, <3>3, ExpireAt
        <3> QED BY <2>2, <3>1, <3>2, <3>3
            DEF OwnerStep, RaiseLocal, RaiseRemote, EndRelationship
    <2>3. ASSUME NEW m \in net, Receive(m)
          PROVE  esc'[b][i] = esc[b][i]
        <3>1. m.to \in Agents /\ m.id \in Ids
            BY <2>0, EnvelopeParts DEF TypeOK
        <3>2. \E r : Put(m.to, m.id, r)
            BY <2>3 DEF Receive, ReceiveEscalation, ApplyEscalationResponse
        <3>3. CASE ReceiveEscalation(m)
            <4>1. esc[m.to][m.id] = Absent
                BY <3>3 DEF ReceiveEscalation, Verify, IInv, Messages, Question
            <4> QED BY <2>0, <2>1, <3>1, <3>2, <4>1
        <3>4. CASE ApplyEscalationResponse(m)
            <4>1. asked[m.id] # m.to
                BY <3>4 DEF ApplyEscalationResponse, IInv, Messages, Response
            <4> QED BY <2>1, <3>1, <3>2, <4>1
        <3> QED BY <2>3, <3>3, <3>4 DEF Receive
    <2> QED BY <2>2, <2>3 DEF Next, Lapse, Lose
<1> QED BY <1>1, Invariance, PTL DEF Spec, AnswerStands

(* An owner that has revoked or blocked an agent gets no new question of   *)
(* it.                                                                     *)
THEOREM PartedAreNotAsked == Spec => PartedAskNothing
<1> DEFINE Silent == \A a, b \in Agents : \A i \in Ids :
              <<b, a>> \in ended /\ a # b /\ esc'[b][i].raiser = a
                  => esc[b][i].raiser = a
<1>1. IInv /\ [Next]_vars => [Silent]_vars
    <2> SUFFICES ASSUME IInv, Next, NEW a \in Agents, NEW b \in Agents,
                        NEW i \in Ids, <<b, a>> \in ended, a # b,
                        esc'[b][i].raiser = a, esc' # esc
                 PROVE  esc[b][i].raiser = a
        OBVIOUS
    <2>0. TypeOK /\ ~friend[b][a]
        BY DEF IInv, Parted
    <2>1. ASSUME NEW c \in Agents, NEW j \in Ids, NEW r, Put(c, j, r),
                 c = b /\ j = i => r.raiser # a \/ r.raiser = esc[b][i].raiser
          PROVE  esc[b][i].raiser = a
        BY <2>0, <2>1, PutAt
    <2>2. ASSUME NEW c \in Agents, OwnerStep(c)
          PROVE  esc[b][i].raiser = a
        <3>1. ASSUME NEW j \in Ids, Put(c, j, Asked(c))
              PROVE  esc[b][i].raiser = a
            BY <2>1, <3>1, AskedIsRecord
        <3>2. ASSUME NEW j \in Ids, NEW v \in Answers, Answer(c, j, v)
              PROVE  esc[b][i].raiser = a
            <4> DEFINE r == [esc[c][j] EXCEPT !.status = "answered",
                                              !.answer = v]
            <4>1. Put(c, j, r)
                BY <3>2 DEF Answer
            <4>2. esc[c][j] \in Record
                BY <2>0, <3>2, Statuses DEF Answer, Absent
            <4>3. r.raiser = esc[c][j].raiser
                BY <4>2 DEF Record
            <4> QED BY <2>1, <4>1, <4>3
        <3>3. CASE Expire(c)
            <4>1. CASE esc'[b][i] = esc[b][i]
                BY <4>1
            <4>2. CASE /\ esc[b][i].status = "pending"
                       /\ esc'[b][i] = [esc[b][i] EXCEPT !.status = "expired"]
                <5>1. esc[b][i] \in Record
                    BY <2>0, <4>2, Statuses DEF Absent
                <5> QED BY <4>2, <5>1 DEF Record
            <4> QED BY <2>0, <3>3, <4>1, <4>2, ExpireAt
        <3> QED BY <2>2, <3>1, <3>2, <3>3
            DEF OwnerStep, RaiseLocal, RaiseRemote, EndRelationship
    <2>3. ASSUME NEW m \in net, Receive(m)
          PROVE  esc[b][i].raiser = a
        <3>1. m.to \in Agents /\ m.id \in Ids /\ m.from \in Agents
            BY <2>0, EnvelopeParts DEF TypeOK
        <3>2. CASE ReceiveEscalation(m)
            <4>1. friend[m.to][m.from] /\ Put(m.to, m.id, Asked(m.from))
                BY <3>2 DEF ReceiveEscalation, Admits
            <4> QED BY <2>0, <2>1, <3>1, <4>1, AskedIsRecord
        <3>3. CASE ApplyEscalationResponse(m)
            <4> DEFINE r == [esc[m.to][m.id] EXCEPT !.status = "answered",
                                                    !.answer = m.answer]
            <4>1. Takes(m.to, m.id) /\ Put(m.to, m.id, r)
                BY <3>3 DEF ApplyEscalationResponse
            <4>2. esc[m.to][m.id] \in Record
                BY <2>0, <3>1, <4>1, Statuses DEF Takes
            <4>3. r.raiser = esc[m.to][m.id].raiser
                BY <4>2 DEF Record
            <4> QED BY <2>1, <3>1, <4>1, <4>3
        <3> QED BY <2>3, <3>2, <3>3 DEF Receive
    <2> QED BY <2>2, <2>3 DEF Next, Lapse, Lose
<1> QED BY <1>1, Invariance, PTL DEF Spec, PartedAskNothing

-----------------------------------------------------------------------------
(* Escalations implements Consultation.                                    *)

(* What came back is what the responses that were received carry, and each *)
(* carries the verdict.                                                    *)
Verdict(i) == {v \in Answers : AskedRecord(i).answer = v}
Carried(i) ==
    {m.answer : m \in {n \in seen : n.type = "escalation_response" /\ n.id = i}}

LEMMA ReturnedIsCarried ==
    ASSUME IInv
    PROVE  \A i \in Ids : Returned(i) = Carried(i)
BY DEF IInv, Messages, Response, Returned, Carried

LEMMA ResponseVerdict ==
    ASSUME IInv, NEW m \in net \cup seen, m.type = "escalation_response"
    PROVE  Verdict(m.id) = {m.answer}
<1>1. m \in Envelope /\ Response(m)
    BY DEF IInv, TypeOK, Messages
<1>2. /\ m.answer \in Answers /\ m.from \in Agents
      /\ asked[m.id] = m.from /\ esc[m.from][m.id].answer = m.answer
    BY <1>1, EnvelopeParts DEF Response
<1> QED BY <1>2 DEF Verdict, AskedRecord

\* As long as nothing is written where a question was put, it stays as it is.
LEMMA ElsewhereStays ==
    ASSUME TypeOK, NEW a \in Agents, NEW i \in Ids, NEW r, Put(a, i, r),
           asked' = asked, asked[i] # a
    PROVE  \A j \in Ids : AskedRecord(j)' = AskedRecord(j)
BY PutAt DEF AskedRecord

\* No record is made or changed that settles a question.
LEMMA NewIsUnsettled ==
    ASSUME IInv, NEW a \in Agents, NEW b \in Agents, NEW i \in Ids, NewId(i, b),
           Put(a, i, Asked(a))
    PROVE  \A j \in Ids :
              /\ AskedRecord(j)'.answer = AskedRecord(j).answer
              /\ AskedRecord(j)'.status = "expired" <=> AskedRecord(j).status = "expired"
<1>1. TypeOK /\ raised \in Nat /\ i > raised
    BY BoundsAssumption DEF IInv, TypeOK, NewId
<1>2. asked[i] = Nobody /\ \A c \in Agents : esc[c][i] = Absent
    BY <1>1 DEF IInv, Fresh
<1>3. asked'[i] = b /\ \A j \in Ids \ {i} : asked'[j] = asked[j]
    BY <1>1 DEF NewId, TypeOK
<1>4. /\ esc'[a][i] = Asked(a)
      /\ \A x \in Agents, j \in Ids : ~ (x = a /\ j = i) => esc'[x][j] = esc[x][j]
    BY <1>1, PutAt
<1>5. ASSUME NEW j \in Ids, j # i
      PROVE  AskedRecord(j)' = AskedRecord(j)
    BY <1>3, <1>4, <1>5 DEF AskedRecord
<1>6. AskedRecord(i) = Absent
    BY <1>2, AgentsAssumption DEF AskedRecord, Nobody
<1>7. AskedRecord(i)' \in {Asked(a), Absent}
    BY <1>2, <1>3, <1>4 DEF AskedRecord
<1> QED BY <1>5, <1>6, <1>7 DEF Asked, Absent

\* What the abstract variables show when only their sources change.
LEMMA SameVerdicts ==
    ASSUME \A j \in Ids :
              /\ AskedRecord(j)'.answer = AskedRecord(j).answer
              /\ AskedRecord(j)'.status = "expired" <=> AskedRecord(j).status = "expired"
    PROVE  UNCHANGED <<[i \in Ids |-> {v \in Answers : AskedRecord(i).answer = v}],
                       {i \in Ids : AskedRecord(i).status = "expired"}>>
    OBVIOUS

LEMMA SameLearnt ==
    ASSUME IInv, IInv', seen' = seen
    PROVE  UNCHANGED [i \in Ids |-> Returned(i)]
<1>1. \A i \in Ids : Carried(i)' = Carried(i)
    BY DEF Carried
<1>2. \A i \in Ids : Returned(i)' = Carried(i)'
    BY DEF IInv, Messages, Response, Returned, Carried
<1> QED BY <1>1, <1>2, ReturnedIsCarried

LEMMA RaiseConsults ==
    ASSUME IInv, IInv', NEW a \in Agents,
           RaiseLocal(a) \/ \E b \in Agents \ {a} : RaiseRemote(a, b)
    PROVE  UNCHANGED Promise!vars
<1>1. PICK b \in Agents, i \in Ids : NewId(i, b) /\ Put(a, i, Asked(a)) /\ seen' = seen
    BY DEF RaiseLocal, RaiseRemote
<1> QED BY <1>1, NewIsUnsettled, SameVerdicts, SameLearnt DEF Promise!vars

\* The owner asked decides; what another answers is its own copy.
LEMMA AnswerConsults ==
    ASSUME IInv, IInv', NEW a \in Agents, NEW i \in Ids, NEW v \in Answers, Answer(a, i, v)
    PROVE  [Promise!Next]_(Promise!vars)
<1> DEFINE r == [esc[a][i] EXCEPT !.status = "answered", !.answer = v]
<1>1. /\ TypeOK /\ Put(a, i, r) /\ asked' = asked /\ seen' = seen
      /\ esc[a][i].status = "pending"
    BY DEF IInv, Answer
<1>2. esc[a][i] \in Record /\ esc[a][i].answer = NoAnswer
    BY <1>1, Statuses DEF TypeOK
<1>3. r.status = "answered" /\ r.answer = v
    BY <1>2 DEF Record
<1> HIDE DEF r
<1>4. UNCHANGED [j \in Ids |-> Returned(j)]
    BY <1>1, SameLearnt
<1>5. CASE asked[i] # a
    BY <1>1, <1>4, <1>5, ElsewhereStays, SameVerdicts DEF Promise!vars
<1>6. CASE asked[i] = a
    <2>1. AskedRecord(i) = esc[a][i] /\ AskedRecord(i)' = r
        BY <1>1, <1>6, PutAt DEF AskedRecord
    <2>2. \A j \in Ids \ {i} : AskedRecord(j)' = AskedRecord(j)
        BY <1>1, PutAt DEF AskedRecord
    <2>3. Verdict(i) = {} /\ Verdict(i)' = {v} /\ \A j \in Ids \ {i} : Verdict(j)' = Verdict(j)
        BY <1>2, <1>3, <2>1, <2>2, AnswersAssumption DEF Verdict
    <2>4. UNCHANGED {j \in Ids : AskedRecord(j).status = "expired"}
        BY <1>1, <1>3, <2>1, <2>2
    <2> DEFINE f == [j \in Ids |-> Verdict(j)]
    <2>5. f' = [f EXCEPT ![i] = {v}]
        BY <2>3
    <2>6. f = [j \in Ids |-> {w \in Answers : AskedRecord(j).answer = w}]
        BY DEF Verdict
    <2>7. f' = [j \in Ids |-> {w \in Answers : AskedRecord(j).answer = w}]'
        BY DEF Verdict
    <2>8. i \in Promise!Unsettled
        BY <1>1, <2>1, <2>3, <2>6 DEF Promise!Unsettled
    <2> HIDE DEF f
    <2>9. Promise!Decide(i, v)
        BY <1>4, <2>4, <2>5, <2>6, <2>7, <2>8 DEF Promise!Decide
    <2> QED BY <2>9 DEF Promise!Next
<1> QED BY <1>5, <1>6

LEMMA SweepConsults ==
    ASSUME IInv, IInv', NEW a \in Agents, Expire(a)
    PROVE  [Promise!Next]_(Promise!vars)
<1> DEFINE gone == {i \in Ids : AskedRecord(i)'.status = "expired"
                                /\ AskedRecord(i).status # "expired"}
<1>1. TypeOK /\ asked' = asked /\ seen' = seen
    BY DEF IInv, Expire
<1>2. ASSUME NEW i \in Ids
      PROVE  \/ AskedRecord(i)' = AskedRecord(i)
             \/ /\ AskedRecord(i).status = "pending" /\ AskedRecord(i).answer = NoAnswer
                /\ AskedRecord(i)'.status = "expired" /\ AskedRecord(i)'.answer = NoAnswer
    <2>1. CASE asked[i] \notin Agents
        BY <1>1, <2>1 DEF AskedRecord
    <2>2. ASSUME asked[i] \in Agents, esc[asked[i]][i].status = "pending",
                 esc'[asked[i]][i] = [esc[asked[i]][i] EXCEPT !.status = "expired"]
          PROVE  /\ AskedRecord(i).status = "pending" /\ AskedRecord(i).answer = NoAnswer
                 /\ AskedRecord(i)'.status = "expired" /\ AskedRecord(i)'.answer = NoAnswer
        <3>1. esc[asked[i]][i] \in Record /\ esc[asked[i]][i].answer = NoAnswer
            BY <1>1, <2>2, Statuses DEF TypeOK
        <3> QED BY <1>1, <2>2, <3>1 DEF AskedRecord, Record
    <2> QED BY <1>1, <2>1, <2>2, ExpireAt DEF AskedRecord
<1>3. \A i \in Ids : Verdict(i)' = Verdict(i)
    BY <1>2 DEF Verdict
<1>4. UNCHANGED [j \in Ids |-> Returned(j)]
    BY <1>1, SameLearnt
<1>5. \A i \in gone : Verdict(i) = {} /\ AskedRecord(i).status # "expired"
    BY <1>2, AnswersAssumption DEF Verdict
<1>6. {i \in Ids : AskedRecord(i)'.status = "expired"}
          = {i \in Ids : AskedRecord(i).status = "expired"} \cup gone
    BY <1>2
<1> HIDE DEF gone
<1>7. gone \in SUBSET Promise!Unsettled
    BY <1>5 DEF gone, Promise!Unsettled, Verdict
<1>8. Promise!Sweep
    BY <1>3, <1>4, <1>6, <1>7 DEF Promise!Sweep, Verdict
<1> QED BY <1>8 DEF Promise!Next

\* A question that comes in is filed where nothing was settled.
LEMMA ReceiveConsults ==
    ASSUME IInv, IInv', NEW m \in net, ReceiveEscalation(m)
    PROVE  UNCHANGED Promise!vars
<1>1. /\ TypeOK /\ m.to \in Agents /\ m.from \in Agents /\ m.id \in Ids
      /\ esc[m.to][m.id] = Absent
      /\ m.type = "escalation" /\ asked' = asked /\ seen' = seen \cup {m}
    BY EnvelopeParts DEF IInv, TypeOK, Messages, Question, ReceiveEscalation, Verify
<1>2. esc' = esc \/ Put(m.to, m.id, Asked(m.from))
    BY DEF ReceiveEscalation
<1>3. ASSUME NEW j \in Ids
      PROVE  /\ AskedRecord(j)'.answer = AskedRecord(j).answer
             /\ AskedRecord(j)'.status = "expired" <=> AskedRecord(j).status = "expired"
    <2>1. CASE AskedRecord(j)' = AskedRecord(j)
        BY <2>1
    <2>2. CASE AskedRecord(j) = Absent /\ AskedRecord(j)' = Asked(m.from)
        BY <2>2 DEF Asked, Absent
    <2> QED BY <1>1, <1>2, <2>1, <2>2, PutAt DEF AskedRecord
<1>4. \A j \in Ids : Carried(j)' = Carried(j)
    BY <1>1 DEF Carried
<1>5. \A j \in Ids : Returned(j)' = Carried(j)'
    BY DEF IInv, Messages, Response, Returned, Carried
<1>6. UNCHANGED [j \in Ids |-> Returned(j)]
    BY <1>4, <1>5, ReturnedIsCarried
<1> QED BY <1>3, <1>6, SameVerdicts DEF Promise!vars

\* What a response brings to the asker is the verdict.
LEMMA ApplyConsults ==
    ASSUME IInv, IInv', NEW m \in net, ApplyEscalationResponse(m)
    PROVE  [Promise!Next]_(Promise!vars)
<1>1. /\ TypeOK /\ m.to \in Agents /\ m.id \in Ids /\ m.type = "escalation_response"
      /\ asked[m.id] # m.to /\ asked' = asked /\ seen' = seen \cup {m}
    BY EnvelopeParts
       DEF IInv, TypeOK, Messages, Response, ApplyEscalationResponse, Verify
<1>2. \A j \in Ids : AskedRecord(j)' = AskedRecord(j)
    <2>1. esc' = esc \/ \E r : Put(m.to, m.id, r)
        BY DEF ApplyEscalationResponse
    <2>2. CASE esc' = esc
        BY <1>1, <2>2 DEF AskedRecord
    <2>3. CASE \E r : Put(m.to, m.id, r)
        BY <1>1, <2>3, ElsewhereStays
    <2> QED BY <2>1, <2>2, <2>3
<1>3. Verdict(m.id) = {m.answer}
    BY <1>1, ResponseVerdict
<1>4. /\ Carried(m.id)' = Verdict(m.id)
      /\ \A j \in Ids \ {m.id} : Carried(j)' = Carried(j)
    <2>1. \A n \in seen : n.type = "escalation_response" /\ n.id = m.id
                             => n.answer = m.answer
        BY <1>3, ResponseVerdict
    <2> QED BY <1>1, <1>3, <2>1 DEF Carried
<1>5. \A j \in Ids : Returned(j)' = Carried(j)'
    BY DEF IInv, Messages, Response, Returned, Carried
<1>6. /\ Returned(m.id)' = Verdict(m.id)
      /\ \A j \in Ids \ {m.id} : Returned(j)' = Returned(j)
    BY <1>1, <1>4, <1>5, ReturnedIsCarried
<1>7. Promise!Learn(m.id)
    BY <1>1, <1>2, <1>3, <1>6, SameVerdicts DEF Promise!Learn, Verdict
<1> QED BY <1>1, <1>7 DEF Promise!Next

(* Two records in two homes implement one question: the owner asked settles*)
(* it once, an expiry there is final, and the asker learns that answer and *)
(* no other (answerEscalation, applyEscalationResponse, expireEscalations).*)
THEOREM ConsultationIsKept == Spec => ConsultationSpec
<1>1. Init => Promise!Init
    <2> SUFFICES ASSUME Init PROVE Promise!Init
        OBVIOUS
    <2>1. \A i \in Ids : AskedRecord(i) = Absent /\ Returned(i) = {}
        BY AgentsAssumption DEF Init, AskedRecord, Returned, Nobody
    <2> QED BY <2>1, AnswersAssumption DEF Promise!Init, Promise!Nothing, Absent
<1>2. IInv /\ IInv' /\ [Next]_vars => [Promise!Next]_(Promise!vars)
    <2> SUFFICES ASSUME IInv, IInv', [Next]_vars
                 PROVE  [Promise!Next]_(Promise!vars)
        OBVIOUS
    <2>1. ASSUME NEW a \in Agents, OwnerStep(a)
          PROVE  [Promise!Next]_(Promise!vars) \/ UNCHANGED <<esc, asked, seen>>
        BY <2>1, RaiseConsults, AnswerConsults, SweepConsults
           DEF OwnerStep, EndRelationship
    <2>2. ASSUME NEW m \in net, Receive(m) \/ Lose(m)
          PROVE  [Promise!Next]_(Promise!vars) \/ UNCHANGED <<esc, asked, seen>>
        BY <2>2, ReceiveConsults, ApplyConsults DEF Receive, Lose
    <2>3. CASE UNCHANGED <<esc, asked, seen>>
        BY <2>3 DEF Promise!vars, AskedRecord, Returned
    <2> QED BY <2>1, <2>2, <2>3 DEF Next, Lapse, vars
<1> QED BY <1>1, <1>2, Invariance, PTL DEF Spec, ConsultationSpec, Promise!Spec
=============================================================================
