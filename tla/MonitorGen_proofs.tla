------------------------- MODULE MonitorGen_proofs -------------------------
(***************************************************************************)
(* Proofs about MonitorGen, for every set of ids and values and any number *)
(* of messages: first on the condition that smbtad pushes no news between  *)
(* the two registrations (MonitorGenEarly.cfg shows what happens when it   *)
(* does), then, in the last section, what is left without it.              *)
(*                                                                         *)
(* That an item of the list carries the right id depends on what is on its *)
(* way: while the program waits for an answer, the first message it has    *)
(* not taken is that answer, or there is none.  PhaseInv says, place by    *)
(* place, which messages are on their way and which functions smbtad has   *)
(* registered.                                                             *)
(***************************************************************************)
EXTENDS MonitorGen, SequenceTheorems, TLAPS

\* The program does nothing any more, or nothing with effect.
Stopped == Ended \cup {"spinning"}

NeverCrashes == pc # "crashed"

M == Len(monlist)
Next1 == Len(received) + 1     \* the first message not taken yet

\* The functions from the n-th on are not registered.
Free(n) == \A j \in n .. 2, i \in Ids : monitors[i] # Functions[j]

\* From the n-th message on there is nothing but news of smbtad's monitors.
AllNews(n) ==
  \A j \in n .. Len(sent) : sent[j].value \in Values /\ monitors[sent[j].id] \in MonitorFn

\* Nothing is on its way.
Idle == queries = <<>> /\ Len(received) = Len(sent) /\ Free(M + 1)

\* The query is on its way ...
Asked == queries = <<Functions[M + 1]>> /\ Len(received) = Len(sent) /\ Free(M + 1)

\* ... or its answer is, followed by news only if it was the last one.
Answered ==
  /\ queries = <<>>
  /\ Next1 <= Len(sent)
  /\ monitors[sent[Next1].id] = Functions[M + 1]
  /\ Free(M + 2)
  /\ M = 0 => Len(sent) = Next1
  /\ AllNews(Next1 + 1)

PhaseInv ==
  /\ pc \in {"accept", "dryrun"} => monlist = <<>>
  /\ pc \in {"accept", "dryrun", "register", "answer"} => M < 2
  /\ pc \in {"accept", "dryrun", "register"} => Idle
  /\ pc = "answer" => Asked \/ Answered
  /\ pc = "running" => M = 2 /\ queries = <<>> /\ AllNews(Next1)

\* smbtad has no function registered twice.
UniqueInv ==
  pc \notin Stopped =>
    \A i, j \in Ids : monitors[i] # "none" /\ monitors[i] = monitors[j] => i = j

ListInv ==
  \A k \in DOMAIN monlist :
    monlist[k].type = Functions[k] /\ monitors[monlist[k].id] = Functions[k]

IInv == TypeOK /\ ~PushEarly /\ PhaseInv /\ UniqueInv /\ ListInv /\ NeverCrashes
----------------------------------------------------------------------------
LEMMA FunctionFacts ==
  /\ Len(Functions) = 2
  /\ Functions[1] = "MONITOR_READ" /\ Functions[2] = "MONITOR_WRITE"
  /\ Functions[1] # "none" /\ Functions[2] # "none"
BY DEF Functions

\* Of a set of places in the list there is a first one.
LEMMA FirstIsIn ==
  ASSUME NEW ks, ks \subseteq 1 .. 2, ks # {}
  PROVE  First(ks) \in ks /\ \A j \in ks : First(ks) <= j
<1>1. CASE 1 \in ks
  <2>1. \A j \in ks : 1 <= j
    OBVIOUS
  <2> QED BY <1>1, <2>1 DEF First
<1>2. CASE 1 \notin ks
  <2>1. PICK k \in ks : TRUE
    OBVIOUS
  <2>2. \A j \in ks : j = 2
    BY <1>2
  <2>3. k = 2 /\ \A j \in ks : k <= j
    BY <2>1, <2>2
  <2> QED BY <2>1, <2>3 DEF First
<1> QED BY <1>1, <1>2

LEMMA InitIInv == Init /\ ~PushEarly => IInv
<1> SUFFICES ASSUME Init, ~PushEarly PROVE IInv
  OBVIOUS
<1> USE DEF Init, Connection!DeliveryInit
<1>1. TypeOK
  BY DEF TypeOK, Connection!DeliveryTypeOK, MonitorFn
<1>2. PhaseInv
  BY FunctionFacts DEF PhaseInv, Idle, Free, M
<1>3. UniqueInv /\ ListInv /\ NeverCrashes
  BY DEF UniqueInv, ListInv, NeverCrashes
<1> QED BY <1>1, <1>2, <1>3 DEF IInv

LEMMA ListTypes ==
  ASSUME TypeOK
  PROVE  /\ M \in Nat
         /\ DOMAIN monlist = 1 .. M
         /\ \A k \in 1 .. M : monlist[k].id \in Ids /\ monlist[k].type \in MonitorFn
<1>1. monlist \in Seq([id : Ids, type : MonitorFn])
  BY DEF TypeOK
<1>2. M \in Nat /\ DOMAIN monlist = 1 .. M
  BY <1>1 DEF M
<1>3. \A k \in 1 .. M : monlist[k] \in [id : Ids, type : MonitorFn]
  BY <1>1, ElementOfSeq DEF M
<1> QED BY <1>2, <1>3

LEMMA MessageTypes ==
  ASSUME TypeOK
  PROVE  /\ Len(sent) \in Nat /\ Next1 \in Nat \ {0}
         /\ \A j \in 1 .. Len(sent) :
              sent[j] \in Message /\ sent[j].id \in Ids
<1>1. sent \in Seq(Message) /\ received \in Seq(Message)
  BY DEF TypeOK, Connection!DeliveryTypeOK
<1>2. \A j \in 1 .. Len(sent) : sent[j] \in Message
  BY <1>1
<1>3. Len(sent) \in Nat /\ Next1 \in Nat \ {0}
  BY <1>1 DEF Next1
<1> QED BY <1>2, <1>3 DEF Message
----------------------------------------------------------------------------
(* One lemma per action. *)

\* smbtad's step: only a waiting program has asked for it.
LEMMA RegisterKeepsIInv ==
  ASSUME IInv, SmbtadRegister
  PROVE  IInv'
<1> USE DEF IInv, SmbtadRegister
<1>1. PICK i \in Ids :
        /\ monitors[i] = "none"
        /\ monitors' = [monitors EXCEPT ![i] = Head(queries)]
        /\ Connection!Send([id |-> i, value |-> NoValue])
  OBVIOUS
<1>2. /\ sent' = Append(sent, [id |-> i, value |-> NoValue])
      /\ received' = received
  BY <1>1 DEF Connection!Send
<1>3. Head(queries) \in MonitorFn /\ queries' = <<>>
  BY DEF TypeOK
<1>4. [id |-> i, value |-> NoValue] \in Message
  BY DEF Message
<1>5. TypeOK'
  BY <1>1, <1>2, <1>3, <1>4 DEF TypeOK, Connection!DeliveryTypeOK, MonitorFn
<1>6. ListInv'
  BY <1>1, FunctionFacts DEF ListInv, TypeOK
<1>7. pc \in {"answer"} \cup Stopped
  BY DEF PhaseInv, Idle, Stopped, Ended, TypeOK
<1>8. CASE pc \in Stopped
  BY <1>5, <1>6, <1>8 DEF PhaseInv, UniqueInv, NeverCrashes, Stopped, Ended
<1>9. CASE pc = "answer"
  <2>1. Asked /\ M \in {0, 1}
    BY <1>9 DEF PhaseInv, Asked, Answered, TypeOK, M
  <2>2. Head(queries) = Functions[M + 1]
    BY <2>1 DEF Asked
  <2>3. \A j \in Ids : monitors[j] # Functions[M + 1]
    BY <2>1 DEF Asked, Free
  <2>4. UniqueInv'
    BY <1>1, <1>9, <2>2, <2>3, FunctionFacts DEF UniqueInv, TypeOK, Stopped, Ended
  <2>5. Answered'
    <3>1. Len(sent') = Len(sent) + 1 /\ sent'[Len(sent')] = [id |-> i, value |-> NoValue]
      BY <1>2 DEF TypeOK, Connection!DeliveryTypeOK
    <3>2. Len(received) = Len(sent) /\ Len(sent) \in Nat
      BY <2>1 DEF Asked, TypeOK, Connection!DeliveryTypeOK
    <3>3. Next1' = Len(sent') /\ M' = M
      BY <3>1, <3>2, <1>2 DEF Next1, M
    <3>4. monitors'[sent'[Next1'].id] = Functions[M' + 1]
      BY <3>1, <3>3, <1>1, <2>2 DEF TypeOK
    <3>5. Free(M + 2)'
      BY <1>1, <2>1, <2>2, <3>3, FunctionFacts DEF Asked, Free, TypeOK
    <3>6. AllNews(Next1 + 1)'
      BY <3>1, <3>2, <3>3 DEF AllNews
    <3> QED BY <1>3, <3>1, <3>2, <3>3, <3>4, <3>5, <3>6 DEF Answered
  <2> QED BY <1>5, <1>6, <1>9, <2>1, <2>4, <2>5 DEF PhaseInv, NeverCrashes, M
<1> QED BY <1>7, <1>8, <1>9

\* News only come once both functions are registered.
LEMMA NewsKeepsIInv ==
  ASSUME IInv, SmbtadNews
  PROVE  IInv'
<1> USE DEF IInv, SmbtadNews
<1>1. PICK i \in Ids, v \in Values :
        /\ monitors[i] # "none"
        /\ Connection!Send([id |-> i, value |-> v])
        /\ news' = IF v = 0 THEN news
                   ELSE Append(news, [at |-> Len(sent) + 1, line |-> Line(i, v)])
  OBVIOUS
<1>2. /\ sent' = Append(sent, [id |-> i, value |-> v])
      /\ received' = received
  BY <1>1 DEF Connection!Send
<1>3. TypeOK'
  <2>1. [id |-> i, value |-> v] \in Message
    BY DEF Message
  <2>2. sent' \in Seq(Message) /\ received' \in Seq(Message) /\ Len(sent) \in Nat
    BY <1>2, <2>1 DEF TypeOK, Connection!DeliveryTypeOK
  <2>3. Line(i, v) \in ClientMessage
    BY <1>1 DEF Line, ClientMessage, Tag, MonitorFn, TypeOK
  <2>4. news' \in Seq([at : Nat, line : ClientMessage])
    <3> DEFINE item == [at |-> Len(sent) + 1, line |-> Line(i, v)]
               Items == [at : Nat, line : ClientMessage]
    <3>1. item \in Items
      BY <2>2, <2>3
    <3>2. news \in Seq(Items) /\ news' \in {news, Append(news, item)}
      BY <1>1 DEF TypeOK
    <3> HIDE DEF item, Items
    <3>3. news' \in Seq(Items)
      BY <3>1, <3>2
    <3> QED BY <3>3 DEF Items
  <2> QED BY <2>2, <2>4 DEF TypeOK, Connection!DeliveryTypeOK
<1>4. \A n \in 1 .. 2 : ~Free(n)
  <2>1. PICK j \in Ids : monitors[j] = "MONITOR_WRITE"
    BY DEF MonitorFn
  <2> QED BY <2>1, FunctionFacts DEF Free
<1>5. (~Idle /\ ~Asked) \/ M >= 2
  BY <1>4 DEF Idle, Asked, M, TypeOK
<1>6. /\ Len(sent') = Len(sent) + 1
      /\ \A j \in 1 .. Len(sent) : sent'[j] = sent[j]
      /\ sent'[Len(sent')] = [id |-> i, value |-> v]
      /\ Len(sent) \in Nat /\ Len(received) \in Nat
  BY <1>2 DEF TypeOK, Connection!DeliveryTypeOK
<1>7. monitors[i] \in MonitorFn
  BY <1>1 DEF TypeOK
<1>8. ASSUME NEW n \in Nat \ {0}, AllNews(n) PROVE AllNews(n)'
  BY <1>6, <1>7, <1>8 DEF AllNews, smbtad
<1>9. CASE pc = "answer"
  <2>1. Answered /\ M \in {0, 1}
    <3>1. M < 2 /\ M \in Nat
      BY <1>9 DEF PhaseInv, TypeOK, M
    <3>2. ~Asked
      BY <1>5, <3>1
    <3> QED BY <1>9, <3>1, <3>2 DEF PhaseInv
  <2>2. M = 1
    BY <1>4, <2>1 DEF Answered
  <2>3. Answered'
    <3>1. Next1' = Next1 /\ Next1 \in 1 .. Len(sent) /\ M' = M
      BY <1>2, <1>6, <2>1 DEF Answered, Next1, M
    <3>2. AllNews(Next1 + 1)'
      <4>1. AllNews(Next1 + 1) /\ Next1 + 1 \in Nat \ {0} /\ Next1' + 1 = Next1 + 1
        BY <2>1, <3>1 DEF Answered
      <4>2. AllNews(Next1 + 1)' <=> \A j \in Next1 + 1 .. Len(sent') :
              sent'[j].value \in Values /\ monitors'[sent'[j].id] \in MonitorFn
        BY <4>1 DEF AllNews
      <4>3. monitors' = monitors
        OBVIOUS
      <4>4. \A j \in Next1 + 1 .. Len(sent') : j \in Next1 + 1 .. Len(sent) \/ j = Len(sent')
        BY <1>6, <3>1
      <4>5. \A j \in Next1 + 1 .. Len(sent) : j \in 1 .. Len(sent)
        BY <3>1
      <4> QED BY <1>6, <1>7, <4>1, <4>2, <4>3, <4>4, <4>5 DEF AllNews
    <3> QED BY <1>6, <2>1, <2>2, <3>1, <3>2 DEF Answered, Free, smbtad
  <2> QED BY <1>3, <1>9, <2>1, <2>3 DEF PhaseInv, UniqueInv, ListInv, NeverCrashes, M, smbtad
<1>10. CASE pc = "running"
  <2>1. AllNews(Next1)'
    BY <1>2, <1>6, <1>7, <1>10 DEF PhaseInv, AllNews, Next1, smbtad
  <2> QED BY <1>3, <1>10, <2>1 DEF PhaseInv, UniqueInv, ListInv, NeverCrashes, M, smbtad
<1>11. CASE pc \notin {"answer", "running"}
  <2>1. pc \notin {"accept", "dryrun", "register"}
    BY <1>5 DEF PhaseInv, M, TypeOK
  <2> QED BY <1>3, <1>11, <2>1 DEF PhaseInv, UniqueInv, ListInv, NeverCrashes, smbtad
<1> QED BY <1>9, <1>10, <1>11

\* What a client does disturbs none of it, nor does smbtad's end.
LEMMA ClientKeepsIInv ==
  ASSUME IInv, ClientConnect \/ ClientGone \/ ClientRead \/ SmbtadLost
  PROVE  IInv'
<1> USE DEF ClientConnect, ClientGone, ClientRead, SmbtadLost, smbtad
<1>1. /\ UNCHANGED <<monitors, queries, sent, received, pc, monlist>>
      /\ UNCHANGED <<dryrun, news, toclient>>
      /\ client' \in {"absent", "connected", "gone"}
      /\ read' \in Nat /\ link' \in {"up", "down"}
  BY DEF IInv, TypeOK
<1>2. TypeOK'
  BY <1>1 DEF IInv, TypeOK, Connection!DeliveryTypeOK
<1> QED
  BY <1>1, <1>2 DEF IInv, PhaseInv, Idle, Asked, Answered, Free, AllNews, Next1, M,
                    UniqueInv, ListInv, NeverCrashes

LEMMA SignalKeepsIInv ==
  ASSUME IInv, CatchSignal
  PROVE  IInv'
<1> USE DEF CatchSignal, smbtad
<1>1. TypeOK'
  BY DEF IInv, TypeOK, Connection!DeliveryTypeOK, Stopped, Ended
<1> QED BY <1>1 DEF IInv, PhaseInv, UniqueInv, ListInv, NeverCrashes, Stopped, Ended

LEMMA SpinKeepsIInv ==
  ASSUME IInv, Spin
  PROVE  IInv'
<1> USE DEF Spin, smbtad
<1>1. TypeOK'
  BY DEF IInv, TypeOK, Connection!DeliveryTypeOK, Ended
<1> QED BY <1>1 DEF IInv, PhaseInv, UniqueInv, ListInv, NeverCrashes, Stopped, Ended

LEMMA AcceptKeepsIInv ==
  ASSUME IInv, Accept
  PROVE  IInv'
<1> USE DEF Accept, smbtad
<1>1. pc' \in {"dryrun", "register"} /\ Idle' /\ M' = M /\ M < 2 /\ monlist = <<>>
  BY DEF IInv, PhaseInv, Idle, Free, M
<1>2. TypeOK'
  BY <1>1 DEF IInv, TypeOK, Connection!DeliveryTypeOK
<1> QED BY <1>1, <1>2 DEF IInv, PhaseInv, UniqueInv, ListInv, NeverCrashes, Stopped, Ended

LEMMA SendRegistrationKeepsIInv ==
  ASSUME IInv, SendRegistration
  PROVE  IInv'
<1> USE DEF SendRegistration
<1>1. Idle /\ M \in {0, 1}
  BY ListTypes DEF IInv, PhaseInv
<1>k. CASE pc' = "killed" /\ UNCHANGED queries
  <2>1. TypeOK'
    BY <1>k DEF IInv, TypeOK, Connection!DeliveryTypeOK, Ended
  <2> QED BY <1>k, <2>1 DEF IInv, PhaseInv, UniqueInv, ListInv, NeverCrashes, Stopped, Ended
<1> SUFFICES ASSUME pc' = "answer", queries' = Append(queries, Registering)
             PROVE  IInv'
  BY <1>k
<1>2. queries' = <<Functions[M + 1]>>
  BY <1>1 DEF Idle, Registering, M
<1>3. Functions[M + 1] \in MonitorFn
  BY <1>1, FunctionFacts DEF MonitorFn
<1>4. TypeOK'
  BY <1>2, <1>3 DEF IInv, TypeOK, Connection!DeliveryTypeOK
<1>5. Asked' /\ M' = M
  BY <1>1, <1>2 DEF Idle, Asked, Free, M
<1> QED BY <1>1, <1>4, <1>5 DEF IInv, PhaseInv, UniqueInv, ListInv, NeverCrashes, Stopped, Ended

\* The answer is the first message not taken, so the item gets its own id.
LEMMA TakeAnswerKeepsIInv ==
  ASSUME IInv, TakeAnswer
  PROVE  IInv'
<1> DEFINE answer == sent[Next1]
<1> USE DEF TakeAnswer
<1>1. /\ Len(received) < Len(sent)
      /\ received' = Append(received, answer)
      /\ UNCHANGED <<monitors, queries, news, sent, dryrun, client, toclient, read, link>>
      /\ monlist' = Append(monlist, [id |-> answer.id, type |-> Registering])
  BY DEF Connection!Deliver, Next1, smbtad
<1>2. Answered /\ M \in {0, 1}
  BY <1>1, ListTypes DEF IInv, PhaseInv, Asked
<1>3. /\ M \in Nat /\ M' = M + 1
      /\ \A k \in 1 .. M : monlist'[k] = monlist[k]
      /\ monlist'[M + 1] = [id |-> answer.id, type |-> Functions[M + 1]]
  BY <1>1 DEF IInv, TypeOK, M, Registering
<1>4. answer \in Message /\ answer.id \in Ids
  BY <1>2, MessageTypes DEF IInv, Answered
<1>5. Next1' = Next1 + 1 /\ Next1 \in Nat
  BY <1>1, <1>4 DEF IInv, TypeOK, Connection!DeliveryTypeOK, Next1
<1>6. pc' = IF M' < 2 THEN "register" ELSE "running"
  BY FunctionFacts DEF M
<1>7. TypeOK'
  <2>1. Functions[M + 1] \in MonitorFn
    BY <1>2, FunctionFacts DEF MonitorFn
  <2>2. monlist' \in Seq([id : Ids, type : MonitorFn]) /\ Len(monlist') <= Len(Functions)
    <3> DEFINE item == [id |-> answer.id, type |-> Registering]
    <3>1. item \in [id : Ids, type : MonitorFn]
      BY <1>4, <2>1 DEF Registering, M
    <3>2. monlist \in Seq([id : Ids, type : MonitorFn]) /\ monlist' = Append(monlist, item)
      BY <1>1 DEF IInv, TypeOK
    <3> HIDE DEF item
    <3>3. monlist' \in Seq([id : Ids, type : MonitorFn]) /\ Len(monlist') = Len(monlist) + 1
      BY <3>1, <3>2
    <3> QED BY <1>2, <3>3, FunctionFacts DEF M
  <2>3. received' \in Seq(Message)
    BY <1>1, <1>4 DEF IInv, TypeOK, Connection!DeliveryTypeOK
  <2> QED BY <1>1, <1>6, <2>2, <2>3 DEF IInv, TypeOK, Connection!DeliveryTypeOK
<1>8. ListInv'
  <2>1. ASSUME NEW k \in DOMAIN monlist'
        PROVE  monlist'[k].type = Functions[k] /\ monitors'[monlist'[k].id] = Functions[k]
    <3>1. k \in 1 .. M \/ k = M + 1
      BY <1>3, <1>7 DEF TypeOK, M
    <3>2. CASE k \in 1 .. M
      BY <1>1, <1>3, <3>2 DEF IInv, ListInv, M, TypeOK
    <3>3. CASE k = M + 1
      BY <1>1, <1>2, <1>3, <3>3 DEF Answered
    <3> QED BY <3>1, <3>2, <3>3
  <2> QED BY <2>1 DEF ListInv
<1>9. UniqueInv'
  BY <1>1, <1>6 DEF IInv, UniqueInv, Stopped, Ended
<1>10. CASE M = 0
  <2>1. Idle'
    BY <1>1, <1>2, <1>3, <1>5, <1>10 DEF Answered, Idle, Free, Next1
  <2> QED BY <1>3, <1>6, <1>7, <1>8, <1>9, <1>10, <2>1 DEF IInv, PhaseInv, NeverCrashes
<1>11. CASE M = 1
  <2>1. AllNews(Next1)' /\ queries' = <<>>
    BY <1>1, <1>2, <1>5 DEF Answered, AllNews
  <2> QED BY <1>3, <1>6, <1>7, <1>8, <1>9, <1>11, <2>1 DEF IInv, PhaseInv, NeverCrashes
<1> QED BY <1>2, <1>10, <1>11

\* What is sent to the client is a letter and a value.
LEMMA SendClientTypes ==
  ASSUME IInv, pc \notin Stopped, NEW m \in ClientMessage, SendClient(m)
  PROVE  toclient' \in Seq(ClientMessage) /\ (pc' = pc \/ pc' = "killed")
<1>1. toclient \in Seq(ClientMessage)
  BY DEF IInv, TypeOK
<1>2. CASE pc' = "killed" /\ UNCHANGED toclient
  BY <1>1, <1>2
<1>3. CASE toclient' = Append(toclient, m) /\ UNCHANGED pc
  BY <1>1, <1>3
<1> QED BY <1>2, <1>3 DEF SendClient

\* News are of a monitor in the list, and carry a value.
LEMMA HandleDataKeepsIInv ==
  ASSUME IInv, HandleData
  PROVE  IInv'
<1> DEFINE m == sent[Next1]
<1> USE DEF HandleData
<1>1. /\ Len(received) < Len(sent)
      /\ received' = Append(received, m)
      /\ UNCHANGED <<monitors, queries, news, sent, dryrun, monlist, client, read, link>>
      /\ ChangeResults(m)
  BY DEF Connection!Deliver, Next1, smbtad
<1>2. M = 2 /\ queries = <<>> /\ AllNews(Next1)
  BY DEF IInv, PhaseInv
<1>3. m \in Message /\ Next1 \in 1 .. Len(sent) /\ Next1' = Next1 + 1
  BY <1>1 DEF IInv, TypeOK, Connection!DeliveryTypeOK, Next1
<1>4. m.value \in Values /\ m.value # NoValue /\ monitors[m.id] \in MonitorFn
  BY <1>2, <1>3, MonitorAssumption DEF AllNews
<1>5. WithId(m.id) # {} /\ WithId(m.id) \subseteq 1 .. 2
  <2>1. DOMAIN monlist = 1 .. 2
    BY <1>2 DEF IInv, TypeOK, M
  <2>2. PICK k \in 1 .. 2 : monitors[m.id] = Functions[k]
    BY <1>4, FunctionFacts DEF MonitorFn
  <2>3. monitors[monlist[k].id] = Functions[k] /\ monlist[k].id \in Ids /\ m.id \in Ids
    BY <1>2, <1>3, <2>1, ListTypes DEF IInv, ListInv, Message
  <2>4. monlist[k].id = m.id
    BY <2>2, <2>3, FunctionFacts DEF IInv, UniqueInv, Stopped, Ended
  <2> QED BY <2>1, <2>2, <2>4 DEF WithId
<1>6. toclient' \in Seq(ClientMessage) /\ pc' \in {"running", "killed"}
  <2>1. CASE m.value = 0
    BY <1>1, <1>4, <2>1 DEF ChangeResults, IInv, TypeOK
  <2>2. CASE m.value # 0
    <3> DEFINE k == First(WithId(m.id))
               line == [tag |-> Tag[monlist[k].type], value |-> m.value]
    <3>1. SendClient(line)
      BY <1>1, <1>4, <1>5, <2>2 DEF ChangeResults
    <3>2. k \in DOMAIN monlist
      BY <1>5, FirstIsIn DEF WithId
    <3>3. monlist[k].type \in MonitorFn
      BY <3>2, ListTypes DEF IInv
    <3>4. line \in ClientMessage
      BY <1>4, <3>3 DEF ClientMessage, MonitorFn, Tag
    <3>5. pc \notin Stopped
      BY DEF Stopped, Ended
    <3> HIDE DEF line
    <3> QED BY <3>1, <3>4, <3>5, SendClientTypes
  <2> QED BY <2>1, <2>2
<1>7. TypeOK'
  BY <1>1, <1>3, <1>6 DEF IInv, TypeOK, Connection!DeliveryTypeOK, Stopped, Ended
<1>8. AllNews(Next1)'
  BY <1>1, <1>2, <1>3 DEF AllNews
<1> QED
  BY <1>1, <1>2, <1>6, <1>7, <1>8
  DEF IInv, PhaseInv, UniqueInv, ListInv, NeverCrashes, Stopped, Ended, M

LEMMA DryRunKeepsIInv ==
  ASSUME IInv, DryRun
  PROVE  IInv'
<1> USE DEF DryRun, smbtad
<1>1. PICK tag \in {"R", "W"}, v \in Values : SendClient([tag |-> tag, value |-> v])
  OBVIOUS
<1>2. [tag |-> tag, value |-> v] \in ClientMessage /\ pc \notin Stopped
  BY DEF ClientMessage, Stopped, Ended
<1>3. toclient' \in Seq(ClientMessage) /\ pc' \in {"dryrun", "killed"}
  BY <1>1, <1>2, SendClientTypes
<1>4. TypeOK'
  BY <1>3 DEF IInv, TypeOK, Connection!DeliveryTypeOK, Stopped, Ended
<1> QED
  BY <1>3, <1>4 DEF IInv, PhaseInv, Idle, Free, M, UniqueInv, ListInv, NeverCrashes, Stopped, Ended

LEMMA StepKeepsIInv == IInv /\ [Next]_vars => IInv'
<1> SUFFICES ASSUME IInv, [Next]_vars PROVE IInv'
  OBVIOUS
<1>1. CASE UNCHANGED vars
  <2>1. UNCHANGED <<monitors, queries, news, sent, received, pc, dryrun, monlist, client, toclient,
                 read, link>>
    BY <1>1 DEF vars, smbtad
  <2>2. TypeOK'
    BY <2>1 DEF IInv, TypeOK, Connection!DeliveryTypeOK
  <2> QED
    BY <2>1, <2>2 DEF IInv, PhaseInv, Idle, Asked, Answered, Free, AllNews, Next1, M,
                      UniqueInv, ListInv, NeverCrashes
<1> QED
  BY <1>1, RegisterKeepsIInv, NewsKeepsIInv, ClientKeepsIInv, SignalKeepsIInv, SpinKeepsIInv,
     AcceptKeepsIInv, SendRegistrationKeepsIInv, TakeAnswerKeepsIInv,
     HandleDataKeepsIInv, DryRunKeepsIInv
  DEF Next, Program
----------------------------------------------------------------------------
(***************************************************************************)
(* The strengthened invariant.                                             *)
(***************************************************************************)
THEOREM Invariance == Spec /\ ~PushEarly => []IInv
BY InitIInv, StepKeepsIInv, PTL DEF Spec

(***************************************************************************)
(* Whatever ids smbtad chooses and whenever its news come, an item of the  *)
(* list carries the id of the monitor of its function.                     *)
(***************************************************************************)
THEOREM ListIsRight == Spec /\ ~PushEarly => []RegistrationMatches
<1>1. IInv => RegistrationMatches
  BY DEF IInv, ListInv, RegistrationMatches
<1> QED BY <1>1, Invariance, PTL

----------------------------------------------------------------------------
(* From smbtad's monitors to the client. *)

\* The value of a message becomes a line.
IsNews(m) == m.value \notin {NoValue, 0}

\* The lines to come are those of the messages that are news, in order.
NewsInv ==
  /\ Len(received) <= Len(sent)
  /\ \A p \in DOMAIN news :
       /\ news[p].at \in 1 .. Len(sent)
       /\ IsNews(sent[news[p].at])
       /\ monitors[sent[news[p].at].id] \in MonitorFn
       /\ news[p].line = [tag |-> Tag[monitors[sent[news[p].at].id]],
                          value |-> sent[news[p].at].value]
  /\ \A p, q \in DOMAIN news : p < q => news[p].at < news[q].at
  /\ \A j \in 1 .. Len(sent) : IsNews(sent[j]) => \E p \in DOMAIN news : news[p].at = j

\* The client has had the first of them, and while the program runs it has
\* had those of the messages the program has taken.
ClientInv ==
  /\ pc \in {"register", "answer", "running"} => ~dryrun
  /\ pc = "dryrun" => dryrun
  /\ pc = "answer" /\ Next1 <= Len(sent) => sent[Next1].value = NoValue
  /\ ~dryrun =>
       /\ Len(toclient) <= Len(news)
       /\ \A n \in 1 .. Len(toclient) : toclient[n] = news[n].line
  /\ ~dryrun /\ pc \notin Stopped =>
       \A p \in DOMAIN news : p <= Len(toclient) <=> news[p].at <= Len(received)

RelayInv == IInv /\ NewsInv /\ ClientInv

\* A step of the connection from smbtad's monitors to the client.
RelayStep == [Relay!DeliveryNext]_<<Lines, IF dryrun THEN <<>> ELSE toclient>>

LEMMA NewsTypes ==
  ASSUME TypeOK
  PROVE  /\ Len(news) \in Nat /\ DOMAIN news = 1 .. Len(news)
         /\ Len(toclient) \in Nat /\ DOMAIN toclient = 1 .. Len(toclient)
         /\ Len(received) \in Nat /\ Len(sent) \in Nat
         /\ \A p \in 1 .. Len(news) : news[p].at \in Nat /\ news[p].line \in ClientMessage
<1> DEFINE Items == [at : Nat, line : ClientMessage]
<1>1. news \in Seq(Items) /\ toclient \in Seq(ClientMessage)
      /\ received \in Seq(Message) /\ sent \in Seq(Message)
  BY DEF TypeOK, Connection!DeliveryTypeOK
<1> HIDE DEF Items
<1>2. /\ Len(news) \in Nat /\ DOMAIN news = 1 .. Len(news)
      /\ Len(toclient) \in Nat /\ DOMAIN toclient = 1 .. Len(toclient)
      /\ Len(received) \in Nat /\ Len(sent) \in Nat
  BY <1>1
<1>3. \A p \in 1 .. Len(news) : news[p] \in Items
  BY <1>1, ElementOfSeq
<1> QED BY <1>2, <1>3 DEF Items

LEMMA InitRelay == Init /\ ~PushEarly => RelayInv /\ Relay!DeliveryInit
<1> SUFFICES ASSUME Init, ~PushEarly PROVE RelayInv /\ Relay!DeliveryInit
  OBVIOUS
<1>1. NewsInv /\ ClientInv
  BY DEF Init, Connection!DeliveryInit, NewsInv, ClientInv, Next1, Stopped, Ended
<1>2. Lines = <<>>
  BY DEF Init, Lines
<1>3. Relay!DeliveryInit
  BY <1>2 DEF Init, Relay!DeliveryInit
<1> QED BY <1>1, <1>3, InitIInv DEF RelayInv

\* A step that neither sends to the client nor adds news.
LEMMA QuietStep ==
  ASSUME UNCHANGED <<news, dryrun, toclient>>
  PROVE  RelayStep
BY DEF RelayStep, Lines

\* What NewsInv says of a place in the history, after a step that leaves it.
OldNewsStay(p) ==
  /\ news[p].at \in 1 .. Len(sent')
  /\ IsNews(sent'[news[p].at])
  /\ monitors'[sent'[news[p].at].id] \in MonitorFn
  /\ news[p].line = [tag |-> Tag[monitors'[sent'[news[p].at].id]],
                     value |-> sent'[news[p].at].value]

\* smbtad's answer to a query is no news, and leaves those there are.
LEMMA RegisterKeepsNews ==
  ASSUME TypeOK, NewsInv, SmbtadRegister
  PROVE  NewsInv'
<1>1. PICK i \in Ids :
        /\ monitors[i] = "none"
        /\ monitors' = [monitors EXCEPT ![i] = Head(queries)]
        /\ sent' = Append(sent, [id |-> i, value |-> NoValue])
        /\ UNCHANGED <<received, news, pc, dryrun, monlist, client, toclient, read, link>>
  BY DEF SmbtadRegister, Connection!Send
<1>2. /\ Len(sent) \in Nat /\ Len(sent') = Len(sent) + 1
      /\ \A j \in 1 .. Len(sent) : sent'[j] = sent[j] /\ sent[j].id \in Ids
      /\ sent'[Len(sent) + 1] = [id |-> i, value |-> NoValue]
  BY <1>1, MessageTypes DEF TypeOK, Connection!DeliveryTypeOK
<1>3. \A j \in Ids : monitors[j] \in MonitorFn => monitors'[j] = monitors[j]
  BY <1>1 DEF TypeOK, MonitorFn
<1>4. ASSUME NEW p \in DOMAIN news
      PROVE  OldNewsStay(p)
  <2> DEFINE at == news[p].at
  <2>1. at \in 1 .. Len(sent) /\ IsNews(sent[at]) /\ monitors[sent[at].id] \in MonitorFn
        /\ news[p].line = [tag |-> Tag[monitors[sent[at].id]], value |-> sent[at].value]
    BY DEF NewsInv
  <2> HIDE DEF at
  <2>2. sent'[at] = sent[at] /\ sent[at].id \in Ids /\ at \in 1 .. Len(sent')
    BY <1>2, <2>1
  <2>3. monitors'[sent[at].id] = monitors[sent[at].id]
    BY <1>3, <2>1, <2>2
  <2>4. IsNews(sent'[at]) /\ monitors'[sent'[at].id] \in MonitorFn
    BY <2>1, <2>2, <2>3
  <2> QED BY <2>1, <2>2, <2>3, <2>4 DEF OldNewsStay, at
<1>5. \A j \in 1 .. Len(sent') : IsNews(sent'[j]) => \E p \in DOMAIN news : news[p].at = j
  BY <1>2 DEF NewsInv, IsNews
<1>6. Len(received') <= Len(sent')
  BY <1>1, <1>2, MessageTypes DEF NewsInv, TypeOK, Connection!DeliveryTypeOK
<1> QED BY <1>1, <1>4, <1>5, <1>6 DEF NewsInv, OldNewsStay, IsNews

\* smbtad answers a query: no news, and the next message to be taken if any.
LEMMA RegisterKeepsRelay ==
  ASSUME RelayInv, SmbtadRegister
  PROVE  NewsInv' /\ ClientInv' /\ RelayStep
<1> USE DEF RelayInv
<1>1. PICK i \in Ids :
        /\ monitors[i] = "none"
        /\ monitors' = [monitors EXCEPT ![i] = Head(queries)]
        /\ sent' = Append(sent, [id |-> i, value |-> NoValue])
        /\ UNCHANGED <<received, news, pc, dryrun, monlist, client, toclient, read, link>>
  BY DEF SmbtadRegister, Connection!Send
<1>2. /\ Len(sent) \in Nat /\ Len(sent') = Len(sent) + 1
      /\ \A j \in 1 .. Len(sent) : sent'[j] = sent[j] /\ sent[j].id \in Ids
      /\ sent'[Len(sent) + 1] = [id |-> i, value |-> NoValue]
  BY <1>1, MessageTypes DEF IInv, TypeOK, Connection!DeliveryTypeOK
<1>4. NewsInv'
  BY RegisterKeepsNews DEF IInv
<1>5. ClientInv'
  <2>1. pc = "answer" /\ Next1 <= Len(sent) => sent[Next1].value = NoValue
    BY DEF ClientInv
  <2>2. Next1' = Next1 /\ Next1 \in Nat \ {0}
    BY <1>1, MessageTypes DEF Next1, IInv
  <2>3. pc = "answer" => Next1 <= Len(sent) + 1
    BY <1>2, MessageTypes DEF IInv, PhaseInv, Asked, Answered, Next1
  <2>4. pc' = "answer" /\ Next1' <= Len(sent') => sent'[Next1'].value = NoValue
    BY <1>1, <1>2, <2>1, <2>2, <2>3
  <2> QED BY <1>1, <2>4 DEF ClientInv
<1> QED BY <1>1, <1>4, <1>5, QuietStep

\* There are no news while a query is on its way.
LEMMA NewsAreNotAsked ==
  ASSUME IInv, SmbtadNews, pc = "answer"
  PROVE  Next1 <= Len(sent)
<1>1. PICK j \in Ids : monitors[j] = "MONITOR_WRITE"
  BY DEF SmbtadNews, IInv, MonitorFn
<1>2. PICK i \in Ids : monitors[i] = "MONITOR_READ"
  BY DEF SmbtadNews, IInv, MonitorFn
<1>3. M \in {0, 1}
  BY ListTypes DEF IInv, PhaseInv
<1>4. ~Free(M + 1)
  BY <1>1, <1>3, FunctionFacts DEF Free
<1> QED BY <1>4 DEF IInv, PhaseInv, Asked, Answered

\* What smbtad pushes is a line more to come if it is not 0.
LEMMA PushKeepsNews ==
  ASSUME TypeOK, NewsInv, SmbtadNews
  PROVE  NewsInv'
<1>1. PICK i \in Ids, v \in Values :
        /\ monitors[i] # "none"
        /\ sent' = Append(sent, [id |-> i, value |-> v])
        /\ news' = IF v = 0 THEN news
                   ELSE Append(news, [at |-> Len(sent) + 1, line |-> Line(i, v)])
        /\ UNCHANGED <<monitors, received, pc, dryrun, monlist, client, toclient>>
  BY DEF SmbtadNews, Connection!Send
<1> DEFINE line == Line(i, v)
           place == Len(sent) + 1
           Items == [at : Nat, line : ClientMessage]
<1>2. /\ Len(sent) \in Nat /\ Len(sent') = place
      /\ \A j \in 1 .. Len(sent) : sent'[j] = sent[j]
      /\ sent'[place] = [id |-> i, value |-> v]
  BY <1>1 DEF TypeOK, Connection!DeliveryTypeOK
<1>3. monitors[i] \in MonitorFn /\ line \in ClientMessage
  BY <1>1 DEF TypeOK, Line, ClientMessage, Tag, MonitorFn
<1>4. v # NoValue
  BY MonitorAssumption
<1>5. Len(received') <= Len(sent') /\ Len(received) \in Nat
  BY <1>1, <1>2, MessageTypes DEF NewsInv, TypeOK, Connection!DeliveryTypeOK
<1>old. ASSUME NEW p \in DOMAIN news
        PROVE  OldNewsStay(p)
  <2> DEFINE at == news[p].at
  <2>1. at \in 1 .. Len(sent) /\ IsNews(sent[at]) /\ monitors[sent[at].id] \in MonitorFn
        /\ news[p].line = [tag |-> Tag[monitors[sent[at].id]], value |-> sent[at].value]
    BY DEF NewsInv
  <2> HIDE DEF at
  <2>2. sent'[at] = sent[at] /\ at \in 1 .. Len(sent') /\ monitors' = monitors
    BY <1>1, <1>2, <2>1
  <2> QED BY <2>1, <2>2 DEF OldNewsStay, at
<1>6. CASE v = 0
  <2>1. news' = news
    BY <1>1, <1>6
  <2>2. \A j \in 1 .. Len(sent') : IsNews(sent'[j]) => \E p \in DOMAIN news : news[p].at = j
    BY <1>2, <1>6 DEF NewsInv, IsNews
  <2> QED BY <1>5, <1>old, <2>1, <2>2 DEF NewsInv, OldNewsStay, IsNews
<1>7. CASE v # 0
  <2> DEFINE item == [at |-> place, line |-> line]
  <2>1. news \in Seq(Items) /\ item \in Items /\ news' = Append(news, item)
    BY <1>1, <1>2, <1>3, <1>7 DEF TypeOK
  <2>2. item.at = place /\ item.line = line
    OBVIOUS
  <2> HIDE DEF item, Items, line
  <2>3. /\ Len(news) \in Nat /\ Len(news') = Len(news) + 1
        /\ DOMAIN news = 1 .. Len(news) /\ DOMAIN news' = 1 .. Len(news')
        /\ \A p \in 1 .. Len(news) : news'[p] = news[p]
        /\ news'[Len(news) + 1] = item
    BY <2>1
  <2>4. ASSUME NEW p \in DOMAIN news'
        PROVE  /\ news'[p].at \in 1 .. Len(sent')
               /\ IsNews(sent'[news'[p].at])
               /\ monitors'[sent'[news'[p].at].id] \in MonitorFn
               /\ news'[p].line = [tag |-> Tag[monitors'[sent'[news'[p].at].id]],
                                   value |-> sent'[news'[p].at].value]
    <3>1. CASE p \in DOMAIN news
      BY <1>old, <2>3, <3>1 DEF OldNewsStay
    <3>2. CASE p = Len(news) + 1
      <4>1. news'[p].at = place /\ news'[p].line = [tag |-> Tag[monitors[i]], value |-> v]
        BY <2>2, <2>3, <3>2 DEF line, Line
      <4>2. sent'[place].id = i /\ sent'[place].value = v
        BY <1>2
      <4>3. place \in 1 .. Len(sent') /\ monitors' = monitors
        BY <1>1, <1>2
      <4>4. IsNews(sent'[place])
        BY <1>4, <1>7, <4>2 DEF IsNews
      <4> HIDE DEF place
      <4> QED BY <1>3, <4>1, <4>2, <4>3, <4>4
    <3> QED BY <2>3, <3>1, <3>2
  <2>5. \A p, q \in DOMAIN news' : p < q => news'[p].at < news'[q].at
    <3>0. \A p \in DOMAIN news : news[p].at \in 1 .. Len(sent)
      BY DEF NewsInv
    <3>1. \A p \in DOMAIN news : news[p].at < place
      BY <1>2, <3>0
    <3>2. \A p, q \in DOMAIN news : p < q => news[p].at < news[q].at
      BY DEF NewsInv
    <3> QED BY <2>2, <2>3, <3>1, <3>2
  <2>6. \A j \in 1 .. Len(sent') :
          IsNews(sent'[j]) => \E p \in DOMAIN news' : news'[p].at = j
    <3> SUFFICES ASSUME NEW j \in 1 .. Len(sent'), IsNews(sent'[j])
                 PROVE  \E p \in DOMAIN news' : news'[p].at = j
      OBVIOUS
    <3>1. CASE j \in 1 .. Len(sent)
      <4>1. PICK p \in DOMAIN news : news[p].at = j
        BY <1>2, <3>1 DEF NewsInv
      <4> QED BY <2>3, <4>1
    <3>2. CASE j = place
      <4>1. Len(news) + 1 \in DOMAIN news' /\ news'[Len(news) + 1].at = j
        BY <2>2, <2>3, <3>2
      <4> QED BY <4>1
    <3> QED BY <1>2, <3>1, <3>2
  <2> QED BY <1>5, <2>4, <2>5, <2>6 DEF NewsInv, IsNews
<1> QED BY <1>6, <1>7

\* smbtad pushes a value: a line more to come if it is not 0.
LEMMA NewsKeepsRelay ==
  ASSUME RelayInv, SmbtadNews
  PROVE  NewsInv' /\ ClientInv' /\ RelayStep
<1> USE DEF RelayInv
<1>1. PICK i \in Ids, v \in Values :
        /\ monitors[i] # "none"
        /\ sent' = Append(sent, [id |-> i, value |-> v])
        /\ news' = IF v = 0 THEN news
                   ELSE Append(news, [at |-> Len(sent) + 1, line |-> Line(i, v)])
        /\ UNCHANGED <<monitors, received, pc, dryrun, monlist, client, toclient>>
  BY DEF SmbtadNews, Connection!Send
<1> DEFINE line == Line(i, v)
           place == Len(sent) + 1
           Items == [at : Nat, line : ClientMessage]
<1>2. /\ Len(sent) \in Nat /\ Len(sent') = place
      /\ \A j \in 1 .. Len(sent) : sent'[j] = sent[j]
      /\ sent'[place] = [id |-> i, value |-> v]
  BY <1>1 DEF IInv, TypeOK, Connection!DeliveryTypeOK
<1>3. monitors[i] \in MonitorFn /\ line \in ClientMessage
  BY <1>1 DEF IInv, TypeOK, Line, ClientMessage, Tag, MonitorFn
<1>4. NewsInv'
  BY PushKeepsNews DEF IInv
<1>5. CASE v = 0
  <2>1. news' = news
    BY <1>1, <1>5
  <2>2. ClientInv'
    <3>1. pc = "answer" => Next1 <= Len(sent)
      BY NewsAreNotAsked DEF IInv
    <3> QED BY <1>1, <1>2, <2>1, <3>1, MessageTypes DEF ClientInv, Next1, IInv
  <2> QED BY <1>1, <1>4, <2>1, <2>2, QuietStep
<1>6. CASE v # 0
  <2> DEFINE item == [at |-> place, line |-> line]
  <2>1. news \in Seq(Items) /\ item \in Items /\ news' = Append(news, item)
    BY <1>1, <1>2, <1>3, <1>6 DEF IInv, TypeOK
  <2>2. item.at = place /\ item.line = line
    OBVIOUS
  <2> HIDE DEF item, Items, line
  <2>3. /\ Len(news) \in Nat /\ Len(news') = Len(news) + 1
        /\ DOMAIN news = 1 .. Len(news) /\ DOMAIN news' = 1 .. Len(news')
        /\ \A p \in 1 .. Len(news) : news'[p] = news[p]
        /\ news'[Len(news) + 1] = item
    BY <2>1
  <2>4. ClientInv'
    <3>1. pc = "answer" => Next1 <= Len(sent)
      BY NewsAreNotAsked DEF IInv
    <3>2. pc' = "answer" /\ Next1' <= Len(sent') => sent'[Next1'].value = NoValue
      BY <1>1, <1>2, <3>1, MessageTypes DEF ClientInv, Next1, IInv
    <3>3. ~dryrun' => /\ Len(toclient') <= Len(news')
                      /\ \A n \in 1 .. Len(toclient') : toclient'[n] = news'[n].line
      BY <1>1, <2>3, NewsTypes DEF ClientInv, IInv
    <3>4. ~dryrun' /\ pc' \notin Stopped' =>
            \A p \in DOMAIN news' : p <= Len(toclient') <=> news'[p].at <= Len(received')
      BY <1>1, <1>2, <2>2, <2>3, NewsTypes DEF NewsInv, ClientInv, IInv, Stopped, Ended
    <3> QED BY <1>1, <3>2, <3>3, <3>4 DEF ClientInv, Stopped, Ended
  <2>5. RelayStep
    <3>1. Lines' = Append(Lines, line)
      BY <2>2, <2>3 DEF Lines
    <3>2. Len(Lines') = Len(news) + 1 /\ Lines'[Len(Lines')] = line /\ Lines' # <<>>
      BY <2>2, <2>3 DEF Lines
    <3>3. Relay!Write
      BY <1>1, <1>3, <3>1, <3>2 DEF Relay!Write, Relay!Send
    <3> QED BY <3>3 DEF RelayStep, Relay!DeliveryNext
  <2> QED BY <1>4, <2>4, <2>5
<1> QED BY <1>5, <1>6
----------------------------------------------------------------------------
\* A step that moves the program on and no message.
LEMMA OtherStepsKeepRelay ==
  ASSUME RelayInv, UNCHANGED <<monitors, sent, received, dryrun, toclient, news>>,
         pc' \in {"register", "answer", "running"} => ~dryrun,
         pc' = "dryrun" => dryrun,
         pc' = "answer" => pc = "answer" \/ Len(received) = Len(sent),
         pc \in Stopped => pc' \in Stopped
  PROVE  NewsInv' /\ ClientInv' /\ RelayStep
<1> USE DEF RelayInv
<1>1. NewsInv'
  BY DEF NewsInv, IsNews
<1>2. pc' = "answer" /\ Next1' <= Len(sent') => sent'[Next1'].value = NoValue
  BY NewsTypes DEF ClientInv, Next1, IInv
<1>3. ClientInv'
  BY <1>2 DEF ClientInv, Stopped, Ended
<1> QED BY <1>1, <1>3, QuietStep

\* The dry run sends what smbtad knows nothing of.
LEMMA DryRunKeepsRelay ==
  ASSUME RelayInv, DryRun
  PROVE  NewsInv' /\ ClientInv' /\ RelayStep
<1> USE DEF RelayInv
<1>1. UNCHANGED <<monitors, sent, received, dryrun, news>> /\ pc = "dryrun"
  BY DEF DryRun, smbtad
<1>2. dryrun /\ pc' \in {"dryrun", "killed"}
  BY <1>1 DEF DryRun, SendClient, ClientInv
<1>3. NewsInv'
  BY <1>1 DEF NewsInv, IsNews
<1>4. ClientInv'
  BY <1>1, <1>2 DEF ClientInv
<1>5. RelayStep
  BY <1>1, <1>2 DEF RelayStep, Lines
<1> QED BY <1>3, <1>4, <1>5

\* Taking a message leaves what NewsInv says.
LEMMA TakingKeepsNews ==
  ASSUME TypeOK, NewsInv, UNCHANGED <<monitors, sent, news>>, Connection!Deliver
  PROVE  /\ Next1 \in 1 .. Len(sent) /\ Len(received') = Next1 /\ Next1' = Next1 + 1
         /\ NewsInv'
<1>1. /\ Len(received) \in Nat /\ Len(sent) \in Nat /\ Len(received) < Len(sent)
      /\ Len(received') = Len(received) + 1
  BY DEF TypeOK, Connection!DeliveryTypeOK, Connection!Deliver
<1>2. Len(received') <= Len(sent')
  BY <1>1
<1>3. NewsInv'
  BY <1>2 DEF NewsInv, IsNews
<1> QED BY <1>1, <1>3 DEF Next1

\* A message that is no news changes nothing for the client.
LEMMA NoNewsKeepClient ==
  ASSUME RelayInv, UNCHANGED <<monitors, sent, news, dryrun, toclient>>,
         Connection!Deliver, ~IsNews(sent[Next1]),
         pc \in {"answer", "running"}, pc' \in {"register", "running"}
  PROVE  ClientInv'
<1> USE DEF RelayInv
<1>1. ~dryrun /\ pc \notin Stopped
  BY DEF ClientInv, Stopped, Ended
<1>2. \A p \in DOMAIN news : news[p].at # Next1
  BY DEF NewsInv
<1>3. /\ Len(received') = Len(received) + 1 /\ Len(received) \in Nat
      /\ Next1 = Len(received) + 1
  BY TakingKeepsNews, NewsTypes DEF IInv, Next1
<1>4. \A p \in DOMAIN news : news[p].at <= Len(received') <=> news[p].at <= Len(received)
  BY <1>2, <1>3, NewsTypes DEF IInv
<1> QED BY <1>1, <1>4 DEF ClientInv, Stopped, Ended

LEMMA TakeAnswerKeepsRelay ==
  ASSUME RelayInv, TakeAnswer
  PROVE  NewsInv' /\ ClientInv' /\ RelayStep
<1>1. /\ UNCHANGED <<monitors, sent, news, dryrun, toclient>> /\ Connection!Deliver
      /\ pc = "answer" /\ pc' \in {"register", "running"}
  BY DEF TakeAnswer, smbtad, Connection!Deliver
<1>2. Next1 <= Len(sent)
  BY <1>1, TakingKeepsNews, NewsTypes DEF RelayInv, IInv
<1>3. ~IsNews(sent[Next1])
  BY <1>1, <1>2 DEF RelayInv, ClientInv, IsNews
<1> QED BY <1>1, <1>3, TakingKeepsNews, NoNewsKeepClient, QuietStep DEF RelayInv, IInv

\* The next line is that of the message taken.
LEMMA NextLine ==
  ASSUME RelayInv, pc = "running", Next1 \in 1 .. Len(sent), IsNews(sent[Next1])
  PROVE  /\ Len(toclient) < Len(news) /\ news[Len(toclient) + 1].at = Next1
         /\ \A q \in DOMAIN news : q <= Len(toclient) + 1 <=> news[q].at <= Next1
<1> DEFINE n == Len(toclient)
<1>1. /\ \A p \in DOMAIN news : p <= n <=> news[p].at <= Len(received)
      /\ n <= Len(news)
  BY DEF RelayInv, ClientInv, Stopped, Ended
<1>2. \A p, q \in DOMAIN news : p < q => news[p].at < news[q].at
  BY DEF RelayInv, NewsInv
<1>3. PICK p \in DOMAIN news : news[p].at = Next1
  BY DEF RelayInv, NewsInv
<1>4. /\ Len(news) \in Nat /\ DOMAIN news = 1 .. Len(news) /\ n \in Nat
      /\ Len(received) \in Nat /\ Next1 = Len(received) + 1
      /\ \A q \in DOMAIN news : news[q].at \in Nat
  BY NewsTypes DEF RelayInv, IInv, Next1
<1> HIDE DEF n
<1>5. p = n + 1
  <2>1. p > n
    BY <1>1, <1>3, <1>4
  <2>2. ASSUME p > n + 1 PROVE FALSE
    <3>1. n + 1 \in DOMAIN news /\ news[n + 1].at < Next1
      BY <1>2, <1>3, <1>4, <2>2
    <3> QED BY <1>1, <1>4, <3>1
  <2> QED BY <1>4, <2>1, <2>2
<1>6. ASSUME NEW q \in DOMAIN news
      PROVE  q <= n + 1 <=> news[q].at <= Next1
  <2>1. CASE q <= n
    BY <1>1, <1>4, <2>1
  <2>2. CASE q = n + 1
    BY <1>3, <1>4, <1>5, <2>2
  <2>3. CASE q > n + 1
    BY <1>2, <1>3, <1>4, <1>5, <2>3
  <2> QED BY <1>4, <2>1, <2>2, <2>3
<1> QED BY <1>3, <1>4, <1>5, <1>6 DEF n

\* The letter the relay looks up is that of smbtad's monitor.
LEMMA RightLetter ==
  ASSUME IInv, NEW id, WithId(id) # {}
  PROVE  monlist[First(WithId(id))].type = monitors[id]
<1>1. WithId(id) \subseteq 1 .. 2
  BY ListTypes, FunctionFacts DEF IInv, TypeOK, WithId, M
<1>2. First(WithId(id)) \in WithId(id)
  BY <1>1, FirstIsIn
<1> QED BY <1>2 DEF WithId, IInv, ListInv

LEMMA HandleDataKeepsRelay ==
  ASSUME RelayInv, HandleData
  PROVE  NewsInv' /\ ClientInv' /\ RelayStep
<1> DEFINE m == sent[Next1]
<1>1. /\ UNCHANGED <<monitors, sent, news, dryrun, monlist>> /\ Connection!Deliver
      /\ pc = "running" /\ ChangeResults(m)
  BY DEF HandleData, smbtad, Connection!Deliver, Next1
<1>2. /\ NewsInv' /\ Next1 \in 1 .. Len(sent) /\ Len(received') = Next1
  BY <1>1, TakingKeepsNews DEF RelayInv, IInv
<1>3. ~dryrun
  BY <1>1 DEF RelayInv, ClientInv
<1>4. CASE UNCHANGED toclient /\ pc' \in Stopped
  <2>1. ClientInv'
    BY <1>1, <1>3, <1>4 DEF RelayInv, ClientInv, Stopped, Ended
  <2> QED BY <1>1, <1>2, <1>4, <2>1, QuietStep
<1>5. CASE ~IsNews(m) /\ UNCHANGED <<pc, toclient>>
  BY <1>1, <1>2, <1>5, NoNewsKeepClient, QuietStep
<1>6. CASE /\ IsNews(m) /\ WithId(m.id) # {} /\ UNCHANGED pc
           /\ toclient' = Append(toclient, [tag |-> Tag[monlist[First(WithId(m.id))].type],
                                            value |-> m.value])
  <2> DEFINE line == [tag |-> Tag[monitors[m.id]], value |-> m.value]
             n == Len(toclient)
  <2>1. toclient' = Append(toclient, line)
    BY <1>6, RightLetter DEF RelayInv
  <2>2. n < Len(news) /\ news[n + 1].at = Next1
        /\ \A q \in DOMAIN news : q <= n + 1 <=> news[q].at <= Next1
    BY <1>1, <1>2, <1>6, NextLine
  <2>3. /\ n \in Nat /\ Len(news) \in Nat /\ DOMAIN news = 1 .. Len(news)
        /\ toclient \in Seq(ClientMessage)
    BY NewsTypes DEF RelayInv, IInv, TypeOK
  <2>4. news[n + 1].line = line
    BY <2>2, <2>3 DEF RelayInv, NewsInv
  <2> HIDE DEF line
  <2>5. /\ Len(toclient') = n + 1 /\ toclient'[n + 1] = line
        /\ \A k \in 1 .. n : toclient'[k] = toclient[k]
    BY <2>1, <2>3
  <2>6. ClientInv'
    <3>1. \A k \in 1 .. Len(toclient') : toclient'[k] = news'[k].line
      BY <1>1, <1>3, <2>3, <2>4, <2>5 DEF RelayInv, ClientInv
    <3>2. \A p \in DOMAIN news' : p <= Len(toclient') <=> news'[p].at <= Len(received')
      BY <1>1, <1>2, <2>2, <2>5
    <3>3. Len(toclient') <= Len(news')
      BY <1>1, <2>2, <2>3, <2>5
    <3> QED BY <1>1, <1>3, <1>6, <3>1, <3>2, <3>3 DEF ClientInv
  <2>7. RelayStep
    <3>1. Len(Lines) = Len(news) /\ Lines[n + 1] = line /\ Lines' = Lines
      BY <1>1, <2>2, <2>3, <2>4 DEF Lines
    <3>2. Relay!Deliver
      BY <1>1, <1>3, <2>1, <2>2, <3>1 DEF Relay!Deliver
    <3> QED BY <3>2 DEF RelayStep, Relay!DeliveryNext
  <2> QED BY <1>2, <2>6, <2>7
<1> QED BY <1>1, <1>4, <1>5, <1>6 DEF ChangeResults, SendClient, IsNews, Stopped, Ended

LEMMA StepKeepsRelay == RelayInv /\ [Next]_vars => RelayInv' /\ RelayStep
<1> SUFFICES ASSUME RelayInv, [Next]_vars PROVE NewsInv' /\ ClientInv' /\ RelayStep
  BY StepKeepsIInv DEF RelayInv
<1>1. CASE UNCHANGED vars \/ ClientConnect \/ ClientGone \/ ClientRead \/ SmbtadLost
  <2>1. UNCHANGED <<monitors, sent, received, dryrun, toclient, news, pc>>
    BY <1>1 DEF vars, smbtad, ClientConnect, ClientGone, ClientRead, SmbtadLost
  <2> QED BY <2>1, OtherStepsKeepRelay DEF RelayInv, ClientInv
<1>s. CASE Spin
  BY <1>s, OtherStepsKeepRelay DEF Spin, smbtad, Stopped, Ended
<1>2. CASE CatchSignal
  BY <1>2, OtherStepsKeepRelay DEF CatchSignal, smbtad, Stopped, Ended
<1>3. CASE Accept
  BY <1>3, OtherStepsKeepRelay DEF Accept, smbtad, Stopped, Ended
<1>4. CASE SendRegistration
  <2>1. Len(received) = Len(sent) /\ ~dryrun
    BY <1>4 DEF SendRegistration, RelayInv, IInv, PhaseInv, Idle, ClientInv
  <2> QED BY <1>4, <2>1, OtherStepsKeepRelay DEF SendRegistration, Stopped, Ended
<1> QED
  BY <1>1, <1>s, <1>2, <1>3, <1>4, RegisterKeepsRelay, NewsKeepsRelay, TakeAnswerKeepsRelay,
     HandleDataKeepsRelay, DryRunKeepsRelay
  DEF Next, Program

(***************************************************************************)
(* End to end: from smbtad's monitors to the lines the client reads the    *)
(* program implements the connection it is built on, for every choice of   *)
(* ids and values and however many news there are.                         *)
(***************************************************************************)
THEOREM RelayImplements == Spec /\ ~PushEarly => RelaySpec
<1>1. RelayStep => [Relay!DeliveryNext]_<<Lines, IF dryrun THEN <<>> ELSE toclient>>
  BY DEF RelayStep
<1> QED
  BY <1>1, InitRelay, StepKeepsRelay, PTL DEF Spec, RelaySpec, Relay!DeliverySpec
----------------------------------------------------------------------------
(* Whenever smbtad pushes its news: without a condition.                   *)
(*                                                                         *)
(* Early news can take the place of the second answer only.  The first     *)
(* item of the list is then still right, and the second carries the id of  *)
(* one monitor or the other: monitor_list_get_by_id, which finds the first *)
(* item of an id, never shows a value under the wrong letter.              *)

EarlyPlace ==
  /\ pc = "dryrun" => dryrun
  /\ pc \in {"register", "answer", "running"} => ~dryrun
  /\ pc \in {"accept", "dryrun"} => M = 0
  /\ pc \in {"register", "answer"} => M \in {0, 1}
  /\ pc \in {"accept", "dryrun", "register"} => queries = <<>> /\ Free(M + 1)
  /\ pc = "answer" => Free(M + 2) /\ (M = 0 /\ queries # <<>> => Head(queries) = Functions[1])
  /\ queries # <<>> => \A i \in Ids : monitors[i] # Head(queries)

\* What was sent is of a monitor, no function has two, and the first item is right.
KnownInv ==
  /\ \A j \in 1 .. Len(sent) : monitors[sent[j].id] \in MonitorFn
  /\ \A i, j \in Ids : monitors[i] # "none" /\ monitors[i] = monitors[j] => i = j
  /\ \A k \in 1 .. M : monlist[k].type = Functions[k] /\ monitors[monlist[k].id] \in MonitorFn
  /\ M > 0 => monitors[monlist[1].id] = Functions[1]

\* The client was sent lines of messages that were taken.
RelayedInv ==
  ~dryrun =>
    \E f \in [1 .. Len(toclient) -> 1 .. Len(news)] :
      /\ \A p \in 1 .. Len(toclient) :
           toclient[p] = news[f[p]].line /\ news[f[p]].at <= Len(received)
      /\ \A p, q \in 1 .. Len(toclient) : p < q => f[p] < f[q]

EarlyInv == TypeOK /\ EarlyPlace /\ KnownInv /\ NewsInv /\ RelayedInv

LEMMA InitEarly == Init => EarlyInv
<1> SUFFICES ASSUME Init PROVE EarlyInv
  OBVIOUS
<1> USE DEF Init, Connection!DeliveryInit
<1>1. TypeOK
  BY DEF TypeOK, Connection!DeliveryTypeOK, MonitorFn
<1>2. EarlyPlace
  BY FunctionFacts DEF EarlyPlace, Free, M
<1>3. KnownInv /\ NewsInv
  BY DEF KnownInv, NewsInv, M
<1>4. RelayedInv
  <2>1. 1 .. Len(toclient) = {}
    OBVIOUS
  <2>2. [p \in {} |-> 1] \in [{} -> 1 .. Len(news)]
    OBVIOUS
  <2> QED BY <2>1, <2>2, Zenon DEF RelayedInv
<1> QED BY <1>1, <1>2, <1>3, <1>4 DEF EarlyInv

\* More news, or more messages taken, leave what the client was sent as it was.
LEMMA RelayedStays ==
  ASSUME TypeOK, TypeOK', RelayedInv, UNCHANGED <<dryrun, toclient>>,
         Len(received) <= Len(received'), Len(news) <= Len(news'),
         \A p \in 1 .. Len(news) : news'[p] = news[p]
  PROVE  RelayedInv'
<1> SUFFICES ASSUME ~dryrun
             PROVE  \E f \in [1 .. Len(toclient) -> 1 .. Len(news')] :
                      /\ \A p \in 1 .. Len(toclient) :
                           toclient[p] = news'[f[p]].line /\ news'[f[p]].at <= Len(received')
                      /\ \A p, q \in 1 .. Len(toclient) : p < q => f[p] < f[q]
  BY DEF RelayedInv
<1>1. PICK f \in [1 .. Len(toclient) -> 1 .. Len(news)] :
        /\ \A p \in 1 .. Len(toclient) :
             toclient[p] = news[f[p]].line /\ news[f[p]].at <= Len(received)
        /\ \A p, q \in 1 .. Len(toclient) : p < q => f[p] < f[q]
  BY DEF RelayedInv
<1>2. /\ Len(news) \in Nat /\ Len(news') \in Nat
      /\ Len(received) \in Nat /\ Len(received') \in Nat
      /\ \A p \in 1 .. Len(news) : news[p].at \in Nat
  <2>1. received' \in Seq(Message) /\ news' \in Seq([at : Nat, line : ClientMessage])
    BY DEF TypeOK, Connection!DeliveryTypeOK
  <2> QED BY <2>1, NewsTypes
<1>3. f \in [1 .. Len(toclient) -> 1 .. Len(news')]
  <2>1. 1 .. Len(news) \subseteq 1 .. Len(news')
    BY <1>2
  <2> QED BY <2>1
<1>4. ASSUME NEW p \in 1 .. Len(toclient)
      PROVE  toclient[p] = news'[f[p]].line /\ news'[f[p]].at <= Len(received')
  <2>1. f[p] \in 1 .. Len(news) /\ news'[f[p]] = news[f[p]]
    OBVIOUS
  <2> QED BY <1>1, <1>2, <2>1
<1> QED BY <1>1, <1>3, <1>4

\* smbtad's answer is of the function asked for, which nobody had yet.
LEMMA RegisterKeepsEarly ==
  ASSUME EarlyInv, SmbtadRegister
  PROVE  EarlyInv'
<1>0. TypeOK /\ EarlyPlace /\ KnownInv /\ NewsInv /\ RelayedInv
  BY DEF EarlyInv
<1>1. PICK i \in Ids :
        /\ monitors[i] = "none"
        /\ monitors' = [monitors EXCEPT ![i] = Head(queries)]
        /\ sent' = Append(sent, [id |-> i, value |-> NoValue])
        /\ UNCHANGED <<received, news, pc, dryrun, monlist, client, toclient, read, link>>
  BY DEF SmbtadRegister, Connection!Send
<1>2. /\ Len(sent) \in Nat /\ Len(sent') = Len(sent) + 1
      /\ \A j \in 1 .. Len(sent) : sent'[j] = sent[j] /\ sent[j].id \in Ids
      /\ sent'[Len(sent) + 1] = [id |-> i, value |-> NoValue]
  BY <1>0, <1>1, MessageTypes DEF TypeOK, Connection!DeliveryTypeOK
<1>3. Head(queries) \in MonitorFn /\ queries' = <<>> /\ queries # <<>>
  BY <1>0 DEF TypeOK, SmbtadRegister
<1>4. TypeOK'
  <2>1. [id |-> i, value |-> NoValue] \in Message
    BY DEF Message
  <2>2. sent' \in Seq(Message) /\ monitors' \in [Ids -> MonitorFn \cup {"none"}]
    BY <1>0, <1>1, <1>3, <2>1 DEF TypeOK, Connection!DeliveryTypeOK
  <2> QED BY <1>0, <1>1, <1>3, <2>2 DEF TypeOK, Connection!DeliveryTypeOK
<1>5. \A j \in Ids : /\ monitors[j] \in MonitorFn => monitors'[j] = monitors[j]
                     /\ monitors'[j] = IF j = i THEN Head(queries) ELSE monitors[j]
  BY <1>0, <1>1 DEF TypeOK, MonitorFn
<1>6. EarlyPlace'
  <2>1. M' = M /\ pc \notin {"accept", "dryrun", "register"}
    BY <1>0, <1>1, <1>3 DEF EarlyPlace, M
  <2>2. ASSUME pc = "answer" PROVE Free(M + 2)'
    <3>1. M \in {0, 1} /\ Free(M + 2) /\ (M = 0 => Head(queries) = Functions[1])
      BY <1>0, <1>3, <2>2 DEF EarlyPlace
    <3>2. CASE M = 0
      <4>1. \A j \in Ids : monitors[j] # Functions[2]
        BY <3>1, <3>2 DEF Free
      <4>2. \A j \in Ids : monitors'[j] # Functions[2]
        BY <1>5, <3>1, <3>2, <4>1, FunctionFacts
      <4>3. M' + 2 = 2
        BY <2>1, <3>2
      <4> QED BY <4>2, <4>3 DEF Free
    <3>3. CASE M = 1
      BY <2>1, <3>3 DEF Free
    <3> QED BY <3>1, <3>2, <3>3
  <2> QED BY <1>0, <1>1, <1>3, <2>1, <2>2 DEF EarlyPlace
<1>7. KnownInv'
  <2>1. ASSUME NEW j \in 1 .. Len(sent') PROVE monitors'[sent'[j].id] \in MonitorFn
    <3>1. CASE j \in 1 .. Len(sent)
      <4>1. sent'[j] = sent[j] /\ sent[j].id \in Ids
        BY <1>2, <3>1
      <4>2. monitors[sent[j].id] \in MonitorFn
        BY <1>0, <3>1 DEF KnownInv
      <4> QED BY <1>5, <4>1, <4>2
    <3>2. CASE j = Len(sent) + 1
      BY <1>2, <1>3, <1>5, <3>2
    <3> QED BY <1>2, <3>1, <3>2
  <2>2. ASSUME NEW j \in Ids, NEW k \in Ids, monitors'[j] # "none", monitors'[j] = monitors'[k]
        PROVE  j = k
    <3>1. \A l \in Ids : monitors[l] # Head(queries)
      BY <1>0, <1>3 DEF EarlyPlace
    <3>2. \A l, n \in Ids : monitors[l] # "none" /\ monitors[l] = monitors[n] => l = n
      BY <1>0 DEF KnownInv
    <3> QED BY <1>5, <2>2, <3>1, <3>2
  <2>3. \A k \in 1 .. M : monlist[k].id \in Ids
    BY <1>0, ListTypes
  <2>4. M' = M /\ M \in Nat /\ monlist' = monlist
    BY <1>0, <1>1, ListTypes DEF M
  <2>5. \A k \in 1 .. M : /\ monlist[k].type = Functions[k]
                          /\ monitors'[monlist[k].id] = monitors[monlist[k].id]
                          /\ monitors[monlist[k].id] \in MonitorFn
    BY <1>0, <1>5, <2>3 DEF KnownInv
  <2> QED BY <1>0, <2>1, <2>2, <2>4, <2>5 DEF KnownInv
<1>8. RelayedInv'
  <2>1. /\ Len(received) <= Len(received') /\ Len(news) <= Len(news')
        /\ \A p \in 1 .. Len(news) : news'[p] = news[p]
    BY <1>0, <1>1, NewsTypes
  <2> QED BY <1>0, <1>1, <1>4, <2>1, RelayedStays
<1> QED BY <1>0, <1>4, <1>6, <1>7, <1>8, RegisterKeepsNews DEF EarlyInv

\* smbtad pushes news of a monitor it has.
LEMMA PushKeepsEarly ==
  ASSUME EarlyInv, SmbtadNews
  PROVE  EarlyInv'
<1> USE DEF EarlyInv
<1>1. PICK i \in Ids, v \in Values :
        /\ monitors[i] # "none"
        /\ sent' = Append(sent, [id |-> i, value |-> v])
        /\ news' = IF v = 0 THEN news
                   ELSE Append(news, [at |-> Len(sent) + 1, line |-> Line(i, v)])
        /\ UNCHANGED <<monitors, queries, received, pc, dryrun, monlist, client, toclient,
                       read, link>>
  BY DEF SmbtadNews, Connection!Send
<1>2. /\ Len(sent) \in Nat /\ Len(sent') = Len(sent) + 1
      /\ \A j \in 1 .. Len(sent) : sent'[j] = sent[j]
      /\ sent'[Len(sent) + 1] = [id |-> i, value |-> v]
  BY <1>1 DEF TypeOK, Connection!DeliveryTypeOK
<1>3. TypeOK' /\ Len(news) <= Len(news') /\ \A p \in 1 .. Len(news) : news'[p] = news[p]
  <2>1. sent' \in Seq(Message)
    <3>1. [id |-> i, value |-> v] \in Message
      BY DEF Message
    <3> QED BY <1>1, <3>1 DEF TypeOK, Connection!DeliveryTypeOK
  <2>2. /\ news' \in Seq([at : Nat, line : ClientMessage]) /\ Len(news) <= Len(news')
        /\ \A p \in 1 .. Len(news) : news'[p] = news[p]
    <3> DEFINE item == [at |-> Len(sent) + 1, line |-> Line(i, v)]
               Items == [at : Nat, line : ClientMessage]
    <3>1. item \in Items
      <4>1. Line(i, v) \in ClientMessage
        BY <1>1 DEF Line, ClientMessage, Tag, MonitorFn, TypeOK
      <4> QED BY <1>2, <4>1
    <3>2. news \in Seq(Items) /\ news' \in {news, Append(news, item)}
      BY <1>1 DEF TypeOK
    <3> HIDE DEF item, Items
    <3>3. news' \in Seq(Items) /\ Len(news) <= Len(news')
          /\ \A p \in 1 .. Len(news) : news'[p] = news[p]
      BY <3>1, <3>2
    <3> QED BY <3>3 DEF Items
  <2> QED BY <1>1, <2>1, <2>2 DEF TypeOK, Connection!DeliveryTypeOK
<1>4. EarlyPlace'
  BY <1>1 DEF EarlyPlace, Free, M
<1>5. KnownInv'
  <2>1. monitors[i] \in MonitorFn
    BY <1>1 DEF TypeOK
  <2>2. \A j \in 1 .. Len(sent') : monitors[sent'[j].id] \in MonitorFn
    BY <1>2, <2>1 DEF KnownInv
  <2> QED BY <1>1, <2>2 DEF KnownInv, M
<1>6. RelayedInv'
  <2>1. Len(received) <= Len(received')
    BY <1>1, NewsTypes
  <2> QED BY <1>1, <1>3, <2>1, RelayedStays
<1> QED BY <1>3, <1>4, <1>5, <1>6, PushKeepsNews

\* The program's own steps that send and take nothing.
LEMMA OtherStepsKeepEarly ==
  ASSUME EarlyInv,
         \/ ClientConnect \/ ClientGone \/ ClientRead \/ SmbtadLost
         \/ Accept \/ SendRegistration \/ Spin \/ CatchSignal
  PROVE  EarlyInv'
<1> USE DEF EarlyInv
<1>1. /\ UNCHANGED <<monitors, sent, received, dryrun, monlist, toclient, news>>
      /\ M' = M /\ M \in Nat
  BY ListTypes DEF ClientConnect, ClientGone, ClientRead, SmbtadLost, Accept, SendRegistration,
                   Spin, CatchSignal, smbtad, M
<1>2. KnownInv' /\ NewsInv' /\ RelayedInv'
  BY <1>1 DEF KnownInv, NewsInv, IsNews, RelayedInv
<1>3. CASE ClientConnect \/ ClientGone \/ ClientRead \/ SmbtadLost
  <2>1. /\ UNCHANGED <<pc, queries>> /\ client' \in {"absent", "connected", "gone"}
        /\ read' \in Nat /\ link' \in {"up", "down"}
    BY <1>3 DEF ClientConnect, ClientGone, ClientRead, SmbtadLost, smbtad, TypeOK
  <2>2. TypeOK'
    BY <1>1, <2>1 DEF TypeOK, Connection!DeliveryTypeOK
  <2>3. EarlyPlace'
    BY <1>1, <2>1 DEF EarlyPlace, Free
  <2> QED BY <1>2, <2>2, <2>3
<1>4. CASE Accept
  <2>1. /\ UNCHANGED <<queries, client, read, link>> /\ pc = "accept" /\ M = 0
        /\ pc' = IF dryrun THEN "dryrun" ELSE "register"
    BY <1>4 DEF Accept, smbtad, EarlyPlace
  <2>2. TypeOK'
    BY <1>1, <2>1 DEF TypeOK, Connection!DeliveryTypeOK
  <2>3. EarlyPlace'
    BY <1>1, <2>1 DEF EarlyPlace, Free
  <2> QED BY <1>2, <2>2, <2>3
<1>k. CASE SendRegistration /\ pc' = "killed"
  <2>1. UNCHANGED <<queries, client, read, link>> /\ pc = "register"
    BY <1>k DEF SendRegistration
  <2>2. TypeOK'
    BY <1>1, <1>k, <2>1 DEF TypeOK, Connection!DeliveryTypeOK, Ended
  <2>3. EarlyPlace'
    BY <1>1, <1>k, <2>1 DEF EarlyPlace
  <2> QED BY <1>2, <2>2, <2>3
<1>5. CASE SendRegistration /\ pc' # "killed"
  <2>1. pc = "register" /\ pc' = "answer" /\ UNCHANGED <<client, read, link>>
        /\ queries = <<>> /\ Free(M + 1) /\ M \in {0, 1} /\ ~dryrun
    BY <1>5 DEF SendRegistration, EarlyPlace
  <2>2. queries' = <<Functions[M + 1]>> /\ Functions[M + 1] \in MonitorFn
    BY <1>5, <2>1, FunctionFacts DEF SendRegistration, Registering, M, MonitorFn
  <2>3. TypeOK'
    BY <1>1, <2>1, <2>2 DEF TypeOK, Connection!DeliveryTypeOK
  <2>4. EarlyPlace'
    <3>1. Head(queries') = Functions[M + 1]
      BY <2>2
    <3>2. \A i \in Ids : monitors[i] # Functions[M + 1]
      BY <2>1 DEF Free
    <3>3. Free(M + 2)'
      BY <1>1, <2>1 DEF Free
    <3> QED BY <1>1, <2>1, <3>1, <3>2, <3>3 DEF EarlyPlace
  <2> QED BY <1>2, <2>3, <2>4
<1>6. CASE CatchSignal \/ Spin
  <2>1. UNCHANGED <<queries, client, read, link>> /\ pc' \in {"exited", "spinning"}
    BY <1>6 DEF CatchSignal, Spin, smbtad
  <2>2. TypeOK'
    BY <1>1, <2>1 DEF TypeOK, Connection!DeliveryTypeOK, Stopped, Ended
  <2>3. EarlyPlace'
    BY <1>1, <2>1 DEF EarlyPlace
  <2> QED BY <1>2, <2>2, <2>3
<1> QED BY <1>3, <1>4, <1>k, <1>5, <1>6

\* Taking a message: the client has had lines of messages taken before.
LEMMA TakenKeepsRelayed ==
  ASSUME EarlyInv, TypeOK', Connection!Deliver, UNCHANGED <<dryrun, toclient, news>>
  PROVE  RelayedInv'
<1>1. Len(received') = Len(received) + 1 /\ Len(received) \in Nat
  BY DEF EarlyInv, TypeOK, Connection!DeliveryTypeOK, Connection!Deliver
<1>2. Len(received) <= Len(received')
  BY <1>1
<1>3. Len(news) <= Len(news') /\ \A p \in 1 .. Len(news) : news'[p] = news[p]
  BY NewsTypes DEF EarlyInv
<1> QED BY <1>2, <1>3, RelayedStays DEF EarlyInv

\* The first item gets the id of its function, the second that of a monitor.
LEMMA TakeAnswerKeepsEarly ==
  ASSUME EarlyInv, TakeAnswer
  PROVE  EarlyInv'
<1> DEFINE answer == sent[Next1]
           item == [id |-> answer.id, type |-> Functions[M + 1]]
<1> USE DEF EarlyInv
<1>1. /\ pc = "answer" /\ Connection!Deliver /\ ~dryrun
      /\ received' = Append(received, answer)
      /\ UNCHANGED <<monitors, queries, news, sent, dryrun, client, toclient, read, link>>
      /\ monlist' = Append(monlist, item)
      /\ M \in {0, 1} /\ Free(M + 2)
      /\ M = 0 /\ queries # <<>> => Head(queries) = Functions[1]
      /\ queries # <<>> => \A i \in Ids : monitors[i] # Head(queries)
  BY DEF TakeAnswer, Connection!Deliver, Next1, smbtad, Registering, M, EarlyPlace
<1>2. Next1 \in 1 .. Len(sent) /\ NewsInv'
  BY <1>1, TakingKeepsNews
<1>3. answer \in Message /\ answer.id \in Ids /\ monitors[answer.id] \in MonitorFn
  BY <1>2, MessageTypes DEF KnownInv
<1>4. item \in [id : Ids, type : MonitorFn]
  BY <1>1, <1>3, FunctionFacts DEF MonitorFn
<1>5. item.id = answer.id /\ item.type = Functions[M + 1]
  OBVIOUS
<1> HIDE DEF item, answer
<1>6. /\ M' = M + 1 /\ monlist' \in Seq([id : Ids, type : MonitorFn])
      /\ monlist'[M + 1] = item /\ \A k \in 1 .. M : monlist'[k] = monlist[k]
  BY <1>1, <1>4 DEF TypeOK, M
<1>7. pc' = IF M' < 2 THEN "register" ELSE "running"
  BY FunctionFacts DEF TakeAnswer, M
<1>8. TypeOK'
  <2>1. Len(monlist') <= Len(Functions)
    BY <1>1, <1>6, FunctionFacts DEF M
  <2>2. received' \in Seq(Message)
    BY <1>1, <1>3 DEF TypeOK, Connection!DeliveryTypeOK
  <2> QED BY <1>1, <1>6, <1>7, <2>1, <2>2 DEF TypeOK, Connection!DeliveryTypeOK
<1>9. EarlyPlace'
  <2>1. CASE M = 0
    <3>1. monitors[answer.id] = Functions[1]
      BY <1>1, <1>3, <2>1, FunctionFacts DEF Free, MonitorFn
    <3>2. queries = <<>>
      BY <1>1, <1>3, <2>1, <3>1
    <3>3. pc' = "register" /\ M' = 1
      BY <1>6, <1>7, <2>1
    <3> QED BY <1>1, <2>1, <3>2, <3>3 DEF EarlyPlace, Free
  <2>2. CASE M = 1
    <3>1. pc' = "running" /\ M' = 2
      BY <1>6, <1>7, <2>2
    <3> QED BY <1>1, <3>1 DEF EarlyPlace
  <2> QED BY <1>1, <2>1, <2>2
<1>10. KnownInv'
  <2>1. \A k \in 1 .. M : monlist'[k].type = Functions[k] /\ monitors'[monlist'[k].id] \in MonitorFn
    BY <1>1, <1>6 DEF KnownInv
  <2>2. monlist'[M + 1].type = Functions[M + 1] /\ monitors'[monlist'[M + 1].id] \in MonitorFn
    BY <1>1, <1>3, <1>5, <1>6
  <2>3. monitors'[monlist'[1].id] = Functions[1]
    <3>1. CASE M = 0
      BY <1>1, <1>3, <1>5, <1>6, <3>1, FunctionFacts DEF Free, MonitorFn
    <3>2. CASE M = 1
      BY <1>1, <1>6, <3>2 DEF KnownInv
    <3> QED BY <1>1, <3>1, <3>2
  <2>4. \A k \in 1 .. M' : k \in 1 .. M \/ k = M + 1
    BY <1>1, <1>6
  <2> QED BY <1>1, <2>1, <2>2, <2>3, <2>4 DEF KnownInv
<1>11. RelayedInv'
  BY <1>1, <1>8, TakenKeepsRelayed
<1> QED BY <1>2, <1>8, <1>9, <1>10, <1>11

\* The letter the relay looks up is right for every id it finds.
LEMMA EarlyLetter ==
  ASSUME TypeOK, KnownInv, NEW id, WithId(id) # {}
  PROVE  /\ monlist[First(WithId(id))].type = monitors[id]
         /\ monlist[First(WithId(id))].type \in MonitorFn
<1>1. WithId(id) \subseteq 1 .. 2 /\ DOMAIN monlist = 1 .. M /\ M \in Nat
  BY ListTypes, FunctionFacts DEF TypeOK, WithId, M
<1>2. PICK k : k = First(WithId(id)) /\ k \in WithId(id) /\ \A j \in WithId(id) : k <= j
  BY <1>1, FirstIsIn
<1>3. k \in 1 .. M /\ k \in {1, 2} /\ monlist[k].id = id /\ M > 0 /\ id \in Ids
  BY <1>1, <1>2, ListTypes DEF WithId
<1>4. monlist[k].type = Functions[k] /\ monitors[id] \in MonitorFn
  BY <1>3 DEF KnownInv
<1>5. CASE k = 1
  BY <1>2, <1>3, <1>4, <1>5, FunctionFacts DEF KnownInv, MonitorFn
<1>6. CASE k = 2
  <2>1. monlist[1].id # id
    <3>1. SUFFICES ASSUME monlist[1].id = id PROVE FALSE
      OBVIOUS
    <3>2. 1 \in WithId(id)
      BY <1>1, <1>3, <3>1 DEF WithId
    <3> QED BY <1>2, <1>6, <3>2
  <2>2. monitors[monlist[1].id] = Functions[1] /\ monlist[1].id \in Ids
    BY <1>1, <1>3, ListTypes DEF KnownInv
  <2>3. monitors[id] # Functions[1]
    BY <1>3, <2>1, <2>2, FunctionFacts DEF KnownInv
  <2> QED BY <1>2, <1>4, <1>6, <2>3, FunctionFacts DEF MonitorFn
<1> QED BY <1>3, <1>5, <1>6

\* Relaying news: they come after all that the client was sent.
LEMMA HandleDataKeepsEarly ==
  ASSUME EarlyInv, HandleData
  PROVE  EarlyInv'
<1> DEFINE m == sent[Next1]
           line == [tag |-> Tag[monitors[m.id]], value |-> m.value]
           n == Len(toclient)
<1>0. TypeOK /\ EarlyPlace /\ KnownInv /\ NewsInv /\ RelayedInv
  BY DEF EarlyInv
<1>1. /\ pc = "running" /\ Connection!Deliver /\ ChangeResults(m)
      /\ received' = Append(received, m) /\ Len(received) < Len(sent)
      /\ UNCHANGED <<monitors, queries, news, sent, dryrun, monlist, client, read, link>>
  BY DEF HandleData, Connection!Deliver, Next1, smbtad
<1>2. /\ NewsInv' /\ Next1 \in 1 .. Len(sent) /\ Len(received') = Next1
      /\ Next1 = Len(received) + 1 /\ Len(received) \in Nat
  BY <1>0, <1>1, TakingKeepsNews, NewsTypes DEF Next1
<1>3. m \in Message /\ monitors[m.id] \in MonitorFn /\ received' \in Seq(Message)
  BY <1>0, <1>1, <1>2, MessageTypes DEF KnownInv, TypeOK, Connection!DeliveryTypeOK
<1>4. KnownInv'
  BY <1>0, <1>1 DEF KnownInv, M
<1>5. ASSUME pc' \in {"running"} \cup Stopped, toclient' \in Seq(ClientMessage)
      PROVE  TypeOK' /\ EarlyPlace'
  <2>1. TypeOK'
    BY <1>0, <1>1, <1>3, <1>5 DEF TypeOK, Connection!DeliveryTypeOK, Stopped
  <2>2. EarlyPlace'
    BY <1>0, <1>1, <1>5 DEF EarlyPlace, Stopped, Ended
  <2> QED BY <2>1, <2>2
<1>6. CASE UNCHANGED toclient /\ pc' \in {"running"} \cup Stopped
  <2>1. TypeOK' /\ EarlyPlace'
    BY <1>0, <1>5, <1>6 DEF TypeOK
  <2>2. RelayedInv'
    BY <1>1, <1>6, <2>1, TakenKeepsRelayed
  <2> QED BY <1>2, <1>4, <2>1, <2>2 DEF EarlyInv
<1>7. CASE IsNews(m) /\ WithId(m.id) # {} /\ UNCHANGED pc
           /\ toclient' = Append(toclient, [tag |-> Tag[monlist[First(WithId(m.id))].type],
                                            value |-> m.value])
  <2>1. toclient' = Append(toclient, line) /\ line \in ClientMessage
    <3>1. m.value \in Values
      BY <1>3, <1>7 DEF Message, IsNews
    <3>2. line \in ClientMessage
      BY <1>3, <3>1 DEF ClientMessage, MonitorFn, Tag
    <3> QED BY <1>0, <1>7, <3>2, EarlyLetter
  <2> HIDE DEF line
  <2>2. /\ n \in Nat /\ Len(toclient') = n + 1 /\ toclient'[n + 1] = line
        /\ \A p \in 1 .. n : toclient'[p] = toclient[p]
        /\ toclient' \in Seq(ClientMessage)
    BY <1>0, <2>1 DEF TypeOK
  <2>3. TypeOK' /\ EarlyPlace'
    BY <1>1, <1>5, <1>7, <2>2
  <2>4. PICK q \in 1 .. Len(news) : news[q].at = Next1
    BY <1>0, <1>2, <1>7, NewsTypes DEF NewsInv
  <2>5. news[q].line = line /\ Len(news) \in Nat
    BY <1>0, <2>4, NewsTypes DEF NewsInv, line
  <2>6. ASSUME ~dryrun
        PROVE  \E g \in [1 .. n + 1 -> 1 .. Len(news)] :
                 /\ \A p \in 1 .. n + 1 :
                      toclient'[p] = news[g[p]].line /\ news[g[p]].at <= Next1
                 /\ \A p, r \in 1 .. n + 1 : p < r => g[p] < g[r]
    <3>1. PICK f \in [1 .. n -> 1 .. Len(news)] :
            /\ \A p \in 1 .. n : toclient[p] = news[f[p]].line /\ news[f[p]].at <= Len(received)
            /\ \A p, r \in 1 .. n : p < r => f[p] < f[r]
      BY <1>0, <2>6 DEF RelayedInv
    <3>2. ASSUME NEW p \in 1 .. n PROVE f[p] < q /\ news[f[p]].at <= Next1
      <4>1. f[p] \in 1 .. Len(news) /\ news[f[p]].at \in Nat /\ news[f[p]].at <= Len(received)
        BY <1>0, <3>1, NewsTypes
      <4>2. news[f[p]].at < news[q].at
        BY <1>2, <2>4, <4>1
      <4>3. q < f[p] => news[q].at < news[f[p]].at
        BY <1>0, <2>4, <4>1, NewsTypes DEF NewsInv
      <4> QED BY <1>2, <2>4, <4>1, <4>2, <4>3
    <3>3. PICK g : g = [p \in 1 .. n + 1 |-> IF p = n + 1 THEN q ELSE f[p]]
      OBVIOUS
    <3>4. /\ n + 1 \in 1 .. n + 1 /\ g[n + 1] = q
          /\ \A p \in 1 .. n : g[p] = f[p]
          /\ \A p \in 1 .. n + 1 : p \in 1 .. n \/ p = n + 1
      BY <2>2, <3>3
    <3>5. g \in [1 .. n + 1 -> 1 .. Len(news)]
      BY <2>4, <3>1, <3>3, <3>4
    <3>6. ASSUME NEW p \in 1 .. n + 1
          PROVE  toclient'[p] = news[g[p]].line /\ news[g[p]].at <= Next1
      <4>1. CASE p \in 1 .. n
        BY <2>2, <3>1, <3>2, <3>4, <4>1
      <4>2. CASE p = n + 1
        BY <1>2, <2>2, <2>4, <2>5, <3>4, <4>2
      <4> QED BY <3>4, <4>1, <4>2
    <3>7. ASSUME NEW p \in 1 .. n + 1, NEW r \in 1 .. n + 1, p < r
          PROVE  g[p] < g[r]
      <4>1. p \in 1 .. n
        BY <2>2, <3>7
      <4>2. CASE r \in 1 .. n
        BY <3>1, <3>4, <3>7, <4>1, <4>2
      <4>3. CASE r = n + 1
        BY <3>2, <3>4, <4>1, <4>3
      <4> QED BY <3>4, <4>2, <4>3
    <3> QED BY <3>5, <3>6, <3>7
  <2>7. RelayedInv'
    BY <1>1, <1>2, <2>2, <2>6 DEF RelayedInv
  <2> QED BY <1>2, <1>4, <2>3, <2>7 DEF EarlyInv
<1>8. \/ UNCHANGED toclient /\ pc' \in {"running"} \cup Stopped
      \/ /\ IsNews(m) /\ WithId(m.id) # {} /\ UNCHANGED pc
         /\ toclient' = Append(toclient, [tag |-> Tag[monlist[First(WithId(m.id))].type],
                                          value |-> m.value])
  BY <1>1 DEF ChangeResults, SendClient, IsNews, Stopped, Ended
<1> QED BY <1>6, <1>7, <1>8

\* A dry run is no business of smbtad's.
LEMMA DryRunKeepsEarly ==
  ASSUME EarlyInv, DryRun
  PROVE  EarlyInv'
<1> USE DEF EarlyInv
<1>1. /\ pc = "dryrun" /\ dryrun
      /\ UNCHANGED <<monitors, queries, news, sent, received, dryrun, monlist, client,
                     read, link>>
  BY DEF DryRun, smbtad, EarlyPlace
<1>2. PICK tag \in {"R", "W"}, v \in Values : SendClient([tag |-> tag, value |-> v])
  BY DEF DryRun
<1>3. toclient' \in Seq(ClientMessage) /\ pc' \in {"dryrun", "killed"}
  <2>1. PICK line \in ClientMessage : SendClient(line)
    BY <1>2 DEF ClientMessage
  <2>2. toclient \in Seq(ClientMessage)
    BY DEF TypeOK
  <2>3. toclient' \in {toclient, Append(toclient, line)} /\ pc' \in {pc, "killed"}
    BY <2>1 DEF SendClient
  <2> QED BY <1>1, <2>1, <2>2, <2>3
<1>4. TypeOK'
  BY <1>1, <1>3 DEF TypeOK, Connection!DeliveryTypeOK, Stopped, Ended
<1>5. EarlyPlace' /\ RelayedInv'
  BY <1>1, <1>3 DEF EarlyPlace, RelayedInv, Free, M
<1>6. KnownInv' /\ NewsInv'
  BY <1>1 DEF KnownInv, NewsInv, IsNews, M
<1> QED BY <1>4, <1>5, <1>6

LEMMA StepKeepsEarly == EarlyInv /\ [Next]_vars => EarlyInv'
<1> SUFFICES ASSUME EarlyInv, [Next]_vars PROVE EarlyInv'
  OBVIOUS
<1>1. CASE UNCHANGED vars
  <2>1. UNCHANGED <<monitors, queries, news, sent, received, pc, dryrun, monlist, client, toclient,
                 read, link>>
    BY <1>1 DEF vars, smbtad
  <2>2. TypeOK' /\ EarlyPlace'
    BY <2>1 DEF EarlyInv, TypeOK, Connection!DeliveryTypeOK, EarlyPlace, Free, M
  <2>3. KnownInv' /\ NewsInv' /\ RelayedInv'
    BY <2>1 DEF EarlyInv, KnownInv, NewsInv, IsNews, RelayedInv, M
  <2> QED BY <2>2, <2>3 DEF EarlyInv
<1> QED
  BY <1>1, RegisterKeepsEarly, PushKeepsEarly, OtherStepsKeepEarly, TakeAnswerKeepsEarly,
     HandleDataKeepsEarly, DryRunKeepsEarly
  DEF Next, Program

LEMMA EarlyAlways == Spec => []EarlyInv
BY InitEarly, StepKeepsEarly, PTL DEF Spec

(***************************************************************************)
(* Type correctness, whenever news come: the list never has more items     *)
(* than there are functions, and never more than one query is on its way.  *)
(***************************************************************************)
THEOREM TypeCorrect == Spec => []TypeOK
<1>1. EarlyInv => TypeOK
  BY DEF EarlyInv
<1> QED BY <1>1, EarlyAlways, PTL

(***************************************************************************)
(* The first registration is beyond the reach of early news: smbtad has no *)
(* monitor yet that could have any.                                        *)
(***************************************************************************)
FirstItemMatches == monlist # <<>> => monitors[monlist[1].id] = monlist[1].type

THEOREM FirstItemIsRight == Spec => []FirstItemMatches
<1>1. EarlyInv => FirstItemMatches
  <2> SUFFICES ASSUME EarlyInv, monlist # <<>> PROVE monitors[monlist[1].id] = monlist[1].type
    BY DEF FirstItemMatches
  <2>1. M \in Nat /\ M > 0
    BY DEF EarlyInv, TypeOK, M
  <2> QED BY <2>1 DEF EarlyInv, KnownInv
<1> QED BY <1>1, EarlyAlways, PTL

(***************************************************************************)
(* Whenever smbtad pushes news, a second id that is wrong or not, all the  *)
(* client is sent is news: each line is one of those smbtad's values       *)
(* should become, with its letter, none is sent twice and none overtakes   *)
(* another (network_handle_data, monitor_list_change_results).  What early *)
(* news can do is to be lost themselves, or to end the program.            *)
(***************************************************************************)
RelaysOnlyNews ==
  ~dryrun =>
    \E f \in [1 .. Len(toclient) -> 1 .. Len(news)] :
      /\ \A p \in 1 .. Len(toclient) : toclient[p] = news[f[p]].line
      /\ \A p, q \in 1 .. Len(toclient) : p < q => f[p] < f[q]

THEOREM OnlyNewsAreRelayed == Spec => []RelaysOnlyNews
<1>1. EarlyInv => RelaysOnlyNews
  BY DEF EarlyInv, RelayedInv, RelaysOnlyNews
<1> QED BY <1>1, EarlyAlways, PTL
----------------------------------------------------------------------------
(* What can end the relay, whenever smbtad pushes its news.                *)
(*                                                                         *)
(* Each monitor has one answer, and the news of a monitor come behind its  *)
(* answer.  So while the two ids of the list are those of the answers,     *)
(* every message finds its item; only if news were taken for the second    *)
(* answer, there is an answer left for the relaying thread to stumble on.  *)

IsAnswer(j) == sent[j].value = NoValue

\* The messages taken are the first of those sent, and the k-th of them gave
\* the k-th item of the list its id.
TakenInv ==
  /\ Len(received) <= Len(sent)
  /\ \A j \in 1 .. Len(received) : received[j] = sent[j]
  /\ M <= Len(received)
  /\ \A k \in 1 .. M : monlist[k].id = sent[k].id
  /\ pc \in {"accept", "dryrun", "register", "answer"} => Len(received) = M
  /\ pc = "running" => M = 2 /\ \A j \in 3 .. Len(received) : ~IsAnswer(j)

\* One answer for each monitor smbtad has, before any of its news.
AnswerInv ==
  /\ sent # <<>> => IsAnswer(1)
  /\ \A i \in Ids :
       monitors[i] # "none" => \E k \in 1 .. Len(sent) : IsAnswer(k) /\ sent[k].id = i
  /\ \A i, j \in 1 .. Len(sent) :
       IsAnswer(i) /\ IsAnswer(j) /\ monitors[sent[i].id] = monitors[sent[j].id] => i = j
  /\ \A j \in 1 .. Len(sent) :
       ~IsAnswer(j) => \E i \in 1 .. Len(sent) :
                         i < j /\ IsAnswer(i) /\ sent[i].id = sent[j].id

LateInv == EarlyInv /\ TakenInv /\ AnswerInv /\ CrashesOnlyOnLateAnswer

LEMMA InitLate == Init => LateInv
<1> SUFFICES ASSUME Init PROVE LateInv
  OBVIOUS
<1> USE DEF Init, Connection!DeliveryInit
<1>1. TakenInv
  BY DEF TakenInv, M
<1>2. AnswerInv /\ CrashesOnlyOnLateAnswer
  BY DEF AnswerInv, CrashesOnlyOnLateAnswer
<1> QED BY <1>1, <1>2, InitEarly DEF LateInv

\* smbtad appends an answer, of a monitor it did not have.
LEMMA RegisterKeepsLate ==
  ASSUME LateInv, SmbtadRegister
  PROVE  TakenInv' /\ AnswerInv' /\ CrashesOnlyOnLateAnswer'
<1>0. TypeOK /\ EarlyPlace /\ KnownInv /\ TakenInv /\ AnswerInv /\ CrashesOnlyOnLateAnswer
  BY DEF LateInv, EarlyInv
<1> PICK N : N = Len(sent)
  OBVIOUS
<1>1. PICK i \in Ids :
        /\ monitors[i] = "none"
        /\ monitors' = [monitors EXCEPT ![i] = Head(queries)]
        /\ sent' = Append(sent, [id |-> i, value |-> NoValue])
        /\ UNCHANGED <<received, pc, monlist>>
  BY DEF SmbtadRegister, Connection!Send
<1>2. /\ N \in Nat /\ Len(sent') = N + 1
      /\ \A j \in 1 .. N : sent'[j] = sent[j] /\ sent[j].id \in Ids
      /\ sent'[N + 1] = [id |-> i, value |-> NoValue]
  <2>1. sent \in Seq(Message)
    BY <1>0 DEF TypeOK, Connection!DeliveryTypeOK
  <2>2. N \in Nat /\ \A j \in 1 .. N : sent[j].id \in Ids
    BY <1>0, MessageTypes
  <2> QED BY <1>1, <2>1, <2>2
<1>3. Head(queries) \in MonitorFn /\ \A l \in Ids : monitors[l] # Head(queries)
  BY <1>0 DEF TypeOK, SmbtadRegister, EarlyPlace
<1>4. \A j \in Ids : monitors'[j] = IF j = i THEN Head(queries) ELSE monitors[j]
  BY <1>0, <1>1 DEF TypeOK
<1>5. /\ \A j \in 1 .. N : IsAnswer(j)' <=> IsAnswer(j)
      /\ IsAnswer(N + 1)' /\ sent'[N + 1].id = i
      /\ \A j \in 1 .. N + 1 : j \in 1 .. N \/ j = N + 1
  <2>1. \A j \in 1 .. N : IsAnswer(j)' <=> IsAnswer(j)
    <3> SUFFICES ASSUME NEW j \in 1 .. N PROVE IsAnswer(j)' <=> IsAnswer(j)
      OBVIOUS
    <3>1. sent'[j] = sent[j]
      BY <1>2
    <3> QED BY <3>1 DEF IsAnswer
  <2>2. IsAnswer(N + 1)' /\ sent'[N + 1].id = i
    BY <1>2 DEF IsAnswer
  <2>3. \A j \in 1 .. N + 1 : j \in 1 .. N \/ j = N + 1
    BY <1>2
  <2> QED BY <2>1, <2>2, <2>3
<1>6. /\ Len(received) \in Nat /\ M \in Nat /\ M' = M
      /\ Len(received) <= N
  BY <1>0, <1>1, NewsTypes, ListTypes DEF TakenInv, M
<1>7. TakenInv'
  BY <1>0, <1>1, <1>2, <1>5, <1>6 DEF TakenInv
<1>8. (sent # <<>> => IsAnswer(1))'
  <2>1. CASE N = 0
    <3>1. IsAnswer(N + 1)' <=> IsAnswer(1)'
      BY <2>1 DEF IsAnswer
    <3> QED BY <1>5, <3>1
  <2>2. CASE N > 0
    <3>1. sent # <<>> /\ 1 \in 1 .. N
      BY <1>2, <2>2
    <3>2. IsAnswer(1)
      BY <1>0, <3>1 DEF AnswerInv
    <3> QED BY <1>5, <3>1, <3>2
  <2> QED BY <1>2, <2>1, <2>2
<1>9. ASSUME NEW j \in Ids, monitors'[j] # "none"
      PROVE  \E k \in 1 .. N + 1 : IsAnswer(k)' /\ sent'[k].id = j
  <2>1. CASE j = i
    <3>1. N + 1 \in 1 .. N + 1
      BY <1>2
    <3> QED BY <1>5, <2>1, <3>1
  <2>2. CASE j # i
    <3>1. PICK k \in 1 .. N : IsAnswer(k) /\ sent[k].id = j
      BY <1>0, <1>4, <1>9, <2>2 DEF AnswerInv
    <3> QED BY <1>2, <1>5, <3>1
  <2> QED BY <2>1, <2>2
<1>10. ASSUME NEW j \in 1 .. N + 1, NEW k \in 1 .. N + 1, IsAnswer(j)', IsAnswer(k)',
              monitors'[sent'[j].id] = monitors'[sent'[k].id]
       PROVE  j = k
  <2>1. \A l \in 1 .. N : /\ sent[l].id # i /\ monitors'[sent'[l].id] = monitors[sent[l].id]
                           /\ monitors'[sent'[l].id] # Head(queries)
    <3> SUFFICES ASSUME NEW l \in 1 .. N
                 PROVE  /\ sent[l].id # i /\ monitors'[sent'[l].id] = monitors[sent[l].id]
                        /\ monitors'[sent'[l].id] # Head(queries)
      OBVIOUS
    <3>1. monitors[sent[l].id] \in MonitorFn /\ sent[l].id \in Ids /\ sent'[l] = sent[l]
      BY <1>0, <1>2 DEF KnownInv
    <3>2. sent[l].id # i
      BY <1>1, <3>1 DEF MonitorFn
    <3> QED BY <1>3, <1>4, <3>1, <3>2
  <2>2. monitors'[sent'[N + 1].id] = Head(queries)
    BY <1>4, <1>5
  <2>3. CASE j \in 1 .. N /\ k \in 1 .. N
    BY <1>0, <1>5, <1>10, <2>1, <2>3 DEF AnswerInv
  <2> QED BY <1>5, <1>10, <2>1, <2>2, <2>3
<1>11. ASSUME NEW j \in 1 .. N + 1, ~IsAnswer(j)'
       PROVE  \E k \in 1 .. N + 1 : k < j /\ IsAnswer(k)' /\ sent'[k].id = sent'[j].id
  <2>1. j \in 1 .. N /\ ~IsAnswer(j)
    <3>1. j # N + 1
      BY <1>5, <1>11 DEF IsAnswer
    <3>2. j \in 1 .. N
      BY <1>5, <3>1
    <3> QED BY <1>5, <1>11, <3>2
  <2>2. PICK k \in 1 .. N : k < j /\ IsAnswer(k) /\ sent[k].id = sent[j].id
    BY <1>0, <2>1 DEF AnswerInv
  <2> QED BY <1>2, <1>5, <2>1, <2>2
<1>12. AnswerInv'
  BY <1>2, <1>8, <1>9, <1>10, <1>11 DEF AnswerInv
<1>13. CrashesOnlyOnLateAnswer'
  BY <1>0, <1>1 DEF CrashesOnlyOnLateAnswer
<1> QED BY <1>7, <1>12, <1>13

\* smbtad appends news, behind the answer of their monitor.
LEMMA PushKeepsLate ==
  ASSUME LateInv, SmbtadNews
  PROVE  TakenInv' /\ AnswerInv' /\ CrashesOnlyOnLateAnswer'
<1>0. TypeOK /\ TakenInv /\ AnswerInv /\ CrashesOnlyOnLateAnswer
  BY DEF LateInv, EarlyInv
<1> PICK N : N = Len(sent)
  OBVIOUS
<1>1. PICK i \in Ids, v \in Values :
        /\ monitors[i] # "none"
        /\ sent' = Append(sent, [id |-> i, value |-> v])
        /\ UNCHANGED <<monitors, received, pc, monlist>>
  BY DEF SmbtadNews, Connection!Send
<1>2. /\ N \in Nat /\ Len(sent') = N + 1
      /\ \A j \in 1 .. N : sent'[j] = sent[j]
      /\ sent'[N + 1] = [id |-> i, value |-> v]
  BY <1>0, <1>1 DEF TypeOK, Connection!DeliveryTypeOK
<1>3. /\ \A j \in 1 .. N : IsAnswer(j)' <=> IsAnswer(j)
      /\ ~IsAnswer(N + 1)' /\ sent'[N + 1].id = i
      /\ \A j \in 1 .. N + 1 : j \in 1 .. N \/ j = N + 1
  <2>1. \A j \in 1 .. N : IsAnswer(j)' <=> IsAnswer(j)
    <3> SUFFICES ASSUME NEW j \in 1 .. N PROVE IsAnswer(j)' <=> IsAnswer(j)
      OBVIOUS
    <3>1. sent'[j] = sent[j]
      BY <1>2
    <3> QED BY <3>1 DEF IsAnswer
  <2>2. ~IsAnswer(N + 1)' /\ sent'[N + 1].id = i
    BY <1>2, MonitorAssumption DEF IsAnswer
  <2>3. \A j \in 1 .. N + 1 : j \in 1 .. N \/ j = N + 1
    BY <1>2
  <2> QED BY <2>1, <2>2, <2>3
<1>4. /\ Len(received) \in Nat /\ M \in Nat /\ M' = M
      /\ Len(received) <= N
  BY <1>0, <1>1, NewsTypes, ListTypes DEF TakenInv, M
<1>5. TakenInv'
  BY <1>0, <1>1, <1>2, <1>3, <1>4 DEF TakenInv
<1>6. PICK first \in 1 .. N : IsAnswer(first) /\ sent[first].id = i
  BY <1>0, <1>1 DEF AnswerInv
<1>7. (sent # <<>> => IsAnswer(1))'
  BY <1>0, <1>2, <1>3, <1>6 DEF AnswerInv
<1>8. ASSUME NEW j \in Ids, monitors'[j] # "none"
      PROVE  \E k \in 1 .. N + 1 : IsAnswer(k)' /\ sent'[k].id = j
  <2>1. PICK k \in 1 .. N : IsAnswer(k) /\ sent[k].id = j
    BY <1>0, <1>1, <1>8 DEF AnswerInv
  <2> QED BY <1>2, <1>3, <2>1
<1>9. ASSUME NEW j \in 1 .. N + 1, NEW k \in 1 .. N + 1, IsAnswer(j)', IsAnswer(k)',
             monitors'[sent'[j].id] = monitors'[sent'[k].id]
      PROVE  j = k
  <2>1. j # N + 1 /\ k # N + 1
    BY <1>3, <1>9 DEF IsAnswer
  <2>2. j \in 1 .. N /\ k \in 1 .. N
    BY <1>3, <2>1
  <2>3. IsAnswer(j) /\ IsAnswer(k) /\ monitors[sent[j].id] = monitors[sent[k].id]
    BY <1>1, <1>2, <1>3, <1>9, <2>2
  <2> QED BY <1>0, <2>2, <2>3 DEF AnswerInv
<1>10. ASSUME NEW j \in 1 .. N + 1, ~IsAnswer(j)'
       PROVE  \E k \in 1 .. N + 1 : k < j /\ IsAnswer(k)' /\ sent'[k].id = sent'[j].id
  <2>1. CASE j \in 1 .. N
    <3>1. PICK k \in 1 .. N : k < j /\ IsAnswer(k) /\ sent[k].id = sent[j].id
      BY <1>0, <1>3, <1>10, <2>1 DEF AnswerInv
    <3> QED BY <1>2, <1>3, <2>1, <3>1
  <2>2. CASE j = N + 1
    BY <1>2, <1>3, <1>6, <2>2
  <2> QED BY <1>3, <2>1, <2>2
<1>11. AnswerInv'
  BY <1>2, <1>7, <1>8, <1>9, <1>10 DEF AnswerInv
<1>12. CrashesOnlyOnLateAnswer'
  BY <1>0, <1>1 DEF CrashesOnlyOnLateAnswer
<1> QED BY <1>5, <1>11, <1>12

\* A step that moves no message, and does not crash.
LEMMA OtherStepsKeepLate ==
  ASSUME LateInv, UNCHANGED <<monitors, sent, received, monlist>>,
         pc' # "crashed" \/ pc = "crashed",
         pc' \in {"dryrun", "register", "answer"} =>
           pc \in {"accept", "dryrun", "register", "answer"},
         pc' = "accept" => pc = "accept",
         pc' = "running" => pc = "running"
  PROVE  TakenInv' /\ AnswerInv' /\ CrashesOnlyOnLateAnswer'
<1>1. M' = M
  BY DEF M
<1>2. TakenInv'
  BY <1>1 DEF LateInv, TakenInv, IsAnswer
<1>3. AnswerInv' /\ CrashesOnlyOnLateAnswer'
  BY DEF LateInv, AnswerInv, IsAnswer, CrashesOnlyOnLateAnswer
<1> QED BY <1>2, <1>3

\* One more message taken: the first that was not.
LEMMA TakingOne ==
  ASSUME TypeOK, TakenInv, Connection!Deliver, UNCHANGED sent
  PROVE  /\ Next1 = Len(received) + 1 /\ Len(received') = Next1 /\ Len(received) \in Nat
         /\ Next1 \in 1 .. Len(sent) /\ Len(received') <= Len(sent')
         /\ \A j \in 1 .. Len(received') : received'[j] = sent'[j]
<1>1. /\ received \in Seq(Message) /\ sent \in Seq(Message) /\ Len(received) < Len(sent)
      /\ received' = Append(received, sent[Next1]) /\ Next1 = Len(received) + 1
  BY DEF TypeOK, Connection!DeliveryTypeOK, Connection!Deliver, Next1
<1>2. /\ Len(received') = Next1 /\ received'[Next1] = sent[Next1]
      /\ \A j \in 1 .. Len(received) : received'[j] = received[j]
  BY <1>1
<1> QED BY <1>1, <1>2 DEF TakenInv

LEMMA TakeAnswerKeepsLate ==
  ASSUME LateInv, TakeAnswer
  PROVE  TakenInv' /\ AnswerInv' /\ CrashesOnlyOnLateAnswer'
<1>0. TypeOK /\ EarlyPlace /\ TakenInv /\ AnswerInv
  BY DEF LateInv, EarlyInv
<1> DEFINE item == [id |-> sent[Next1].id, type |-> Registering]
<1>1. /\ pc = "answer" /\ Connection!Deliver /\ UNCHANGED <<monitors, sent>>
      /\ monlist' = Append(monlist, item) /\ M \in {0, 1} /\ Len(received) = M
      /\ pc' = IF Len(monlist') < 2 THEN "register" ELSE "running"
  BY <1>0, FunctionFacts DEF TakeAnswer, Connection!Deliver, smbtad, EarlyPlace, TakenInv, Next1
<1>2. /\ Len(received') = Next1 /\ Next1 = M + 1 /\ Next1 \in 1 .. Len(sent)
      /\ Len(received') <= Len(sent')
      /\ \A j \in 1 .. Len(received') : received'[j] = sent'[j]
  BY <1>0, <1>1, TakingOne
<1>3. item.id = sent[Next1].id
  OBVIOUS
<1> HIDE DEF item
<1>4. /\ M' = M + 1 /\ monlist'[M + 1] = item
      /\ \A k \in 1 .. M : monlist'[k] = monlist[k]
  BY <1>0, <1>1 DEF TypeOK, M
<1>5. \A k \in 1 .. M' : monlist'[k].id = sent'[k].id
  <2> SUFFICES ASSUME NEW k \in 1 .. M' PROVE monlist'[k].id = sent'[k].id
    OBVIOUS
  <2>1. CASE k \in 1 .. M
    <3>1. monlist'[k] = monlist[k] /\ monlist[k].id = sent[k].id /\ sent' = sent
      BY <1>0, <1>1, <1>4, <2>1 DEF TakenInv
    <3> QED BY <3>1
  <2>2. CASE k = M + 1
    <3>1. monlist'[k] = item /\ sent' = sent /\ k = Next1
      BY <1>1, <1>2, <1>4, <2>2
    <3> QED BY <1>3, <3>1
  <2>3. k \in 1 .. M \/ k = M + 1
    <3>1. k \in 1 .. M + 1 /\ M \in Nat
      BY <1>1, <1>4
    <3> QED BY <3>1
  <2> QED BY <2>1, <2>2, <2>3
<1>6. pc' = "running" => M' = 2 /\ 3 .. Len(received') = {}
  BY <1>1, <1>2, <1>4 DEF M
<1>7. TakenInv'
  <2>1. pc' \in {"register", "running"} /\ M' <= Len(received') /\ Len(received') = M'
    BY <1>1, <1>2, <1>4
  <2>2. pc' = "running" => M' = 2 /\ \A j \in 3 .. Len(received') : ~IsAnswer(j)'
    BY <1>6
  <2> QED BY <1>2, <1>5, <2>1, <2>2 DEF TakenInv
<1>8. AnswerInv' /\ CrashesOnlyOnLateAnswer'
  BY <1>0, <1>1 DEF AnswerInv, IsAnswer, CrashesOnlyOnLateAnswer
<1> QED BY <1>7, <1>8

\* A message that finds no item, or is an answer, betrays the second id.
LEMMA HandleDataKeepsLate ==
  ASSUME LateInv, HandleData
  PROVE  TakenInv' /\ AnswerInv' /\ CrashesOnlyOnLateAnswer'
<1>0. TypeOK /\ EarlyPlace /\ KnownInv /\ TakenInv /\ AnswerInv
  BY DEF LateInv, EarlyInv
<1> DEFINE m == sent[Next1]
<1>1. /\ pc = "running" /\ Connection!Deliver /\ ChangeResults(m)
      /\ UNCHANGED <<monitors, sent, monlist>>
  BY DEF HandleData, Connection!Deliver, Next1, smbtad
<1>2. /\ M = 2 /\ Len(received) >= 2 /\ Len(received) \in Nat /\ M' = M
      /\ \A j \in 3 .. Len(received) : ~IsAnswer(j)
  BY <1>0, <1>1, NewsTypes DEF TakenInv, M
<1>3. /\ Len(received') = Next1 /\ Next1 = Len(received) + 1 /\ Next1 \in 1 .. Len(sent)
      /\ Len(received') <= Len(sent')
      /\ \A j \in 1 .. Len(received') : received'[j] = sent'[j]
  BY <1>0, <1>1, TakingOne
<1>4. AnswerInv'
  BY <1>0, <1>1 DEF AnswerInv, IsAnswer
<1>5. IsAnswer(1) /\ Len(sent) \in Nat /\ Len(sent) >= 3
  <2>1. sent # <<>> /\ Len(sent) \in Nat
    BY <1>0, <1>3, NewsTypes
  <2> QED BY <1>0, <1>2, <1>3, <2>1 DEF AnswerInv
\* Of three answers two would be of one monitor.
<1>6. ASSUME IsAnswer(Next1)
      PROVE  received'[2].value # NoValue /\ received'[Len(received')].value = NoValue
  <2>1. ~IsAnswer(2)
    <3> SUFFICES ASSUME IsAnswer(2) PROVE FALSE
      OBVIOUS
    <3>1. 1 \in 1 .. Len(sent) /\ 2 \in 1 .. Len(sent) /\ Next1 \in 1 .. Len(sent)
          /\ Next1 # 1 /\ Next1 # 2
      BY <1>2, <1>3, <1>5
    <3>2. /\ monitors[sent[1].id] # monitors[sent[2].id]
          /\ monitors[sent[1].id] # monitors[sent[Next1].id]
          /\ monitors[sent[2].id] # monitors[sent[Next1].id]
      BY <1>0, <1>5, <1>6, <3>1 DEF AnswerInv
    <3>3. /\ monitors[sent[1].id] \in MonitorFn /\ monitors[sent[2].id] \in MonitorFn
          /\ monitors[sent[Next1].id] \in MonitorFn
      BY <1>0, <3>1 DEF KnownInv
    <3> QED BY <3>2, <3>3 DEF MonitorFn
  <2>2. 2 \in 1 .. Len(received') /\ Len(received') \in 1 .. Len(received')
    BY <1>2, <1>3
  <2>3. received'[2] = sent[2] /\ received'[Len(received')] = sent[Next1]
    BY <1>1, <1>3, <2>2
  <2> QED BY <1>6, <2>1, <2>3 DEF IsAnswer
\* The answer of news that find no item has been taken, and not as an item.
<1>7. ASSUME ~IsAnswer(Next1) PROVE WithId(m.id) # {}
  <2>1. PICK i \in 1 .. Len(sent) : i < Next1 /\ IsAnswer(i) /\ sent[i].id = m.id
    BY <1>0, <1>3, <1>7 DEF AnswerInv
  <2>2. i \in 1 .. 2
    BY <1>2, <1>3, <2>1
  <2>3. monlist[i].id = m.id /\ i \in DOMAIN monlist
    BY <1>0, <1>2, <2>1, <2>2, ListTypes DEF TakenInv
  <2> QED BY <2>3 DEF WithId
<1>8. pc' \in {"running", "killed", "crashed"} /\ (pc' # "crashed" => ~IsAnswer(Next1))
  <2>1. CASE m.value = NoValue
    BY <1>1, <2>1, MonitorAssumption DEF ChangeResults
  <2>2. CASE m.value # NoValue
    <3>1. pc' \in {"running", "killed", "crashed"}
      BY <1>1 DEF ChangeResults, SendClient
    <3> QED BY <2>2, <3>1 DEF IsAnswer
  <2> QED BY <2>1, <2>2
<1>9. pc' = "crashed" => IsAnswer(Next1)
  <2> SUFFICES ASSUME pc' = "crashed", ~IsAnswer(Next1) PROVE FALSE
    OBVIOUS
  <2>1. m.value # NoValue /\ WithId(m.id) # {}
    BY <1>7 DEF IsAnswer
  <2> QED BY <1>1, <2>1 DEF ChangeResults, SendClient
<1>10. CrashesOnlyOnLateAnswer'
  BY <1>6, <1>9 DEF CrashesOnlyOnLateAnswer
<1>11. TakenInv'
  <2>1. pc' = "running" => \A j \in 3 .. Len(received') : ~IsAnswer(j)'
    BY <1>1, <1>2, <1>3, <1>8 DEF IsAnswer
  <2>2. M' <= Len(received') /\ \A k \in 1 .. M' : monlist'[k].id = sent'[k].id
    BY <1>0, <1>1, <1>2, <1>3 DEF TakenInv
  <2> QED BY <1>2, <1>3, <1>8, <2>1, <2>2 DEF TakenInv
<1> QED BY <1>4, <1>10, <1>11

LEMMA StepKeepsLate == LateInv /\ [Next]_vars => LateInv'
<1> SUFFICES ASSUME LateInv, [Next]_vars
             PROVE  TakenInv' /\ AnswerInv' /\ CrashesOnlyOnLateAnswer'
  BY StepKeepsEarly DEF LateInv
<1>1. CASE UNCHANGED vars \/ ClientConnect \/ ClientGone \/ ClientRead \/ SmbtadLost
  <2>1. UNCHANGED <<monitors, sent, received, monlist, pc>>
    BY <1>1 DEF vars, smbtad, ClientConnect, ClientGone, ClientRead, SmbtadLost
  <2> QED BY <2>1, OtherStepsKeepLate
<1>2. CASE Accept \/ SendRegistration \/ Spin \/ CatchSignal
  <2>1. UNCHANGED <<monitors, sent, received, monlist>>
    BY <1>2 DEF smbtad, Accept, SendRegistration, Spin, CatchSignal
  <2>2. /\ pc' \notin {"crashed", "accept", "running"}
        /\ pc' \in {"dryrun", "register", "answer"} => pc \in {"accept", "register"}
    BY <1>2 DEF Accept, SendRegistration, Spin, CatchSignal
  <2> QED BY <2>1, <2>2, OtherStepsKeepLate
<1>3. CASE DryRun
  <2>1. UNCHANGED <<monitors, sent, received, monlist>>
        /\ pc = "dryrun" /\ pc' \in {"dryrun", "killed"}
    BY <1>3 DEF smbtad, DryRun, SendClient
  <2> QED BY <2>1, OtherStepsKeepLate
<1> QED
  BY <1>1, <1>2, <1>3, RegisterKeepsLate, PushKeepsLate, TakeAnswerKeepsLate,
     HandleDataKeepsLate
  DEF Next, Program

(***************************************************************************)
(* Whenever smbtad pushes its news, only the answer to the second          *)
(* registration can make monitor_list_change_results dereference what is   *)
(* not there, and only after news were taken for it (connect_monitor).     *)
(***************************************************************************)
THEOREM NewsAreSafe == Spec => []CrashesOnlyOnLateAnswer
<1>1. LateInv => CrashesOnlyOnLateAnswer
  BY DEF LateInv
<1> QED BY <1>1, InitLate, StepKeepsLate, PTL DEF Spec
=============================================================================
