----------------------------- MODULE MonitorGen -----------------------------
(***************************************************************************)
(* smbtamonitor-gen (src/monitor): it connects to smbtad, waits for its    *)
(* one client, registers a READ and a WRITE monitor and from then on       *)
(* relays the news smbtad pushes for them to the client as "R:n#" and      *)
(* "W:n#".                                                                 *)
(*                                                                         *)
(* The connection to smbtad is FrameDelivery, which FrameReceiver          *)
(* implements: a frame is a message here.  smbtad and the client are       *)
(* external.  smbtad answers the queries in order, each with an id of its  *)
(* choice, and pushes news of the monitors it has: as soon as one is       *)
(* registered if PushEarly, else only once both are.  It may go away, or   *)
(* send a frame with an empty body: the receive loop then spins for ever   *)
(* (FrameReceiver's LostOnlyAtTheEnd).  The client reads when it likes,    *)
(* and leaves when it likes.                                               *)
(***************************************************************************)
EXTENDS Naturals, Sequences

CONSTANTS Ids,          \* the monitor ids smbtad may give
          Values,       \* the byte counts smbtad may push, 0 among them
          NoValue,      \* stands for the element 1 an answer does not have
          PushEarly,    \* smbtad may push news between the two registrations
          SocketRoom,   \* lines that fit into the client's socket unread
          MaxMessages   \* bound: messages smbtad sends, or a dry run produces

ASSUME MonitorAssumption ==
  /\ Values \subseteq Nat /\ 0 \in Values
  /\ NoValue \notin Values
  /\ PushEarly \in BOOLEAN
  /\ SocketRoom \in Nat \ {0}
  /\ MaxMessages \in Nat

Functions == <<"MONITOR_READ", "MONITOR_WRITE">>   \* in order of registration
MonitorFn == {"MONITOR_READ", "MONITOR_WRITE"}
Tag == [MONITOR_READ |-> "R", MONITOR_WRITE |-> "W"]

Message == [id : Ids, value : Values \cup {NoValue}]
ClientMessage == [tag : {"R", "W"}, value : Values]

VARIABLES
  monitors,   \* smbtad: the function it registered under each id
  queries,    \* registrations on their way to smbtad
  link,       \* "down": smbtad is gone, or sent a frame with an empty body
  sent,       \* smbtad's messages: answers and news
  received,   \* those the program has taken from the connection
  pc,         \* where the program is
  dryrun,     \* the -x switch
  monlist,    \* the monitor list: monlist_start to monlist_end
  client,     \* the client's end of the unix socket
  toclient,   \* what was sent to it
  read,       \* how much of that it has read
  news        \* history: the line each value that is not 0 should become

smbtad == <<monitors, queries, news, link>>
vars == <<smbtad, sent, received, pc, dryrun, monlist, client, toclient, read>>

Connection == INSTANCE FrameDelivery WITH Frame <- Message

Init ==
  /\ monitors = [i \in Ids |-> "none"]
  /\ queries = <<>>
  /\ Connection!DeliveryInit
  /\ pc = "accept"
  /\ dryrun \in BOOLEAN
  /\ monlist = <<>>
  /\ client = "absent"
  /\ toclient = <<>>
  /\ read = 0
  /\ news = <<>>
  /\ link = "up"

----------------------------------------------------------------------------
(* smbtad and the client (external). *)

\* smbtad takes the next query and answers with an id it has not used.
SmbtadRegister ==
  /\ link = "up"
  /\ queries # <<>>
  /\ \E i \in Ids :
       /\ monitors[i] = "none"
       /\ monitors' = [monitors EXCEPT ![i] = Head(queries)]
       /\ Connection!Send([id |-> i, value |-> NoValue])
  /\ queries' = Tail(queries)
  /\ UNCHANGED <<news, link, pc, dryrun, monlist, client, toclient, read>>

\* A value that is not 0 should become one line, under the tag of the
\* monitor it belongs to; `at' is its place among the messages.
Line(i, v) == [tag |-> Tag[monitors[i]], value |-> v]

\* smbtad pushes the news of a monitor.
SmbtadNews ==
  /\ link = "up"
  /\ Len(sent) < MaxMessages
  /\ PushEarly \/ \A fn \in MonitorFn : \E i \in Ids : monitors[i] = fn
  /\ \E i \in Ids, v \in Values :
       /\ monitors[i] # "none"
       /\ Connection!Send([id |-> i, value |-> v])
       /\ news' = IF v = 0 THEN news
                  ELSE Append(news, [at |-> Len(sent) + 1, line |-> Line(i, v)])
  /\ UNCHANGED <<monitors, queries, link, pc, dryrun, monlist, client, toclient, read>>

\* smbtad goes away, or sends an empty frame: what it sent before may still
\* come in, all of it or only a beginning (see Spin).
SmbtadLost ==
  /\ link = "up"
  /\ link' = "down"
  /\ UNCHANGED <<monitors, queries, news, sent, received, pc, dryrun, monlist, client,
                 toclient, read>>

ClientConnect ==
  /\ pc = "accept"
  /\ client = "absent"
  /\ client' = "connected"
  /\ UNCHANGED <<smbtad, sent, received, pc, dryrun, monlist, toclient, read>>

ClientGone ==
  /\ client = "connected"
  /\ client' = "gone"
  /\ UNCHANGED <<smbtad, sent, received, pc, dryrun, monlist, toclient, read>>

unread == Len(toclient) - read

ClientRead ==
  /\ client = "connected"
  /\ unread > 0
  /\ read' = read + 1
  /\ UNCHANGED <<smbtad, sent, received, pc, dryrun, monlist, client, toclient>>

----------------------------------------------------------------------------
(* configuration_parse_cmdline, network_register_monitor *)

\* accept returns the client; a dry run registers nothing.
Accept ==
  /\ pc = "accept"
  /\ client # "absent"
  /\ pc' = IF dryrun THEN "dryrun" ELSE "register"
  /\ UNCHANGED <<smbtad, sent, received, dryrun, monlist, client, toclient, read>>

\* The function being registered: the list grows by one with each.
Registering == Functions[Len(monlist) + 1]

\* network_register_monitor hands the query to connect_monitor; SIGPIPE may
\* end the process when smbtad has gone ...
SendRegistration ==
  /\ pc = "register"
  /\ \/ /\ queries' = Append(queries, Registering)
        /\ pc' = "answer"
     \/ /\ link = "down"
        /\ pc' = "killed"
        /\ UNCHANGED queries
  /\ UNCHANGED <<monitors, news, link, sent, received, dryrun, monlist, client, toclient, read>>

\* Mutant: every item is entered as a READ monitor.
TakeAnswerRead ==
  /\ pc = "answer"
  /\ Connection!Deliver
  /\ LET answer == sent[Len(received) + 1]
     IN  monlist' = Append(monlist, [id |-> answer.id, type |-> "MONITOR_READ"])
  /\ pc' = IF Len(monlist') < Len(Functions) THEN "register" ELSE "running"
  /\ UNCHANGED <<smbtad, dryrun, client, toclient, read>>

\* ... which returns the first frame to come in, whatever it is; element 0
\* of it becomes the id of a new item at the end of the list.  The thread
\* is started after the second one.
TakeAnswer ==
  /\ pc = "answer"
  /\ Connection!Deliver
  /\ LET answer == sent[Len(received) + 1]
     IN  monlist' = Append(monlist, [id |-> answer.id, type |-> Registering])
  /\ pc' = IF Len(monlist') < Len(Functions) THEN "register" ELSE "running"
  /\ UNCHANGED <<smbtad, dryrun, client, toclient, read>>

----------------------------------------------------------------------------
(* network_handle_data, monitor_list_change_results *)

\* send to the client: SIGPIPE ends the process when it has gone; while its
\* socket is full, send does not return.
SendClient(m) ==
  \/ /\ client = "gone"
     /\ pc' = "killed" /\ UNCHANGED toclient
  \/ /\ client # "gone"
     /\ unread < SocketRoom
     /\ toclient' = Append(toclient, m) /\ UNCHANGED pc

\* Mutant: only the last item of the list is looked at.
WithIdLast(id) == {k \in {Len(monlist)} : monlist[k].id = id}

\* monitor_list_get_by_id: the indices of the items with this id, in order.
WithId(id) == {k \in DOMAIN monlist : monlist[k].id = id}
First(ks) == CHOOSE k \in ks : \A j \in ks : k <= j

\* Mutant: a value of 0 is relayed as well.
ChangeResultsZero(m) ==
  \/ /\ m.value = NoValue
     /\ pc' = "crashed" /\ UNCHANGED toclient
  \/ /\ m.value # NoValue /\ WithId(m.id) = {}
     /\ pc' = "crashed" /\ UNCHANGED toclient
  \/ /\ m.value # NoValue /\ WithId(m.id) # {}
     /\ SendClient([tag |-> Tag[monlist[First(WithId(m.id))].type], value |-> m.value])

\* Mutant: the case of the WRITE monitor is missing.
ChangeResultsRead(m) ==
  \/ /\ m.value = NoValue
     /\ pc' = "crashed" /\ UNCHANGED toclient
  \/ /\ m.value = 0
     /\ UNCHANGED <<pc, toclient>>
  \/ /\ m.value \notin {NoValue, 0} /\ WithId(m.id) = {}
     /\ pc' = "crashed" /\ UNCHANGED toclient
  \/ /\ m.value \notin {NoValue, 0} /\ WithId(m.id) # {}
     /\ IF monlist[First(WithId(m.id))].type = "MONITOR_READ"
        THEN SendClient([tag |-> "R", value |-> m.value])
        ELSE UNCHANGED <<pc, toclient>>

\* Taking the news of one message.  A missing element 1 goes to atol as a
\* NULL pointer, an unknown id leaves entry NULL: both end the process.  A
\* value of 0 is dropped before entry is looked at.
ChangeResults(m) ==
  \/ /\ m.value = NoValue
     /\ pc' = "crashed" /\ UNCHANGED toclient
  \/ /\ m.value = 0
     /\ UNCHANGED <<pc, toclient>>
  \/ /\ m.value \notin {NoValue, 0} /\ WithId(m.id) = {}
     /\ pc' = "crashed" /\ UNCHANGED toclient
  \/ /\ m.value \notin {NoValue, 0} /\ WithId(m.id) # {}
     /\ SendClient([tag |-> Tag[monlist[First(WithId(m.id))].type], value |-> m.value])

\* One message: to take it and, if need be, to wait in send is one step,
\* for nothing else can see that it has been taken.
HandleData ==
  /\ pc = "running"
  /\ Connection!Deliver
  /\ ChangeResults(sent[Len(received) + 1])
  /\ UNCHANGED <<smbtad, dryrun, monlist, client, read>>

\* The dry run sends random values under random tags for ever.
DryRun ==
  /\ pc = "dryrun"
  /\ Len(toclient) < MaxMessages
  /\ \E tag \in {"R", "W"}, v \in Values : SendClient([tag |-> tag, value |-> v])
  /\ UNCHANGED <<smbtad, sent, received, dryrun, monlist, client, read>>

\* Once the connection gives no more, connect_monitor and the receive loop
\* turn for ever without effect.
Spin ==
  /\ pc \in {"answer", "running"}
  /\ link = "down"
  /\ pc' = "spinning"
  /\ UNCHANGED <<smbtad, sent, received, dryrun, monlist, client, toclient, read>>

\* SIGINT or SIGTERM: catch_signal cleans up and exits.
CatchSignal ==
  /\ pc \notin {"crashed", "killed", "exited"}
  /\ pc' = "exited"
  /\ UNCHANGED <<smbtad, sent, received, dryrun, monlist, client, toclient, read>>
----------------------------------------------------------------------------
Program == Accept \/ SendRegistration \/ TakeAnswer \/ HandleData \/ DryRun \/ Spin

Next ==
  \/ SmbtadRegister \/ SmbtadNews \/ SmbtadLost
  \/ ClientConnect \/ ClientRead \/ ClientGone
  \/ Program \/ CatchSignal

Spec == Init /\ [][Next]_vars

\* The program's threads keep running and smbtad, while it is there, answers
\* its queries; nobody has to push news, connect, read, leave or send a signal.
FairSpec == Spec /\ WF_vars(Program) /\ WF_vars(SmbtadRegister)
----------------------------------------------------------------------------
Ended == {"crashed", "killed", "exited"}

TypeOK ==
  /\ monitors \in [Ids -> MonitorFn \cup {"none"}]
  /\ queries \in Seq(MonitorFn) /\ Len(queries) <= 1
  /\ Connection!DeliveryTypeOK
  /\ pc \in {"accept", "register", "answer", "running", "spinning", "dryrun"} \cup Ended
  /\ dryrun \in BOOLEAN
  /\ monlist \in Seq([id : Ids, type : MonitorFn]) /\ Len(monlist) <= Len(Functions)
  /\ client \in {"absent", "connected", "gone"}
  /\ toclient \in Seq(ClientMessage)
  /\ read \in Nat
  /\ link \in {"up", "down"}
  /\ news \in Seq([at : Nat, line : ClientMessage])

\* The lines the client should see.
Lines == [p \in DOMAIN news |-> news[p].line]

(***************************************************************************)
(* "transmit the monitor function and the pattern to smbtad and receive    *)
(* the id" (monitor/network.c lines 51-54): the id an item of the list     *)
(* carries is the one smbtad gave to the registration of its function.     *)
(***************************************************************************)
RegistrationMatches ==
  \A k \in DOMAIN monlist : monitors[monlist[k].id] = monlist[k].type

(***************************************************************************)
(* Only one thing makes the relay dereference a missing element or a       *)
(* missing list item (monitor-list.c lines 89-101): the answer to the      *)
(* second registration, when news were taken for it (see                   *)
(* RegistrationMatches) and it comes to the relaying thread as news.  No   *)
(* other message does, whatever its id and value: so while smbtad pushes   *)
(* nothing between the registrations, nothing ends the relay but a signal, *)
(* the client or smbtad.                                                   *)
(***************************************************************************)
CrashesOnlyOnLateAnswer ==
  pc = "crashed" =>
    /\ received[2].value # NoValue
    /\ received[Len(received)].value = NoValue

\* End to end, the relay is again a connection: from what smbtad pushed to
\* what the client was sent.
Relay == INSTANCE FrameDelivery WITH
           Frame <- ClientMessage,
           sent <- Lines,
           received <- IF dryrun THEN <<>> ELSE toclient

(***************************************************************************)
(* The client is sent every value that is not 0 once, in the order smbtad  *)
(* pushed them, under the right letter, and nothing else: the two          *)
(* registrations, the list and the relaying thread together implement      *)
(* FrameDelivery between smbtad's monitors and the client.                 *)
(***************************************************************************)
RelaySpec == Relay!DeliverySpec

(***************************************************************************)
(* Every value that is not 0 is sent to a client that keeps making room in *)
(* its socket, unless the program ends or the connection to smbtad does.   *)
(* A client that stays connected and stops reading blocks the relay in     *)
(* send (monitor-list.c lines 105 and 110) for ever, and a lost connection *)
(* leaves it spinning (network.c lines 141-144).                           *)
(***************************************************************************)
EveryNewsRelayed ==
  ([]<>(unread < SocketRoom)) =>
    \A n \in 1 .. MaxMessages :
      Len(Lines) >= n ~> Len(toclient) >= n \/ pc \in Ended \/ link = "down"

=============================================================================
