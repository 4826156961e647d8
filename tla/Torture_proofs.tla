-------------------------- MODULE Torture_proofs --------------------------
(***************************************************************************)
(* Proofs about smbtatorture: its file name server and its load generator. *)
(*                                                                         *)
(* TortureSrv, for any names, limits of descriptors, number of clients and *)
(* of names in use.  The invariants are not inductive: a request adds an   *)
(* entry of the descriptor it is served on, which has to be a connection   *)
(* still, although the set of the round was made before; and accept is     *)
(* only called for a client that is there.  RoundInv says both of what is  *)
(* left of a round.                                                        *)
(*                                                                         *)
(* TortureRun, for any sizes, numbers of files and copies, file names,     *)
(* seconds to wait and block.  That a replay follows the record file is    *)
(* only kept when it is known where in the file the next item is: Past     *)
(* counts the items a run has come past, PosInv says that the file of a    *)
(* recording is that long and that a replay stands behind them (or at the  *)
(* end of what there is), TapeInv what is where in the file.  That the     *)
(* sizes fit needs how much was taken off for those drawn (SumInv).        *)
(***************************************************************************)
EXTENDS TortureSrv, TortureRun, FiniteSetTheorems, SequenceTheorems, TLAPS

RoundInv ==
  /\ ready \ {0} \subseteq conns
  /\ 0 \in ready => accepted < Len(peer)

IInv == TypeOK /\ RoundInv /\ ListIsOfTheClients /\ EndsOnly

\* What no action but those of the server changes.
ServerState == <<fdlimit, accepted, conns, ready, list, server, granted>>

----------------------------------------------------------------------------
LEMMA InitInv == Init => IInv
<1> SUFFICES ASSUME Init PROVE IInv
  OBVIOUS
<1>1. TypeOK
  BY TortureAssumption DEF Init, TypeOK
<1>2. RoundInv /\ ListIsOfTheClients /\ EndsOnly
  BY DEF Init, RoundInv, ListIsOfTheClients, EndsOnly
<1> QED BY <1>1, <1>2 DEF IInv

\* A client that goes from one state to another, and not back from a reset.
LEMMA BecomesKeepsIInv ==
  ASSUME IInv, NEW k \in DOMAIN peer, NEW to \in PeerState,
         peer[k] # "reset", peer' = [peer EXCEPT ![k] = to],
         UNCHANGED ServerState
  PROVE  IInv'
<1> USE DEF ServerState, list
<1>1. Len(peer') = Len(peer) /\ DOMAIN peer' = DOMAIN peer
  BY DEF IInv, TypeOK
<1>2. TypeOK'
  BY <1>1 DEF IInv, TypeOK
<1>3. RoundInv' /\ ListIsOfTheClients'
  BY <1>1 DEF IInv, RoundInv, ListIsOfTheClients
<1>4. EndsOnly'
  BY <1>1 DEF IInv, EndsOnly
<1> QED BY <1>2, <1>3, <1>4 DEF IInv

LEMMA ClientKeepsIInv == IInv /\ Client => IInv'
<1> SUFFICES ASSUME IInv, Client PROVE IInv'
  OBVIOUS
<1>1. CASE Connect
  <2>1. Len(peer') = Len(peer) + 1 /\ peer' \in Seq(PeerState)
    BY <1>1 DEF Connect, IInv, TypeOK, PeerState
  <2>2. \A k \in DOMAIN peer : k \in DOMAIN peer' /\ peer'[k] = peer[k]
    BY <1>1 DEF Connect, IInv, TypeOK
  <2>3. UNCHANGED ServerState
    BY <1>1 DEF Client, Connect, ServerState
  <2>4. TypeOK'
    <3>1. Len(peer') \in Nat /\ Len(peer') <= MaxClients
      BY <2>1, <1>1, TortureAssumption DEF Connect, IInv, TypeOK
    <3>2. 0 .. Len(peer) \subseteq 0 .. Len(peer')
      BY <2>1 DEF IInv, TypeOK
    <3> QED BY <2>1, <2>3, <3>1, <3>2 DEF IInv, TypeOK, ServerState, list
  <2>5. RoundInv' /\ ListIsOfTheClients'
    BY <2>1, <2>3 DEF IInv, TypeOK, RoundInv, ListIsOfTheClients, ServerState, list
  <2>6. EndsOnly'
    BY <2>2, <2>3 DEF IInv, EndsOnly, ServerState, list
  <2> QED BY <2>4, <2>5, <2>6 DEF IInv
<1>2. ASSUME NEW k \in DOMAIN peer, Ask(k) \/ ReadAnswer(k) \/ Leave(k)
      PROVE  IInv'
  <2>1. \E from, to \in PeerState : from # "reset" /\ Becomes(k, from, to)
    BY <1>2 DEF Ask, ReadAnswer, Leave, PeerState
  <2> QED BY <2>1, BecomesKeepsIInv DEF Becomes, Client, ServerState
<1> QED BY <1>1, <1>2 DEF Client

----------------------------------------------------------------------------
LEMMA SelectKeepsIInv == IInv /\ UNCHANGED fdlimit /\ Select => IInv'
<1> SUFFICES ASSUME IInv, UNCHANGED fdlimit, Select PROVE IInv'
  OBVIOUS
<1> USE DEF Select, clients, list
<1>1. ready' \subseteq {0} \cup conns /\ (0 \in ready' => accepted < Len(peer))
  BY DEF Readable, IInv, TypeOK
<1>2. TypeOK'
  BY <1>1 DEF IInv, TypeOK
<1>3. RoundInv' /\ ListIsOfTheClients' /\ EndsOnly'
  BY <1>1 DEF IInv, RoundInv, ListIsOfTheClients, EndsOnly
<1> QED BY <1>2, <1>3 DEF IInv

\* What is known of a descriptor when it is served.
LEMMA Served ==
  ASSUME IInv, NEW fd \in ready \ {0}, Serve(fd)
  PROVE  /\ fd \in conns /\ fd \in DOMAIN peer /\ fd \in 1 .. MaxClients
         /\ ready' \subseteq ready /\ fd \notin ready'
         /\ server = "running"
<1>1. fd \in conns /\ conns \subseteq 1 .. accepted /\ accepted \in 0 .. Len(peer)
  BY DEF IInv, TypeOK, RoundInv
<1>2. Len(peer) \in Nat /\ Len(peer) <= MaxClients /\ DOMAIN peer = 1 .. Len(peer)
  BY DEF IInv, TypeOK
<1>3. fd \in 1 .. Len(peer) /\ fd \in 1 .. MaxClients
  BY <1>1, <1>2, TortureAssumption
<1> QED BY <1>1, <1>2, <1>3 DEF Serve, Running

\* The server exits for a reason that EndsOnly names.
LEMMA ExitKeepsIInv ==
  ASSUME IInv, UNCHANGED fdlimit, Exit, ready' \subseteq ready,
         accepted + 2 > fdlimit \/ \E k \in DOMAIN peer : peer[k] = "reset"
  PROVE  IInv'
<1> USE DEF Exit, clients, list
<1>1. TypeOK'
  BY DEF IInv, TypeOK
<1>2. RoundInv' /\ ListIsOfTheClients' /\ EndsOnly'
  BY DEF IInv, RoundInv, ListIsOfTheClients, EndsOnly
<1> QED BY <1>1, <1>2 DEF IInv

LEMMA AcceptKeepsIInv == IInv /\ UNCHANGED fdlimit /\ Accept => IInv'
<1> SUFFICES ASSUME IInv, UNCHANGED fdlimit, Accept PROVE IInv'
  OBVIOUS
<1>0. /\ server = "running" /\ ready' = ready \ {0}
      /\ accepted \in Nat /\ fdlimit \in Nat
  BY TortureAssumption DEF Accept, Serve, Running, IInv, TypeOK
<1>1. CASE accepted = fdlimit /\ Exit
  BY <1>0, <1>1, ExitKeepsIInv
<1>2. CASE /\ accepted' = accepted + 1 /\ conns' = conns \cup {accepted + 1}
           /\ UNCHANGED <<clients, list, server>>
  <2> USE DEF clients, list
  <2>1. accepted < Len(peer)
    <3>1. 0 \in ready
      BY DEF Accept, Serve
    <3> QED BY <3>1 DEF IInv, RoundInv
  <2>2. TypeOK'
    BY <1>0, <1>2, <2>1 DEF IInv, TypeOK
  <2>3. RoundInv' /\ ListIsOfTheClients' /\ EndsOnly'
    BY <1>0, <1>2 DEF IInv, RoundInv, ListIsOfTheClients, EndsOnly
  <2> QED BY <2>2, <2>3 DEF IInv
<1> QED BY <1>1, <1>2 DEF Accept

LEMMA HandleResetKeepsIInv == IInv /\ UNCHANGED fdlimit /\ HandleReset => IInv'
<1> SUFFICES ASSUME IInv, UNCHANGED fdlimit,
                    NEW fd \in ready \ {0}, Serve(fd), peer[fd] = "reset", Exit
             PROVE  IInv'
  BY DEF HandleReset
<1> QED BY Served, ExitKeepsIInv

LEMMA HandleEndKeepsIInv == IInv /\ UNCHANGED fdlimit /\ HandleEnd => IInv'
<1> SUFFICES ASSUME IInv, UNCHANGED fdlimit, NEW fd \in ready \ {0}, Serve(fd),
                    fnamelist' = NotOf(fnamelist, fd),
                    fnamelist_end' = EndWithout(fd),
                    conns' = DeleteConn(fd),
                    granted' = NotOf(granted, fd),
                    UNCHANGED <<peer, accepted, server>>
             PROVE  IInv'
  BY DEF HandleEnd
<1>1. /\ ready' \subseteq ready /\ fd \notin ready' /\ server = "running"
  BY Served
<1>2. TypeOK'
  BY <1>1 DEF IInv, TypeOK, NotOf, EndWithout, DeleteConn
<1>3. RoundInv' /\ ListIsOfTheClients' /\ EndsOnly'
  BY <1>1 DEF IInv, RoundInv, ListIsOfTheClients, EndsOnly, NotOf, DeleteConn
<1> QED BY <1>2, <1>3 DEF IInv

----------------------------------------------------------------------------
\* A name that is free is added, or lost, without spoiling the list.
LEMMA AddFilenameKeepsList ==
  ASSUME IInv, NEW fd \in conns, fd \in 1 .. MaxClients, NEW n \in FreeNames,
         server = "running", AddFilename([filename |-> n, socket |-> fd]),
         granted' = granted \cup {[filename |-> n, socket |-> fd]},
         UNCHANGED conns
  PROVE  /\ fnamelist' \subseteq Entry /\ granted' \subseteq Entry
         /\ fnamelist_end' \in 1 .. MaxClients \cup {NoEntry, Detached}
         /\ server' \in {"running", "crashed"}
         /\ server' = "crashed" => fnamelist_end' = Detached
         /\ ListIsOfTheClients'
<1> DEFINE e == [filename |-> n, socket |-> fd]
<1>1. e \in Entry /\ e.filename = n /\ e.socket = fd /\ \A f \in fnamelist : f.filename # n
  BY DEF Entry, FreeNames
<1> HIDE DEF e
<1>2. fnamelist' \subseteq fnamelist \cup {e} /\ granted' = granted \cup {e}
  BY DEF AddFilename, e
<1>3. fnamelist' \subseteq Entry /\ granted' \subseteq Entry
  BY <1>1, <1>2 DEF IInv, TypeOK
<1>4. /\ fnamelist_end' \in 1 .. MaxClients \cup {NoEntry, Detached}
      /\ server' \in {"running", "crashed"}
      /\ server' = "crashed" => fnamelist_end' = Detached
  BY DEF AddFilename
<1>5. ListIsOfTheClients'
  <2>1. \A f, g \in fnamelist' : f.filename = g.filename => f = g
    BY <1>1, <1>2 DEF IInv, ListIsOfTheClients
  <2>2. fnamelist' \subseteq granted' /\ \A f \in fnamelist' : f.socket \in conns'
    BY <1>1, <1>2 DEF IInv, ListIsOfTheClients
  <2> QED BY <2>1, <2>2 DEF ListIsOfTheClients
<1> QED BY <1>3, <1>4, <1>5

LEMMA HandleRequestKeepsIInv == IInv /\ UNCHANGED fdlimit /\ HandleRequest => IInv'
<1> SUFFICES ASSUME IInv, UNCHANGED fdlimit, HandleRequest PROVE IInv'
  OBVIOUS
<1>0. PICK fd \in ready \ {0} :
        /\ Serve(fd)
        /\ peer[fd] \in {"asked", "asked_left"}
        /\ \/ /\ accepted + 2 > fdlimit
              /\ Exit
           \/ /\ server' = "searching"
              /\ UNCHANGED <<clients, accepted, conns, list>>
           \/ /\ \E n \in FreeNames :
                   /\ AddFilename([filename |-> n, socket |-> fd])
                   /\ granted' = granted \cup {[filename |-> n, socket |-> fd]}
              /\ peer' = [peer EXCEPT ![fd] = IF @ = "asked" THEN "answered" ELSE "left"]
              /\ UNCHANGED <<accepted, conns>>
  BY DEF HandleRequest
<1>1. /\ fd \in conns /\ fd \in DOMAIN peer /\ fd \in 1 .. MaxClients
      /\ ready' \subseteq ready /\ server = "running"
  BY <1>0, Served
<1>2. CASE accepted + 2 > fdlimit /\ Exit
  BY <1>1, <1>2, ExitKeepsIInv
<1>3. CASE server' = "searching" /\ UNCHANGED <<clients, accepted, conns, list>>
  <2>1. TypeOK'
    BY <1>1, <1>3 DEF IInv, TypeOK, clients, list
  <2>2. RoundInv' /\ ListIsOfTheClients' /\ EndsOnly'
    BY <1>1, <1>3 DEF IInv, RoundInv, ListIsOfTheClients, EndsOnly, clients, list
  <2> QED BY <2>1, <2>2 DEF IInv
<1>4. ASSUME NEW n \in FreeNames,
             AddFilename([filename |-> n, socket |-> fd]),
             granted' = granted \cup {[filename |-> n, socket |-> fd]},
             peer' = [peer EXCEPT ![fd] = IF @ = "asked" THEN "answered" ELSE "left"],
             UNCHANGED <<accepted, conns>>
      PROVE  IInv'
  <2>1. /\ fnamelist' \subseteq Entry /\ granted' \subseteq Entry
        /\ fnamelist_end' \in 1 .. MaxClients \cup {NoEntry, Detached}
        /\ server' \in {"running", "crashed"}
        /\ server' = "crashed" => fnamelist_end' = Detached
        /\ ListIsOfTheClients'
    BY <1>1, <1>4, AddFilenameKeepsList
  <2>2. peer' \in Seq(PeerState) /\ Len(peer') = Len(peer)
    BY <1>1, <1>4 DEF IInv, TypeOK, PeerState
  <2>3. TypeOK'
    BY <1>1, <1>4, <2>1, <2>2 DEF IInv, TypeOK
  <2>4. RoundInv' /\ EndsOnly'
    BY <1>1, <1>4, <2>1, <2>2 DEF IInv, RoundInv, EndsOnly
  <2> QED BY <2>1, <2>3, <2>4 DEF IInv
<1> QED BY <1>0, <1>2, <1>3, <1>4

----------------------------------------------------------------------------
LEMMA NextInv == IInv /\ [Next]_vars => IInv'
<1> SUFFICES ASSUME IInv, [Next]_vars PROVE IInv'
  OBVIOUS
<1>1. CASE Client
  BY <1>1, ClientKeepsIInv
<1>2. CASE Server
  BY <1>2, SelectKeepsIInv, AcceptKeepsIInv, HandleResetKeepsIInv, HandleEndKeepsIInv,
     HandleRequestKeepsIInv DEF Server
<1>3. CASE UNCHANGED vars
  <2> USE <1>3 DEF vars, clients, list
  <2>1. TypeOK'
    BY DEF IInv, TypeOK
  <2>2. RoundInv' /\ ListIsOfTheClients' /\ EndsOnly'
    BY DEF IInv, RoundInv, ListIsOfTheClients, EndsOnly
  <2> QED BY <2>1, <2>2 DEF IInv
<1> QED BY <1>1, <1>2, <1>3 DEF Next

LEMMA Invariant == Spec => []IInv
BY InitInv, NextInv, PTL DEF Spec

(***************************************************************************)
(* Every variable stays in its range; no descriptor is served that is not  *)
(* in the list of connections, and no accept is called in vain.            *)
(***************************************************************************)
THEOREM TypeCorrect == Spec => []TypeOK
BY Invariant, PTL DEF IInv

(***************************************************************************)
(* The names in the list belong to connected clients, each to one          *)
(* (add_filename, delete_all_filenames_of_sock, delete_conn).              *)
(***************************************************************************)
THEOREM NamesAreOfTheClients == Spec => []ListIsOfTheClients
BY Invariant, PTL DEF IInv

(***************************************************************************)
(* The server ends only for the three reasons of EndsOnly (handle_data,    *)
(* handle_network).                                                        *)
(***************************************************************************)
THEOREM EndsForAReason == Spec => []EndsOnly
BY Invariant, PTL DEF IInv

----------------------------------------------------------------------------
(* Names that two clients share *)

\* Names are of connected clients only.
GrantsInv == \A e \in granted : e.socket \in conns

\* While nobody has gone, the list has what was given, and its end.
SharedInv ==
  /\ GrantsInv
  /\ Gone = {} => /\ fnamelist = granted
                  /\ fnamelist # {} => \E e \in fnamelist : e.socket = fnamelist_end

LEMMA SharedRequest ==
  ASSUME IInv, SharedInv, HandleRequest
  PROVE  SharedInv'
<1>1. PICK fd \in ready \ {0} :
        /\ Serve(fd)
        /\ \/ UNCHANGED <<clients, accepted, conns, list>>
           \/ /\ \E n \in FreeNames :
                   /\ AddFilename([filename |-> n, socket |-> fd])
                   /\ granted' = granted \cup {[filename |-> n, socket |-> fd]}
              /\ UNCHANGED <<accepted, conns>>
  BY DEF HandleRequest, Exit
<1>2. fd \in conns
  BY <1>1, Served
<1>3. CASE UNCHANGED <<clients, accepted, conns, list>>
  BY <1>3 DEF SharedInv, GrantsInv, Gone, clients, list
<1>4. ASSUME NEW n \in FreeNames,
             AddFilename([filename |-> n, socket |-> fd]),
             granted' = granted \cup {[filename |-> n, socket |-> fd]},
             UNCHANGED <<accepted, conns>>
      PROVE  SharedInv'
  <2>1. PICK e : e = [filename |-> n, socket |-> fd]
    OBVIOUS
  <2>2. e.socket = fd /\ granted' = granted \cup {e} /\ AddFilename(e)
    BY <1>4, <2>1
  <2>3. GrantsInv'
    BY <1>2, <1>4, <2>2 DEF SharedInv, GrantsInv
  <2>4. ASSUME Gone = {}
        PROVE  fnamelist' = granted' /\ fnamelist_end' = e.socket
    <3>1. fnamelist = {} \/ fnamelist_end \notin {NoEntry, Detached}
      <4>1. \A d \in fnamelist : d.socket \in 1 .. MaxClients
        BY DEF IInv, TypeOK, Entry
      <4> QED BY <2>4, <4>1, TortureAssumption DEF SharedInv
    <3> QED BY <2>2, <2>4, <3>1 DEF AddFilename, SharedInv
  <2>5. Gone' = Gone
    BY <1>4 DEF Gone
  <2> QED BY <2>2, <2>3, <2>4, <2>5 DEF SharedInv
<1> QED BY <1>1, <1>3, <1>4

LEMMA SharedNext == IInv /\ SharedInv /\ [Next]_vars => SharedInv'
<1> SUFFICES ASSUME IInv, SharedInv, [Next]_vars PROVE SharedInv'
  OBVIOUS
<1>1. CASE HandleRequest
  BY <1>1, SharedRequest
<1>2. CASE HandleEnd
  <2>1. PICK fd \in ready \ {0} :
          /\ Serve(fd)
          /\ conns' = DeleteConn(fd) /\ granted' = NotOf(granted, fd) /\ accepted' = accepted
    BY <1>2 DEF HandleEnd
  <2>2. fd \in conns /\ conns \subseteq 1 .. accepted
    BY <2>1, Served DEF IInv, TypeOK
  <2>3. fd \in Gone'
    BY <2>1, <2>2 DEF Gone, DeleteConn
  <2>4. GrantsInv'
    BY <2>1 DEF SharedInv, GrantsInv, DeleteConn, NotOf
  <2> QED BY <2>3, <2>4 DEF SharedInv
<1>3. CASE Accept
  <2>1. /\ conns \subseteq conns' /\ UNCHANGED <<fnamelist, granted, fnamelist_end>>
    BY <1>3 DEF Accept, Exit, clients, list
  <2>2. Gone' = Gone
    <3>1. CASE UNCHANGED <<accepted, conns>>
      BY <3>1 DEF Gone
    <3>2. CASE accepted' = accepted + 1 /\ conns' = conns \cup {accepted + 1}
      <4>1. accepted \in Nat
        BY DEF IInv, TypeOK
      <4> QED BY <3>2, <4>1 DEF Gone
    <3> QED BY <1>3, <3>1, <3>2 DEF Accept, Exit
  <2> QED BY <2>1, <2>2 DEF SharedInv, GrantsInv
<1>4. CASE Client \/ Select \/ HandleReset \/ UNCHANGED vars
  <2>1. UNCHANGED <<accepted, conns, fnamelist, fnamelist_end, granted>>
    BY <1>4 DEF Client, Connect, Ask, ReadAnswer, Leave, Becomes, Select, HandleReset,
         Exit, clients, list, vars
  <2> QED BY <2>1 DEF SharedInv, GrantsInv, Gone
<1> QED BY <1>1, <1>2, <1>3, <1>4 DEF Next, Server

(***************************************************************************)
(* Two connected clients have the same name only after a third has gone,   *)
(* for any names, clients and limits (fnamelist_end, lines 124-156).       *)
(***************************************************************************)
THEOREM NamesAreSharedLate == Spec => []SharedOnlyAfterAnEnd
<1>1. Init => SharedInv
  BY DEF Init, SharedInv, GrantsInv
<1>2. IInv /\ SharedInv => SharedOnlyAfterAnEnd
  <2> SUFFICES ASSUME IInv, SharedInv PROVE SharedOnlyAfterAnEnd
    OBVIOUS
  <2>1. ASSUME NEW e \in granted, NEW f \in granted,
               e.filename = f.filename, e.socket # f.socket
        PROVE  Gone \ {e.socket, f.socket} # {}
    <3>1. Gone # {}
      BY <2>1 DEF IInv, ListIsOfTheClients, SharedInv
    <3>2. e.socket \notin Gone /\ f.socket \notin Gone
      BY DEF SharedInv, GrantsInv, Gone
    <3> QED BY <3>1, <3>2
  <2> QED BY <2>1 DEF SharedInv, SharedOnlyAfterAnEnd
<1> QED BY <1>1, <1>2, SharedNext, Invariant, PTL DEF Spec
----------------------------------------------------------------------------
(* The load generator *)

\* Where the program is, and what it has by then.
PlaceInv ==
  /\ pc = "sizes" => names = <<>> /\ trace = <<>>
  /\ pc = "files" => Len(sizes) = Number /\ trace = <<>>
  /\ pc \in {"copies", "wait", "done"} => Len(sizes) = Number /\ Len(names) = Number
  /\ pc = "wait" => trace # <<>>
  /\ pc = "done" => copy = Copies /\ Len(trace) = Copies
  /\ pc = "crashed" =>
       \/ Len(sizes) < Number /\ names = <<>> /\ trace = <<>>
       \/ Len(sizes) = Number /\ Len(names) < Number /\ trace = <<>> /\ Replay
  /\ pc = "failed" =>
       /\ Len(sizes) = Number
       /\ trace = <<>> \/ Len(names) = Number
  /\ Len(trace) <= Copies

\* The items a run has come past.
Past ==
  CASE pc = "sizes" -> 0
    [] pc = "files" -> Number + 1 + Len(names)
    [] pc \in {"copies", "done"} -> 2 * Number + 3 + 3 * Len(trace)
    [] pc = "wait" -> 2 * Number + 2 + 3 * Len(trace)
    [] OTHER -> IF Len(sizes) < Number THEN 0
                ELSE IF trace = <<>> THEN Number + 1 + Len(names)
                ELSE 2 * Number + 2 + 3 * Len(trace)

AtMost(p) == IF p <= Len(tape) + 1 THEN p ELSE Len(tape) + 1

\* The record file holds what was come past, and a replay is there, or at its end.
PosInv ==
  /\ ~ Replay => Len(tape) = Past /\ pos = 1 /\ copy = Copies
  /\ Replay => pos = AtMost(Past + 1)
  /\ Replay /\ pc \in {"sizes", "files"} => copy = 0
  /\ Replay /\ pc \in {"copies", "wait"} =>
       copy = IF 2 * Number + 2 <= Len(tape) THEN Copies ELSE 0
  /\ Replay /\ pc = "done" => 2 * Number + 2 <= Len(tape)
  /\ Replay /\ pc = "crashed" /\ Len(sizes) = Number /\ Len(names) < Number => Len(tape) <= 2 * Number

Is(p, label, values) ==
  p <= Len(tape) => tape[p].label = label /\ tape[p].value \in values

\* What is where in the record file.
TapeInv ==
  /\ Is(1, "number_of_files", {Number})
  /\ \A i \in 1 .. Number : /\ Is(i + 1, "file_size", 0 .. total)
                            /\ Is(Number + 1 + i, "Filename", FileNames)
  /\ Is(2 * Number + 2, "copy", {Copies})
  /\ Is(2 * Number + 3, "number", {Number})
  /\ \A k \in 1 .. Copies : /\ Is(OnTape(k, 1), "file", 1 .. Number)
                            /\ Is(OnTape(k, 2), "just_read", 0 .. 1)
                            /\ Is(OnTape(k, 3), "wait", Waits)
  /\ Len(tape) <= 2 * Number + 3 + 3 * Copies

\* A second to wait is still to come.
WaitInv == pc = "wait" /\ copy # 0 => trace[Len(trace)].wait = 0

PlayInv == RunTypeOK /\ PlaceInv /\ PosInv /\ TapeInv /\ WaitInv /\ CopiesAreOnTape

TapeItem == [label : Labels, value : Nat]

\* A replay that is at a place finds what is there, if it is there, and goes on.
LEMMA FoundIs ==
  ASSUME RunTypeOK, Replay, NEW e \in Nat, e > 0, NEW p, p = AtMost(e), NEW label, NEW values,
         Is(e, label, values)
  PROVE  /\ Found(p, label) <=> e <= Len(tape)
         /\ After(p, label) = AtMost(e + 1)
         /\ \A d : Loaded(p, label, d) = IF e <= Len(tape) THEN tape[e].value ELSE d
         /\ \A d \in values : Loaded(p, label, d) \in values
<1>1. Len(tape) \in Nat
  BY DEF RunTypeOK
<1>2. CASE e <= Len(tape)
  <2>1. p = e
    BY <1>1, <1>2 DEF AtMost
  <2>2. Found(p, label)
    BY <1>2, <2>1 DEF Found, Is
  <2>3. After(p, label) = AtMost(e + 1)
    BY <1>1, <1>2, <2>1, <2>2 DEF After, AtMost
  <2> QED BY <1>2, <2>1, <2>2, <2>3 DEF Loaded, Is
<1>3. CASE ~ (e <= Len(tape))
  <2>1. p = Len(tape) + 1
    BY <1>1, <1>3 DEF AtMost
  <2>2. ~ Found(p, label)
    BY <1>1, <2>1 DEF Found
  <2>3. After(p, label) = AtMost(e + 1)
    BY <1>1, <1>3, <2>1, <2>2 DEF After, AtMost
  <2> QED BY <1>3, <2>2, <2>3 DEF Loaded
<1> QED BY <1>2, <1>3

\* A run that is recorded looks for nothing.
LEMMA NothingIsFound ==
  ASSUME ~ Replay
  PROVE  \A p, label : /\ ~ Found(p, label) /\ After(p, label) = p
                       /\ \A d : Loaded(p, label, d) = d
BY DEF Found, After, Loaded

\* What is recorded is added at the end, and a replay leaves the file as it is.
LEMMA RecordedIs ==
  ASSUME RunTypeOK, NEW items \in Seq(TapeItem), tape' = Recorded(items)
  PROVE  /\ tape' \in Seq(TapeItem)
         /\ Replay => tape' = tape
         /\ ~ Replay => /\ Len(tape') = Len(tape) + Len(items)
                        /\ \A p \in 1 .. Len(tape) : tape'[p] = tape[p]
                        /\ \A i \in 1 .. Len(items) : tape'[Len(tape) + i] = items[i]
<1>1. tape \in Seq(TapeItem)
  BY DEF RunTypeOK, TapeItem
<1>2. CASE Replay
  BY <1>1, <1>2 DEF Recorded, Replay
<1>3. CASE ~ Replay
  <2>1. tape' = tape \o items
    BY <1>3 DEF Recorded, Replay, RunTypeOK
  <2> QED BY <1>1, <1>3, <2>1
<1> QED BY <1>2, <1>3

LEMMA OneItem ==
  ASSUME NEW label \in Labels, NEW value \in Nat, NEW items, items = <<Item(label, value)>>
  PROVE  /\ items \in Seq(TapeItem) /\ Len(items) = 1
         /\ items[1].label = label /\ items[1].value = value
BY DEF Item, TapeItem

LEMMA TwoItems ==
  ASSUME NEW label \in Labels, NEW value \in Nat, NEW label2 \in Labels, NEW value2 \in Nat,
         NEW items, items = <<Item(label, value), Item(label2, value2)>>
  PROVE  /\ items \in Seq(TapeItem) /\ Len(items) = 2
         /\ items[1].label = label /\ items[1].value = value
         /\ items[2].label = label2 /\ items[2].value = value2
BY DEF Item, TapeItem

LEMMA OnTapeIs ==
  /\ \A k \in Nat, part \in 0 .. 3 : OnTape(k, part) = 2 * Number + 3 * k + part
  /\ \A k \in 1 .. Copies, part \in 1 .. 3 :
       /\ OnTape(k, part) \in Nat /\ OnTape(k, part) > 2 * Number + 3 /\ OnTape(k, part) > 0
       /\ OnTape(k, part) <= 2 * Number + 3 + 3 * Copies
BY RunAssumption DEF OnTape

LEMMA RunInitInv == RunInit => PlayInv
<1> SUFFICES ASSUME RunInit PROVE PlayInv
  OBVIOUS
<1> USE RunAssumption DEF RunInit
<1>1. RunTypeOK
  BY DEF RunTypeOK
<1>2. PlaceInv /\ PosInv /\ WaitInv /\ CopiesAreOnTape
  BY DEF PlaceInv, PosInv, WaitInv, CopiesAreOnTape, Past, AtMost, Replay
<1>3. TapeInv
  <2>1. \A p \in Nat : p > 0 => ~ (p <= Len(tape))
    OBVIOUS
  <2>2. \A k \in 1 .. Copies : \A part \in 1 .. 3 : OnTape(k, part) \in Nat /\ OnTape(k, part) > 0
    BY OnTapeIs
  <2> QED BY <2>1, <2>2 DEF TapeInv, Is
<1> QED BY <1>1, <1>2, <1>3 DEF PlayInv

LEMMA DrawSizeKeeps == PlayInv /\ DrawSize => PlayInv'
<1> SUFFICES ASSUME PlayInv, DrawSize PROVE PlayInv'
  OBVIOUS
<1>0. /\ Number \in Nat \ {0} /\ Copies \in Nat \ {0} /\ total \in Nat /\ left \in 0 .. total
      /\ sizes \in Seq(0 .. total) /\ Len(sizes) \in Nat /\ Len(sizes) < Number /\ pc = "sizes"
  BY RunAssumption DEF PlayInv, RunTypeOK, DrawSize
<1>1. /\ mode' = mode /\ total' = total /\ names' = names /\ shares' = shares
      /\ refused' = refused /\ tape' = tape /\ pos' = pos /\ copy' = copy /\ trace' = trace
  BY DEF DrawSize
<1>2. \/ pc' = "crashed" /\ left' = left /\ sizes' = sizes
      \/ /\ pc' = pc /\ left' \in 0 .. total /\ sizes' \in Seq(0 .. total)
         /\ Len(sizes') = Len(sizes) + 1
  <2> DEFINE n == left - (Number - Len(sizes))
  <2>1. CASE n = 0 /\ pc' = "crashed" /\ UNCHANGED <<left, sizes>>
    BY <2>1
  <2>2. ASSUME NEW s \in 0 .. n - 1, sizes' = Append(sizes, s), left' = left - s, pc' = pc
        PROVE  left' \in 0 .. total /\ sizes' \in Seq(0 .. total) /\ Len(sizes') = Len(sizes) + 1
    <3>1. s \in 0 .. total /\ left - s \in 0 .. total
      BY <1>0, <2>2
    <3> QED BY <1>0, <2>2, <3>1
  <2> QED BY <2>1, <2>2 DEF DrawSize
<1>3. RunTypeOK'
  <2>1. /\ total' \in Totals /\ left' \in 0 .. total' /\ pc' \in {"sizes", "crashed"}
        /\ sizes' \in Seq(0 .. total') /\ Len(sizes') <= Number
    BY <1>0, <1>1, <1>2 DEF PlayInv, RunTypeOK
  <2>2. /\ mode' \in {"record", "replay"} /\ names' \in Seq(FileNames) /\ Len(names') <= Number
        /\ shares' \in [1 .. 2 -> [FileNames -> {Absent} \cup 0 .. total']]
        /\ refused' \subseteq (1 .. 2) \X FileNames
    BY <1>1 DEF PlayInv, RunTypeOK
  <2>3. /\ tape' \in Seq([label : Labels, value : Nat]) /\ pos' \in 1 .. Len(tape') + 1
        /\ copy' \in {0, Copies} /\ trace' \in Seq(Done)
    BY <1>1 DEF PlayInv, RunTypeOK
  <2> QED BY <2>1, <2>2, <2>3 DEF RunTypeOK
<1>4. PlaceInv'
  BY <1>0, <1>1, <1>2 DEF PlayInv, PlaceInv, Replay
<1>5. PosInv'
  <2>1. Past' = Past
    BY <1>0, <1>2 DEF Past
  <2> QED BY <1>0, <1>1, <1>2, <2>1 DEF PlayInv, PosInv, AtMost, Replay
<1>6. TapeInv' /\ WaitInv' /\ CopiesAreOnTape'
  BY <1>0, <1>1, <1>2 DEF PlayInv, TapeInv, Is, WaitInv, CopiesAreOnTape, Agree
<1> QED BY <1>3, <1>4, <1>5, <1>6 DEF PlayInv

LEMMA FinishKeeps == PlayInv /\ Finish => PlayInv'
<1> SUFFICES ASSUME PlayInv, Finish PROVE PlayInv'
  OBVIOUS
<1>1. /\ UNCHANGED <<mode, files, tape, pos, copy, trace>> /\ pc = "copies" /\ pc' = "done"
      /\ copy # 0 /\ Len(trace) = copy
  BY DEF Finish
<1>2. RunTypeOK'
  BY <1>1 DEF PlayInv, RunTypeOK, files
<1>3. PlaceInv'
  BY <1>1 DEF PlayInv, PlaceInv, Replay, files, RunTypeOK
<1>4. PosInv'
  <2>1. Past' = Past
    BY <1>1 DEF Past, files
  <2> QED BY <1>1, <2>1, RunAssumption DEF PlayInv, PosInv, AtMost, Replay, files
<1>5. TapeInv' /\ WaitInv' /\ CopiesAreOnTape'
  BY <1>1 DEF PlayInv, TapeInv, Is, WaitInv, CopiesAreOnTape, Agree, files
<1> QED BY <1>2, <1>3, <1>4, <1>5 DEF PlayInv

LEMMA UpTo ==
  ASSUME NEW m \in Nat
  PROVE  Cardinality(1 .. m) = m
<1>1. 1 \in Int /\ m \in Int /\ (1 > m => m = 0) /\ m - 1 + 1 = m
  OBVIOUS
<1> QED BY <1>1, FS_Interval

\* What a replay finds of the sizes is all that is left of them in the file.
LEMMA SizesFound ==
  ASSUME RunTypeOK, TapeInv, Replay, pos = 1, NEW first, first = After(pos, "number_of_files")
  PROVE  /\ \A i \in 1 .. Number :
              /\ Found(first + i - 1, "file_size") <=> i + 1 <= Len(tape)
              /\ \A d : Loaded(first + i - 1, "file_size", d) =
                          IF i + 1 <= Len(tape) THEN tape[i + 1].value ELSE d
         /\ first + Cardinality({i \in 1 .. Number : Found(first + i - 1, "file_size")})
              = AtMost(Number + 2)
<1>0. Number \in Nat \ {0} /\ Len(tape) \in Nat
  BY RunAssumption DEF RunTypeOK
<1>1. first = IF 1 <= Len(tape) THEN 2 ELSE 1
  <2>1. Is(1, "number_of_files", {Number})
    BY DEF TapeInv
  <2> QED BY <2>1 DEF After, Found, Is
<1>2. ASSUME NEW i \in 1 .. Number
      PROVE  Found(first + i - 1, "file_size") <=> i + 1 <= Len(tape)
  <2>1. Is(i + 1, "file_size", 0 .. total)
    BY DEF TapeInv
  <2>2. CASE 1 <= Len(tape)
    <3>1. first + i - 1 = i + 1
      BY <1>1, <2>2
    <3> QED BY <2>1, <3>1 DEF Found, Is
  <2>3. CASE ~ (1 <= Len(tape))
    <3>1. ~ (first + i - 1 <= Len(tape)) /\ ~ (i + 1 <= Len(tape))
      BY <1>0, <1>1, <2>3
    <3> QED BY <3>1 DEF Found
  <2> QED BY <2>2, <2>3
<1>3. ASSUME NEW i \in 1 .. Number
      PROVE  \A d : Loaded(first + i - 1, "file_size", d) =
                      IF i + 1 <= Len(tape) THEN tape[i + 1].value ELSE d
  <2>1. i + 1 <= Len(tape) => first + i - 1 = i + 1
    BY <1>0, <1>1
  <2> QED BY <1>2, <2>1 DEF Loaded
<1>4. PICK S : S = {i \in 1 .. Number : Found(first + i - 1, "file_size")}
  OBVIOUS
<1>5. S = {i \in 1 .. Number : i + 1 <= Len(tape)}
  BY <1>2, <1>4
<1>6. CASE Len(tape) <= 1
  <2>1. S = {}
    BY <1>0, <1>5, <1>6
  <2>2. Cardinality(S) = 0
    BY <2>1, FS_EmptySet
  <2>3. AtMost(Number + 2) = first
    BY <1>0, <1>1, <1>6 DEF AtMost
  <2>4. first + Cardinality(S) = AtMost(Number + 2)
    BY <1>1, <2>2, <2>3
  <2> QED BY <1>2, <1>3, <1>4, <2>4, Zenon
<1>7. CASE Len(tape) > 1
  <2>1. PICK m \in Nat : m = IF Number <= Len(tape) - 1 THEN Number ELSE Len(tape) - 1
    BY <1>0, <1>7
  <2>2. S = 1 .. m
    BY <1>0, <1>5, <2>1
  <2>3. Cardinality(1 .. m) = m
    BY UpTo
  <2>4. first = 2 /\ AtMost(Number + 2) = 2 + m
    BY <1>0, <1>1, <1>7, <2>1 DEF AtMost
  <2>5. first + Cardinality(S) = AtMost(Number + 2)
    BY <2>1, <2>2, <2>3, <2>4
  <2> QED BY <1>2, <1>3, <1>4, <2>5, Zenon
<1> QED BY <1>0, <1>6, <1>7

\* The sizes and the record file after they are stored.
LEMMA StoreSizesIs ==
  ASSUME PlayInv, StoreSizes, NEW sized, sized = [sizes EXCEPT ![Number] = left]
  PROVE  /\ sizes' \in Seq(0 .. total) /\ Len(sizes') = Number /\ tape' \in Seq(TapeItem)
         /\ \A i \in 1 .. Number : sized[i] \in 0 .. total
         /\ Replay =>
              /\ tape' = tape /\ pos' = AtMost(Number + 2)
              /\ \A i \in 1 .. Number :
                   sizes'[i] = IF i + 1 <= Len(tape) THEN tape[i + 1].value ELSE sized[i]
         /\ ~ Replay =>
              /\ Len(tape') = Number + 1 /\ pos' = 1 /\ copy = Copies
              /\ tape'[1].label = "number_of_files" /\ tape'[1].value = Number
              /\ \A i \in 1 .. Number :
                   /\ tape'[i + 1].label = "file_size" /\ tape'[i + 1].value = sized[i]
                   /\ sizes'[i] = sized[i]
<1>0. /\ Number \in Nat \ {0} /\ Copies \in Nat \ {0} /\ total \in Nat /\ left \in 0 .. total
      /\ sizes \in Seq(0 .. total) /\ Len(sizes) = Number /\ pc = "sizes"
      /\ RunTypeOK /\ TapeInv /\ tape \in Seq(TapeItem) /\ Len(tape) \in Nat
      /\ names = <<>> /\ trace = <<>> /\ Past = 0
  BY RunAssumption DEF PlayInv, PlaceInv, RunTypeOK, StoreSizes, TapeItem, Past
<1>2. PICK first : first = After(pos, "number_of_files")
  OBVIOUS
<1>3. PICK items : items = <<Item("number_of_files", Number)>> \o
                             [i \in 1 .. Number |-> Item("file_size", sized[i])]
  OBVIOUS
<1>4. /\ sizes' = [i \in 1 .. Number |-> Loaded(first + i - 1, "file_size", sized[i])]
      /\ tape' = Recorded(items)
      /\ pos' = first + Cardinality({i \in 1 .. Number : Found(first + i - 1, "file_size")})
      /\ pc' = "files"
      /\ mode' = mode /\ total' = total /\ left' = left /\ names' = names /\ shares' = shares
      /\ refused' = refused /\ copy' = copy /\ trace' = trace
  BY <1>2, <1>3 DEF StoreSizes
<1>5. \A i \in 1 .. Number : sized[i] \in 0 .. total
  BY <1>0
<1>6. /\ items \in Seq(TapeItem) /\ Len(items) = Number + 1
      /\ items[1].label = "number_of_files" /\ items[1].value = Number
      /\ \A i \in 1 .. Number : items[i + 1].label = "file_size" /\ items[i + 1].value = sized[i]
  <2>1. PICK a : a = <<Item("number_of_files", Number)>>
    OBVIOUS
  <2>2. PICK z : z = [i \in 1 .. Number |-> Item("file_size", sized[i])]
    OBVIOUS
  <2>3. /\ a \in Seq(TapeItem) /\ Len(a) = 1
        /\ a[1].label = "number_of_files" /\ a[1].value = Number
    <3>1. "number_of_files" \in Labels /\ Number \in Nat
      BY <1>0 DEF Labels
    <3> QED BY <2>1, <3>1, OneItem
  <2>4. \A i \in 1 .. Number :
          /\ Item("file_size", sized[i]) \in TapeItem
          /\ Item("file_size", sized[i]).label = "file_size"
          /\ Item("file_size", sized[i]).value = sized[i]
    BY <1>0, <1>5 DEF Item, TapeItem, Labels
  <2>5. z \in Seq(TapeItem) /\ Len(z) = Number
    <3>1. z \in [1 .. Number -> TapeItem]
      BY <2>2, <2>4, Zenon
    <3> QED BY <1>0, <3>1
  <2>6. items = a \o z
    BY <1>3, <2>1, <2>2
  <2>7. items \in Seq(TapeItem) /\ Len(items) = Number + 1 /\ items[1] = a[1]
        /\ \A i \in 1 .. Number : items[i + 1] = z[i]
    <3>1. /\ items \in Seq(TapeItem) /\ Len(items) = Len(a) + Len(z)
          /\ \A i \in 1 .. Len(a) + Len(z) :
               items[i] = IF i <= Len(a) THEN a[i] ELSE z[i - Len(a)]
      BY <2>3, <2>5, <2>6, ConcatProperties, Zenon
    <3>2. Len(a) + Len(z) = Number + 1 /\ Number \in Nat /\ Number > 0
      BY <1>0, <2>3, <2>5
    <3>3. \A i \in 1 .. Number + 1 : items[i] = IF i <= 1 THEN a[i] ELSE z[i - 1]
      BY <2>3, <3>1, <3>2
    <3>4. items[1] = a[1]
      BY <3>2, <3>3
    <3>5. ASSUME NEW i \in 1 .. Number PROVE items[i + 1] = z[i]
      <4>1. i + 1 \in 1 .. Number + 1 /\ ~ (i + 1 <= 1) /\ (i + 1) - 1 = i
        BY <3>2
      <4> QED BY <3>3, <4>1
    <3> QED BY <3>1, <3>2, <3>4, <3>5
  <2>8. \A i \in 1 .. Number : z[i] = Item("file_size", sized[i])
    BY <2>2
  <2> QED BY <2>3, <2>4, <2>7, <2>8
<1>7. CASE Replay
  <2>1. tape' = tape /\ pos = 1
    <3>1. pos = AtMost(1)
      BY <1>0, <1>7 DEF PlayInv, PosInv
    <3> QED BY <1>0, <1>4, <1>6, <1>7, <3>1, RecordedIs DEF AtMost
  <2>2. /\ pos' = AtMost(Number + 2)
        /\ \A i \in 1 .. Number :
             sizes'[i] = IF i + 1 <= Len(tape) THEN tape[i + 1].value ELSE sized[i]
    <3>1. \A i \in 1 .. Number : \A d :
            Loaded(first + i - 1, "file_size", d) = IF i + 1 <= Len(tape) THEN tape[i + 1].value ELSE d
      BY <1>0, <1>2, <1>7, <2>1, SizesFound
    <3>2. first + Cardinality({i \in 1 .. Number : Found(first + i - 1, "file_size")}) = AtMost(Number + 2)
      BY <1>0, <1>2, <1>7, <2>1, SizesFound
    <3>3. \A i \in 1 .. Number : sizes'[i] = Loaded(first + i - 1, "file_size", sized[i])
      BY <1>4, Zenon
    <3>4. pos' = AtMost(Number + 2)
      BY <1>4, <3>2
    <3> QED BY <3>1, <3>3, <3>4
  <2>3. \A i \in 1 .. Number : sizes'[i] \in 0 .. total
    BY <1>5, <2>2, <1>0 DEF TapeInv, Is
  <2>4. sizes' \in Seq(0 .. total) /\ Len(sizes') = Number
    BY <1>0, <1>4, <2>3
  <2> QED BY <1>0, <1>5, <1>7, <2>1, <2>2, <2>4
<1>8. CASE ~ Replay
  <2>1. Len(tape) = 0 /\ pos = 1 /\ copy = Copies
    BY <1>0, <1>8 DEF PlayInv, PosInv
  <2>2. /\ Len(tape') = Number + 1 /\ tape' \in Seq(TapeItem)
        /\ \A i \in 1 .. Number + 1 : tape'[i] = items[i]
    <3>1. /\ Len(tape') = Len(tape) + Len(items) /\ tape' \in Seq(TapeItem)
          /\ \A i \in 1 .. Len(items) : tape'[Len(tape) + i] = items[i]
      BY <1>0, <1>4, <1>6, <1>8, RecordedIs
    <3>2. \A i \in 1 .. Len(items) : tape'[i] = items[i]
      BY <1>6, <2>1, <3>1
    <3> QED BY <1>0, <1>6, <2>1, <3>1, <3>2
  <2>3. pos' = 1 /\ \A i \in 1 .. Number : sizes'[i] = sized[i]
    <3>1. {i \in 1 .. Number : Found(first + i - 1, "file_size")} = {}
      BY <1>8, NothingIsFound
    <3>2. first = 1
      BY <1>2, <1>8, <2>1, NothingIsFound
    <3>3. Cardinality({i \in 1 .. Number : Found(first + i - 1, "file_size")}) = 0
      BY <3>1, FS_EmptySet
    <3>4. pos' = 1
      BY <1>4, <3>2, <3>3
    <3>5. \A i \in 1 .. Number : sizes'[i] = Loaded(first + i - 1, "file_size", sized[i])
      BY <1>4
    <3>6. \A i \in 1 .. Number : Loaded(first + i - 1, "file_size", sized[i]) = sized[i]
      BY <1>8, NothingIsFound
    <3> QED BY <3>4, <3>5, <3>6
  <2>4. sizes' \in Seq(0 .. total) /\ Len(sizes') = Number
    BY <1>0, <1>4, <1>5, <2>3
  <2>5. tape'[1] = items[1] /\ \A i \in 1 .. Number : tape'[i + 1] = items[i + 1]
    <3>1. 1 \in 1 .. Number + 1 /\ \A i \in 1 .. Number : i + 1 \in 1 .. Number + 1
      BY <1>0
    <3> QED BY <2>2, <3>1, Zenon
  <2>6. /\ tape'[1].label = "number_of_files" /\ tape'[1].value = Number
        /\ \A i \in 1 .. Number :
             tape'[i + 1].label = "file_size" /\ tape'[i + 1].value = sized[i]
    BY <1>6, <2>5, Zenon
  <2>7. Len(tape') = Number + 1 /\ tape' \in Seq(TapeItem)
    BY <2>2
  <2>8. pos' = 1 /\ copy = Copies
    BY <2>1, <2>3
  <2> QED BY <1>5, <1>8, <2>3, <2>4, <2>6, <2>7, <2>8, Zenon
<1> QED BY <1>7, <1>8

LEMMA StoreSizesKeeps == PlayInv /\ StoreSizes => PlayInv'
<1> SUFFICES ASSUME PlayInv, StoreSizes PROVE PlayInv'
  OBVIOUS
<1>0. /\ Number \in Nat \ {0} /\ Copies \in Nat \ {0} /\ total \in Nat
      /\ pc = "sizes" /\ RunTypeOK /\ TapeInv /\ tape \in Seq(TapeItem) /\ Len(tape) \in Nat
      /\ names = <<>> /\ trace = <<>> /\ Past = 0
  BY RunAssumption DEF PlayInv, PlaceInv, RunTypeOK, StoreSizes, TapeItem, Past
<1>1. PICK sized : sized = [sizes EXCEPT ![Number] = left]
  OBVIOUS
<1>2. /\ pc' = "files"
      /\ mode' = mode /\ total' = total /\ left' = left /\ names' = names /\ shares' = shares
      /\ refused' = refused /\ copy' = copy /\ trace' = trace
  BY DEF StoreSizes
<1>3. /\ sizes' \in Seq(0 .. total) /\ Len(sizes') = Number /\ tape' \in Seq(TapeItem)
      /\ \A i \in 1 .. Number : sized[i] \in 0 .. total
      /\ Replay => tape' = tape /\ pos' = AtMost(Number + 2)
      /\ ~ Replay =>
           /\ Len(tape') = Number + 1 /\ pos' = 1 /\ copy = Copies
           /\ tape'[1].label = "number_of_files" /\ tape'[1].value = Number
           /\ \A i \in 1 .. Number : tape'[i + 1].label = "file_size" /\ tape'[i + 1].value = sized[i]
  BY <1>1, StoreSizesIs
<1>4. Past' = Number + 1
  BY <1>0, <1>2, <1>3 DEF Past
<1>5. PlaceInv'
  BY <1>0, <1>2, <1>3 DEF PlaceInv
<1>6. PosInv'
  <2>1. CASE Replay
    BY <1>0, <1>2, <1>3, <1>4, <2>1 DEF PlayInv, PosInv, AtMost, Replay
  <2>2. CASE ~ Replay
    BY <1>0, <1>2, <1>3, <1>4, <2>2 DEF PosInv, Replay
  <2> QED BY <2>1, <2>2
<1>7. RunTypeOK'
  <2>1. pos' \in 1 .. Len(tape') + 1
    <3>1. Len(tape') \in Nat /\ Number + 2 \in Nat /\ Number + 2 > 0
      BY <1>0, <1>3
    <3> QED BY <1>3, <3>1 DEF AtMost
  <2>2. sizes' \in Seq(0 .. total) /\ Len(sizes') <= Number /\ tape' \in Seq(TapeItem)
    BY <1>0, <1>3
  <2> QED BY <1>0, <1>2, <2>1, <2>2 DEF RunTypeOK, TapeItem
<1>8. TapeInv'
  <2>1. CASE Replay
    BY <1>0, <1>2, <1>3, <2>1 DEF TapeInv, Is
  <2>2. CASE ~ Replay
    <3>1. \A i \in 1 .. Number : tape'[i + 1].label = "file_size" /\ tape'[i + 1].value \in 0 .. total
      BY <1>3, <2>2
    <3>2. tape'[1].label = "number_of_files" /\ tape'[1].value = Number
      BY <1>3, <2>2
    <3>3. ASSUME NEW k \in 1 .. Copies, NEW part \in 1 .. 3
          PROVE  ~ (OnTape(k, part) <= Len(tape'))
      <4>1. OnTape(k, part) \in Nat /\ OnTape(k, part) > 2 * Number + 3
        BY OnTapeIs
      <4> QED BY <1>0, <1>3, <2>2, <4>1
    <3>4. \A i \in 1 .. Number : ~ (Number + 1 + i <= Len(tape'))
      BY <1>0, <1>3, <2>2
    <3>5. ~ (2 * Number + 2 <= Len(tape')) /\ ~ (2 * Number + 3 <= Len(tape'))
          /\ Len(tape') <= 2 * Number + 3 + 3 * Copies
      BY <1>0, <1>3, <2>2
    <3> QED BY <1>2, <3>1, <3>3, <3>4, <3>5, <3>2 DEF TapeInv, Is
  <2> QED BY <2>1, <2>2
<1>9. WaitInv' /\ CopiesAreOnTape'
  BY <1>0, <1>2 DEF WaitInv, CopiesAreOnTape
<1> QED BY <1>5, <1>6, <1>7, <1>8, <1>9 DEF PlayInv

\* A block can be missing at the end of what is written.
LEMMA WrittenIs ==
  ASSUME NEW n \in Nat, NEW bytes \in 0 .. n
  PROVE  Written(bytes) \in 0 .. n /\ HasSize(Written(bytes), bytes)
<1>1. Block \in Nat /\ Block > 0
  BY RunAssumption
<1>2. CASE bytes > 0 /\ bytes % Block = 0
  <2>1. Written(bytes) = bytes - Block
    BY <1>2 DEF Written
  <2>2. bytes >= Block
    <3>1. SUFFICES ASSUME bytes < Block PROVE FALSE
      BY <1>1
    <3>2. bytes % Block = bytes
      BY <1>1, <3>1
    <3> QED BY <1>2, <3>2
  <2> QED BY <1>1, <1>2, <2>1, <2>2 DEF HasSize
<1>3. CASE ~ (bytes > 0 /\ bytes % Block = 0)
  BY <1>3 DEF Written, HasSize
<1> QED BY <1>2, <1>3

\* What one turn of the loop of generate_files does.
LEMMA MakeFileIs ==
  ASSUME PlayInv, NEW name \in FileNames, pc = "files", Len(names) < Number, MakeFile(name)
  PROVE  /\ names' = Append(names, name) /\ names' \in Seq(FileNames)
         /\ Len(names') = Len(names) + 1 /\ refused' \subseteq (1 .. 2) \X FileNames
         /\ shares' \in [1 .. 2 -> [FileNames -> {Absent} \cup 0 .. total]]
         /\ pc' \in {"files", "failed"}
         /\ \A n \in FileNames, s \in 1 .. 2 : n # name =>
              /\ <<s, n>> \in refused' <=> <<s, n>> \in refused
              /\ shares'[s][n] = shares[s][n]
         /\ \A s \in 1 .. 2 : <<s, name>> \notin refused' =>
              HasSize(shares'[s][name], sizes[Len(names) + 1])
         /\ pc' = "files" => (<<1, name>> \in refused' <=> <<2, name>> \in refused')
<1>1. /\ names \in Seq(FileNames) /\ Len(names) \in Nat /\ Number \in Nat /\ total \in Nat
      /\ sizes \in Seq(0 .. total) /\ Len(sizes) = Number /\ refused \subseteq (1 .. 2) \X FileNames
      /\ shares \in [1 .. 2 -> [FileNames -> {Absent} \cup 0 .. total]]
  BY RunAssumption DEF PlayInv, RunTypeOK, PlaceInv
<1>2. PICK bytes \in 0 .. total : bytes = sizes[Len(names) + 1]
  BY <1>1
<1>3. PICK written \in 0 .. total : written = Written(bytes) /\ HasSize(written, bytes)
  BY <1>1, WrittenIs
<1>4. PICK open \in SUBSET (1 .. 2) :
        /\ shares' = [s \in 1 .. 2 |->
             IF s \notin open THEN shares[s]
             ELSE [shares[s] EXCEPT ![name] = IF 1 \in open THEN written ELSE 0]]
        /\ refused' = {r \in refused : r[2] # name} \cup
             {<<s, name>> : s \in {t \in 1 .. 2 : 1 \notin open \/ t \notin open}}
        /\ pc' = IF 2 \in open THEN pc ELSE "failed"
  BY <1>2, <1>3 DEF MakeFile
<1>5. names' = Append(names, name) /\ names' \in Seq(FileNames) /\ Len(names') = Len(names) + 1
  BY <1>1 DEF MakeFile
<1>6. pc' \in {"files", "failed"}
  BY <1>4
<1>7. \A s \in 1 .. 2 : <<s, name>> \in refused' <=> 1 \notin open \/ s \notin open
  BY <1>4
<1>8. refused' \subseteq (1 .. 2) \X FileNames
  BY <1>1, <1>4
<1>9. \A n \in FileNames, s \in 1 .. 2 : n # name => (<<s, n>> \in refused' <=> <<s, n>> \in refused)
  BY <1>1, <1>4
<1>10. ASSUME NEW s \in 1 .. 2
       PROVE  /\ shares'[s] \in [FileNames -> {Absent} \cup 0 .. total]
              /\ \A n \in FileNames : n # name => shares'[s][n] = shares[s][n]
              /\ s \in open /\ 1 \in open => shares'[s][name] = written
  <2>1. shares[s] \in [FileNames -> {Absent} \cup 0 .. total] /\ 0 \in 0 .. total
    BY <1>1
  <2>2. CASE s \notin open
    <3>1. shares'[s] = shares[s]
      BY <1>4, <2>2
    <3> QED BY <2>1, <2>2, <3>1
  <2>3. CASE s \in open
    <3>1. PICK b \in 0 .. total : b = IF 1 \in open THEN written ELSE 0
      BY <1>3, <2>1
    <3>2. shares'[s] = [shares[s] EXCEPT ![name] = b]
      BY <1>4, <2>3, <3>1
    <3> QED BY <2>1, <3>1, <3>2
  <2> QED BY <2>2, <2>3
<1>11. shares' \in [1 .. 2 -> [FileNames -> {Absent} \cup 0 .. total]]
  <2>1. DOMAIN shares' = 1 .. 2 /\ shares' = [s \in 1 .. 2 |-> shares'[s]]
    BY <1>4
  <2> QED BY <1>10, <2>1
<1>12. \A s \in 1 .. 2 : <<s, name>> \notin refused' =>
         HasSize(shares'[s][name], sizes[Len(names) + 1])
  BY <1>2, <1>3, <1>7, <1>10
<1>13. pc' = "files" => 2 \in open
  BY <1>4
<1> QED BY <1>5, <1>6, <1>7, <1>8, <1>9, <1>10, <1>11, <1>12, <1>13

\* The name that a replay finds is one of the file names.
LEMMA NameFound ==
  ASSUME PlayInv, pc = "files", Len(names) < Number, Replay,
         NEW e \in Nat, e = Number + 2 + Len(names)
  PROVE  /\ Found(pos, "Filename") <=> e <= Len(tape)
         /\ After(pos, "Filename") = AtMost(e + 1)
         /\ \A d \in FileNames : Loaded(pos, "Filename", d) \in FileNames
<1>1. /\ RunTypeOK /\ TapeInv /\ Number \in Nat \ {0} /\ Len(names) \in Nat
      /\ Past = Number + 1 + Len(names)
  <2>1. RunTypeOK /\ PlaceInv /\ TapeInv
    BY DEF PlayInv
  <2>2. Number \in Nat \ {0}
    BY RunAssumption
  <2>3. Len(names) \in Nat
    BY <2>1 DEF RunTypeOK
  <2>4. Past = Number + 1 + Len(names)
    BY DEF Past
  <2> QED BY <2>1, <2>2, <2>3, <2>4
<1>2. Is(e, "Filename", FileNames)
  <2>1. PICK i \in 1 .. Number : i = Len(names) + 1
    BY <1>1
  <2>2. Is(Number + 1 + i, "Filename", FileNames)
    BY <1>1, <2>1 DEF TapeInv
  <2>3. Number + 1 + i = e
    BY <1>1, <2>1
  <2> QED BY <2>2, <2>3
<1>3. pos = AtMost(e) /\ e > 0
  BY <1>1 DEF PlayInv, PosInv
<1> QED BY <1>1, <1>2, <1>3, FoundIs

LEMMA GenerateFileKeeps == PlayInv /\ GenerateFile => PlayInv'
<1> SUFFICES ASSUME PlayInv, GenerateFile PROVE PlayInv'
  OBVIOUS
<1>0. /\ Number \in Nat \ {0} /\ Copies \in Nat \ {0} /\ total \in Nat
      /\ Len(sizes) = Number /\ pc = "files" /\ Len(names) < Number /\ Len(names) \in Nat
      /\ RunTypeOK /\ TapeInv /\ tape \in Seq(TapeItem) /\ Len(tape) \in Nat
      /\ trace = <<>> /\ Past = Number + 1 + Len(names)
  BY RunAssumption DEF PlayInv, PlaceInv, RunTypeOK, GenerateFile, TapeItem, Past
<1>1. UNCHANGED <<mode, total, left, sizes, copy, trace>>
  BY DEF GenerateFile
<1>2. PICK e \in Nat : e = Number + 2 + Len(names)
  BY <1>0
<1>3. Replay =>
        /\ Found(pos, "Filename") <=> e <= Len(tape)
        /\ After(pos, "Filename") = AtMost(e + 1)
        /\ \A d \in FileNames : Loaded(pos, "Filename", d) \in FileNames
  BY <1>0, <1>2, NameFound
<1>4. CASE Replay /\ ~ Found(pos, "Filename") /\ pc' = "crashed"
           /\ UNCHANGED <<names, shares, refused, tape, pos>>
  <2>1. Past' = Past
    BY <1>0, <1>1, <1>4 DEF Past
  <2>2. Len(tape) <= 2 * Number
    BY <1>0, <1>2, <1>3, <1>4
  <2>3. RunTypeOK'
    BY <1>0, <1>1, <1>4 DEF RunTypeOK
  <2>4. PlaceInv'
    BY <1>0, <1>1, <1>4 DEF PlaceInv, Replay
  <2>5. PosInv'
    BY <1>0, <1>1, <1>4, <2>1, <2>2 DEF PlayInv, PosInv, AtMost, Replay
  <2>6. TapeInv' /\ WaitInv' /\ CopiesAreOnTape'
    BY <1>0, <1>1, <1>4 DEF TapeInv, Is, WaitInv, CopiesAreOnTape
  <2> QED BY <2>3, <2>4, <2>5, <2>6 DEF PlayInv
<1>5. ASSUME NEW drawn \in FileNames, MakeFile(Loaded(pos, "Filename", drawn))
      PROVE  PlayInv'
  <2>1. PICK name \in FileNames : name = Loaded(pos, "Filename", drawn)
    BY <1>3, NothingIsFound
  <2>2. /\ names' \in Seq(FileNames) /\ Len(names') = Len(names) + 1
        /\ refused' \subseteq (1 .. 2) \X FileNames
        /\ shares' \in [1 .. 2 -> [FileNames -> {Absent} \cup 0 .. total]]
        /\ pc' \in {"files", "failed"}
    BY <1>0, <1>5, <2>1, MakeFileIs
  <2>3. PICK items : items = <<Item("Filename", name)>>
    OBVIOUS
  <2>4. /\ items \in Seq(TapeItem) /\ Len(items) = 1
        /\ items[1].label = "Filename" /\ items[1].value = name
    <3>1. "Filename" \in Labels /\ name \in Nat
      BY <2>1, RunAssumption DEF Labels
    <3> QED BY <2>3, <3>1, OneItem
  <2>5. tape' = Recorded(items) /\ pos' = After(pos, "Filename")
    BY <1>5, <2>1, <2>3 DEF MakeFile
  <2>6. /\ tape' \in Seq(TapeItem)
        /\ Replay => tape' = tape
        /\ ~ Replay => /\ Len(tape') = Len(tape) + 1
                       /\ \A p \in 1 .. Len(tape) : tape'[p] = tape[p]
                       /\ tape'[Len(tape) + 1] = items[1]
    <3>1. 1 \in 1 .. Len(items)
      BY <2>4
    <3> QED BY <1>0, <2>4, <2>5, <3>1, RecordedIs
  <2>7. Past' = Number + 2 + Len(names)
    <3>1. ~ (Len(sizes') < Number) /\ trace' = <<>>
      BY <1>0, <1>1
    <3>2. Past' = Number + 1 + Len(names')
      <4>1. CASE pc' = "files"
        BY <4>1, Zenon DEF Past
      <4>2. CASE pc' = "failed"
        BY <3>1, <4>2 DEF Past
      <4> QED BY <2>2, <4>1, <4>2
    <3> QED BY <1>0, <2>2, <3>2
  <2>8. PosInv'
    <3>1. CASE Replay
      <4>1. pos' = AtMost(e + 1) /\ tape' = tape
        BY <1>3, <2>5, <2>6, <3>1
      <4> QED BY <1>0, <1>1, <1>2, <2>2, <2>7, <3>1, <4>1 DEF PlayInv, PosInv, AtMost, Replay
    <3>2. CASE ~ Replay
      <4>1. pos' = pos
        BY <2>5, <3>2, NothingIsFound
      <4>2. Len(tape) = Past /\ pos = 1 /\ copy = Copies
        BY <3>2 DEF PlayInv, PosInv
      <4>3. Len(tape') = Past'
        BY <1>0, <2>6, <2>7, <3>2, <4>2
      <4> QED BY <1>1, <3>2, <4>1, <4>2, <4>3 DEF PosInv, Replay
    <3> QED BY <3>1, <3>2
  <2>9. RunTypeOK'
    <3>1. pos' \in 1 .. Len(tape') + 1
      <4>1. Len(tape') \in Nat
        BY <2>6
      <4>2. Past' + 1 \in Nat /\ Past' + 1 > 0
        BY <1>0, <2>7
      <4> QED BY <1>1, <2>8, <4>1, <4>2 DEF PosInv, AtMost, Replay
    <3>2. Len(names') <= Number
      BY <1>0, <2>2
    <3> QED BY <1>0, <1>1, <2>2, <2>6, <3>1, <3>2 DEF RunTypeOK, TapeItem
  <2>10. PlaceInv'
    BY <1>0, <1>1, <2>2 DEF PlaceInv
  <2>11. TapeInv'
    <3>1. CASE Replay
      BY <1>0, <1>1, <2>6, <3>1 DEF TapeInv, Is
    <3>2. CASE ~ Replay
      <4>1. Len(tape) = Number + 1 + Len(names)
        BY <1>0, <3>2 DEF PlayInv, PosInv
      <4>2. tape'[1] = tape[1] /\ Len(tape) >= 1
        BY <1>0, <2>6, <3>2, <4>1
      <4>3. \A i \in 1 .. Number : i + 1 <= Len(tape) /\ tape'[i + 1] = tape[i + 1]
        BY <1>0, <2>6, <3>2, <4>1
      <4>4. ASSUME NEW i \in 1 .. Number, Number + 1 + i <= Len(tape')
            PROVE  tape'[Number + 1 + i].label = "Filename" /\ tape'[Number + 1 + i].value \in FileNames
        <5>1. CASE i = Len(names) + 1
          <6>1. Number + 1 + i = Len(tape) + 1
            BY <1>0, <4>1, <5>1
          <6> QED BY <2>1, <2>4, <2>6, <3>2, <6>1
        <5>2. CASE i # Len(names) + 1
          <6>1. PICK q \in 1 .. Len(tape) : q = Number + 1 + i
            BY <1>0, <2>6, <3>2, <4>1, <4>4, <5>2
          <6>2. Is(q, "Filename", FileNames)
            BY <1>0, <6>1 DEF TapeInv
          <6>3. tape'[q] = tape[q]
            BY <2>6, <3>2, <6>1
          <6> QED BY <1>0, <6>1, <6>2, <6>3 DEF Is
        <5> QED BY <5>1, <5>2
      <4>5. ~ (2 * Number + 2 <= Len(tape')) /\ ~ (2 * Number + 3 <= Len(tape'))
            /\ Len(tape') <= 2 * Number + 3 + 3 * Copies
        BY <1>0, <2>6, <3>2, <4>1
      <4>6. ASSUME NEW k \in 1 .. Copies, NEW part \in 1 .. 3
            PROVE  ~ (OnTape(k, part) <= Len(tape'))
        <5>1. OnTape(k, part) \in Nat /\ OnTape(k, part) > 2 * Number + 3
          BY OnTapeIs
        <5> QED BY <1>0, <2>6, <3>2, <4>1, <5>1
      <4>7. Is(1, "number_of_files", {Number})'
        BY <1>0, <4>2 DEF TapeInv, Is
      <4>8. \A i \in 1 .. Number : Is(i + 1, "file_size", 0 .. total)'
        BY <1>0, <1>1, <4>3 DEF TapeInv, Is
      <4>9. \A i \in 1 .. Number : Is(Number + 1 + i, "Filename", FileNames)'
        BY <4>4 DEF Is
      <4>10. \A k \in 1 .. Copies : /\ Is(OnTape(k, 1), "file", 1 .. Number)'
                                     /\ Is(OnTape(k, 2), "just_read", 0 .. 1)'
                                     /\ Is(OnTape(k, 3), "wait", Waits)'
        BY <4>6 DEF Is
      <4> QED BY <4>5, <4>7, <4>8, <4>9, <4>10 DEF TapeInv, Is
    <3> QED BY <3>1, <3>2
  <2>12. WaitInv' /\ CopiesAreOnTape'
    BY <1>0, <1>1, <2>2 DEF WaitInv, CopiesAreOnTape
  <2> QED BY <2>8, <2>9, <2>10, <2>11, <2>12 DEF PlayInv
<1> QED BY <1>4, <1>5 DEF GenerateFile

\* No item is two parts of copies.
LEMMA OnTapeOnce ==
  \A k \in Nat, l \in Nat, a \in 1 .. 3, b \in 1 .. 3 : OnTape(k, a) = OnTape(l, b) => k = l /\ a = b
<1> SUFFICES ASSUME NEW k \in Nat, NEW l \in Nat, NEW a \in 1 .. 3, NEW b \in 1 .. 3,
                    OnTape(k, a) = OnTape(l, b)
             PROVE  k = l /\ a = b
  OBVIOUS
<1>1. OnTape(k, a) = 2 * Number + 3 * k + a /\ OnTape(l, b) = 2 * Number + 3 * l + b
  BY OnTapeIs
<1>2. PICK n \in Nat : n = 2 * Number
  BY RunAssumption
<1>3. n + 3 * k + a = n + 3 * l + b
  BY <1>1, <1>2
<1> QED BY <1>3

\* The file grows by items of the copies.
LEMMA LaterItems ==
  ASSUME RunTypeOK, TapeInv, tape' \in Seq(TapeItem), Len(tape) >= 2 * Number + 1,
         Len(tape) <= Len(tape'), Len(tape') <= 2 * Number + 3 + 3 * Copies, total' = total,
         \A p \in 1 .. Len(tape) : tape'[p] = tape[p],
         \A p \in Nat : Len(tape) < p /\ p <= Len(tape') =>
           /\ p = 2 * Number + 2 => tape'[p].label = "copy" /\ tape'[p].value = Copies
           /\ p = 2 * Number + 3 => tape'[p].label = "number" /\ tape'[p].value = Number
           /\ \A k \in 1 .. Copies :
                /\ p = OnTape(k, 1) => tape'[p].label = "file" /\ tape'[p].value \in 1 .. Number
                /\ p = OnTape(k, 2) => tape'[p].label = "just_read" /\ tape'[p].value \in 0 .. 1
                /\ p = OnTape(k, 3) => tape'[p].label = "wait" /\ tape'[p].value \in Waits
  PROVE  TapeInv'
<1>0. /\ Len(tape) \in Nat /\ Len(tape') \in Nat /\ Number \in Nat \ {0} /\ Copies \in Nat
  <2>1. tape \in Seq(TapeItem)
    BY Zenon DEF RunTypeOK, TapeItem
  <2>2. \A items \in Seq(TapeItem) : Len(items) \in Nat
    OBVIOUS
  <2>3. Len(tape) \in Nat /\ Len(tape') \in Nat
    BY <2>1, <2>2, Zenon
  <2>4. Number \in Nat \ {0} /\ Copies \in Nat
    BY RunAssumption
  <2> QED BY <2>3, <2>4
<1>1. \A p \in Nat : p > 0 /\ p <= Len(tape) => p \in 1 .. Len(tape) /\ tape'[p] = tape[p]
  BY <1>0
<1>2. Is(1, "number_of_files", {Number})'
  BY <1>0, <1>1 DEF TapeInv, Is
<1>3. ASSUME NEW i \in 1 .. Number
      PROVE  /\ Is(i + 1, "file_size", 0 .. total)'
             /\ Is(Number + 1 + i, "Filename", FileNames)'
  <2>1. PICK q \in Nat : q = i + 1 /\ q > 0 /\ q <= Len(tape)
    BY <1>0
  <2>2. PICK r \in Nat : r = Number + 1 + i /\ r > 0 /\ r <= Len(tape)
    BY <1>0
  <2>3. Is(q, "file_size", 0 .. total) /\ Is(r, "Filename", FileNames)
    BY <2>1, <2>2 DEF TapeInv
  <2> QED BY <1>1, <2>1, <2>2, <2>3 DEF Is
<1>4. Is(2 * Number + 2, "copy", {Copies})'
  <2>1. PICK q \in Nat : q = 2 * Number + 2 /\ q > 0
    BY <1>0
  <2>2. Is(q, "copy", {Copies})
    BY <2>1 DEF TapeInv
  <2>3. CASE q <= Len(tape)
    BY <1>1, <2>1, <2>2, <2>3 DEF Is
  <2>4. CASE ~ (q <= Len(tape))
    BY <1>0, <2>1, <2>4 DEF Is
  <2> QED BY <2>3, <2>4
<1>5. Is(2 * Number + 3, "number", {Number})'
  <2>1. PICK q \in Nat : q = 2 * Number + 3 /\ q > 0
    BY <1>0
  <2>2. Is(q, "number", {Number})
    BY <2>1 DEF TapeInv
  <2>3. CASE q <= Len(tape)
    BY <1>1, <2>1, <2>2, <2>3 DEF Is
  <2>4. CASE ~ (q <= Len(tape))
    BY <1>0, <2>1, <2>4 DEF Is
  <2> QED BY <2>3, <2>4
<1>6. ASSUME NEW k \in 1 .. Copies
      PROVE  /\ Is(OnTape(k, 1), "file", 1 .. Number)'
             /\ Is(OnTape(k, 2), "just_read", 0 .. 1)'
             /\ Is(OnTape(k, 3), "wait", Waits)'
  <2>1. \A part \in 1 .. 3 : OnTape(k, part) \in Nat /\ OnTape(k, part) > 0
    BY OnTapeIs
  <2>2. PICK p1 \in Nat, p2 \in Nat, p3 \in Nat :
          /\ p1 = OnTape(k, 1) /\ p2 = OnTape(k, 2) /\ p3 = OnTape(k, 3)
          /\ p1 > 0 /\ p2 > 0 /\ p3 > 0
    BY <2>1
  <2>3. Is(p1, "file", 1 .. Number) /\ Is(p2, "just_read", 0 .. 1) /\ Is(p3, "wait", Waits)
    BY <2>2 DEF TapeInv
  <2>4. Is(p1, "file", 1 .. Number)'
    <3>1. CASE p1 <= Len(tape)
      BY <1>1, <2>2, <2>3, <3>1 DEF Is
    <3>2. CASE ~ (p1 <= Len(tape))
      <4>1. Len(tape) < p1
        BY <1>0, <2>2, <3>2
      <4> QED BY <2>2, <4>1 DEF Is
    <3> QED BY <3>1, <3>2
  <2>5. Is(p2, "just_read", 0 .. 1)'
    <3>1. CASE p2 <= Len(tape)
      BY <1>1, <2>2, <2>3, <3>1 DEF Is
    <3>2. CASE ~ (p2 <= Len(tape))
      <4>1. Len(tape) < p2
        BY <1>0, <2>2, <3>2
      <4> QED BY <2>2, <4>1 DEF Is
    <3> QED BY <3>1, <3>2
  <2>6. Is(p3, "wait", Waits)'
    <3>1. CASE p3 <= Len(tape)
      BY <1>1, <2>2, <2>3, <3>1 DEF Is
    <3>2. CASE ~ (p3 <= Len(tape))
      <4>1. Len(tape) < p3
        BY <1>0, <2>2, <3>2
      <4> QED BY <2>2, <4>1 DEF Is
    <3> QED BY <3>1, <3>2
  <2>7. OnTape(k, 1)' = p1 /\ OnTape(k, 2)' = p2 /\ OnTape(k, 3)' = p3
    BY <2>2 DEF OnTape
  <2> QED BY <2>2, <2>4, <2>5, <2>6, <2>7 DEF Is
<1> QED BY <1>2, <1>3, <1>4, <1>5, <1>6 DEF TapeInv

LEMMA StartCopiesKeeps == PlayInv /\ StartCopies => PlayInv'
<1> SUFFICES ASSUME PlayInv, StartCopies PROVE PlayInv'
  OBVIOUS
<1>0. /\ Number \in Nat \ {0} /\ Copies \in Nat \ {0}
      /\ Len(sizes) = Number /\ pc = "files" /\ Len(names) = Number
      /\ RunTypeOK /\ TapeInv /\ tape \in Seq(TapeItem) /\ Len(tape) \in Nat
      /\ trace = <<>> /\ Past = 2 * Number + 1
  BY RunAssumption DEF PlayInv, PlaceInv, RunTypeOK, StartCopies, TapeItem, Past
<1>1. UNCHANGED <<mode, total, left, sizes, names, shares, refused, trace>> /\ pc' = "copies"
  BY DEF StartCopies, files
<1>2. PICK items : items = <<Item("copy", copy), Item("number", Number)>>
  OBVIOUS
<1>3. /\ copy' = Loaded(pos, "copy", copy) /\ tape' = Recorded(items)
      /\ pos' = After(After(pos, "copy"), "number")
  BY <1>2 DEF StartCopies
<1>4. /\ items \in Seq(TapeItem) /\ Len(items) = 2
      /\ items[1].label = "copy" /\ items[1].value = copy
      /\ items[2].label = "number" /\ items[2].value = Number
  <2>1. "copy" \in Labels /\ "number" \in Labels /\ copy \in Nat /\ Number \in Nat
    BY <1>0 DEF Labels, RunTypeOK
  <2> QED BY <1>2, <2>1, TwoItems
<1>5. /\ tape' \in Seq(TapeItem)
      /\ Replay => tape' = tape
      /\ ~ Replay => /\ Len(tape') = Len(tape) + 2
                     /\ \A p \in 1 .. Len(tape) : tape'[p] = tape[p]
                     /\ tape'[Len(tape) + 1] = items[1]
                     /\ tape'[Len(tape) + 2] = items[2]
  <2>1. 1 \in 1 .. Len(items) /\ 2 \in 1 .. Len(items)
    BY <1>4
  <2> QED BY <1>0, <1>3, <1>4, <2>1, RecordedIs
<1>6. Past' = 2 * Number + 3
  BY <1>0, <1>1 DEF Past
<1>7. CASE Replay
  <2>1. PICK e \in Nat : e = 2 * Number + 2 /\ e > 0
    BY <1>0
  <2>2. Is(e, "copy", {Copies}) /\ Is(e + 1, "number", {Number})
    <3>1. e + 1 = 2 * Number + 3
      BY <1>0, <2>1
    <3> QED BY <1>0, <2>1, <3>1 DEF TapeInv
  <2>3. pos = AtMost(e) /\ copy = 0
    BY <1>0, <1>7, <2>1 DEF PlayInv, PosInv
  <2>4. /\ After(pos, "copy") = AtMost(e + 1)
        /\ copy' = IF e <= Len(tape) THEN tape[e].value ELSE copy
    BY <1>0, <1>3, <1>7, <2>1, <2>2, <2>3, FoundIs
  <2>5. copy' = IF e <= Len(tape) THEN Copies ELSE 0
    BY <2>2, <2>3, <2>4 DEF Is
  <2>6. pos' = AtMost(e + 1 + 1)
    BY <1>0, <1>3, <1>7, <2>1, <2>2, <2>4, FoundIs
  <2>7. pos' \in 1 .. Len(tape) + 1
    BY <1>0, <2>1, <2>6 DEF AtMost
  <2>8. RunTypeOK'
    BY <1>0, <1>1, <1>5, <1>7, <2>5, <2>7 DEF RunTypeOK
  <2>9. PlaceInv'
    BY <1>0, <1>1 DEF PlaceInv
  <2>10. PosInv'
    BY <1>0, <1>1, <1>5, <1>6, <1>7, <2>1, <2>5, <2>6 DEF PosInv, AtMost, Replay
  <2>11. TapeInv' /\ WaitInv' /\ CopiesAreOnTape'
    BY <1>0, <1>1, <1>5, <1>7 DEF TapeInv, Is, WaitInv, CopiesAreOnTape
  <2> QED BY <2>8, <2>9, <2>10, <2>11 DEF PlayInv
<1>8. CASE ~ Replay
  <2>1. Len(tape) = 2 * Number + 1 /\ pos = 1 /\ copy = Copies
    BY <1>0, <1>8 DEF PlayInv, PosInv
  <2>2. pos' = 1 /\ copy' = copy
    BY <1>3, <1>8, <2>1, NothingIsFound
  <2>3. Len(tape') = 2 * Number + 3
    BY <1>0, <1>5, <1>8, <2>1
  <2>4. RunTypeOK'
    BY <1>0, <1>1, <1>5, <2>2, <2>3 DEF RunTypeOK, TapeItem
  <2>5. PlaceInv'
    BY <1>0, <1>1 DEF PlaceInv
  <2>6. PosInv'
    BY <1>1, <1>6, <1>8, <2>1, <2>2, <2>3 DEF PosInv, Replay
  <2>7. TapeInv'
    <3>1. Len(tape) >= 2 * Number + 1 /\ Len(tape) <= Len(tape')
          /\ Len(tape') <= 2 * Number + 3 + 3 * Copies
      BY <1>0, <2>1, <2>3
    <3>2. ASSUME NEW p \in Nat, Len(tape) < p, p <= Len(tape')
          PROVE  /\ p = 2 * Number + 2 => tape'[p].label = "copy" /\ tape'[p].value = Copies
                 /\ p = 2 * Number + 3 => tape'[p].label = "number" /\ tape'[p].value = Number
                 /\ \A k \in 1 .. Copies, part \in 1 .. 3 : p # OnTape(k, part)
      <4>1. \/ p = Len(tape) + 1 /\ p = 2 * Number + 2 /\ p # 2 * Number + 3
            \/ p = Len(tape) + 2 /\ p = 2 * Number + 3 /\ p # 2 * Number + 2
        BY <1>0, <2>1, <2>3, <3>2
      <4>2. ASSUME NEW k \in 1 .. Copies, NEW part \in 1 .. 3 PROVE p # OnTape(k, part)
        <5>1. OnTape(k, part) \in Nat /\ OnTape(k, part) > 2 * Number + 3
          BY OnTapeIs
        <5> QED BY <1>0, <4>1, <5>1
      <4>3. CASE p = Len(tape) + 1 /\ p = 2 * Number + 2 /\ p # 2 * Number + 3
        BY <1>4, <1>5, <1>8, <2>1, <4>2, <4>3
      <4>4. CASE p = Len(tape) + 2 /\ p = 2 * Number + 3 /\ p # 2 * Number + 2
        BY <1>4, <1>5, <1>8, <2>1, <4>2, <4>4
      <4> QED BY <4>1, <4>3, <4>4
    <3>3. \A p \in 1 .. Len(tape) : tape'[p] = tape[p]
      BY <1>5, <1>8
    <3>4. 1 \in 1 .. 3 /\ 2 \in 1 .. 3 /\ 3 \in 1 .. 3
      OBVIOUS
    <3> QED BY <1>0, <1>1, <1>5, <3>1, <3>2, <3>3, <3>4, LaterItems
  <2>8. WaitInv' /\ CopiesAreOnTape'
    BY <1>0, <1>1 DEF WaitInv, CopiesAreOnTape
  <2> QED BY <2>4, <2>5, <2>6, <2>7, <2>8 DEF PlayInv
<1> QED BY <1>7, <1>8

\* Where the parts of the copy that comes next are, or were.
LEMMA PartsAre ==
  ASSUME RunTypeOK, TapeInv, Len(trace) <= Copies
  PROVE  /\ Is(2 * Number + 4 + 3 * Len(trace), "file", 1 .. Number)
         /\ Is(2 * Number + 4 + 3 * Len(trace) + 1, "just_read", 0 .. 1)
         /\ Len(trace) > 0 => Is(2 * Number + 3 + 3 * Len(trace), "wait", Waits)
         /\ Len(trace) = Copies => Len(tape) < 2 * Number + 4 + 3 * Len(trace)
<1>0. /\ Number \in Nat /\ Copies \in Nat /\ Len(tape) \in Nat /\ Len(trace) \in Nat
      /\ Len(tape) <= 2 * Number + 3 + 3 * Copies
  BY RunAssumption DEF RunTypeOK, TapeInv
<1>1. PICK e \in Nat : e = 2 * Number + 4 + 3 * Len(trace)
  BY <1>0
<1>2. Is(e, "file", 1 .. Number) /\ Is(e + 1, "just_read", 0 .. 1)
  <2>1. CASE Len(trace) = Copies
    <3>1. ~ (e <= Len(tape)) /\ ~ (e + 1 <= Len(tape))
      BY <1>0, <1>1, <2>1
    <3> QED BY <3>1 DEF Is
  <2>2. CASE Len(trace) < Copies
    <3>1. PICK k \in 1 .. Copies : k = Len(trace) + 1
      BY <1>0, <2>2
    <3>2. OnTape(k, 1) = e /\ OnTape(k, 2) = e + 1
      BY <1>0, <1>1, <3>1, OnTapeIs
    <3>3. Is(OnTape(k, 1), "file", 1 .. Number) /\ Is(OnTape(k, 2), "just_read", 0 .. 1)
      BY DEF TapeInv
    <3> QED BY <3>2, <3>3
  <2> QED BY <1>0, <2>1, <2>2
<1>3. ASSUME Len(trace) > 0 PROVE Is(2 * Number + 3 + 3 * Len(trace), "wait", Waits)
  <2>1. PICK k \in 1 .. Copies : k = Len(trace)
    BY <1>0, <1>3
  <2>2. OnTape(k, 3) = 2 * Number + 3 + 3 * Len(trace)
    BY <1>0, <2>1, OnTapeIs
  <2>3. Is(OnTape(k, 3), "wait", Waits)
    BY DEF TapeInv
  <2> QED BY <2>2, <2>3
<1>4. Len(trace) = Copies => Len(tape) < 2 * Number + 4 + 3 * Len(trace)
  BY <1>0
<1> QED BY <1>1, <1>2, <1>3, <1>4

\* The files on the shares keep being files, whichever is copied.
LEMMA CopiedIs ==
  ASSUME RunTypeOK, NEW name \in FileNames, NEW from \in 1 .. 2, NEW read
  PROVE  /\ Copied(name, from, read) \in [1 .. 2 -> [FileNames -> {Absent} \cup 0 .. total]]
         /\ \A s \in 1 .. 2, n \in FileNames :
              \E origin \in 1 .. 2 : Copied(name, from, read)[s][n] = shares[origin][n]
<1>1. /\ shares[from][name] \in {Absent} \cup 0 .. total /\ 3 - from \in 1 .. 2
      /\ shares \in [1 .. 2 -> [FileNames -> {Absent} \cup 0 .. total]]
  BY DEF RunTypeOK
<1>2. CASE read = 1
  BY <1>1, <1>2 DEF Copied
<1>3. CASE read # 1
  <2>1. Copied(name, from, read) = [shares EXCEPT ![3 - from][name] = shares[from][name]]
    BY <1>3 DEF Copied
  <2> QED BY <1>1, <2>1
<1> QED BY <1>2, <1>3

\* What is read and done in one copy, apart from where that is in the file.
LEMMA CopyIs ==
  ASSUME PlayInv, Copy
  PROVE  \E file \in 1 .. Number, read \in 0 .. 1 :
           /\ Replay => /\ pos' = AtMost(2 * Number + 6 + 3 * Len(trace))
                        /\ 2 * Number + 4 + 3 * Len(trace) <= Len(tape) =>
                             file = tape[2 * Number + 4 + 3 * Len(trace)].value
                        /\ 2 * Number + 5 + 3 * Len(trace) <= Len(tape) =>
                             read = tape[2 * Number + 5 + 3 * Len(trace)].value
           /\ ~ Replay => pos' = pos
           /\ tape' = Recorded(<<Item("file", file), Item("just_read", read)>>)
           /\ trace' = IF Len(trace) = Copies THEN trace
                       ELSE Append(trace, [file |-> file, read |-> read, wait |-> 0])
           /\ pc' \in {"wait", "failed"}
           /\ shares' \in [1 .. 2 -> [FileNames -> {Absent} \cup 0 .. total]]
           /\ \A s \in 1 .. 2, n \in FileNames : \E origin \in 1 .. 2 : shares'[s][n] = shares[origin][n]
<1>0. /\ RunTypeOK /\ TapeInv /\ Number \in Nat \ {0} /\ Len(trace) \in Nat /\ Len(tape) \in Nat
      /\ Len(trace) <= Copies /\ Len(names) = Number /\ names \in Seq(FileNames)
      /\ Past = 2 * Number + 3 + 3 * Len(trace)
  <2>1. pc = "copies"
    BY DEF Copy
  <2> QED BY <2>1, RunAssumption DEF PlayInv, PlaceInv, RunTypeOK, Past
<1>1. PICK drawn \in 1 .. Number, from \in 1 .. 2, just \in 0 .. 1 : \E file, p, read, name :
        /\ file = Loaded(pos, "file", drawn) /\ p = After(pos, "file")
        /\ read = Loaded(p, "just_read", just) /\ name = names[file]
        /\ tape' = Recorded(<<Item("file", file), Item("just_read", read)>>)
        /\ pos' = After(p, "just_read")
        /\ trace' = IF Len(trace) = Copies THEN trace
                    ELSE Append(trace, [file |-> file, read |-> read, wait |-> 0])
        /\ \/ pc' = "failed" /\ shares' = shares
           \/ pc' = "wait" /\ shares' = Copied(name, from, read)
  BY Zenon DEF Copy
<1>10. PICK file, p, read, name :
        /\ file = Loaded(pos, "file", drawn) /\ p = After(pos, "file")
        /\ read = Loaded(p, "just_read", just) /\ name = names[file]
        /\ tape' = Recorded(<<Item("file", file), Item("just_read", read)>>)
        /\ pos' = After(p, "just_read")
        /\ trace' = IF Len(trace) = Copies THEN trace
                    ELSE Append(trace, [file |-> file, read |-> read, wait |-> 0])
        /\ \/ pc' = "failed" /\ shares' = shares
           \/ pc' = "wait" /\ shares' = Copied(name, from, read)
  BY <1>1
<1>2. PICK e \in Nat : e = 2 * Number + 4 + 3 * Len(trace) /\ e > 0
  BY <1>0
<1>3. Is(e, "file", 1 .. Number) /\ Is(e + 1, "just_read", 0 .. 1)
  BY <1>0, <1>2, PartsAre
<1>4. ASSUME Replay
      PROVE  /\ file \in 1 .. Number /\ read \in 0 .. 1 /\ pos' = AtMost(e + 2)
             /\ e <= Len(tape) => file = tape[e].value
             /\ e + 1 <= Len(tape) => read = tape[e + 1].value
  <2>1. pos = AtMost(e)
    BY <1>0, <1>2, <1>4 DEF PlayInv, PosInv
  <2>2. p = AtMost(e + 1) /\ file \in 1 .. Number /\ (e <= Len(tape) => file = tape[e].value)
    <3>1. RunTypeOK
      BY <1>0
    <3>2. /\ After(pos, "file") = AtMost(e + 1)
          /\ \A d : Loaded(pos, "file", d) = IF e <= Len(tape) THEN tape[e].value ELSE d
          /\ \A d \in 1 .. Number : Loaded(pos, "file", d) \in 1 .. Number
      BY <1>2, <1>3, <1>4, <2>1, <3>1, FoundIs
    <3>3. file = Loaded(pos, "file", drawn) /\ p = After(pos, "file")
      BY <1>10
    <3> QED BY <3>2, <3>3
  <2>3. PICK f \in Nat : f = e + 1 /\ f > 0 /\ f + 1 = e + 2
    OBVIOUS
  <2>4. p = AtMost(f) /\ Is(f, "just_read", 0 .. 1)
    BY <1>3, <2>2, <2>3
  <2>5. pos' = AtMost(f + 1) /\ read \in 0 .. 1 /\ (f <= Len(tape) => read = tape[f].value)
    <3>1. RunTypeOK
      BY <1>0
    <3>2. /\ After(p, "just_read") = AtMost(f + 1)
          /\ \A d : Loaded(p, "just_read", d) = IF f <= Len(tape) THEN tape[f].value ELSE d
          /\ \A d \in 0 .. 1 : Loaded(p, "just_read", d) \in 0 .. 1
      BY <1>4, <2>3, <2>4, <3>1, FoundIs
    <3>3. read = Loaded(p, "just_read", just) /\ pos' = After(p, "just_read")
      BY <1>10
    <3> QED BY <3>2, <3>3
  <2> QED BY <2>2, <2>3, <2>5
<1>5. ~ Replay => file \in 1 .. Number /\ read \in 0 .. 1 /\ pos' = pos
  BY <1>10, NothingIsFound
<1>6. file \in 1 .. Number /\ read \in 0 .. 1
  BY <1>4, <1>5
<1>7. name \in FileNames
  BY <1>0, <1>10, <1>6
<1>8. /\ shares' \in [1 .. 2 -> [FileNames -> {Absent} \cup 0 .. total]]
      /\ \A s \in 1 .. 2, n \in FileNames : \E origin \in 1 .. 2 : shares'[s][n] = shares[origin][n]
  <2>1. CASE shares' = shares
    BY <1>0, <2>1 DEF RunTypeOK
  <2>2. CASE shares' = Copied(name, from, read)
    <3>1. RunTypeOK
      BY <1>0
    <3>2. /\ Copied(name, from, read) \in [1 .. 2 -> [FileNames -> {Absent} \cup 0 .. total]]
          /\ \A s \in 1 .. 2, n \in FileNames :
               \E origin \in 1 .. 2 : Copied(name, from, read)[s][n] = shares[origin][n]
      BY <1>7, <3>1, CopiedIs
    <3> QED BY <2>2, <3>2
  <2> QED BY <1>10, <2>1, <2>2
<1>9. e + 1 = 2 * Number + 5 + 3 * Len(trace) /\ e + 2 = 2 * Number + 6 + 3 * Len(trace)
  BY <1>0, <1>2
<1> QED BY <1>10, <1>2, <1>4, <1>5, <1>6, <1>8, <1>9

\* What was in the file stays where it was, when it grows.
ItemsStay ==
  \A k \in 1 .. Len(trace), part \in 1 .. 3 :
    OnTape(k, part) <= Len(tape') =>
      OnTape(k, part) <= Len(tape) /\ tape'[OnTape(k, part)] = tape[OnTape(k, part)]

\* A copy that is done next follows the file if its parts are there.
LEMMA TraceGrows ==
  ASSUME RunTypeOK, CopiesAreOnTape, ItemsStay,
         NEW file, NEW read, trace' = Append(trace, [file |-> file, read |-> read, wait |-> 0]),
         NEW k1, k1 = Len(trace) + 1,
         OnTape(k1, 1) <= Len(tape') => tape'[OnTape(k1, 1)].value = file,
         OnTape(k1, 2) <= Len(tape') => tape'[OnTape(k1, 2)].value = read
  PROVE  CopiesAreOnTape'
<1>0. /\ trace \in Seq(Done) /\ Len(trace) \in Nat /\ DOMAIN trace' = 1 .. Len(trace) + 1
      /\ DOMAIN trace = 1 .. Len(trace)
  BY DEF RunTypeOK
<1>1. ASSUME NEW k \in DOMAIN trace
      PROVE  /\ Agree(k, 1, trace[k].file)' /\ Agree(k, 2, trace[k].read)'
             /\ trace'[k].wait # 0 => Agree(k, 3, trace[k].wait)'
  <2>1. trace'[k] = trace[k] /\ k \in 1 .. Len(trace)
    BY <1>0
  <2>2. /\ Agree(k, 1, trace[k].file) /\ Agree(k, 2, trace[k].read)
        /\ trace[k].wait # 0 => Agree(k, 3, trace[k].wait)
    BY DEF CopiesAreOnTape
  <2>3. \A part \in 1 .. 3 :
          OnTape(k, part) <= Len(tape') =>
            OnTape(k, part) <= Len(tape) /\ tape'[OnTape(k, part)] = tape[OnTape(k, part)]
    BY <2>1 DEF ItemsStay
  <2>4. PICK p1, p2, p3 : p1 = OnTape(k, 1) /\ p2 = OnTape(k, 2) /\ p3 = OnTape(k, 3)
    OBVIOUS
  <2>5. OnTape(k, 1)' = p1 /\ OnTape(k, 2)' = p2 /\ OnTape(k, 3)' = p3
    BY <2>4 DEF OnTape
  <2>6. /\ p1 <= Len(tape') => tape'[p1].value = trace[k].file
        /\ p2 <= Len(tape') => tape'[p2].value = trace[k].read
        /\ trace[k].wait # 0 => (p3 <= Len(tape') => tape'[p3].value = trace[k].wait)
    BY <2>2, <2>3, <2>4 DEF Agree
  <2> QED BY <2>1, <2>5, <2>6 DEF Agree
<1>2. /\ Agree(k1, 1, trace[k1].file)' /\ Agree(k1, 2, trace[k1].read)' /\ trace'[k1].wait = 0
  <2>1. trace'[k1] = [file |-> file, read |-> read, wait |-> 0]
    BY <1>0
  <2>2. OnTape(k1, 1)' = OnTape(k1, 1) /\ OnTape(k1, 2)' = OnTape(k1, 2)
    BY DEF OnTape
  <2> QED BY <2>1, <2>2 DEF Agree
<1>3. \A k \in DOMAIN trace' : k \in DOMAIN trace \/ k = k1
  BY <1>0
<1> QED BY <1>1, <1>2, <1>3 DEF CopiesAreOnTape

LEMMA CopyKeeps == PlayInv /\ Copy => PlayInv'
<1> SUFFICES ASSUME PlayInv, Copy PROVE PlayInv'
  OBVIOUS
<1>1. /\ UNCHANGED <<mode, total, left, sizes, names, refused, copy>> /\ pc = "copies"
      /\ copy = 0 \/ Len(trace) < copy
  BY DEF Copy
<1>0. /\ Number \in Nat \ {0} /\ Copies \in Nat \ {0}
      /\ Len(sizes) = Number /\ Len(names) = Number
      /\ RunTypeOK /\ TapeInv /\ CopiesAreOnTape /\ tape \in Seq(TapeItem) /\ Len(tape) \in Nat
      /\ trace \in Seq(Done) /\ Len(trace) \in Nat /\ Len(trace) <= Copies /\ copy \in {0, Copies}
      /\ Past = 2 * Number + 3 + 3 * Len(trace)
  BY <1>1, RunAssumption DEF PlayInv, PlaceInv, RunTypeOK, TapeItem, Past
<1>2. PICK file \in 1 .. Number, read \in 0 .. 1 :
        /\ Replay => /\ pos' = AtMost(2 * Number + 6 + 3 * Len(trace))
                     /\ 2 * Number + 4 + 3 * Len(trace) <= Len(tape) =>
                          file = tape[2 * Number + 4 + 3 * Len(trace)].value
                     /\ 2 * Number + 5 + 3 * Len(trace) <= Len(tape) =>
                          read = tape[2 * Number + 5 + 3 * Len(trace)].value
        /\ ~ Replay => pos' = pos
        /\ tape' = Recorded(<<Item("file", file), Item("just_read", read)>>)
        /\ trace' = IF Len(trace) = Copies THEN trace
                    ELSE Append(trace, [file |-> file, read |-> read, wait |-> 0])
        /\ pc' \in {"wait", "failed"}
        /\ shares' \in [1 .. 2 -> [FileNames -> {Absent} \cup 0 .. total]]
        /\ \A s \in 1 .. 2, n \in FileNames : \E origin \in 1 .. 2 : shares'[s][n] = shares[origin][n]
  BY CopyIs
<1>3. PICK items : items = <<Item("file", file), Item("just_read", read)>>
  OBVIOUS
<1>4. /\ items \in Seq(TapeItem) /\ Len(items) = 2
      /\ items[1].label = "file" /\ items[1].value = file
      /\ items[2].label = "just_read" /\ items[2].value = read
  <2>1. "file" \in Labels /\ "just_read" \in Labels /\ file \in Nat /\ read \in Nat
    BY <1>0 DEF Labels
  <2> QED BY <1>3, <2>1, TwoItems
<1>5. /\ tape' \in Seq(TapeItem)
      /\ Replay => tape' = tape
      /\ ~ Replay => /\ Len(tape') = Len(tape) + 2
                     /\ \A p \in 1 .. Len(tape) : tape'[p] = tape[p]
                     /\ tape'[Len(tape) + 1] = items[1]
                     /\ tape'[Len(tape) + 2] = items[2]
  <2>1. 1 \in 1 .. Len(items) /\ 2 \in 1 .. Len(items)
    BY <1>4
  <2>2. tape' = Recorded(items)
    BY <1>2, <1>3
  <2> QED BY <1>0, <1>4, <2>1, <2>2, RecordedIs
<1>6. ~ Replay => /\ Len(tape) = 2 * Number + 3 + 3 * Len(trace)
                  /\ pos = 1 /\ copy = Copies /\ Len(trace) < Copies
  BY <1>0, <1>1 DEF PlayInv, PosInv
<1>7. Len(trace) = Copies => Replay /\ copy = 0 /\ Len(tape) < 2 * Number + 2
  BY <1>0, <1>1, <1>6 DEF PlayInv, PosInv
<1>8. /\ trace' \in Seq(Done) /\ Len(trace') \in Nat /\ Len(trace') <= Copies /\ trace' # <<>>
      /\ Len(trace) < Copies => /\ Len(trace') = Len(trace) + 1
                                /\ trace'[Len(trace')].wait = 0
  <2>1. CASE Len(trace) = Copies
    <3>1. trace' = trace
      BY <1>2, <2>1
    <3> QED BY <1>0, <2>1, <3>1
  <2>2. CASE Len(trace) # Copies
    <3>1. PICK d \in Done : d = [file |-> file, read |-> read, wait |-> 0]
      BY DEF Done
    <3>2. trace' = Append(trace, d) /\ d.wait = 0
      BY <1>2, <2>2, <3>1
    <3>3. trace' \in Seq(Done) /\ Len(trace') = Len(trace) + 1 /\ trace'[Len(trace) + 1] = d
      BY <1>0, <3>2
    <3>4. trace'[Len(trace')].wait = 0
      BY <3>2, <3>3, Zenon
    <3>5. Len(trace) < Copies /\ Len(trace') \in Nat /\ Len(trace') <= Copies /\ trace' # <<>>
      BY <1>0, <2>2, <3>3
    <3> QED BY <3>3, <3>4, <3>5
  <2> QED BY <2>1, <2>2
<1>9. Past' = 2 * Number + 2 + 3 * Len(trace')
  <2>1. ~ (Len(sizes') < Number)
    BY <1>0, <1>1, <1>2
  <2>2. trace' # <<>>
    BY <1>8
  <2>3. pc' \in {"wait", "failed"}
    BY <1>2
  <2> QED BY <2>1, <2>2, <2>3 DEF Past
<1>10. PlaceInv'
  BY <1>0, <1>1, <1>2, <1>8 DEF PlaceInv
<1>11. PosInv'
  <2>1. CASE Replay /\ Len(trace) < Copies
    <3>1. pos' = AtMost(2 * Number + 6 + 3 * Len(trace)) /\ tape' = tape
      BY <1>2, <1>5, <2>1
    <3>2. pos' = AtMost(Past + 1)'
      <4>1. Past' + 1 = 2 * Number + 6 + 3 * Len(trace)
        <5>1. Len(trace') = Len(trace) + 1 /\ Len(trace) \in Nat /\ Number \in Nat
          BY <1>0, <1>8, <2>1
        <5> QED BY <1>9, <5>1
      <4> QED BY <3>1, <4>1 DEF AtMost
    <3> QED BY <1>0, <1>1, <1>2, <2>1, <3>1, <3>2 DEF PlayInv, PosInv, Replay
  <2>2. CASE Len(trace) = Copies
    <3>1. /\ Replay /\ Len(tape) < 2 * Number + 2 /\ tape' = tape /\ trace' = trace
          /\ pos' = AtMost(2 * Number + 6 + 3 * Len(trace))
      BY <1>2, <1>5, <1>7, <2>2
    <3>2. pos' = AtMost(Past + 1)'
      BY <1>0, <1>9, <3>1 DEF AtMost
    <3> QED BY <1>0, <1>1, <1>2, <1>7, <3>1, <3>2 DEF PlayInv, PosInv, Replay
  <2>3. CASE ~ Replay
    <3>1. Len(tape') = Past'
      <4>1. Len(trace') = Len(trace) + 1 /\ Len(trace) \in Nat /\ Number \in Nat
        BY <1>0, <1>6, <1>8, <2>3
      <4>2. Len(tape') = 2 * Number + 3 + 3 * Len(trace) + 2
        BY <1>5, <1>6, <2>3
      <4> QED BY <1>9, <4>1, <4>2
    <3> QED BY <1>1, <1>2, <1>6, <2>3, <3>1 DEF PosInv, Replay
  <2> QED BY <1>0, <2>1, <2>2, <2>3
<1>12. RunTypeOK'
  <2>1. pos' \in 1 .. Len(tape') + 1
    <3>1. Len(tape') \in Nat
      BY <1>5
    <3>2. Past' + 1 \in Nat /\ Past' + 1 > 0
      BY <1>0, <1>8, <1>9
    <3> QED BY <1>11, <3>1, <3>2 DEF PosInv, AtMost, Replay
  <2> QED BY <1>0, <1>1, <1>2, <1>5, <1>8, <2>1 DEF RunTypeOK, TapeItem
<1>13. TapeInv'
  <2>1. CASE Replay
    BY <1>0, <1>1, <1>5, <2>1 DEF TapeInv, Is
  <2>2. CASE ~ Replay
    <3>0. PICK k1 \in 1 .. Copies : k1 = Len(trace) + 1
      BY <1>0, <1>6, <2>2
    <3>1. Len(tape) >= 2 * Number + 1 /\ Len(tape) <= Len(tape')
          /\ Len(tape') <= 2 * Number + 3 + 3 * Copies
      BY <1>0, <1>5, <1>6, <2>2, <3>0
    <3>2. ASSUME NEW p \in Nat, Len(tape) < p, p <= Len(tape')
          PROVE  /\ p # 2 * Number + 2 /\ p # 2 * Number + 3
                 /\ \A k \in 1 .. Copies :
                      /\ p = OnTape(k, 1) => tape'[p].label = "file" /\ tape'[p].value \in 1 .. Number
                      /\ p = OnTape(k, 2) => tape'[p].label = "just_read" /\ tape'[p].value \in 0 .. 1
                      /\ p # OnTape(k, 3)
      <4>1. OnTape(k1, 1) = Len(tape) + 1 /\ OnTape(k1, 2) = Len(tape) + 2
        <5>1. k1 \in Nat /\ 1 \in 0 .. 3 /\ 2 \in 0 .. 3
          OBVIOUS
        <5>2. OnTape(k1, 1) = 2 * Number + 3 * k1 + 1 /\ OnTape(k1, 2) = 2 * Number + 3 * k1 + 2
          BY <5>1, OnTapeIs
        <5>3. Len(tape) = 2 * Number + 3 + 3 * Len(trace) /\ Len(trace) \in Nat /\ Number \in Nat
          BY <1>0, <1>6, <2>2
        <5> QED BY <3>0, <5>2, <5>3
      <4>2. k1 \in Nat /\ 1 \in 1 .. 3 /\ 2 \in 1 .. 3 /\ 3 \in 1 .. 3 /\ \A k \in 1 .. Copies : k \in Nat
        BY <1>0, <3>0
      <4>3. p # 2 * Number + 2 /\ p # 2 * Number + 3
        BY <1>0, <1>6, <2>2, <3>2
      <4>4. p = Len(tape) + 1 \/ p = Len(tape) + 2
        BY <1>0, <1>5, <2>2, <3>2
      <4>5. CASE p = Len(tape) + 1
        <5>1. tape'[p].label = "file" /\ tape'[p].value \in 1 .. Number
          BY <1>4, <1>5, <2>2, <4>5
        <5>2. \A k \in 1 .. Copies : p # OnTape(k, 2) /\ p # OnTape(k, 3)
          BY <4>1, <4>2, <4>5, OnTapeOnce
        <5> QED BY <4>3, <5>1, <5>2
      <4>6. CASE p = Len(tape) + 2
        <5>1. tape'[p].label = "just_read" /\ tape'[p].value \in 0 .. 1
          BY <1>4, <1>5, <2>2, <4>6
        <5>2. \A k \in 1 .. Copies : p # OnTape(k, 1) /\ p # OnTape(k, 3)
          BY <4>1, <4>2, <4>6, OnTapeOnce
        <5> QED BY <4>3, <5>1, <5>2
      <4> QED BY <4>4, <4>5, <4>6
    <3>3. \A p \in 1 .. Len(tape) : tape'[p] = tape[p]
      BY <1>5, <2>2
    <3> QED BY <1>0, <1>1, <1>5, <3>1, <3>2, <3>3, LaterItems
  <2> QED BY <2>1, <2>2
<1>14. WaitInv'
  <2>1. CASE Len(trace) = Copies
    BY <1>1, <1>7, <2>1 DEF WaitInv
  <2>2. CASE Len(trace) # Copies
    BY <1>0, <1>8, <2>2 DEF WaitInv
  <2> QED BY <2>1, <2>2
<1>15. ItemsStay
  <2>1. CASE Replay
    BY <1>5, <2>1 DEF ItemsStay
  <2>2. CASE ~ Replay
    <3>1. ASSUME NEW k \in 1 .. Len(trace), NEW part \in 1 .. 3
          PROVE  OnTape(k, part) \in 1 .. Len(tape)
      <4>1. k \in Nat /\ part \in 0 .. 3
        BY <1>0
      <4>2. OnTape(k, part) = 2 * Number + 3 * k + part
        BY <4>1, OnTapeIs
      <4> QED BY <1>0, <1>6, <2>2, <4>2
    <3>2. \A p \in 1 .. Len(tape) : p <= Len(tape) /\ tape'[p] = tape[p]
      BY <1>5, <2>2
    <3> QED BY <3>1, <3>2 DEF ItemsStay
  <2> QED BY <2>1, <2>2
<1>16. CopiesAreOnTape'
  <2>1. CASE Len(trace) = Copies
    <3>1. trace' = trace /\ tape' = tape
      BY <1>2, <1>5, <1>7, <2>1
    <3> QED BY <1>0, <3>1 DEF CopiesAreOnTape, Agree
  <2>2. CASE Len(trace) # Copies
    <3>0. PICK k1 \in Nat : k1 = Len(trace) + 1
      BY <1>0
    <3>1. PICK e \in Nat : e = 2 * Number + 4 + 3 * Len(trace)
      BY <1>0
    <3>2. OnTape(k1, 1) = e /\ OnTape(k1, 2) = e + 1
      BY <1>0, <3>0, <3>1, OnTapeIs
    <3>3. /\ e <= Len(tape') => tape'[e].value = file
          /\ e + 1 <= Len(tape') => tape'[e + 1].value = read
      <4>1. CASE Replay
        <5>1. e + 1 = 2 * Number + 5 + 3 * Len(trace)
          BY <1>0, <3>1
        <5> QED BY <1>2, <1>5, <3>1, <4>1, <5>1
      <4>2. CASE ~ Replay
        <5>1. e = Len(tape) + 1 /\ e + 1 = Len(tape) + 2
          <6>1. Len(tape) = 2 * Number + 3 + 3 * Len(trace)
            BY <1>6, <4>2
          <6>2. Number \in Nat /\ Len(trace) \in Nat
            BY <1>0
          <6> QED BY <3>1, <6>1, <6>2
        <5> QED BY <1>4, <1>5, <4>2, <5>1
      <4> QED BY <4>1, <4>2
    <3>4. trace' = Append(trace, [file |-> file, read |-> read, wait |-> 0])
      BY <1>2, <2>2
    <3> QED BY <1>0, <1>15, <3>0, <3>2, <3>3, <3>4, TraceGrows
  <2> QED BY <2>1, <2>2
<1> QED BY <1>10, <1>11, <1>12, <1>13, <1>14, <1>16 DEF PlayInv

\* What is waited for is what the file says of the wait.
LEMMA WaitIs ==
  ASSUME PlayInv, Wait
  PROVE  \E wait \in Waits :
           /\ Replay => /\ pos' = AtMost(2 * Number + 4 + 3 * Len(trace))
                        /\ 2 * Number + 3 + 3 * Len(trace) <= Len(tape) =>
                             wait = tape[2 * Number + 3 + 3 * Len(trace)].value
           /\ ~ Replay => pos' = pos
           /\ tape' = Recorded(<<Item("wait", wait)>>)
           /\ trace' = IF Len(trace) = Copies /\ trace[Copies].wait # 0 THEN trace
                       ELSE [trace EXCEPT ![Len(trace)].wait = wait]
<1>0. /\ RunTypeOK /\ TapeInv /\ Number \in Nat \ {0} /\ Len(trace) \in Nat /\ Len(tape) \in Nat
      /\ Len(trace) <= Copies /\ Len(trace) > 0
      /\ Past = 2 * Number + 2 + 3 * Len(trace)
  <2>1. pc = "wait"
    BY DEF Wait
  <2> QED BY <2>1, RunAssumption DEF PlayInv, PlaceInv, RunTypeOK, Past
<1>1. PICK drawn \in Waits : \E wait :
        /\ wait = Loaded(pos, "wait", drawn)
        /\ tape' = Recorded(<<Item("wait", wait)>>)
        /\ pos' = After(pos, "wait")
        /\ trace' = IF Len(trace) = Copies /\ trace[Copies].wait # 0 THEN trace
                    ELSE [trace EXCEPT ![Len(trace)].wait = wait]
  BY DEF Wait
<1>2. PICK wait :
        /\ wait = Loaded(pos, "wait", drawn)
        /\ tape' = Recorded(<<Item("wait", wait)>>)
        /\ pos' = After(pos, "wait")
        /\ trace' = IF Len(trace) = Copies /\ trace[Copies].wait # 0 THEN trace
                    ELSE [trace EXCEPT ![Len(trace)].wait = wait]
  BY <1>1
<1>3. PICK e \in Nat : e = 2 * Number + 3 + 3 * Len(trace) /\ e > 0
  BY <1>0
<1>4. Is(e, "wait", Waits)
  BY <1>0, <1>3, PartsAre
<1>5. Replay => /\ wait \in Waits /\ pos' = AtMost(e + 1)
                /\ e <= Len(tape) => wait = tape[e].value
  <2>1. Replay => pos = AtMost(e)
    BY <1>0, <1>3 DEF PlayInv, PosInv
  <2>2. wait = Loaded(pos, "wait", drawn) /\ pos' = After(pos, "wait")
    BY <1>2
  <2> QED BY <1>0, <1>3, <1>4, <2>1, <2>2, FoundIs
<1>6. ~ Replay => wait \in Waits /\ pos' = pos
  BY <1>2, NothingIsFound
<1>7. e + 1 = 2 * Number + 4 + 3 * Len(trace)
  BY <1>0, <1>3
<1> QED BY <1>2, <1>3, <1>5, <1>6, <1>7

LEMMA WaitKeeps == PlayInv /\ Wait => PlayInv'
<1> SUFFICES ASSUME PlayInv, Wait PROVE PlayInv'
  OBVIOUS
<1>1. /\ UNCHANGED <<mode, total, left, sizes, names, shares, refused, copy>>
      /\ pc = "wait" /\ pc' = "copies"
  BY DEF Wait, files
<1>0. /\ Number \in Nat \ {0} /\ Copies \in Nat \ {0}
      /\ Len(sizes) = Number /\ Len(names) = Number
      /\ RunTypeOK /\ TapeInv /\ CopiesAreOnTape /\ tape \in Seq(TapeItem) /\ Len(tape) \in Nat
      /\ trace \in Seq(Done) /\ Len(trace) \in Nat /\ Len(trace) <= Copies /\ copy \in {0, Copies}
      /\ Past = 2 * Number + 2 + 3 * Len(trace) /\ Len(trace) > 0
      /\ copy # 0 => trace[Len(trace)].wait = 0
      /\ copy = 0 => Replay /\ Len(tape) < 2 * Number + 2
  <2>1. RunTypeOK /\ PlaceInv /\ PosInv /\ TapeInv /\ WaitInv /\ CopiesAreOnTape
    BY DEF PlayInv
  <2>2. /\ tape \in Seq(TapeItem) /\ Len(tape) \in Nat /\ trace \in Seq(Done)
        /\ Len(trace) \in Nat /\ copy \in {0, Copies} /\ Number \in Nat \ {0} /\ Copies \in Nat \ {0}
    BY <2>1, RunAssumption DEF RunTypeOK, TapeItem
  <2>3. /\ Len(sizes) = Number /\ Len(names) = Number /\ Len(trace) <= Copies /\ Len(trace) > 0
    BY <1>1, <2>1, <2>2 DEF PlaceInv
  <2>4. copy # 0 => trace[Len(trace)].wait = 0
    BY <1>1, <2>1 DEF WaitInv
  <2>5. copy = 0 => Replay /\ Len(tape) < 2 * Number + 2
    BY <1>1, <2>1, <2>2 DEF PosInv
  <2> QED BY <1>1, <2>1, <2>2, <2>3, <2>4, <2>5 DEF Past
<1>2. PICK wait \in Waits :
        /\ Replay => /\ pos' = AtMost(2 * Number + 4 + 3 * Len(trace))
                     /\ 2 * Number + 3 + 3 * Len(trace) <= Len(tape) =>
                          wait = tape[2 * Number + 3 + 3 * Len(trace)].value
        /\ ~ Replay => pos' = pos
        /\ tape' = Recorded(<<Item("wait", wait)>>)
        /\ trace' = IF Len(trace) = Copies /\ trace[Copies].wait # 0 THEN trace
                    ELSE [trace EXCEPT ![Len(trace)].wait = wait]
  BY WaitIs
<1>3. PICK items : items = <<Item("wait", wait)>>
  OBVIOUS
<1>4. items \in Seq(TapeItem) /\ Len(items) = 1 /\ items[1].label = "wait" /\ items[1].value = wait
  <2>1. "wait" \in Labels /\ wait \in Nat
    BY RunAssumption DEF Labels
  <2> QED BY <1>3, <2>1, OneItem
<1>5. /\ tape' \in Seq(TapeItem)
      /\ Replay => tape' = tape
      /\ ~ Replay => /\ Len(tape') = Len(tape) + 1
                     /\ \A p \in 1 .. Len(tape) : tape'[p] = tape[p]
                     /\ tape'[Len(tape) + 1] = items[1]
  <2>1. 1 \in 1 .. Len(items)
    BY <1>4
  <2>2. tape' = Recorded(items)
    BY <1>2, <1>3
  <2> QED BY <1>0, <1>4, <2>1, <2>2, RecordedIs
<1>6. PICK t \in 1 .. Copies, e \in Nat :
        t = Len(trace) /\ e = 2 * Number + 3 + 3 * t /\ e = OnTape(t, 3) /\ Past = e - 1
  <2>1. PICK t \in 1 .. Copies : t = Len(trace)
    BY <1>0
  <2>2. OnTape(t, 3) = 2 * Number + 3 + 3 * t /\ OnTape(t, 3) \in Nat
    BY <1>0, <2>1, OnTapeIs
  <2> QED BY <1>0, <2>1, <2>2
<1>7. ~ Replay => Len(tape) = e - 1 /\ pos = 1 /\ copy = Copies
  BY <1>0, <1>1, <1>6 DEF PlayInv, PosInv
<1>8. /\ trace' \in Seq(Done) /\ Len(trace') = t
      /\ \A k \in 1 .. t : /\ trace'[k].file = trace[k].file /\ trace'[k].read = trace[k].read
                           /\ k # t => trace'[k].wait = trace[k].wait
      /\ copy # 0 => trace'[t].wait = wait
  <2>1. CASE trace' = trace /\ t = Copies /\ trace[t].wait # 0
    BY <1>0, <1>6, <2>1
  <2>2. CASE trace' = [trace EXCEPT ![t].wait = wait]
    <3>1. PICK d : d = [trace[t] EXCEPT !.wait = wait]
      OBVIOUS
    <3>2. trace[t] \in Done /\ t \in DOMAIN trace
      BY <1>0, <1>6
    <3>3. d \in Done /\ d.file = trace[t].file /\ d.read = trace[t].read /\ d.wait = wait
      BY <3>1, <3>2 DEF Done
    <3>4. trace' = [trace EXCEPT ![t] = d]
      BY <2>2, <3>1
    <3>5. trace' \in Seq(Done) /\ Len(trace') = t /\ trace'[t] = d
          /\ \A k \in 1 .. t : k # t => trace'[k] = trace[k]
      BY <1>0, <1>6, <3>2, <3>3, <3>4
    <3> QED BY <3>3, <3>5
  <2> QED BY <1>2, <1>6, <2>1, <2>2
<1>9. Past' = e
  <2>1. Len(sizes') = Number /\ Len(names') = Number
    BY <1>0, <1>1
  <2> QED BY <1>1, <1>6, <1>8, <2>1 DEF Past
<1>10. PlaceInv'
  BY <1>0, <1>1, <1>6, <1>8 DEF PlaceInv
<1>11. PosInv'
  <2>1. CASE Replay
    <3>1. pos' = AtMost(e + 1) /\ tape' = tape
      <4>1. e + 1 = 2 * Number + 4 + 3 * Len(trace)
        BY <1>0, <1>6
      <4> QED BY <1>2, <1>5, <2>1, <4>1
    <3> QED BY <1>0, <1>1, <1>9, <2>1, <3>1 DEF PlayInv, PosInv, AtMost, Replay
  <2>2. CASE ~ Replay
    BY <1>0, <1>1, <1>2, <1>5, <1>7, <1>9, <2>2 DEF PosInv, Replay
  <2> QED BY <2>1, <2>2
<1>12. RunTypeOK'
  <2>1. pos' \in 1 .. Len(tape') + 1
    <3>1. Len(tape') \in Nat
      BY <1>5
    <3>2. Past' + 1 \in Nat /\ Past' + 1 > 0
      BY <1>9
    <3> QED BY <1>11, <3>1, <3>2 DEF PosInv, AtMost, Replay
  <2> QED BY <1>0, <1>1, <1>5, <1>8, <2>1 DEF RunTypeOK, TapeItem
<1>13. TapeInv'
  <2>1. CASE Replay
    BY <1>0, <1>1, <1>5, <2>1 DEF TapeInv, Is
  <2>2. CASE ~ Replay
    <3>1. Len(tape) >= 2 * Number + 1 /\ Len(tape) <= Len(tape')
          /\ Len(tape') <= 2 * Number + 3 + 3 * Copies
      <4>1. Len(tape) = e - 1 /\ Len(tape') = Len(tape) + 1
        BY <1>5, <1>7, <2>2
      <4>2. e = 2 * Number + 3 + 3 * t
        BY <1>6
      <4>3. Number \in Nat /\ Copies \in Nat
        BY <1>0
      <4> QED BY <4>1, <4>2, <4>3
    <3>2. ASSUME NEW p \in Nat, Len(tape) < p, p <= Len(tape')
          PROVE  /\ p # 2 * Number + 2 /\ p # 2 * Number + 3
                 /\ \A k \in 1 .. Copies :
                      /\ p # OnTape(k, 1) /\ p # OnTape(k, 2)
                      /\ p = OnTape(k, 3) => tape'[p].label = "wait" /\ tape'[p].value \in Waits
      <4>1. p = e /\ p = Len(tape) + 1
        BY <1>0, <1>5, <1>6, <1>7, <2>2, <3>2
      <4>2. t \in Nat /\ 1 \in 1 .. 3 /\ 2 \in 1 .. 3 /\ 3 \in 1 .. 3 /\ \A k \in 1 .. Copies : k \in Nat
        BY <1>0
      <4>3. p # 2 * Number + 2 /\ p # 2 * Number + 3
        BY <1>0, <1>6, <4>1
      <4>4. tape'[p].label = "wait" /\ tape'[p].value \in Waits
        BY <1>4, <1>5, <2>2, <4>1
      <4>5. \A k \in 1 .. Copies : p # OnTape(k, 1) /\ p # OnTape(k, 2)
        BY <1>6, <4>1, <4>2, OnTapeOnce
      <4> QED BY <4>3, <4>4, <4>5
    <3>3. \A p \in 1 .. Len(tape) : tape'[p] = tape[p]
      BY <1>5, <2>2
    <3> QED BY <1>0, <1>1, <1>5, <3>1, <3>2, <3>3, LaterItems
  <2> QED BY <2>1, <2>2
<1>14. WaitInv'
  BY <1>1 DEF WaitInv
<1>15. ASSUME NEW k \in 1 .. t, NEW part \in 1 .. 3, OnTape(k, part) <= Len(tape')
       PROVE  /\ copy # 0
              /\ \/ k = t /\ part = 3 /\ tape'[OnTape(k, part)].value = wait
                 \/ /\ k # t \/ part # 3
                    /\ OnTape(k, part) <= Len(tape) /\ tape'[OnTape(k, part)] = tape[OnTape(k, part)]
  <2>0. k \in 1 .. Copies /\ k \in Nat /\ part \in 0 .. 3
    BY <1>0
  <2>1. OnTape(k, part) = 2 * Number + 3 * k + part /\ OnTape(k, part) \in Nat
        /\ OnTape(k, part) > 2 * Number + 3
    BY <2>0, OnTapeIs
  <2>2. CASE Replay
    <3>1. tape' = tape
      BY <1>5, <2>2
    <3>2. copy # 0
      BY <1>0, <1>15, <2>1, <3>1
    <3>3. e <= Len(tape) => tape[e].value = wait
      BY <1>2, <1>6, <2>2
    <3> QED BY <1>6, <1>15, <3>1, <3>2, <3>3
  <2>3. CASE ~ Replay
    <3>1. copy # 0
      BY <1>0, <2>3
    <3>2. CASE k = t /\ part = 3
      <4>1. OnTape(k, part) = Len(tape) + 1
        BY <1>6, <1>7, <2>3, <3>2
      <4> QED BY <1>4, <1>5, <2>3, <3>1, <3>2, <4>1
    <3>3. CASE k # t \/ part # 3
      <4>1. OnTape(k, part) \in 1 .. Len(tape)
        BY <1>0, <1>6, <1>7, <2>1, <2>3, <3>3
      <4> QED BY <1>5, <2>3, <3>1, <3>3, <4>1
    <3> QED BY <3>2, <3>3
  <2> QED BY <2>2, <2>3
<1>16. CopiesAreOnTape'
  <2>1. DOMAIN trace = 1 .. t /\ DOMAIN trace' = 1 .. t
    BY <1>0, <1>6, <1>8
  <2>2. ASSUME NEW k \in 1 .. t
        PROVE  /\ Agree(k, 1, trace[k].file)' /\ Agree(k, 2, trace[k].read)'
               /\ trace'[k].wait # 0 => Agree(k, 3, trace[k].wait)'
    <3>1. /\ Agree(k, 1, trace[k].file) /\ Agree(k, 2, trace[k].read)
          /\ trace[k].wait # 0 => Agree(k, 3, trace[k].wait)
      BY <1>0, <2>1 DEF CopiesAreOnTape
    <3>2. PICK p1, p2, p3 : p1 = OnTape(k, 1) /\ p2 = OnTape(k, 2) /\ p3 = OnTape(k, 3)
      OBVIOUS
    <3>3. OnTape(k, 1)' = p1 /\ OnTape(k, 2)' = p2 /\ OnTape(k, 3)' = p3
      BY <3>2 DEF OnTape
    <3>4. 1 \in 1 .. 3 /\ 2 \in 1 .. 3 /\ 3 \in 1 .. 3 /\ 1 # 3 /\ 2 # 3
      OBVIOUS
    <3>5. p1 <= Len(tape') => tape'[p1].value = trace[k].file
      BY <1>15, <3>1, <3>2, <3>4 DEF Agree
    <3>6. p2 <= Len(tape') => tape'[p2].value = trace[k].read
      BY <1>15, <3>1, <3>2, <3>4 DEF Agree
    <3>7. trace'[k].wait # 0 => (p3 <= Len(tape') => tape'[p3].value = trace'[k].wait)
      <4>1. CASE k = t
        BY <1>8, <1>15, <3>2, <3>4, <4>1
      <4>2. CASE k # t
        BY <1>8, <1>15, <3>1, <3>2, <3>4, <4>2 DEF Agree
      <4> QED BY <4>1, <4>2
    <3> QED BY <1>8, <3>3, <3>5, <3>6, <3>7 DEF Agree
  <2> QED BY <2>1, <2>2 DEF CopiesAreOnTape
<1> QED BY <1>10, <1>11, <1>12, <1>13, <1>14, <1>16 DEF PlayInv

LEMMA RerunKeeps == PlayInv /\ Rerun => PlayInv'
<1> SUFFICES ASSUME PlayInv, Rerun PROVE PlayInv'
  OBVIOUS
<1>0. /\ RunTypeOK /\ TapeInv /\ tape \in Seq(TapeItem) /\ Len(tape) \in Nat
      /\ Number \in Nat \ {0} /\ Copies \in Nat \ {0} /\ total \in Totals /\ total \in Nat
  BY RunAssumption DEF PlayInv, RunTypeOK, TapeItem
<1>1. /\ mode' = "replay" /\ pc' = "sizes" /\ trace' = <<>> /\ total' = total /\ left' = total
      /\ sizes' = <<>> /\ names' = <<>> /\ refused' = {} /\ pos' = 1 /\ copy' = 0
      /\ shares' = [s \in 1 .. 2 |-> [n \in FileNames |-> Absent]]
  BY DEF Rerun
<1>2. PICK n \in 0 .. Len(tape) : tape' = SubSeq(tape, 1, n)
  <2>1. PICK n \in IF pc \in {"done", "failed"} THEN {Len(tape)} ELSE 0 .. Len(tape) : tape' = SubSeq(tape, 1, n)
    BY DEF Rerun
  <2>2. n \in 0 .. Len(tape)
    BY <1>0, <2>1
  <2> QED BY <2>1, <2>2
<1>3. tape' \in Seq(TapeItem) /\ Len(tape') = n /\ \A p \in 1 .. n : tape'[p] = tape[p]
  BY <1>0, <1>2
<1>4. RunTypeOK'
  BY <1>0, <1>1, <1>3 DEF RunTypeOK, TapeItem
<1>5. PlaceInv'
  BY <1>0, <1>1 DEF PlaceInv
<1>6. PosInv'
  <2>1. Past' = 0
    BY <1>1 DEF Past
  <2> QED BY <1>1, <1>3, <2>1 DEF PosInv, AtMost, Replay
<1>7. TapeInv'
  <2>1. ASSUME NEW p \in Nat, p > 0, NEW label, NEW values, Is(p, label, values)
        PROVE  p <= Len(tape') => tape'[p].label = label /\ tape'[p].value \in values
    BY <1>0, <1>3, <2>1 DEF Is
  <2>2. \A i \in 1 .. Number : /\ i + 1 \in Nat /\ i + 1 > 0
                               /\ Number + 1 + i \in Nat /\ Number + 1 + i > 0
    BY <1>0
  <2>3. \A k \in 1 .. Copies : \A part \in 1 .. 3 : OnTape(k, part) \in Nat /\ OnTape(k, part) > 0
    BY OnTapeIs
  <2>4. Is(1, "number_of_files", {Number})'
    <3>1. PICK q \in Nat : q = 1 /\ q > 0
      OBVIOUS
    <3>2. Is(q, "number_of_files", {Number})
      BY <1>0, <3>1 DEF TapeInv
    <3>3. Is(q, "number_of_files", {Number})'
      BY <2>1, <3>1, <3>2 DEF Is
    <3> QED BY <3>1, <3>3
  <2>5. \A i \in 1 .. Number : /\ Is(i + 1, "file_size", 0 .. total)'
                               /\ Is(Number + 1 + i, "Filename", FileNames)'
    <3>1. SUFFICES ASSUME NEW i \in 1 .. Number
                   PROVE  /\ Is(i + 1, "file_size", 0 .. total)'
                          /\ Is(Number + 1 + i, "Filename", FileNames)'
      OBVIOUS
    <3>2. PICK q \in Nat, r \in Nat : q = i + 1 /\ r = Number + 1 + i /\ q > 0 /\ r > 0
      BY <2>2
    <3>3. Is(q, "file_size", 0 .. total) /\ Is(r, "Filename", FileNames)
      BY <1>0, <3>2 DEF TapeInv
    <3>4. Is(q, "file_size", 0 .. total)' /\ Is(r, "Filename", FileNames)'
      BY <1>1, <2>1, <3>2, <3>3 DEF Is
    <3> QED BY <3>2, <3>4
  <2>6. Is(2 * Number + 2, "copy", {Copies})' /\ Is(2 * Number + 3, "number", {Number})'
    <3>1. PICK q \in Nat, r \in Nat : q = 2 * Number + 2 /\ r = 2 * Number + 3 /\ q > 0 /\ r > 0
      BY <1>0
    <3>2. Is(q, "copy", {Copies}) /\ Is(r, "number", {Number})
      BY <1>0, <3>1 DEF TapeInv
    <3>3. Is(q, "copy", {Copies})' /\ Is(r, "number", {Number})'
      BY <2>1, <3>1, <3>2 DEF Is
    <3> QED BY <3>1, <3>3
  <2>7. \A k \in 1 .. Copies : /\ Is(OnTape(k, 1), "file", 1 .. Number)'
                               /\ Is(OnTape(k, 2), "just_read", 0 .. 1)'
                               /\ Is(OnTape(k, 3), "wait", Waits)'
    <3>1. SUFFICES ASSUME NEW k \in 1 .. Copies
                   PROVE  /\ Is(OnTape(k, 1), "file", 1 .. Number)'
                          /\ Is(OnTape(k, 2), "just_read", 0 .. 1)'
                          /\ Is(OnTape(k, 3), "wait", Waits)'
      OBVIOUS
    <3>2. PICK p1 \in Nat, p2 \in Nat, p3 \in Nat :
            /\ p1 = OnTape(k, 1) /\ p2 = OnTape(k, 2) /\ p3 = OnTape(k, 3)
            /\ p1 > 0 /\ p2 > 0 /\ p3 > 0
      BY <2>3
    <3>3. Is(p1, "file", 1 .. Number) /\ Is(p2, "just_read", 0 .. 1) /\ Is(p3, "wait", Waits)
      BY <1>0, <3>2 DEF TapeInv
    <3>4. Is(p1, "file", 1 .. Number)' /\ Is(p2, "just_read", 0 .. 1)' /\ Is(p3, "wait", Waits)'
      BY <2>1, <3>2, <3>3 DEF Is
    <3>5. OnTape(k, 1)' = p1 /\ OnTape(k, 2)' = p2 /\ OnTape(k, 3)' = p3
      BY <3>2 DEF OnTape
    <3> QED BY <3>4, <3>5 DEF Is
  <2>8. Len(tape') <= 2 * Number + 3 + 3 * Copies
    <3>1. Len(tape) <= 2 * Number + 3 + 3 * Copies
      BY <1>0 DEF TapeInv
    <3> QED BY <1>0, <1>3, <3>1
  <2> QED BY <2>4, <2>5, <2>6, <2>7, <2>8 DEF TapeInv
<1>8. WaitInv' /\ CopiesAreOnTape'
  BY <1>1 DEF WaitInv, CopiesAreOnTape
<1> QED BY <1>4, <1>5, <1>6, <1>7, <1>8 DEF PlayInv

LEMMA PlayNext == PlayInv /\ [RunNext]_runVars => PlayInv'
<1> SUFFICES ASSUME PlayInv, [RunNext]_runVars PROVE PlayInv'
  OBVIOUS
<1>1. CASE DrawSize
  BY <1>1, DrawSizeKeeps
<1>2. CASE StoreSizes
  BY <1>2, StoreSizesKeeps
<1>3. CASE GenerateFile
  BY <1>3, GenerateFileKeeps
<1>4. CASE StartCopies
  BY <1>4, StartCopiesKeeps
<1>5. CASE Copy
  BY <1>5, CopyKeeps
<1>6. CASE Wait
  BY <1>6, WaitKeeps
<1>7. CASE Finish
  BY <1>7, FinishKeeps
<1>8. CASE Rerun
  BY <1>8, RerunKeeps
<1>9. CASE UNCHANGED runVars
  <2>1. /\ UNCHANGED <<mode, pc, total, left, sizes, names, shares, refused>>
        /\ UNCHANGED <<tape, pos, copy, trace>>
    BY <1>9 DEF runVars, files
  <2>2. Replay' = Replay /\ Past' = Past
    BY <2>1 DEF Replay, Past
  <2>3. RunTypeOK' /\ PlaceInv'
    BY <2>1, <2>2 DEF PlayInv, RunTypeOK, PlaceInv
  <2>4. PosInv'
    BY <2>1, <2>2 DEF PlayInv, PosInv, AtMost
  <2>5. TapeInv'
    BY <2>1 DEF PlayInv, TapeInv, Is, OnTape
  <2>6. WaitInv' /\ CopiesAreOnTape'
    BY <2>1 DEF PlayInv, WaitInv, CopiesAreOnTape, Agree, OnTape
  <2> QED BY <2>3, <2>4, <2>5, <2>6 DEF PlayInv
<1> QED BY <1>1, <1>2, <1>3, <1>4, <1>5, <1>6, <1>7, <1>8, <1>9 DEF RunNext, Step

LEMMA PlayAlways == RunSpec => []PlayInv
BY RunInitInv, PlayNext, PTL DEF RunSpec

\* The types of the load generator: what is recorded and what is loaded are of
\* the same types, wherever the recording was interrupted.
THEOREM RunTypes == RunSpec => []RunTypeOK
<1>1. PlayInv => RunTypeOK
  BY DEF PlayInv
<1> QED BY <1>1, PlayAlways, PTL

\* What is recorded of a copy is what was done, what is replayed is what was
\* recorded, as far as the record file goes, and a replay is as long as the
\* run was.
THEOREM ReplaysFollow == RunSpec => []TapeIsFollowed
<1>1. PlayInv => TapeIsFollowed
  <2> SUFFICES ASSUME PlayInv PROVE TapeIsFollowed
    OBVIOUS
  <2>1. CopiesAreOnTape
    BY DEF PlayInv
  <2>2. ReplayIsComplete
    BY RunAssumption DEF PlayInv, PlaceInv, PosInv, RunTypeOK, ReplayIsComplete
  <2> QED BY <2>1, <2>2 DEF TapeIsFollowed
<1> QED BY <1>1, PlayAlways, PTL
----------------------------------------------------------------------------
(* The sizes of the files *)

\* As long as the program goes on, a file was written to both shares or to none.
BothInv == pc # "failed" =>
  \A n \in FileNames : <<1, n>> \in refused <=> <<2, n>> \in refused

LEMMA BothNext == PlayInv /\ BothInv /\ [RunNext]_runVars => BothInv'
<1> SUFFICES ASSUME PlayInv, BothInv, [RunNext]_runVars PROVE BothInv'
  OBVIOUS
<1>1. CASE GenerateFile
  <2>1. pc = "files" /\ Len(names) < Number /\ RunTypeOK /\ Number \in Nat /\ Len(names) \in Nat
    BY <1>1, RunAssumption DEF GenerateFile, PlayInv, RunTypeOK
  <2>2. CASE UNCHANGED refused
    BY <2>1, <2>2 DEF BothInv
  <2>3. ASSUME NEW drawn \in FileNames, MakeFile(Loaded(pos, "Filename", drawn))
        PROVE  BothInv'
    <3>1. PICK e \in Nat : e = Number + 2 + Len(names)
      BY <2>1
    <3>2. PICK name \in FileNames : name = Loaded(pos, "Filename", drawn)
      BY <2>1, <3>1, NameFound, NothingIsFound
    <3>3. /\ \A n \in FileNames, s \in 1 .. 2 :
               n # name => (<<s, n>> \in refused' <=> <<s, n>> \in refused)
          /\ pc' \in {"files", "failed"}
          /\ pc' = "files" => (<<1, name>> \in refused' <=> <<2, name>> \in refused')
      BY <2>1, <2>3, <3>2, MakeFileIs
    <3>4. ASSUME pc' # "failed", NEW n \in FileNames
          PROVE  <<1, n>> \in refused' <=> <<2, n>> \in refused'
      <4>1. CASE n = name
        BY <3>3, <3>4, <4>1
      <4>2. CASE n # name
        <5>1. <<1, n>> \in refused <=> <<2, n>> \in refused
          BY <2>1 DEF BothInv
        <5> QED BY <3>3, <4>2, <5>1
      <4> QED BY <4>1, <4>2
    <3> QED BY <3>4 DEF BothInv
  <2> QED BY <1>1, <2>2, <2>3 DEF GenerateFile
<1>2. CASE Rerun
  BY <1>2 DEF Rerun, BothInv
<1>3. CASE DrawSize \/ StoreSizes \/ StartCopies \/ Copy \/ Wait \/ Finish
  <2>1. UNCHANGED refused /\ pc # "failed"
    BY <1>3 DEF DrawSize, StoreSizes, StartCopies, Copy, Wait, Finish, files
  <2> QED BY <2>1 DEF BothInv
<1>4. CASE UNCHANGED runVars
  BY <1>4 DEF runVars, files, BothInv
<1> QED BY <1>1, <1>2, <1>3, <1>4 DEF RunNext, Step

\* What was made before stays, unless there is a new file of its name.
LEMMA MakeFileSizes ==
  ASSUME PlayInv, FilesHaveTheirSize, pc = "files", Len(names) < Number,
         NEW name \in FileNames, MakeFile(name), sizes' = sizes
  PROVE  FilesHaveTheirSize'
<1>0. names \in Seq(FileNames) /\ Len(names) \in Nat /\ DOMAIN names = 1 .. Len(names)
  BY DEF PlayInv, RunTypeOK
<1>1. /\ names' = Append(names, name)
      /\ \A n \in FileNames, s \in 1 .. 2 : n # name =>
           /\ <<s, n>> \in refused' <=> <<s, n>> \in refused
           /\ shares'[s][n] = shares[s][n]
      /\ \A s \in 1 .. 2 : <<s, name>> \notin refused' =>
           HasSize(shares'[s][name], sizes[Len(names) + 1])
  BY MakeFileIs
<1>2. /\ DOMAIN names' = 1 .. Len(names) + 1 /\ names'[Len(names) + 1] = name
      /\ \A i \in 1 .. Len(names) : names'[i] = names[i]
  BY <1>0, <1>1
<1>3. ASSUME NEW i \in DOMAIN names', \A j \in DOMAIN names' : names'[j] = names'[i] => j <= i,
             NEW s \in 1 .. 2, <<s, names'[i]>> \notin refused'
      PROVE  HasSize(shares'[s][names'[i]], sizes[i])
  <2>1. CASE i = Len(names) + 1
    BY <1>1, <1>2, <1>3, <2>1
  <2>2. CASE i # Len(names) + 1
    <3>1. i \in 1 .. Len(names) /\ names'[i] = names[i] /\ ~ (Len(names) + 1 <= i)
      BY <1>0, <1>2, <2>2
    <3>2. names[i] # name /\ names[i] \in FileNames
      BY <1>0, <1>2, <1>3, <3>1
    <3>3. MadeLast(i)
      BY <1>0, <1>2, <1>3, <3>1 DEF MadeLast
    <3>4. <<s, names[i]>> \notin refused
      BY <1>1, <1>3, <3>1, <3>2
    <3>5. HasSize(shares[s][names[i]], sizes[i])
      BY <1>0, <3>1, <3>3, <3>4 DEF FilesHaveTheirSize
    <3> QED BY <1>1, <3>1, <3>2, <3>5
  <2> QED BY <2>1, <2>2
<1> QED BY <1>3 DEF FilesHaveTheirSize, MadeLast, HasSize

LEMMA FilesNext ==
  PlayInv /\ BothInv /\ FilesHaveTheirSize /\ [RunNext]_runVars => FilesHaveTheirSize'
<1> SUFFICES ASSUME PlayInv, BothInv, FilesHaveTheirSize, [RunNext]_runVars PROVE FilesHaveTheirSize'
  OBVIOUS
<1>0. RunTypeOK /\ PlaceInv /\ Number \in Nat /\ names \in Seq(FileNames) /\ Len(names) \in Nat
  BY RunAssumption DEF PlayInv, RunTypeOK
<1>1. CASE DrawSize \/ StoreSizes \/ Rerun
  <2>1. names' = <<>>
    <3>1. CASE DrawSize
      BY <1>0, <3>1 DEF DrawSize, PlaceInv
    <3>2. CASE StoreSizes
      BY <1>0, <3>2 DEF StoreSizes, PlaceInv
    <3>3. CASE Rerun
      BY <3>3 DEF Rerun
    <3> QED BY <1>1, <3>1, <3>2, <3>3
  <2> QED BY <2>1 DEF FilesHaveTheirSize
<1>2. CASE GenerateFile
  <2>1. pc = "files" /\ Len(names) < Number /\ sizes' = sizes
    BY <1>2 DEF GenerateFile
  <2>2. CASE UNCHANGED <<names, shares, refused>>
    BY <2>1, <2>2 DEF FilesHaveTheirSize, MadeLast, HasSize
  <2>3. ASSUME NEW drawn \in FileNames, MakeFile(Loaded(pos, "Filename", drawn))
        PROVE  FilesHaveTheirSize'
    <3>1. PICK e \in Nat : e = Number + 2 + Len(names)
      BY <1>0
    <3>2. Loaded(pos, "Filename", drawn) \in FileNames
      BY <2>1, <3>1, NameFound, NothingIsFound
    <3>3. PICK name \in FileNames : name = Loaded(pos, "Filename", drawn)
      BY <3>2
    <3>4. MakeFile(name)
      BY <2>3, <3>3
    <3> QED BY <2>1, <3>4, MakeFileSizes
  <2> QED BY <1>2, <2>2, <2>3 DEF GenerateFile
<1>3. CASE Copy
  <2>1. \A s \in 1 .. 2, n \in FileNames : \E origin \in 1 .. 2 : shares'[s][n] = shares[origin][n]
    BY <1>3, CopyIs
  <2>2. UNCHANGED <<names, sizes, refused>>
    BY <1>3 DEF Copy
  <2>3. ASSUME NEW i \in DOMAIN names, MadeLast(i), NEW s \in 1 .. 2, <<s, names[i]>> \notin refused
        PROVE  HasSize(shares'[s][names[i]], sizes[i])
    <3>1. PICK origin \in 1 .. 2 : shares'[s][names[i]] = shares[origin][names[i]]
      BY <1>0, <2>1
    <3>2. <<1, names[i]>> \in refused <=> <<2, names[i]>> \in refused
      BY <1>0, <1>3 DEF Copy, BothInv
    <3>3. <<origin, names[i]>> \notin refused
      BY <2>3, <3>2
    <3> QED BY <2>3, <3>1, <3>3 DEF FilesHaveTheirSize
  <2> QED BY <2>2, <2>3 DEF FilesHaveTheirSize, MadeLast, HasSize
<1>4. CASE StartCopies \/ Wait \/ Finish \/ UNCHANGED runVars
  <2>1. UNCHANGED files
    BY <1>4 DEF StartCopies, Wait, Finish, runVars
  <2> QED BY <2>1 DEF files, FilesHaveTheirSize, MadeLast, HasSize
<1> QED BY <1>1, <1>2, <1>3, <1>4 DEF RunNext, Step

\* A file has the size that was drawn for it on every share that let it be
\* opened, whatever is copied over it, for any sizes and any block.
THEOREM FilesKeepTheirSize == RunSpec => []FilesHaveTheirSize
<1>1. RunInit => FilesHaveTheirSize /\ BothInv
  BY DEF RunInit, FilesHaveTheirSize, BothInv
<1> QED BY <1>1, PlayAlways, BothNext, FilesNext, PTL DEF RunSpec
----------------------------------------------------------------------------
(* The sum of the sizes *)

\* What was drawn so far adds up to what was taken off.
Drawn ==
  \E sum \in [0 .. Len(sizes) -> 0 .. total] :
    /\ sum[0] = 0 /\ sum[Len(sizes)] = total - left
    /\ \A i \in 1 .. Len(sizes) : sum[i] = sum[i - 1] + sizes[i]

OnTapeSizes == [i \in 1 .. Number |-> tape[i + 1].value]

\* The first draw may fail for want of a byte, and no draw after it.
SumInv ==
  /\ pc = "sizes" => Drawn /\ ((sizes = <<>> /\ left = total) \/ left > Number - Len(sizes))
  /\ Len(tape) > Number => Fit(OnTapeSizes, total)
  /\ pc # "sizes" /\ Len(sizes) = Number /\ (~ Replay \/ Len(tape) \notin 2 .. Number) =>
       Fit(sizes, total)
  /\ pc = "crashed" /\ Len(sizes) < Number => total = Number /\ sizes = <<>>

LEMMA EmptySum ==
  ASSUME NEW n \in Nat
  PROVE  \E sum \in [0 .. 0 -> 0 .. n] : sum[0] = 0
<1>1. PICK sum : sum = [i \in 0 .. 0 |-> 0]
  OBVIOUS
<1>2. sum \in [0 .. 0 -> 0 .. n] /\ sum[0] = 0
  BY <1>1
<1> QED BY <1>2

LEMMA SumInit == RunInit => SumInv
<1> SUFFICES ASSUME RunInit PROVE SumInv
  OBVIOUS
<1>1. total \in Nat /\ sizes = <<>> /\ left = total /\ Len(tape) = 0 /\ pc = "sizes" /\ Number \in Nat
  BY RunAssumption DEF RunInit
<1>2. Drawn
  <2>1. Len(sizes) = 0 /\ total - left = 0 /\ 1 .. Len(sizes) = {}
    BY <1>1
  <2> QED BY <1>1, <2>1, EmptySum DEF Drawn
<1> QED BY <1>1, <1>2 DEF SumInv

LEMMA DrawSizeAdds == PlayInv /\ SumInv /\ DrawSize => SumInv'
<1> SUFFICES ASSUME PlayInv, SumInv, DrawSize PROVE SumInv'
  OBVIOUS
<1>0. /\ Number \in Nat \ {0} /\ total \in Nat /\ total >= Number /\ left \in 0 .. total
      /\ sizes \in Seq(0 .. total) /\ Len(sizes) \in Nat /\ Len(sizes) < Number
      /\ pc = "sizes" /\ Drawn /\ ((sizes = <<>> /\ left = total) \/ left > Number - Len(sizes))
      /\ UNCHANGED <<mode, total, tape>>
  BY RunAssumption DEF PlayInv, RunTypeOK, DrawSize, SumInv
<1>1. Len(tape') > Number => Fit(OnTapeSizes, total)'
  <2>1. tape' = tape /\ total' = total
    BY <1>0
  <2>2. Len(tape) > Number => Fit(OnTapeSizes, total)
    BY DEF SumInv
  <2>3. Fit(OnTapeSizes, total)' <=> Fit(OnTapeSizes, total)
    <3>1. OnTapeSizes' = OnTapeSizes
      BY <2>1 DEF OnTapeSizes
    <3> QED BY <2>1, <3>1 DEF Fit
  <2> QED BY <2>1, <2>2, <2>3, Zenon
<1>2. PICK n \in Int : n = left - (Number - Len(sizes))
  <2>1. left \in Int /\ Number \in Int /\ Len(sizes) \in Int
    BY <1>0
  <2> QED BY <2>1
<1>3. CASE n = 0 /\ pc' = "crashed" /\ UNCHANGED <<left, sizes>>
  <2>1. sizes = <<>> /\ total = Number
    <3>1. ~ (left > Number - Len(sizes))
      BY <1>0, <1>2, <1>3
    <3>2. sizes = <<>> /\ left = total /\ Len(sizes) = 0
      BY <1>0, <3>1
    <3> QED BY <1>0, <1>2, <1>3, <3>2
  <2>2. Len(sizes') < Number
    BY <1>0, <1>3
  <2> QED BY <1>0, <1>1, <1>3, <2>1, <2>2 DEF SumInv
<1>4. ASSUME NEW s \in 0 .. n - 1, sizes' = Append(sizes, s), left' = left - s, pc' = pc
      PROVE  SumInv'
  <2>1. s \in 0 .. total /\ left' \in 0 .. total
    BY <1>0, <1>2, <1>4
  <2>2. /\ Len(sizes') = Len(sizes) + 1 /\ sizes'[Len(sizes) + 1] = s
        /\ \A i \in 1 .. Len(sizes) : sizes'[i] = sizes[i]
    BY <1>0, <1>4, <2>1
  <2>3. left' > Number - Len(sizes')
    BY <1>0, <1>2, <1>4, <2>2
  <2>4. PICK sum \in [0 .. Len(sizes) -> 0 .. total] :
          /\ sum[0] = 0 /\ sum[Len(sizes)] = total - left
          /\ \A i \in 1 .. Len(sizes) : sum[i] = sum[i - 1] + sizes[i]
    BY <1>0 DEF Drawn
  <2>5. PICK m \in Nat : m = Len(sizes)
    BY <1>0
  <2>6. PICK sum2 : sum2 = [i \in 0 .. m + 1 |-> IF i = m + 1 THEN total - left' ELSE sum[i]]
    OBVIOUS
  <2>7. sum2 \in [0 .. m + 1 -> 0 .. total]
    <3>1. total - left' \in 0 .. total
      <4>1. \A l \in 0 .. total : total - l \in 0 .. total
        BY <1>0
      <4> QED BY <2>1, <4>1
    <3>2. \A i \in 0 .. m + 1 : i # m + 1 => i \in 0 .. m
      BY <2>5
    <3> QED BY <2>4, <2>5, <2>6, <3>1, <3>2
  <2>8. sum2[0] = 0 /\ sum2[m + 1] = total - left'
    BY <2>4, <2>5, <2>6
  <2>9. ASSUME NEW i \in 1 .. m + 1 PROVE sum2[i] = sum2[i - 1] + sizes'[i]
    <3>1. CASE i = m + 1
      <4>1. i - 1 = m /\ m \in 0 .. m + 1 /\ m # m + 1
        BY <2>5, <3>1
      <4>2. sum2[i - 1] = total - left /\ sum2[i] = total - left'
        BY <2>4, <2>5, <2>6, <2>8, <3>1, <4>1
      <4>3. sizes'[i] = s
        BY <2>2, <2>5, <3>1
      <4> QED BY <1>0, <1>4, <2>1, <4>2, <4>3
    <3>2. CASE i # m + 1
      <4>1. i \in 1 .. m /\ i - 1 \in 0 .. m + 1 /\ i - 1 # m + 1 /\ i \in 0 .. m + 1
        BY <2>5, <3>2
      <4>2. sum2[i] = sum[i] /\ sum2[i - 1] = sum[i - 1] /\ sizes'[i] = sizes[i]
        BY <2>2, <2>5, <2>6, <3>2, <4>1
      <4> QED BY <2>4, <2>5, <4>1, <4>2
    <3> QED BY <3>1, <3>2
  <2>10. Drawn'
    BY <1>0, <2>2, <2>5, <2>7, <2>8, <2>9 DEF Drawn
  <2> QED BY <1>0, <1>1, <1>4, <2>3, <2>10 DEF SumInv
<1> QED BY <1>2, <1>3, <1>4 DEF DrawSize

\* The last size is what is left, and its own draw is lost: it still fits.
LEMMA SizedFits ==
  ASSUME PlayInv, SumInv, pc = "sizes", Len(sizes) = Number,
         NEW sized, sized = [sizes EXCEPT ![Number] = left]
  PROVE  Fit(sized, total) /\ sized \in [1 .. Number -> 0 .. total] /\ Len(sized) = Number
<1>0. /\ Number \in Nat \ {0} /\ total \in Nat /\ left \in 0 .. total
      /\ sizes \in Seq(0 .. total) /\ sizes \in [1 .. Number -> 0 .. total] /\ Drawn
  <2>1. /\ Number \in Nat \ {0} /\ total \in Nat /\ left \in 0 .. total
        /\ sizes \in Seq(0 .. total) /\ Drawn
    BY RunAssumption DEF PlayInv, RunTypeOK, SumInv
  <2> QED BY <2>1
<1>1. /\ sized \in [1 .. Number -> 0 .. total] /\ sized \in Seq(0 .. total) /\ Len(sized) = Number
      /\ sized[Number] = left /\ \A i \in 1 .. Number : i # Number => sized[i] = sizes[i]
  BY <1>0
<1>2. PICK sum \in [0 .. Number -> 0 .. total] :
        /\ sum[0] = 0 /\ sum[Number] = total - left
        /\ \A i \in 1 .. Number : sum[i] = sum[i - 1] + sizes[i]
  BY <1>0 DEF Drawn
<1>3. sum[Number - 1] \in 0 .. total /\ sum[Number - 1] + left \in 0 .. total
  <2>1. Number \in 1 .. Number /\ Number - 1 \in 0 .. Number
    BY <1>0
  <2>2. sum[Number] = sum[Number - 1] + sizes[Number] /\ sizes[Number] \in 0 .. total
        /\ sum[Number - 1] \in 0 .. total
    BY <1>0, <1>2, <2>1
  <2>3. PICK a \in 0 .. total, b \in 0 .. total : a = sum[Number - 1] /\ b = sizes[Number]
    BY <2>2
  <2>4. a + b = total - left
    BY <1>2, <2>2, <2>3
  <2>5. total \in Nat /\ left \in 0 .. total
    BY <1>0
  <2>6. a + left \in 0 .. total
    BY <2>4, <2>5
  <2> QED BY <2>3, <2>6
<1>4. PICK sum2 : sum2 = [sum EXCEPT ![Number] = sum[Number - 1] + left]
  OBVIOUS
<1>5. sum2 \in [0 .. Number -> 0 .. total] /\ sum2[0] = 0
  <2>1. 0 \in 0 .. Number /\ 0 # Number
    BY <1>0
  <2>2. sum2 \in [0 .. Number -> 0 .. total]
    BY <1>3, <1>4
  <2>3. sum2[0] = sum[0] /\ sum[0] = 0
    BY <1>2, <1>4, <2>1
  <2> QED BY <2>2, <2>3
<1>6. ASSUME NEW i \in 1 .. Number PROVE sum2[i] = sum2[i - 1] + sized[i]
  <2>1. i \in 0 .. Number /\ i - 1 \in 0 .. Number /\ i - 1 # Number
    BY <1>0
  <2>2. sum2[i - 1] = sum[i - 1]
    BY <1>4, <2>1
  <2>3. CASE i = Number
    BY <1>1, <1>4, <2>1, <2>2, <2>3
  <2>4. CASE i # Number
    BY <1>1, <1>2, <1>4, <2>1, <2>2, <2>4
  <2> QED BY <2>3, <2>4
<1> QED BY <1>1, <1>5, <1>6 DEF Fit

LEMMA StoreSizesAdds == PlayInv /\ SumInv /\ StoreSizes => SumInv'
<1> SUFFICES ASSUME PlayInv, SumInv, StoreSizes PROVE SumInv'
  OBVIOUS
<1>0. /\ pc = "sizes" /\ Len(sizes) = Number /\ pc' = "files" /\ mode' = mode /\ total' = total
      /\ Number \in Nat /\ total \in Nat /\ Len(tape) \in Nat
  BY RunAssumption DEF StoreSizes, PlayInv, RunTypeOK
<1>1. PICK sized : sized = [sizes EXCEPT ![Number] = left]
  OBVIOUS
<1>2. Fit(sized, total) /\ sized \in [1 .. Number -> 0 .. total] /\ Len(sized) = Number
  BY <1>0, <1>1, SizedFits
<1>3. /\ sizes' \in Seq(0 .. total) /\ Len(sizes') = Number
      /\ Replay =>
           /\ tape' = tape
           /\ \A i \in 1 .. Number :
                sizes'[i] = IF i + 1 <= Len(tape) THEN tape[i + 1].value ELSE sized[i]
      /\ ~ Replay => \A i \in 1 .. Number : tape'[i + 1].value = sized[i] /\ sizes'[i] = sized[i]
  BY <1>1, StoreSizesIs
<1>4. sizes' \in [1 .. Number -> 0 .. total]
  <2>1. PICK z : z = sizes'
    OBVIOUS
  <2>2. z \in Seq(0 .. total) /\ Len(z) = Number
    BY <1>3, <2>1
  <2>3. z \in [1 .. Number -> 0 .. total]
    BY <2>2, LenProperties
  <2> QED BY <2>1, <2>3
<1>5. CASE Replay
  <2>1. Len(tape') > Number => Fit(OnTapeSizes, total)'
    <3>1. OnTapeSizes' = OnTapeSizes
      BY <1>3, <1>5 DEF OnTapeSizes
    <3> QED BY <1>0, <1>3, <1>5, <3>1 DEF SumInv, Fit
  <2>2. CASE Len(tape) > Number
    <3>1. \A i \in 1 .. Number : sizes'[i] = OnTapeSizes[i]
      BY <1>0, <1>3, <1>5, <2>2 DEF OnTapeSizes
    <3>2. sizes' = [i \in 1 .. Number |-> sizes'[i]]
      BY <1>4
    <3>3. sizes' = OnTapeSizes
      BY <3>1, <3>2 DEF OnTapeSizes
    <3>4. Fit(OnTapeSizes, total)
      BY <2>2 DEF SumInv
    <3> QED BY <1>0, <1>3, <1>5, <2>1, <3>3, <3>4 DEF SumInv, Fit, Replay
  <2>3. CASE Len(tape) <= 1
    <3>1. sizes' = sized
      <4>1. \A i \in 1 .. Number : sizes'[i] = sized[i]
        BY <1>0, <1>3, <1>5, <2>3
      <4> QED BY <1>2, <1>4, <4>1
    <3> QED BY <1>0, <1>2, <1>3, <1>5, <2>1, <3>1 DEF SumInv, Fit, Replay
  <2>4. CASE Len(tape) \in 2 .. Number
    BY <1>0, <1>3, <1>5, <2>1, <2>4 DEF SumInv, Replay
  <2> QED BY <1>0, <2>2, <2>3, <2>4
<1>6. CASE ~ Replay
  <2>1. sizes' = sized
    BY <1>2, <1>3, <1>4, <1>6
  <2>2. OnTapeSizes' = sized
    <3>1. OnTapeSizes' = [i \in 1 .. Number |-> tape'[i + 1].value]
      BY DEF OnTapeSizes
    <3>2. \A i \in 1 .. Number : tape'[i + 1].value = sized[i]
      BY <1>3, <1>6
    <3> QED BY <1>2, <3>1, <3>2
  <2> QED BY <1>0, <1>2, <1>3, <2>1, <2>2 DEF SumInv, Fit
<1> QED BY <1>5, <1>6

\* What is recorded later leaves the sizes in the file.
LEMMA RecordedLater ==
  ASSUME tape \in Seq(TapeItem), NEW items, NEW n \in Nat, items \in [1 .. n -> {items[i] : i \in 1 .. n}],
         tape' = Recorded(items)
  PROVE  /\ Replay => tape' = tape
         /\ \A p \in 1 .. Len(tape) : tape'[p] = tape[p]
<1>1. CASE mode = "record"
  <2>1. PICK S : S = TapeItem \cup {items[i] : i \in 1 .. n}
    OBVIOUS
  <2>2. tape \in Seq(S)
    <3>1. tape \in [1 .. Len(tape) -> S] /\ Len(tape) \in Nat
      BY <2>1
    <3> QED BY <3>1
  <2>3. items \in Seq(S)
    <3>1. items \in [1 .. n -> S]
      BY <2>1
    <3> QED BY <3>1
  <2>4. tape' = tape \o items
    BY <1>1 DEF Recorded
  <2> QED BY <1>1, <2>2, <2>3, <2>4 DEF Replay
<1>2. CASE mode # "record"
  BY <1>2 DEF Recorded
<1> QED BY <1>1, <1>2

LEMMA LaterAdds ==
  ASSUME PlayInv, SumInv, GenerateFile \/ StartCopies \/ Copy \/ Wait \/ Finish
  PROVE  SumInv'
<1>0. /\ pc \in {"files", "copies", "wait"} /\ pc' # "sizes" /\ Len(sizes) = Number
      /\ sizes' = sizes /\ total' = total /\ mode' = mode
      /\ Number \in Nat /\ Len(tape) \in Nat /\ tape \in Seq(TapeItem)
  <2>1. /\ pc \in {"files", "copies", "wait"} /\ sizes' = sizes /\ total' = total /\ mode' = mode
    BY DEF GenerateFile, StartCopies, Copy, Wait, Finish, files
  <2>2. pc' # "sizes"
    <3>1. CASE Copy
      BY <3>1, CopyIs
    <3>2. CASE GenerateFile
      BY <2>1, <3>2 DEF GenerateFile, MakeFile
    <3>3. CASE StartCopies \/ Wait \/ Finish
      BY <3>3 DEF StartCopies, Wait, Finish
    <3> QED BY <3>1, <3>2, <3>3
  <2> QED BY <2>1, <2>2, RunAssumption DEF PlayInv, PlaceInv, RunTypeOK, TapeItem
<1>1. /\ Replay => tape' = tape
      /\ \A p \in 1 .. Len(tape) : tape'[p] = tape[p]
  <2>1. \A a : /\ <<a>> \in [1 .. 1 -> {<<a>>[i] : i \in 1 .. 1}]
    OBVIOUS
  <2>2. \A a, b : <<a, b>> \in [1 .. 2 -> {<<a, b>>[i] : i \in 1 .. 2}]
    OBVIOUS
  <2>3. CASE tape' = tape
    BY <2>3
  <2>4. ASSUME NEW a, tape' = Recorded(<<a>>)
        PROVE  (Replay => tape' = tape) /\ \A p \in 1 .. Len(tape) : tape'[p] = tape[p]
    BY <1>0, <2>1, <2>4, RecordedLater
  <2>5. ASSUME NEW a, NEW b, tape' = Recorded(<<a, b>>)
        PROVE  (Replay => tape' = tape) /\ \A p \in 1 .. Len(tape) : tape'[p] = tape[p]
    BY <1>0, <2>2, <2>5, RecordedLater
  <2>6. \/ tape' = tape
        \/ \E a : tape' = Recorded(<<a>>)
        \/ \E a, b : tape' = Recorded(<<a, b>>)
    <3>1. CASE GenerateFile
      BY <3>1 DEF GenerateFile, MakeFile
    <3>2. CASE StartCopies
      BY <3>2 DEF StartCopies
    <3>3. CASE Copy
      <4>1. \E file \in 1 .. Number, read \in 0 .. 1 :
              tape' = Recorded(<<Item("file", file), Item("just_read", read)>>)
        BY <3>3, CopyIs
      <4> QED BY <4>1
    <3>4. CASE Wait
      <4>1. \E wait \in Waits : tape' = Recorded(<<Item("wait", wait)>>)
        BY <3>4, WaitIs
      <4> QED BY <4>1
    <3>5. CASE Finish
      BY <3>5 DEF Finish
    <3> QED BY <3>1, <3>2, <3>3, <3>4, <3>5
  <2> QED BY <2>3, <2>4, <2>5, <2>6
<1>2. Len(tape') > Number => Len(tape) > Number
  <2>1. CASE Replay
    BY <1>1, <2>1
  <2>2. CASE ~ Replay
    <3>1. Len(tape) = Past
      BY <2>2 DEF PlayInv, PosInv
    <3>2. Past > Number
      <4>1. Len(names) \in Nat /\ Len(trace) \in Nat /\ Number \in Nat
        BY <1>0 DEF PlayInv, RunTypeOK
      <4>2. \/ Past = Number + 1 + Len(names)
            \/ Past = 2 * Number + 3 + 3 * Len(trace)
            \/ Past = 2 * Number + 2 + 3 * Len(trace)
        BY <1>0 DEF Past
      <4> QED BY <4>1, <4>2
    <3> QED BY <3>1, <3>2
  <2> QED BY <2>1, <2>2
<1>3. Len(tape') > Number => Fit(OnTapeSizes, total)'
  <2>1. ASSUME Len(tape') > Number PROVE OnTapeSizes' = OnTapeSizes
    <3>1. \A i \in 1 .. Number : i + 1 \in 1 .. Len(tape)
      BY <1>0, <1>2, <2>1
    <3> QED BY <1>1, <3>1 DEF OnTapeSizes
  <2> QED BY <1>0, <1>2, <2>1 DEF SumInv, Fit
<1>4. (~ Replay' \/ Len(tape') \notin 2 .. Number) => Fit(sizes, total)'
  <2>1. (~ Replay \/ Len(tape) \notin 2 .. Number) => Fit(sizes, total)
    BY <1>0 DEF SumInv
  <2>2. Replay' <=> Replay
    BY <1>0 DEF Replay
  <2>3. Fit(sizes, total)' <=> Fit(sizes, total)
    BY <1>0 DEF Fit
  <2> QED BY <1>1, <2>1, <2>2, <2>3
<1>5. Len(sizes') = Number
  BY <1>0
<1> QED BY <1>0, <1>3, <1>4, <1>5 DEF SumInv

LEMMA RerunAdds == PlayInv /\ SumInv /\ Rerun => SumInv'
<1> SUFFICES ASSUME PlayInv, SumInv, Rerun PROVE SumInv'
  OBVIOUS
<1>0. /\ pc' = "sizes" /\ sizes' = <<>> /\ left' = total /\ total' = total
      /\ Number \in Nat /\ total \in Nat /\ Len(tape) \in Nat /\ tape \in Seq(TapeItem)
  BY RunAssumption DEF Rerun, PlayInv, RunTypeOK, TapeItem
<1>1. PICK n \in 0 .. Len(tape) : tape' = SubSeq(tape, 1, n)
  <2>1. PICK n \in IF pc \in {"done", "failed"} THEN {Len(tape)} ELSE 0 .. Len(tape) : tape' = SubSeq(tape, 1, n)
    BY DEF Rerun
  <2>2. n \in 0 .. Len(tape)
    BY <1>0, <2>1
  <2> QED BY <2>1, <2>2
<1>2. Len(tape') = n /\ \A p \in 1 .. n : tape'[p] = tape[p]
  BY <1>0, <1>1
<1>3. Len(tape') > Number => Fit(OnTapeSizes, total)'
  <2>1. ASSUME Len(tape') > Number PROVE OnTapeSizes' = OnTapeSizes /\ Len(tape) > Number
    <3>1. \A i \in 1 .. Number : i + 1 \in 1 .. n
      BY <1>0, <1>2, <2>1
    <3>2. OnTapeSizes' = OnTapeSizes
      BY <1>2, <3>1 DEF OnTapeSizes
    <3> QED BY <1>0, <1>2, <2>1, <3>2
  <2> QED BY <1>0, <2>1 DEF SumInv, Fit
<1>4. Drawn'
  <2>1. Len(sizes') = 0 /\ total' - left' = 0 /\ 1 .. Len(sizes') = {}
    BY <1>0
  <2> QED BY <1>0, <2>1, EmptySum DEF Drawn
<1>5. pc' # "crashed" /\ left' = total' /\ sizes' = <<>>
  BY <1>0
<1> QED BY <1>0, <1>3, <1>4, <1>5 DEF SumInv

LEMMA SumNext == PlayInv /\ SumInv /\ [RunNext]_runVars => SumInv'
<1> SUFFICES ASSUME PlayInv, SumInv, [RunNext]_runVars PROVE SumInv'
  OBVIOUS
<1>1. CASE DrawSize
  BY <1>1, DrawSizeAdds
<1>2. CASE StoreSizes
  BY <1>2, StoreSizesAdds
<1>3. CASE GenerateFile \/ StartCopies \/ Copy \/ Wait \/ Finish
  BY <1>3, LaterAdds
<1>4. CASE Rerun
  BY <1>4, RerunAdds
<1>5. CASE UNCHANGED runVars
  <2>1. UNCHANGED <<mode, pc, total, left, sizes, tape>>
    BY <1>5 DEF runVars, files
  <2>2. (Drawn' <=> Drawn) /\ (Replay' <=> Replay)
    BY <2>1 DEF Drawn, Replay
  <2>3. /\ Fit(sizes, total)' <=> Fit(sizes, total)
        /\ Fit(OnTapeSizes, total)' <=> Fit(OnTapeSizes, total)
    BY <2>1 DEF Fit, OnTapeSizes
  <2> QED BY <2>1, <2>2, <2>3 DEF SumInv
<1> QED BY <1>1, <1>2, <1>3, <1>4, <1>5 DEF RunNext, Step

\* The sizes of a run never add up to more than was asked for, nor those of a
\* replay; and the division by zero needs a byte for every file and no more.
THEOREM SizesStayWithin == RunSpec => []SizesFit
<1>1. PlayInv /\ SumInv => SizesFit
  <2> SUFFICES ASSUME PlayInv, SumInv PROVE SizesFit
    OBVIOUS
  <2>0. Number \in Nat /\ total \in Nat /\ Len(sizes) \in Nat /\ Len(sizes) <= Number
    BY RunAssumption DEF PlayInv, RunTypeOK
  <2>1. ASSUME ~ Replay \/ Len(tape) \notin 2 .. Number PROVE Fit(sizes, total)
    <3>1. CASE pc = "sizes"
      BY <3>1 DEF SumInv, Drawn, Fit
    <3>2. CASE pc # "sizes" /\ Len(sizes) = Number
      BY <2>1, <3>2 DEF SumInv
    <3>3. CASE pc # "sizes" /\ Len(sizes) # Number
      <4>1. pc = "crashed" /\ Len(sizes) < Number
        BY <2>0, <3>3 DEF PlayInv, PlaceInv, RunTypeOK
      <4>2. sizes = <<>>
        BY <4>1 DEF SumInv
      <4>3. Len(sizes) = 0 /\ 1 .. Len(sizes) = {}
        BY <4>2
      <4> QED BY <2>0, <4>3, EmptySum DEF Fit
    <3> QED BY <3>1, <3>2, <3>3
  <2>2. pc = "crashed" /\ Len(sizes) < Number => total = Number
    BY DEF SumInv
  <2> QED BY <2>1, <2>2 DEF SizesFit
<1> QED BY <1>1, SumInit, SumNext, PlayAlways, PTL DEF RunSpec
=============================================================================
