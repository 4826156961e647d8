----------------------------- MODULE TortureSrv -----------------------------
(***************************************************************************)
(* smbtatorturesrv (src/torture/srv/smbtatorturesrv.c): it gives the       *)
(* smbtatorture processes that share a test run file names no other of     *)
(* them is using.  One thread selects on the listening socket and all      *)
(* connections, and serves those that are ready in the order of their      *)
(* descriptors.                                                            *)
(*                                                                         *)
(* The clients are smbtatorture (src/torture/smbtatorture.c): one request  *)
(* at a time, each answered with a name; the process may end at any point. *)
(* No descriptor is ever closed, so the k-th connection is descriptor k    *)
(* (0 stands for the listening socket).  The two linked lists are sets: of *)
(* their order only the last entry matters, which is where the end pointer *)
(* of the names points to.                                                 *)
(***************************************************************************)
EXTENDS Naturals, Sequences, FiniteSets

CONSTANTS Names,      \* the file names the two lists can be combined to
          FdLimits,   \* how many descriptors the process may have besides its own
          NoEntry,    \* no entry of the list: NULL, or memory that was freed
          Detached,   \* an entry that is hung to one that was freed
          MaxClients, \* bound: the connections made in one behaviour
          MaxGrants   \* bound: the names in use at a time

ASSUME TortureAssumption ==
  /\ Names # {}
  /\ FdLimits \subseteq Nat
  /\ MaxClients \in Nat
  /\ MaxGrants \in Nat
  /\ NoEntry \notin 1 .. MaxClients
  /\ Detached \notin 1 .. MaxClients /\ Detached # NoEntry

VARIABLES
  fdlimit,        \* the limit this process runs with
  peer,           \* the clients in the order they connected, and what each is doing
  accepted,       \* how many of them have been accepted
  conns,          \* conn_list, without the listening socket
  ready,          \* read_fd_set: descriptors of this round not served yet
  fnamelist,      \* what can be reached from fnamelist_begin
  fnamelist_end,  \* the connection whose entry it points to
  server,         \* the process
  granted         \* history: the entries made for clients not seen to leave

clients == <<peer, granted>>
list == <<fnamelist, fnamelist_end>>
vars == <<fdlimit, clients, accepted, conns, ready, list, server>>

\* A client has connected, waits for an answer, has one to read, or has
\* ended: in good order, with its request still unanswered, or with an
\* answer unread, which resets the connection.
PeerState == {"idle", "asked", "answered", "left", "asked_left", "reset"}

Entry == [filename : Names, socket : 1 .. MaxClients]

Init ==
  /\ fdlimit \in FdLimits
  /\ peer = <<>>
  /\ accepted = 0
  /\ conns = {}
  /\ ready = {}
  /\ fnamelist = {}
  /\ fnamelist_end = NoEntry
  /\ server = "running"
  /\ granted = {}

----------------------------------------------------------------------------
(* smbtatorture *)

Running == server = "running"

Connect ==
  /\ Running
  /\ Len(peer) < MaxClients
  /\ peer' = Append(peer, "idle")
  /\ UNCHANGED <<accepted, conns, ready, list, server, granted>>

Becomes(k, from, to) ==
  /\ peer[k] = from
  /\ peer' = [peer EXCEPT ![k] = to]
  /\ UNCHANGED <<accepted, conns, ready, list, server, granted>>

\* get_random_filename: send "0001f" ...
Ask(k) == Cardinality(granted) < MaxGrants /\ Becomes(k, "idle", "asked")

\* ... and read the answer.
ReadAnswer(k) == Becomes(k, "answered", "idle")

Leave(k) ==
  \/ Becomes(k, "idle", "left")
  \/ Becomes(k, "asked", "asked_left")
  \/ Becomes(k, "answered", "reset")

----------------------------------------------------------------------------
(* handle_network *)

\* select reports a connection to accept, and every request and end.
Readable ==
  {fd \in {0} : accepted < Len(peer)}
    \cup {fd \in conns : peer[fd] \in {"asked", "left", "asked_left", "reset"}}

\* Mutant: the first connection is left out of the set.
SelectNotFirst ==
  /\ Running
  /\ ready = {}
  /\ Readable \ {1} # {}
  /\ ready' = Readable \ {1}
  /\ UNCHANGED <<clients, accepted, conns, list, server>>

\* A new round: every descriptor that is readable.
Select ==
  /\ Running
  /\ ready = {}
  /\ Readable # {}
  /\ ready' = Readable
  /\ UNCHANGED <<clients, accepted, conns, list, server>>

\* The next descriptor of the round.
Serve(fd) ==
  /\ Running
  /\ fd \in ready
  /\ \A other \in ready : fd <= other
  /\ ready' = ready \ {fd}

Exit ==
  /\ server' = "exited"
  /\ UNCHANGED <<clients, accepted, conns, list>>

\* accept fails when there is no descriptor left.
Accept ==
  /\ Serve(0)
  /\ \/ /\ accepted = fdlimit
        /\ Exit
     \/ /\ accepted < fdlimit
        /\ accepted' = accepted + 1
        /\ conns' = conns \cup {accepted + 1}
        /\ UNCHANGED <<clients, list, server>>

----------------------------------------------------------------------------
(* handle_data *)

\* Mutant: the end of a connection is taken for a wrong format as well.
HandleResetOrEnd ==
  \E fd \in ready \ {0} :
    /\ Serve(fd)
    /\ peer[fd] \in {"reset", "left"}
    /\ Exit

\* The first recv fails on a connection that was reset: "wrong format".
HandleReset ==
  \E fd \in ready \ {0} :
    /\ Serve(fd)
    /\ peer[fd] = "reset"
    /\ Exit

\* delete_all_filenames_of_sock frees the entries of the connection and
\* leaves fnamelist_end alone, also when the last entry was one of them.
NotOf(entries, fd) == {e \in entries : e.socket # fd}

DeleteConn(fd) == conns \ {fd}

EndWithout(fd) == IF fnamelist_end = fd THEN NoEntry ELSE fnamelist_end

\* The first recv returns 0: the client has gone.
HandleEnd ==
  \E fd \in ready \ {0} :
    /\ Serve(fd)
    /\ peer[fd] = "left"
    /\ fnamelist' = NotOf(fnamelist, fd)
    /\ fnamelist_end' = EndWithout(fd)
    /\ conns' = DeleteConn(fd)
    /\ granted' = NotOf(granted, fd)
    /\ UNCHANGED <<peer, accepted, server>>

\* Mutant: every entry is made the beginning of the list.
AddFilenameFirst(e) ==
  /\ fnamelist' = {e}
  /\ fnamelist_end' = e.socket
  /\ UNCHANGED server

\* add_filename: an empty list starts again; otherwise the entry is hung to
\* fnamelist_end.  An end that is not the last entry loses it, and writing
\* through one that was freed may end the process.
AddFilename(e) ==
  \/ /\ fnamelist = {} \/ fnamelist_end \notin {NoEntry, Detached}
     /\ fnamelist' = fnamelist \cup {e}
     /\ fnamelist_end' = e.socket
     /\ UNCHANGED server
  \/ /\ fnamelist # {} /\ fnamelist_end \in {NoEntry, Detached}
     /\ fnamelist_end' = Detached
     /\ UNCHANGED fnamelist
     /\ server' \in IF fnamelist_end = NoEntry THEN {"running", "crashed"} ELSE {"running"}

\* Mutant: the existing names are not looked at.
FreeNamesAll == Names

\* The names check_if_filename_exists does not find.
FreeNames == {n \in Names : \A e \in fnamelist : e.filename # n}

\* A request.  The two lists of names have to be opened; then names are
\* drawn until one is not in the list, for ever if there is none.
HandleRequest ==
  \E fd \in ready \ {0} :
    /\ Serve(fd)
    /\ peer[fd] \in {"asked", "asked_left"}
    /\ \/ /\ accepted + 2 > fdlimit
          /\ Exit
       \/ /\ accepted + 2 <= fdlimit
          /\ FreeNames = {}
          /\ server' = "searching"
          /\ UNCHANGED <<clients, accepted, conns, list>>
       \/ /\ accepted + 2 <= fdlimit
          /\ \E n \in FreeNames :
               /\ AddFilename([filename |-> n, socket |-> fd])
               /\ granted' = granted \cup {[filename |-> n, socket |-> fd]}
          /\ peer' = [peer EXCEPT ![fd] = IF @ = "asked" THEN "answered" ELSE "left"]
          /\ UNCHANGED <<accepted, conns>>
----------------------------------------------------------------------------
Client ==
  /\ UNCHANGED fdlimit
  /\ \/ Connect
     \/ \E k \in DOMAIN peer : Ask(k) \/ ReadAnswer(k) \/ Leave(k)

Server ==
  /\ UNCHANGED fdlimit
  /\ Select \/ Accept \/ HandleReset \/ HandleEnd \/ HandleRequest

Next == Client \/ Server

Spec == Init /\ [][Next]_vars

\* The server's thread keeps running; the clients owe nothing.
FairSpec == Spec /\ WF_vars(Server)
----------------------------------------------------------------------------
TypeOK ==
  /\ fdlimit \in FdLimits
  /\ peer \in Seq(PeerState) /\ Len(peer) <= MaxClients
  /\ accepted \in 0 .. Len(peer)
  /\ conns \subseteq 1 .. accepted
  /\ ready \subseteq 0 .. Len(peer)
  /\ fnamelist \subseteq Entry
  /\ fnamelist_end \in 1 .. MaxClients \cup {NoEntry, Detached}
  /\ server \in {"running", "searching", "exited", "crashed"}
  /\ granted \subseteq Entry

(***************************************************************************)
(* What the list holds was given to a client that is still connected, and  *)
(* no name is in it twice: whatever order requests and ends are served in, *)
(* no name outlives its client (lines 124-156).                            *)
(***************************************************************************)
ListIsOfTheClients ==
  /\ \A e, f \in fnamelist : e.filename = f.filename => e = f
  /\ fnamelist \subseteq granted
  /\ \A e \in fnamelist : e.socket \in conns

(***************************************************************************)
(* Two clients that are both connected have the same name only after a     *)
(* third has gone: while all stay the list holds whatever was given, and   *)
(* its end pointer points into it, in whatever order requests, accepts and *)
(* ends are served (lines 124-156).                                        *)
(***************************************************************************)
Gone == 1 .. accepted \ conns

SharedOnlyAfterAnEnd ==
  /\ \A e, f \in granted :
       e.filename = f.filename /\ e.socket # f.socket =>
         Gone \ {e.socket, f.socket} # {}
  /\ Gone = {} =>
       /\ fnamelist = granted
       /\ fnamelist # {} => \E e \in fnamelist : e.socket = fnamelist_end

(***************************************************************************)
(* The server ends only when it runs out of descriptors, when a client     *)
(* leaves with an answer unread, or in the write through a freed end:      *)
(* clients that read what they asked for do not end it (lines 257-266).    *)
(***************************************************************************)
EndsOnly ==
  /\ server = "exited" =>
       \/ accepted + 2 > fdlimit
       \/ \E k \in DOMAIN peer : peer[k] = "reset"
  /\ server = "crashed" => fnamelist_end = Detached

(***************************************************************************)
(* The server is never deaf to a client: every request is answered, unless *)
(* the server has ended or no name is free (lines 308-325).                *)
(***************************************************************************)
Asking(k) == k \in DOMAIN peer /\ peer[k] = "asked"

EveryRequestAnswered ==
  \A k \in 1 .. MaxClients : Asking(k) ~> ~Asking(k) \/ ~Running
=============================================================================
