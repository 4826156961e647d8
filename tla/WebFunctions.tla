---------------------------- MODULE WebFunctions ----------------------------
(***************************************************************************)
(* websmbta: the server processes and the one file they share.             *)
(*                                                                         *)
(* Every command of the overview page is run by a server process as a      *)
(* shell line `smbtaquery ... -o html > $tmp/function.html', after which   *)
(* the process opens, reads and deletes that file.  The name is the same   *)
(* for all processes, so that requests write, read and delete each other's *)
(* file.  A file is an inode: a command goes on writing to the one it      *)
(* opened after the name has been removed.                                 *)
(*                                                                         *)
(* Who asks, and what becomes of the answers, is in WebPanels.             *)
(***************************************************************************)
EXTENDS Naturals, FiniteSets, Sequences

CONSTANTS Process,   \* server processes, each serves one request at a time
          Function,  \* the commands
          System,    \* one of them: smbtad-report and self-check
          Gap,       \* what nobody has written since the file was emptied
          MaxRow     \* bound on the rows of the table Temp

ASSUME FunctionsAssumption ==
  /\ IsFiniteSet(Process)
  /\ System \in Function /\ Gap \notin Function
  /\ MaxRow \in Nat

VARIABLES call,  \* the request a process serves
          path,  \* the inode function.html names, 0: there is no such file
          body   \* what the inodes hold

functionsVars == <<call, path, body>>

\* Output reaches the file in two writes; a part is named for the command that
\* wrote it.
Output == [1..2 -> Function \cup {Gap}]
OutputOf(f) == [part \in 1..2 |-> f]
Empty == OutputOf(Gap)

\* One inode more than there are processes holding one open is enough.
Inode == 1..(Cardinality(Process) + 1)

\* at: the next step of the process;  todo: the commands to run one after another;
\* ran: how many of them have run;  out: the last output read;  fd: the inode the
\* process has open;  alone: no other request was under way since this one began;
\* robbed: another request deleted the file since this one's command created it.
NoCall == [op |-> "none", at |-> "idle", todo |-> <<>>, ran |-> 0, out |-> Empty,
         fd |-> 0, alone |-> TRUE, robbed |-> FALSE]

Op == {"start", "load", "refresh", "print", "save"}
At == {"create", "first", "second", "open", "read", "delete"}
Call == [op : Op \cup {"none"}, at : At \cup {"idle"}, todo : Seq(Function), ran : Nat,
         out : Output, fd : Inode \cup {0}, alone : BOOLEAN, robbed : BOOLEAN]

FunctionsInit ==
  /\ call = [p \in Process |-> NoCall]
  /\ path = 0 /\ body = [i \in Inode |-> Empty]

Waiting == {p \in Process : call[p].at # "idle"}

\* The inodes that still have a name or that a process other than p has open; the
\* system takes the other ones back.
Held(p) == {path} \cup {call[q].fd : q \in Process \ {p}}
Clear(i) == [body EXCEPT ![i] = Empty]

-----------------------------------------------------------------------------
(* A request arrives.                                                      *)

\* Begin a request that runs the commands todo one after another.
Ask(p, op, todo) ==
  /\ call[p].at = "idle"
  /\ call' = [q \in Process |->
               IF q = p THEN [NoCall EXCEPT !.op = op, !.at = "create", !.todo = todo,
                                          !.alone = (Waiting = {})]
               ELSE IF q \in Waiting THEN [call[q] EXCEPT !.alone = FALSE]
               ELSE call[q]]
  /\ UNCHANGED <<path, body>>

\* start_function, once the row is saved.  For the system get_system_info runs the
\* command and start_function runs it again; both append the redirection to @cmd.
Start(p) == \E f \in Function : Ask(p, "start", IF f = System THEN <<f, f>> ELSE <<f>>)

\* temp_functions, once it has read the table; with no row it runs nothing.
LoadPage(p) ==
  \E n \in 1..MaxRow : \E todo \in [1..n -> Function \ {System}] : Ask(p, "load", todo)

\* refresh_function and printview run the command line a panel carries.
RefreshFunction(p) == \E f \in Function : Ask(p, "refresh", <<f>>)
PrintView(p) == \E f \in Function : Ask(p, "print", <<f>>)

\* save_function takes one redirection off the panel's command line.  A system
\* function has two: it still writes the file.  Any other function writes to the
\* process, which touches nothing that is shared.
SaveFunction(p) == Ask(p, "save", <<System>>)

-----------------------------------------------------------------------------
(* The server process runs the command ...                                 *)

\* The command under way.
Command(p) == call[p].todo[call[p].ran + 1]

\* The shell opens the file for writing, emptying one that is there.
Opened(p) == IF path # 0 THEN path ELSE CHOOSE i \in Inode : i \notin Held(p)

CreateFile(p) ==
  /\ call[p].at = "create"
  /\ LET i == Opened(p) IN
       /\ path' = i
       /\ body' = Clear(i)
       /\ call' = [call EXCEPT ![p] = [@ EXCEPT !.at = "first", !.fd = i, !.robbed = FALSE]]

\* Mutant: the process does not wait for the end of the command.
WriteInBackground(p) ==
  /\ call[p].at = "first"
  /\ body' = [body EXCEPT ![call[p].fd][1] = Command(p)]
  /\ call' = [call EXCEPT ![p] = [@ EXCEPT !.at = "open"]]
  /\ UNCHANGED path

WriteFirst(p) ==
  /\ call[p].at = "first"
  /\ body' = [body EXCEPT ![call[p].fd][1] = Command(p)]
  /\ call' = [call EXCEPT ![p] = [@ EXCEPT !.at = "second"]]
  /\ UNCHANGED path

\* The command ends.  save_function is done with it.
WriteSecond(p) ==
  /\ call[p].at = "second"
  /\ body' = IF call[p].fd \in Held(p) THEN [body EXCEPT ![call[p].fd][2] = Command(p)]
                                      ELSE Clear(call[p].fd)
  /\ call' = [call EXCEPT ![p] = IF @.op = "save" THEN NoCall
                               ELSE [@ EXCEPT !.at = "open", !.fd = 0]]
  /\ UNCHANGED path

(* ... and fetches its output.                                             *)

\* File.open raises when the name is gone: the request ends with an error.
Open(p) ==
  /\ call[p].at = "open"
  /\ call' = [call EXCEPT ![p] = IF path = 0 THEN NoCall
                               ELSE [@ EXCEPT !.at = "read", !.fd = path]]
  /\ UNCHANGED <<path, body>>

Read(p) ==
  /\ call[p].at = "read"
  /\ call' = [call EXCEPT ![p] = [@ EXCEPT !.at = "delete", !.fd = 0,
                                          !.ran = call[p].ran + 1, !.out = body[call[p].fd]]]
  /\ body' = IF call[p].fd \in Held(p) THEN body ELSE Clear(call[p].fd)
  /\ UNCHANGED path

\* File.delete raises when the name is gone, which ends the request as well.
Ends(p) == path = 0 \/ call[p].ran = Len(call[p].todo)

\* Mutant: printview leaves the file.
DeleteFileUnlessPrinted(p) ==
  /\ call[p].at = "delete"
  /\ path' = IF call[p].op = "print" THEN path ELSE 0
  /\ call' = [call EXCEPT ![p] = IF Ends(p) THEN NoCall ELSE [@ EXCEPT !.at = "create"]]
  /\ UNCHANGED body

\* The next command is run, or the request is done with.
DeleteFile(p) ==
  /\ call[p].at = "delete"
  /\ path' = 0
  /\ body' = IF path = 0 \/ \E q \in Process : call[q].fd = path THEN body ELSE Clear(path)
  /\ call' = [q \in Process |->
               IF q = p
               THEN IF Ends(p) THEN NoCall ELSE [call[p] EXCEPT !.at = "create", !.out = Empty]
               ELSE IF path # 0 /\ q \in Waiting THEN [call[q] EXCEPT !.robbed = TRUE]
               ELSE call[q]]

Serve(p) ==
  \/ CreateFile(p) \/ WriteFirst(p) \/ WriteSecond(p)
  \/ Open(p) \/ Read(p) \/ DeleteFile(p)

FunctionsNext ==
  \E p \in Process :
    \/ Start(p) \/ LoadPage(p) \/ RefreshFunction(p) \/ PrintView(p) \/ SaveFunction(p)
    \/ Serve(p)

FunctionsSpec == FunctionsInit /\ [][FunctionsNext]_functionsVars

-----------------------------------------------------------------------------
FunctionsTypeOK ==
  /\ call \in [Process -> Call]
  /\ path \in Inode \cup {0}
  /\ body \in [Inode -> Output]

-----------------------------------------------------------------------------
(* A request that no other one overlaps shows the complete output of its   *)
(* own command, whatever earlier requests left behind in function.html;    *)
(* and File.open and File.delete raise only in a process whose file        *)
(* another request has deleted after reading it, so that one of those that *)
(* meet always gets on.                                                    *)
AloneIsOwn ==
  \A p \in Process :
    /\ call[p].at = "delete" /\ call[p].alone =>
         call[p].out = OutputOf(call[p].todo[call[p].ran])
    /\ call[p].at \in {"open", "delete"} /\ path = 0 => call[p].robbed
    /\ call[p].robbed => ~ call[p].alone

(* When no request is under way function.html is gone, however the last    *)
(* ones ended; the one exception is what save_function left of a system    *)
(* function, whose second redirection it does not take off.                *)
NothingIsLeft ==
  Waiting = {} /\ path # 0 => body[path] = OutputOf(System)

=============================================================================
