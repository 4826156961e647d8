---------------------------- MODULE Interpreter ----------------------------
(***************************************************************************)
(* smbtaquery's interpreter (src/query/interpreter.c) and the program      *)
(* around it (src/query/configuration.c): the line of the option -q, then  *)
(* the file of the option -f, whose results are written as one XML         *)
(* document.                                                               *)
(*                                                                         *)
(* A line is interpreted one command at a time.  A command is its name and *)
(* its parameters, and is known by its place in the line: the conditions   *)
(* of a query and the time range of a diagram are the places of the        *)
(* commands they come from.  What the database answers is external: a      *)
(* query gives rows or fails, an object is identified or is not.           *)
(***************************************************************************)
EXTENDS Integers, Sequences, FiniteSets

CONSTANTS Commands,     \* the commands one may write
          MaxCommands,  \* commands in a line
          MaxLines,     \* lines in the file
          Versions      \* three numbers each

Objects == {"file", "share", "user", "domain"}
Modes == {"r", "w", "rw"}
Bound == {"total", "list", "top", "last_activity", "24h_usage", "search", "throughput"}
Names == Objects \cup Bound \cup {"global", "system", "usage", "smbtad-report",
                                  "self-check", "unknown"}
Words == Modes \cup {"", "name", "10", "from", "since", "date", "to", "users",
                     "domains", "days", "asc", "full", "short", "online"}
Slots == 1 .. 6         \* those of arguments[100] that are used
Unset == "?"            \* in the place of a word: an uninitialised pointer
Tags == {"smbta_output", "total", "list", "top", "last_activity", "usage",
         "search", "throughput", "smbtad-report-full", "smbtad-report-short",
         "self-check"}
Ended == {"done", "exited", "crashed"}

ASSUME InterpreterAssumption ==
  /\ \A c \in Commands : c \in [cmd : Names, args : Seq(Words)] /\ Len(c.args) <= 5
  /\ MaxCommands \in Nat \ {0} /\ MaxLines \in Nat \ {0}
  /\ \A v \in Versions : v \in [1 .. 3 -> Nat]

Places == 1 .. MaxCommands

VARIABLES
  pc,       \* "opened", "file", "line", "command", "returned" or Ended
  todo,     \* the options that are still to be run
  source,   \* the option that the line is from
  lines, eof,
  written,  \* what the line is in the file: a line may lack its semicolon, which is
            \* the same as to have it cut
  buffer,   \* what cmd holds: "comment", "blank", or commands, "whole" or "cut"
  again,    \* cmd is what was read before, with one character less
  said,     \* the commands of the line so far
  slots,    \* command_data.arguments
  named, during,    \* obj.sql: its conditions on objects, and on times
  range,    \* obj.from_t and to_t: the command that set them, 0 for none
  title,    \* obj.output_term
  open,     \* the tags of the document that are open
  result,   \* what the last command did
  told      \* what a self-check said of two versions

input == <<todo, source, lines, eof, written, buffer, again>>
object == <<named, during, range, title>>
vars == <<pc, input, said, slots, object, open, result, told>>

Nothing == [cmd |-> "unknown", scope |-> {}, during |-> {}, range |-> 0,
            title |-> 0, foreign |-> {}]

Init ==
  /\ pc = "opened"
  /\ todo \in SUBSET {"query", "file"}
  /\ source = "query" /\ lines = 0 /\ eof = FALSE
  /\ written = "blank" /\ buffer = "blank" /\ again = FALSE
  /\ said = <<>> /\ slots = [i \in Slots |-> Unset]
  /\ named = {} /\ during = {} /\ range = 0 /\ title = 0
  /\ open = <<"smbta_output">>
  /\ result = Nothing /\ told = {}

-----------------------------------------------------------------------------
(* Lines *)

\* The line of -q, which may lack its semicolon
StartQuery ==
  /\ pc = "opened" /\ "query" \in todo
  /\ todo' = todo \ {"query"} /\ source' = "query"
  /\ buffer' \in {"whole", "cut"}
  /\ pc' = "line"
  /\ UNCHANGED <<lines, eof, written, again, said, slots, object, open, result, told>>

OpenFile ==
  /\ pc = "opened" /\ todo = {"file"}
  /\ todo' = {} /\ source' = "file"
  /\ pc' \in {"file", "exited"}
  /\ UNCHANGED <<lines, eof, written, buffer, again, said, slots, object, open, result, told>>

Interpreted(b) == IF b \in {"comment", "blank"} THEN "file" ELSE "line"

\* The last character goes.  It is the end of the line, or, in a last line
\* without one, a character of the line.
ReadLine ==
  /\ pc = "file" /\ ~eof /\ lines < MaxLines
  /\ lines' = lines + 1
  /\ eof' \in BOOLEAN
  /\ written' \in {"comment", "blank", "whole", "cut"}
  /\ eof' => written' # "blank"
  /\ buffer' = IF eof' /\ written' = "whole" THEN "cut" ELSE written'
  /\ pc' = Interpreted(buffer')
  /\ UNCHANGED <<todo, source, again, said, slots, object, open, result, told>>

\* feof is only true after a read that found nothing: the line before is still
\* there and loses one more character
ReadNothing ==
  /\ pc = "file" /\ ~eof /\ lines > 0
  /\ eof' = TRUE /\ again' = TRUE
  /\ buffer' = IF buffer = "whole" THEN "cut" ELSE buffer
  /\ pc' = Interpreted(buffer')
  /\ UNCHANGED <<todo, source, lines, written, said, slots, object, open, result, told>>

CloseFile ==
  /\ pc = "file" /\ eof
  /\ pc' = "opened"
  /\ UNCHANGED <<input, said, slots, object, open, result, told>>

\* What interpreter_run starts with: objects on global, the times and the
\* arguments not initialised
Fresh ==
  /\ said' = <<>> /\ slots' = [i \in Slots |-> Unset]
  /\ named' = {} /\ during' = {} /\ range' = 0 /\ title' = 0
  /\ result' = Nothing /\ told' = {}

\* A line without a semicolon ends the program, and so does a raw SELECT, whose
\* table goes to the document
StartLine ==
  /\ pc = "line"
  /\ pc' \in IF buffer = "cut" THEN {"exited"} ELSE {"command", "exited"}
  /\ Fresh
  /\ UNCHANGED <<input, open>>

\* Nothing of a line is kept for the next one
EndLine ==
  /\ pc = "returned"
  /\ pc' = IF source = "query" THEN "opened" ELSE "file"
  /\ Fresh
  /\ UNCHANGED <<input, open>>

\* The footer closes the root
CloseXml ==
  /\ pc = "opened" /\ todo = {}
  /\ open' = IF open # <<>> /\ Head(open) = "smbta_output" /\ Len(open) = 1
             THEN <<>> ELSE open
  /\ pc' = "done"
  /\ UNCHANGED <<input, said, slots, object, result, told>>

-----------------------------------------------------------------------------
(* Functions: the tag one begins, the tag it closes, and how it comes to an
   end, for a number of arguments and the arguments.  A query that fails gives
   no result, which a function that needs a number does not survive. *)

Outcome(begun, closed, ends, reads) ==
  [begun |-> begun, closed |-> closed, ends |-> ends, reads |-> reads]
Written(tag, reads) == Outcome(tag, tag, "return", reads)
Torn(tag, ends, reads) == Outcome(tag, "", ends, reads)
Silent(reads) == Outcome("", "", "return", reads)
Refused(reads) == Outcome("", "", "exit", reads)
Crashed(reads) == Outcome("", "", "crash", reads)

Total(argc, a) ==
  IF argc # 1 THEN {Refused({})}
  ELSE IF a[1] \in Modes THEN {Written("total", {1}), Torn("total", "crash", {1})}
  ELSE {Torn("total", "exit", {1})}

List(argc, a) ==
  IF argc # 1 THEN {Refused({})}
  ELSE IF a[1] \in {"users", "domains"} THEN {Written("list", {1})}
  ELSE {Refused({1})}

\* The query of the top users by read access has a comma where it needs an
\* AND, and its result is used all the same.  With a mode that does not exist
\* no query is made.
Top(argc, a) ==
  LET reads == 1 .. argc
  IN IF argc \notin {3, 4} THEN {Refused({})}
     ELSE IF (argc = 4 => a[4] = "asc") /\ a[1] = "10" /\ a[2] \in {"users", "domains"}
     THEN {Written("top", reads)} \cup IF a[3] \in Modes THEN {Crashed(reads)} ELSE {}
     ELSE {Refused(reads)}

LastActivity(argc, a) ==
  IF argc # 1 THEN {Refused({})}
  ELSE IF a[1] = "10" THEN {Written("last_activity", {1})} ELSE {Refused({1})}

\* The number of arguments is not looked at
Usage24h(a) ==
  IF a[1] \in Modes THEN {Written("usage", {1}), Torn("usage", "crash", {1})}
  ELSE {Torn("usage", "exit", {1})}

Search(argc) == IF argc # 1 THEN {Refused({})} ELSE {Written("search", {1})}

Throughput(argc, a) ==
  IF argc # 3 THEN {Refused({})}
  ELSE IF a[1] = "10" /\ a[3] \in Modes
  THEN {Written("throughput", 1 .. 3), Crashed(1 .. 3)} ELSE {Refused(1 .. 3)}

\* A diagram: width, height and mode, none of them counted.  It writes no XML.
\* There is no telling what is made of an argument that is not there.
Usage(a) ==
  LET numbers == {a[1], a[2]}
  IN IF numbers \subseteq {"10", "date", Unset} /\ a[3] \in Modes \cup {Unset}
     THEN {Silent(1 .. 3), Crashed(1 .. 3)}
          \cup IF Unset \in numbers \cup {a[3]} THEN {Refused(1 .. 3)} ELSE {}
     ELSE {Refused(1 .. 3)} \cup IF Unset \in numbers THEN {Crashed(1 .. 3)} ELSE {}

\* Mutant: one of the two closes with the tag of the other
SmbtadReportCrossed(argc, a) ==
  IF argc = 1 /\ a[1] \in {"full", "short"}
  THEN {Outcome("smbtad-report-full", "smbtad-report-short", "return", {1})}
  ELSE {Refused({})}

SmbtadReport(argc, a) ==
  IF argc # 1 THEN {Refused({})}
  ELSE IF a[1] = "full" THEN {Written("smbtad-report-full", {1})}
  ELSE IF a[1] = "short" THEN {Written("smbtad-report-short", {1})}
  ELSE {Refused({1})}

SelfCheck == {Written("self-check", {1})}

Outcomes(cmd, argc, a) ==
  CASE cmd = "total" -> Total(argc, a)
    [] cmd = "list" -> List(argc, a)
    [] cmd = "top" -> Top(argc, a)
    [] cmd = "last_activity" -> LastActivity(argc, a)
    [] cmd = "24h_usage" -> Usage24h(a)
    [] cmd = "usage" -> Usage(a)
    [] cmd = "search" -> Search(argc)
    [] cmd = "throughput" -> Throughput(argc, a)
    [] cmd = "smbtad-report" -> SmbtadReport(argc, a)
    [] cmd = "self-check" -> SelfCheck
    [] OTHER -> {Silent({})}

Begin(tags, t) == IF t = "" THEN tags ELSE Append(tags, t)
Close(tags, t) ==
  IF t # "" /\ tags # <<>> /\ tags[Len(tags)] = t
  THEN SubSeq(tags, 1, Len(tags) - 1) ELSE tags

-----------------------------------------------------------------------------
(* Versions *)

\* What atoi finds at the places 0, 2 and 4 of the text of version v
AsRead(v) ==
  <<v[1],
    IF v[1] < 10 THEN v[2] ELSE 0,
    IF v[1] < 10 THEN IF v[2] < 10 THEN v[3] ELSE 0
    ELSE IF v[2] < 10 THEN 0 ELSE v[2] % 10>>

Offline == <<0, 0, 0>>

\* Mutant: the third parts may be equal
VersionsCompareLoose(first, second) ==
  LET gt == [i \in 1 .. 3 |-> first[i] > second[i]]
      newer == gt[1] \/ gt[2] \/ (~gt[2] /\ first[3] >= second[3])
  IN (IF first = Offline THEN {"offline"} ELSE {}) \cup
     {IF newer THEN "larger" ELSE IF first = second THEN "equal" ELSE "smaller"}

VersionsCompare(first, second) ==
  LET gt == [i \in 1 .. 3 |-> first[i] > second[i]]
      newer == gt[1] \/ gt[2] \/ (~gt[2] /\ gt[3])
  IN (IF first = Offline THEN {"offline"} ELSE {}) \cup
     {IF newer THEN "larger" ELSE IF first = second THEN "equal" ELSE "smaller"}

Compared(first, second) ==
  [first |-> first, second |-> second,
   comments |-> VersionsCompare(AsRead(first), AsRead(second))]

-----------------------------------------------------------------------------
(* Objects and times *)

\* Mutant: a file is forgotten, the way a domain is
ArgFlagNoFile(cmd) == IF cmd \in {"share", "user"} THEN 1 ELSE 0

\* Where the times are: behind the name, which a domain has too
ArgFlag(cmd) == IF cmd \in {"file", "share", "user"} THEN 1 ELSE 0

TimeWord(cmd, argc, a) == IF argc < 2 THEN "" ELSE a[1 + ArgFlag(cmd)]

\* The arguments that are taken for a time
TimeArgs(cmd, argc, a) ==
  LET f == ArgFlag(cmd)
  IN CASE TimeWord(cmd, argc, a) = "from" -> {2 + f, 4 + f}
       [] TimeWord(cmd, argc, a) = "since" -> {2 + f}
       [] OTHER -> {}

IsTimed(cmd, argc, a) == TimeArgs(cmd, argc, a) # {}

\* A word that is no time ends the program; there is no telling of one that is
\* not there
Understood(cmd, argc, a) ==
  LET given == {a[i] : i \in TimeArgs(cmd, argc, a)}
  IN IF given \subseteq {"date"} THEN {TRUE}
     ELSE IF given \subseteq {"date", Unset} THEN BOOLEAN ELSE {FALSE}

\* An object that is one row of the database is identified.  Of none or of
\* several the user is asked to choose one by its number; a domain cannot be
\* chosen.  Without identification every object is.
Identified(cmd) ==
  {rows = 1 \/ (number > 0 /\ cmd # "domain") : rows \in 0 .. 2, number \in 0 .. 1}

-----------------------------------------------------------------------------
(* Commands *)

\* The first comma of a line gets a space in front of it, behind which the
\* command has one more argument, an empty one
Arguments(c, last) == IF said = <<>> /\ ~last THEN Append(c.args, "") ELSE c.args

Overlay(args) == [i \in Slots |-> IF i <= Len(args) THEN args[i] ELSE slots[i]]

After(ends, last) ==
  CASE ends = "exit" -> "exited"
    [] ends = "crash" -> "crashed"
    [] OTHER -> IF last THEN "returned" ELSE "command"

Foreign(reads, argc) == {i \in reads : i > argc}

Place == Len(said) + 1

\* interpreter_step: every command needs a space
NoParameter(c, last) ==
  /\ Arguments(c, last) = <<>>
  /\ pc' = "exited"
  /\ UNCHANGED <<said, slots, object, open, result, told>>

NameObject(c, args, last) ==
  LET a == Overlay(args)
      argc == Len(args)
      timed == IsTimed(c.cmd, argc, a)
  IN /\ c.cmd \in Objects
     /\ \E understood \in Understood(c.cmd, argc, a), identified \in Identified(c.cmd) :
          /\ pc' = After(IF understood /\ identified THEN "return" ELSE "exit", last)
          /\ range' = IF timed /\ understood THEN Place ELSE range
          /\ IF understood /\ identified
             THEN /\ named' = named \cup {Place}
                  /\ during' = IF timed THEN during \cup {Place} ELSE during
                  /\ title' = Place
             ELSE UNCHANGED <<named, during, title>>
     /\ result' = [Nothing EXCEPT !.cmd = c.cmd,
                                  !.foreign = Foreign(TimeArgs(c.cmd, argc, a), argc)]
     /\ UNCHANGED <<open, told>>

GoGlobal(c, args, last) ==
  LET a == Overlay(args)
      argc == Len(args)
      timed == IsTimed(c.cmd, argc, a)
  IN /\ c.cmd = "global"
     /\ \E understood \in Understood(c.cmd, argc, a) :
          /\ pc' = After(IF understood THEN "return" ELSE "exit", last)
          /\ range' = IF timed /\ understood THEN Place ELSE range
          /\ IF understood
             THEN /\ named' = {} /\ title' = Place
                  /\ during' = IF timed THEN {Place} ELSE {}
             ELSE UNCHANGED <<named, during, title>>
     /\ result' = [Nothing EXCEPT !.cmd = c.cmd,
                                  !.foreign = Foreign(TimeArgs(c.cmd, argc, a), argc)]
     /\ UNCHANGED <<open, told>>

GoSystem(c, last) ==
  /\ c.cmd = "system"
  /\ named' = {} /\ during' = {} /\ title' = Place
  /\ pc' = After("return", last)
  /\ result' = [Nothing EXCEPT !.cmd = c.cmd]
  /\ UNCHANGED <<range, open, told>>

\* A diagram is drawn over the range of times and knows no other condition
Run(c, args, last) ==
  /\ c.cmd \notin Objects \cup {"global", "system"}
  /\ \E o \in Outcomes(c.cmd, Len(args), Overlay(args)) :
       /\ open' = Close(Begin(open, o.begun), o.closed)
       /\ pc' = After(o.ends, last)
       /\ result' = [cmd |-> c.cmd,
                     scope |-> IF c.cmd \in Bound THEN named ELSE {},
                     during |-> IF c.cmd \in Bound THEN during ELSE {},
                     range |-> IF c.cmd = "usage" THEN range ELSE 0,
                     title |-> IF c.cmd \in Bound THEN title ELSE 0,
                     foreign |-> Foreign(o.reads, Len(args))]
  /\ \/ c.cmd # "self-check" /\ told' = {}
     \/ /\ c.cmd = "self-check"
        /\ \E upstream \in IF args[1] = "online" THEN Versions ELSE {Offline},
              installed, database \in Versions :
             told' = {Compared(upstream, installed), Compared(installed, database)}
  /\ UNCHANGED object

Command(c, last) ==
  /\ pc = "command" /\ Len(said) < MaxCommands
  /\ UNCHANGED input
  /\ LET args == Arguments(c, last)
     IN \/ NoParameter(c, last)
        \/ /\ args # <<>>
           /\ said' = Append(said, c) /\ slots' = Overlay(args)
           /\ \/ NameObject(c, args, last)
              \/ GoGlobal(c, args, last)
              \/ GoSystem(c, last)
              \/ Run(c, args, last)

Stopped == pc \in Ended /\ UNCHANGED vars

Next ==
  \/ StartQuery \/ OpenFile \/ ReadLine \/ ReadNothing \/ CloseFile
  \/ StartLine \/ EndLine \/ CloseXml
  \/ \E c \in Commands, last \in BOOLEAN :
       /\ Len(said) + 1 = MaxCommands => last
       /\ Command(c, last)
  \/ Stopped

Spec == Init /\ [][Next]_vars
-----------------------------------------------------------------------------
(* Properties *)

TypeOK ==
  /\ pc \in {"opened", "file", "line", "command", "returned"} \cup Ended
  /\ todo \subseteq {"query", "file"} /\ source \in {"query", "file"}
  /\ lines \in 0 .. MaxLines /\ eof \in BOOLEAN /\ again \in BOOLEAN
  /\ {written, buffer} \subseteq {"comment", "blank", "whole", "cut"}
  /\ said \in Seq(Commands) /\ Len(said) <= MaxCommands
  /\ slots \in [Slots -> Words \cup {Unset}]
  /\ named \subseteq Places /\ during \subseteq Places
  /\ range \in 0 .. MaxCommands /\ title \in 0 .. MaxCommands
  /\ open \in Seq(Tags)
  /\ result \in [cmd : Names, scope : SUBSET Places, during : SUBSET Places,
                 range : 0 .. MaxCommands, title : 0 .. MaxCommands,
                 foreign : SUBSET Slots]

Resets == {p \in DOMAIN said : said[p].cmd \in {"global", "system"}}
Lasts(p) == \A q \in Resets : q <= p
ObjectPlaces == {p \in DOMAIN said : said[p].cmd \in Objects \cup {"global", "system"}}

\* Times come behind the name.  Those of a domain are looked for where its name
\* is, as if it had none.
TimesAt(cmd) == IF cmd \in {"global", "domain"} THEN 1 ELSE 2
GivesTimes(c) == /\ c.cmd \in Objects \cup {"global"}
                 /\ Len(c.args) >= 2 /\ c.args[TimesAt(c.cmd)] \in {"from", "since"}
TimedPlaces == {p \in DOMAIN said : GivesTimes(said[p])}

\* What a function reports on is the conjunction of the objects that were named
\* since the last "global" or "system" of the line, over the times given with
\* them, and is entitled with the last object.
ScopeIsNamed ==
  result.cmd \in Bound =>
    /\ result.scope = {p \in ObjectPlaces \ Resets : Lasts(p)}
    /\ result.during = {p \in TimedPlaces : Lasts(p)}
    /\ result.title \in ObjectPlaces \cup {0}
    /\ \A p \in ObjectPlaces : p <= result.title

\* A diagram is drawn over the times given last in the line, also when what
\* they were given with is no longer in the scope.
DiagramHasTheLastTimes ==
  result.cmd = "usage" =>
    /\ result.range \in TimedPlaces \cup {0}
    /\ \A p \in TimedPlaces : p <= result.range

\* An argument that a command did not have is used by diagrams and by times
\* that are cut short, and by no other command that carries on.
ArgumentsAreOwn ==
  (result.foreign # {} /\ pc \notin Ended) =>
     \/ result.cmd = "usage" /\ Len(said[Len(said)].args) < 3
     \/ Len(said) \in TimedPlaces /\ result.cmd \in Objects \cup {"global"}

\* A command works with what its line has said: with the objects and times
\* named before it, and with parameters of its own.
ResultIsInScope == ScopeIsNamed /\ DiagramHasTheLastTimes /\ ArgumentsAreOwn

\* The document is whole if and only if the program ran to its end.
WholeWhenDone == open = <<>> <=> pc = "done"

\* "The commands specified in the file will be run in order given in the file"
\* (doc/smbta-guide.html): what is interpreted of a line, when it is read, is what
\* the file has.  It is not so: a last line without an end of line loses its
\* semicolon instead, and the program ends in it.
CommandsAreRun ==
  (pc = "line" /\ source = "file" /\ written = "whole" /\ ~again) => buffer = "whole"

\* How far that goes: once the end of the file was met no command is run any more,
\* and the program gets to its end, where the results are shown, only if the last
\* line is no command, with an end of line or without.
LastLineIsNotRun ==
  eof => /\ pc # "command"
         /\ pc = "done" => written \in {"comment", "blank"}

Newer(v, w) == \/ v[1] > w[1]
               \/ v[1] = w[1] /\ v[2] > w[2]
               \/ v[1] = w[1] /\ v[2] = w[2] /\ v[3] > w[3]

\* A self-check says that a version is larger, or equal, if and only if it is,
\* provided that no part has two digits and that no part of it that is larger
\* comes after one that is smaller.  That it was offline it says besides.
SelfCheckTells ==
  \A t \in told :
    /\ "offline" \in t.comments <=> t.first = Offline
    /\ (/\ \A i \in 1 .. 3 : t.first[i] < 10 /\ t.second[i] < 10
        /\ \A i, j \in 1 .. 3 : (i < j /\ t.first[i] < t.second[i]) => t.first[j] <= t.second[j]) =>
         /\ "larger" \in t.comments <=> Newer(t.first, t.second)
         /\ "equal" \in t.comments <=> t.first = t.second
=============================================================================
