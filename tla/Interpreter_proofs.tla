------------------------- MODULE Interpreter_proofs -------------------------
(***************************************************************************)
(* The document, the last line of the file, the versions and the scope of  *)
(* every result, for every set of commands, every length of lines and      *)
(* files and all versions.                                                 *)
(***************************************************************************)
EXTENDS Interpreter, SequenceTheorems, TLAPS

(* What the functions leave open *)

Sound(o) ==
  /\ o.begun \in Tags \cup {""}
  /\ \/ o.ends = "return" /\ o.closed = o.begun
     \/ o.ends \in {"exit", "crash"} /\ o.closed = ""

\* The ways a function may end are sound, each by itself.
LEMMA WaysAreSound ==
  ASSUME NEW reads
  PROVE  /\ \A t \in Tags : Sound(Written(t, reads))
         /\ \A t \in Tags, e \in {"exit", "crash"} : Sound(Torn(t, e, reads))
         /\ Sound(Silent(reads)) /\ Sound(Refused(reads)) /\ Sound(Crashed(reads))
<1>1. ASSUME NEW t \in Tags PROVE Sound(Written(t, reads))
  BY DEF Sound, Written, Outcome
<1>2. ASSUME NEW t \in Tags, NEW e \in {"exit", "crash"} PROVE Sound(Torn(t, e, reads))
  BY DEF Sound, Torn, Outcome
<1>3. Sound(Silent(reads)) /\ Sound(Refused(reads)) /\ Sound(Crashed(reads))
  BY DEF Sound, Silent, Refused, Crashed, Outcome
<1> QED BY <1>1, <1>2, <1>3

LEMMA FunctionTags ==
  {"total", "list", "top", "last_activity", "usage", "search", "throughput",
   "smbtad-report-full", "smbtad-report-short", "self-check"} \subseteq Tags
BY DEF Tags

\* A function that returns has closed the tag it began, if it began one; one
\* that ends the program has closed none.
LEMMA OutcomesAreSound ==
  ASSUME NEW cmd, NEW argc, NEW a, NEW o \in Outcomes(cmd, argc, a)
  PROVE  Sound(o)
<1> USE FunctionTags, WaysAreSound
<1>1. CASE cmd = "total"
  <2>1. o \in Total(argc, a)            BY <1>1 DEF Outcomes
  <2> QED                               BY <2>1, Zenon DEF Total
<1>2. CASE cmd = "list"
  <2>1. o \in List(argc, a)             BY <1>2 DEF Outcomes
  <2> QED                               BY <2>1, Zenon DEF List
<1>3. CASE cmd = "top"
  <2>1. o \in Top(argc, a)              BY <1>3 DEF Outcomes
  <2>2. \E r : \/ o = Written("top", r) \/ o = Crashed(r) \/ o = Refused(r)
                                        BY <2>1, Zenon DEF Top
  <2> QED                               BY <2>2, Zenon
<1>4. CASE cmd = "last_activity"
  <2>1. o \in LastActivity(argc, a)     BY <1>4 DEF Outcomes
  <2> QED                               BY <2>1, Zenon DEF LastActivity
<1>5. CASE cmd = "24h_usage"
  <2>1. o \in Usage24h(a)               BY <1>5 DEF Outcomes
  <2> QED                               BY <2>1, Zenon DEF Usage24h
<1>6. CASE cmd = "usage"
  <2>1. o \in Usage(a)                  BY <1>6 DEF Outcomes
  <2>2. \/ o = Silent(1 .. 3) \/ o = Crashed(1 .. 3) \/ o = Refused(1 .. 3)
                                        BY <2>1, Zenon DEF Usage
  <2> QED                               BY <2>2, Zenon
<1>7. CASE cmd = "search"
  <2>1. o \in Search(argc)              BY <1>7 DEF Outcomes
  <2> QED                               BY <2>1, Zenon DEF Search
<1>8. CASE cmd = "throughput"
  <2>1. o \in Throughput(argc, a)       BY <1>8 DEF Outcomes
  <2> QED                               BY <2>1, Zenon DEF Throughput
<1>9. CASE cmd = "smbtad-report"
  <2>1. o \in SmbtadReport(argc, a)     BY <1>9 DEF Outcomes
  <2> QED                               BY <2>1, Zenon DEF SmbtadReport
<1>10. CASE cmd = "self-check"
  <2>1. o \in SelfCheck                 BY <1>10 DEF Outcomes
  <2> QED                               BY <2>1, Zenon DEF SelfCheck
<1>11. CASE cmd \notin {"total", "list", "top", "last_activity", "24h_usage", "usage",
                        "search", "throughput", "smbtad-report", "self-check"}
  <2>1. o = Silent({})                  BY <1>11 DEF Outcomes
  <2> QED                               BY <2>1, Zenon
<1> QED BY <1>1, <1>2, <1>3, <1>4, <1>5, <1>6, <1>7, <1>8, <1>9, <1>10, <1>11

\* What is appended to a sequence of one is taken off again.
LEMMA AppendAndCut ==
  ASSUME NEW S, NEW r \in S, NEW t \in S
  PROVE  /\ Append(<<r>>, t) # <<>> /\ Len(Append(<<r>>, t)) = 2
         /\ Append(<<r>>, t)[2] = t
         /\ SubSeq(Append(<<r>>, t), 1, 1) = <<r>>
<1>1. <<r>> \in Seq(S) /\ Len(<<r>>) = 1 /\ <<r>>[1] = r
  OBVIOUS
<1>2. PICK both : both = Append(<<r>>, t)
  OBVIOUS
<1>3. /\ both \in Seq(S) /\ both # <<>> /\ Len(both) = 2
      /\ both[1] = r /\ both[2] = t
  BY <1>1, <1>2, AppendProperties
<1>4. PICK cut : cut = SubSeq(both, 1, 1)
  OBVIOUS
<1>5. \A i \in 1 .. 1 : both[i] \in S
  BY <1>3
<1>6. cut \in Seq(S) /\ Len(cut) = 1 /\ cut[1] = r
  BY <1>3, <1>4, <1>5, SubSeqProperties
<1>7. cut = <<r>>
  BY <1>1, <1>6, SeqEqual
<1> QED BY <1>2, <1>3, <1>4, <1>7

LEMMA OneIsLeft == 2 - 1 = 1
OBVIOUS

\* Begun on a document whose root is open, a tag that is closed leaves the root,
\* and one that is not leaves more.
LEMMA TagsOverRoot ==
  ASSUME NEW t \in Tags \cup {""}
  PROVE  /\ Close(Begin(<<"smbta_output">>, t), t) = <<"smbta_output">>
         /\ Close(Begin(<<"smbta_output">>, t), "") # <<>>
<1>1. CASE t = ""
  BY <1>1 DEF Begin, Close
<1>2. CASE t # ""
  <2>1. t \in Tags /\ "smbta_output" \in Tags
    BY <1>2 DEF Tags
  <2>2. PICK both : both = Append(<<"smbta_output">>, t)
    OBVIOUS
  <2>3. /\ both # <<>> /\ Len(both) = 2 /\ both[2] = t
        /\ SubSeq(both, 1, 1) = <<"smbta_output">>
    BY <2>1, <2>2, AppendAndCut
  <2>4. Begin(<<"smbta_output">>, t) = both
    BY <1>2, <2>2 DEF Begin
  <2>5. Close(both, t) = <<"smbta_output">>
    <3>1. Close(both, t) = SubSeq(both, 1, Len(both) - 1)
      BY <1>2, <2>3 DEF Close
    <3>2. Len(both) - 1 = 2 - 1
      BY <2>3, Zenon
    <3> QED BY <2>3, <3>1, <3>2, OneIsLeft
  <2>6. Close(both, "") = both
    BY DEF Close
  <2> QED BY <2>3, <2>4, <2>5, <2>6
<1> QED BY <1>1, <1>2

\* Where a command leads to.
LEMMA AfterIs ==
  ASSUME NEW ends, NEW last
  PROVE  /\ ends = "exit" => After(ends, last) = "exited"
         /\ ends = "crash" => After(ends, last) = "crashed"
         /\ ends = "return" => After(ends, last) \in {"returned", "command"}
BY DEF After

-----------------------------------------------------------------------------
(* The document *)

\* While the program runs nothing but the root is open: no command returns with
\* a tag of its own.
XmlInv ==
  /\ pc \notin Ended => open = <<"smbta_output">>
  /\ pc = "done" => open = <<>>
  /\ pc \in {"exited", "crashed"} => open # <<>>

LEMMA XmlInit == Init => XmlInv
BY DEF Init, XmlInv, Ended

\* A command keeps the document's part of the invariant, whatever it is.
LEMMA XmlCommand ==
  ASSUME XmlInv, NEW c, NEW last, Command(c, last)
  PROVE  XmlInv'
<1> DEFINE args == Arguments(c, last)
<1>1. pc = "command" /\ open = <<"smbta_output">>
  BY DEF Command, XmlInv, Ended
<1>2. CASE NoParameter(c, last)
  BY <1>1, <1>2 DEF NoParameter, XmlInv, Ended
<1>3. CASE NameObject(c, args, last)
  <2>1. open' = open
    BY <1>3 DEF NameObject
  <2>2. \E ends \in {"return", "exit"} : pc' = After(ends, last)
    BY <1>3, Zenon DEF NameObject
  <2> QED BY <1>1, <2>1, <2>2, AfterIs DEF XmlInv, Ended
<1>4. CASE GoGlobal(c, args, last)
  <2>1. open' = open
    BY <1>4 DEF GoGlobal
  <2>2. \E ends \in {"return", "exit"} : pc' = After(ends, last)
    BY <1>4, Zenon DEF GoGlobal
  <2> QED BY <1>1, <2>1, <2>2, AfterIs DEF XmlInv, Ended
<1>5. CASE GoSystem(c, last)
  BY <1>1, <1>5, AfterIs DEF GoSystem, XmlInv, Ended
<1>6. CASE Run(c, args, last)
  <2>1. PICK o \in Outcomes(c.cmd, Len(args), Overlay(args)) :
               /\ open' = Close(Begin(open, o.begun), o.closed)
               /\ pc' = After(o.ends, last)
    BY <1>6 DEF Run
  <2>2. Sound(o)
    <3> HIDE DEF args
    <3> QED BY <2>1, OutcomesAreSound, Zenon
  <2>3. CASE o.ends = "return" /\ o.closed = o.begun
    <3>1. open' = <<"smbta_output">>
      BY <1>1, <2>1, <2>2, <2>3, TagsOverRoot DEF Sound
    <3>2. pc' \in {"returned", "command"}
      BY <2>1, <2>3, AfterIs
    <3> QED BY <3>1, <3>2 DEF XmlInv, Ended
  <2>4. CASE o.ends \in {"exit", "crash"} /\ o.closed = ""
    <3>1. open' # <<>>
      BY <1>1, <2>1, <2>2, <2>4, TagsOverRoot DEF Sound
    <3>2. pc' \in {"exited", "crashed"}
      BY <2>1, <2>4, AfterIs
    <3> QED BY <3>1, <3>2 DEF XmlInv, Ended
  <2> QED BY <2>2, <2>3, <2>4 DEF Sound
<1> QED BY <1>2, <1>3, <1>4, <1>5, <1>6 DEF Command

LEMMA XmlNext == XmlInv /\ [Next]_vars => XmlInv'
<1> SUFFICES ASSUME XmlInv, [Next]_vars PROVE XmlInv'
  OBVIOUS
<1> USE DEF XmlInv, Ended
<1>1. CASE StartQuery   BY <1>1 DEF StartQuery
<1>2. CASE OpenFile     BY <1>2 DEF OpenFile
<1>3. CASE ReadLine     BY <1>3 DEF ReadLine, Interpreted
<1>4. CASE ReadNothing  BY <1>4 DEF ReadNothing, Interpreted
<1>5. CASE CloseFile    BY <1>5 DEF CloseFile
<1>6. CASE StartLine    BY <1>6 DEF StartLine
<1>7. CASE EndLine      BY <1>7 DEF EndLine
<1>8. CASE CloseXml     BY <1>8 DEF CloseXml
<1>9. ASSUME NEW c \in Commands, NEW last \in BOOLEAN, Command(c, last)
      PROVE  XmlInv'
  BY <1>9, XmlCommand
<1>10. CASE Stopped     BY <1>10 DEF Stopped, vars
<1>11. CASE UNCHANGED vars  BY <1>11 DEF vars
<1> QED BY <1>1, <1>2, <1>3, <1>4, <1>5, <1>6, <1>7, <1>8, <1>9, <1>10, <1>11 DEF Next

\* The document is whole if and only if the program ran to its end: whatever the
\* commands are, a run that is stopped leaves a torn document, and no other run
\* does.
THEOREM DocumentIsWhole == Spec => []WholeWhenDone
<1>1. XmlInv => WholeWhenDone
  BY DEF XmlInv, WholeWhenDone, Ended
<1> QED BY <1>1, XmlInit, XmlNext, PTL DEF Spec

-----------------------------------------------------------------------------
(* The last line *)

\* Once the end of the file was met the line that is left, if it is one of
\* commands, has lost its semicolon, and nothing is left to be run after it.
FileInv ==
  /\ source \in {"query", "file"}
  /\ {written, buffer} \subseteq {"comment", "blank", "whole", "cut"}
  /\ pc = "file" => source = "file"
  /\ source = "file" => todo = {}
  /\ eof => /\ source = "file"
            /\ pc \notin {"command", "returned"}
            /\ pc = "line" => buffer = "cut"
            /\ pc \in {"file", "opened", "done"} => written \in {"comment", "blank"}
  /\ source = "query" => lines = 0
  /\ (source = "file" /\ ~eof /\ lines > 0) => buffer = written

LEMMA FileInit == Init => FileInv
BY DEF Init, FileInv

LEMMA FileNext == FileInv /\ [Next]_vars => FileInv'
<1> SUFFICES ASSUME FileInv, [Next]_vars PROVE FileInv'
  OBVIOUS
<1> USE DEF FileInv
<1>1. CASE StartQuery   BY <1>1 DEF StartQuery
<1>2. CASE OpenFile     BY <1>2 DEF OpenFile
<1>3. CASE ReadLine     BY <1>3 DEF ReadLine, Interpreted
<1>4. CASE ReadNothing  BY <1>4 DEF ReadNothing, Interpreted
<1>5. CASE CloseFile    BY <1>5 DEF CloseFile, input
<1>6. CASE StartLine    BY <1>6 DEF StartLine, input
<1>7. CASE EndLine      BY <1>7 DEF EndLine, input
<1>8. CASE CloseXml     BY <1>8 DEF CloseXml, input
<1>9. ASSUME NEW c \in Commands, NEW last \in BOOLEAN, Command(c, last)
      PROVE  FileInv'
  <2>1. pc = "command" /\ UNCHANGED <<todo, source, lines, eof, written, buffer>>
    BY <1>9 DEF Command, input
  <2>2. pc' # "file"
    <3>1. CASE NoParameter(c, last)  BY <3>1 DEF NoParameter
    <3>2. CASE ~NoParameter(c, last)
      <4>1. \E ends : pc' = After(ends, last)
        BY <1>9, <3>2, Zenon DEF Command, NameObject, GoGlobal, GoSystem, Run
      <4> QED BY <4>1 DEF After
    <3> QED BY <3>1, <3>2
  <2> QED BY <2>1, <2>2
<1>10. CASE Stopped     BY <1>10 DEF Stopped, vars, input
<1>11. CASE UNCHANGED vars  BY <1>11 DEF vars, input
<1> QED BY <1>1, <1>2, <1>3, <1>4, <1>5, <1>6, <1>7, <1>8, <1>9, <1>10, <1>11 DEF Next

\* A file is only run to its end if its last line is no command, and its last
\* line is never run twice: how far the code is from CommandsAreRun.
THEOREM LastLineStops == Spec => []LastLineIsNotRun
<1>1. FileInv => LastLineIsNotRun
  BY DEF FileInv, LastLineIsNotRun
<1> QED BY <1>1, FileInit, FileNext, PTL DEF Spec

-----------------------------------------------------------------------------
(* The self-check *)

\* Every two versions are equal if and only if their parts are.
LEMMA PartsAreAll ==
  ASSUME NEW v \in [1 .. 3 -> Nat], NEW w \in [1 .. 3 -> Nat]
  PROVE  v = w <=> v[1] = w[1] /\ v[2] = w[2] /\ v[3] = w[3]
<1>1. ASSUME v[1] = w[1], v[2] = w[2], v[3] = w[3] PROVE v = w
  <2>1. \A i \in 1 .. 3 : v[i] = w[i]
    BY <1>1
  <2> QED BY <2>1
<1> QED BY <1>1

LEMMA OfflineIsZero ==
  /\ Offline \in [1 .. 3 -> Nat]
  /\ Offline[1] = 0 /\ Offline[2] = 0 /\ Offline[3] = 0
BY DEF Offline

\* Whatever is compared, the comments say the right thing of it.
ToldRight(first, second) ==
  LET comments == VersionsCompare(AsRead(first), AsRead(second))
  IN /\ "offline" \in comments <=> first = Offline
     /\ (/\ \A i \in 1 .. 3 : first[i] < 10 /\ second[i] < 10
         /\ \A i, j \in 1 .. 3 : (i < j /\ first[i] < second[i]) => first[j] <= second[j]) =>
          /\ "larger" \in comments <=> Newer(first, second)
          /\ "equal" \in comments <=> first = second

\* What is read of a version is its parts, while they have one digit, and zero
\* only if all of it is.
LEMMA ReadingIsSound ==
  ASSUME NEW v \in [1 .. 3 -> Nat]
  PROVE  /\ AsRead(v) \in [1 .. 3 -> Nat]
         /\ AsRead(v) = Offline <=> v = Offline
         /\ (\A i \in 1 .. 3 : v[i] < 10) => AsRead(v) = v
<1>1. v[1] \in Nat /\ v[2] \in Nat /\ v[3] \in Nat
  OBVIOUS
<1>2. v[2] % 10 \in Nat
  BY <1>1
<1>3. PICK b \in Nat : b = IF v[1] < 10 THEN v[2] ELSE 0
  BY <1>1
<1>4. PICK c \in Nat : c = IF v[1] < 10 THEN IF v[2] < 10 THEN v[3] ELSE 0
                           ELSE IF v[2] < 10 THEN 0 ELSE v[2] % 10
  BY <1>1, <1>2
<1>5. PICK read : read = <<v[1], b, c>>
  OBVIOUS
<1>6. AsRead(v) = read
  BY <1>3, <1>4, <1>5 DEF AsRead
<1>7. read \in [1 .. 3 -> Nat] /\ read[1] = v[1] /\ read[2] = b /\ read[3] = c
  BY <1>1, <1>5
<1>8. read = Offline <=> v = Offline
  <2>1. read = Offline <=> v[1] = 0 /\ b = 0 /\ c = 0
    BY <1>7, OfflineIsZero, PartsAreAll
  <2>2. v = Offline <=> v[1] = 0 /\ v[2] = 0 /\ v[3] = 0
    BY OfflineIsZero, PartsAreAll
  <2>3. v[1] = 0 => b = v[2]
    BY <1>1, <1>3
  <2>4. v[1] = 0 /\ v[2] = 0 => c = v[3]
    BY <1>1, <1>4
  <2> QED BY <2>1, <2>2, <2>3, <2>4
<1>9. ASSUME \A i \in 1 .. 3 : v[i] < 10 PROVE read = v
  <2>1. v[1] < 10 /\ v[2] < 10
    BY <1>9
  <2>2. b = v[2] /\ c = v[3]
    BY <1>3, <1>4, <2>1
  <2> QED BY <1>7, <2>2, PartsAreAll
<1> QED BY <1>6, <1>7, <1>8, <1>9

LEMMA CommentsAre ==
  ASSUME NEW v, NEW w
  PROVE  /\ "offline" \in VersionsCompare(v, w) <=> v = Offline
         /\ "larger" \in VersionsCompare(v, w) <=> v[1] > w[1] \/ v[2] > w[2] \/ v[3] > w[3]
         /\ "equal" \in VersionsCompare(v, w) <=>
              v = w /\ ~(v[1] > w[1] \/ v[2] > w[2] \/ v[3] > w[3])
<1>1. PICK gt : gt = [i \in 1 .. 3 |-> v[i] > w[i]]
  OBVIOUS
<1>2. PICK newer \in BOOLEAN : newer <=> v[1] > w[1] \/ v[2] > w[2] \/ v[3] > w[3]
  OBVIOUS
<1>3. /\ gt[1] <=> v[1] > w[1]
      /\ gt[2] <=> v[2] > w[2]
      /\ gt[3] <=> v[3] > w[3]
  <2>1. 1 \in 1 .. 3 /\ 2 \in 1 .. 3 /\ 3 \in 1 .. 3
    OBVIOUS
  <2> QED BY <1>1, <2>1, Zenon
<1>4. newer <=> (gt[1] \/ gt[2] \/ (~gt[2] /\ gt[3]))
  BY <1>2, <1>3, Zenon
<1>5. VersionsCompare(v, w) =
        (IF v = Offline THEN {"offline"} ELSE {}) \cup
        {IF newer THEN "larger" ELSE IF v = w THEN "equal" ELSE "smaller"}
  BY <1>1, <1>4 DEF VersionsCompare
<1> QED BY <1>2, <1>5

LEMMA ComparedRight ==
  ASSUME NEW v \in [1 .. 3 -> Nat], NEW w \in [1 .. 3 -> Nat]
  PROVE  ToldRight(v, w)
<1> DEFINE comments == VersionsCompare(AsRead(v), AsRead(w))
<1>1. "offline" \in comments <=> v = Offline
  BY CommentsAre, ReadingIsSound
<1>2. ASSUME \A i \in 1 .. 3 : v[i] < 10 /\ w[i] < 10,
             \A i, j \in 1 .. 3 : (i < j /\ v[i] < w[i]) => v[j] <= w[j]
      PROVE  /\ "larger" \in comments <=> Newer(v, w)
             /\ "equal" \in comments <=> v = w
  <2>1. AsRead(v) = v /\ AsRead(w) = w
    BY <1>2, ReadingIsSound
  <2>2. /\ v[1] < w[1] => v[2] <= w[2] /\ v[3] <= w[3]
        /\ v[2] < w[2] => v[3] <= w[3]
    BY <1>2
  <2>3. /\ v[1] \in Nat /\ v[2] \in Nat /\ v[3] \in Nat
        /\ w[1] \in Nat /\ w[2] \in Nat /\ w[3] \in Nat
    OBVIOUS
  <2>4. v[1] > w[1] \/ v[2] > w[2] \/ v[3] > w[3] <=> Newer(v, w)
    BY <2>2, <2>3 DEF Newer
  <2>5. v = w => ~(v[1] > w[1] \/ v[2] > w[2] \/ v[3] > w[3])
    BY <2>3
  <2> QED BY <2>1, <2>4, <2>5, CommentsAre
<1> QED BY <1>1, <1>2 DEF ToldRight

\* What was said of versions was said right.
ToldInv == \A t \in told : \E v, w \in [1 .. 3 -> Nat] : t = Compared(v, w)

LEMMA ToldInit == Init => ToldInv
BY DEF Init, ToldInv

LEMMA ToldNext == ToldInv /\ [Next]_vars => ToldInv'
<1> SUFFICES ASSUME ToldInv, [Next]_vars PROVE ToldInv'
  OBVIOUS
<1>1. CASE told' \in {told, {}}
  BY <1>1 DEF ToldInv
<1>2. ASSUME NEW c \in Commands, NEW last \in BOOLEAN, Command(c, last),
             told' \notin {told, {}}
      PROVE  ToldInv'
  <2>1. PICK u \in Versions \cup {Offline}, i \in Versions, d \in Versions :
               told' = {Compared(u, i), Compared(i, d)}
    <3>1. Run(c, Arguments(c, last), last)
      BY <1>2 DEF Command, NoParameter, NameObject, GoGlobal, GoSystem
    <3> QED BY <1>2, <3>1, Zenon DEF Run
  <2>2. Versions \cup {Offline} \subseteq [1 .. 3 -> Nat]
    BY InterpreterAssumption, OfflineIsZero
  <2> QED BY <2>1, <2>2, Zenon DEF ToldInv
<1>3. CASE StartQuery   BY <1>1, <1>3 DEF StartQuery
<1>4. CASE OpenFile     BY <1>1, <1>4 DEF OpenFile
<1>5. CASE ReadLine     BY <1>1, <1>5 DEF ReadLine
<1>6. CASE ReadNothing  BY <1>1, <1>6 DEF ReadNothing
<1>7. CASE CloseFile    BY <1>1, <1>7 DEF CloseFile
<1>8. CASE StartLine    BY <1>1, <1>8 DEF StartLine, Fresh
<1>9. CASE EndLine      BY <1>1, <1>9 DEF EndLine, Fresh
<1>10. CASE CloseXml    BY <1>1, <1>10 DEF CloseXml
<1>11. CASE Stopped     BY <1>1, <1>11 DEF Stopped, vars
<1>12. CASE UNCHANGED vars  BY <1>1, <1>12 DEF vars
<1> QED BY <1>1, <1>2, <1>3, <1>4, <1>5, <1>6, <1>7, <1>8, <1>9, <1>10, <1>11, <1>12 DEF Next

\* Of any two versions the self-check says which is larger, or that they are
\* equal, provided that their parts have one digit and that no larger part comes
\* after a smaller one, and of any version that it is offline only if it is.
THEOREM SelfCheckIsRight == Spec => []SelfCheckTells
<1>1. ToldInv => SelfCheckTells
  <2> SUFFICES ASSUME ToldInv, NEW t \in told
               PROVE  /\ t.comments = VersionsCompare(AsRead(t.first), AsRead(t.second))
                      /\ ToldRight(t.first, t.second)
    BY DEF SelfCheckTells, ToldRight
  <2>1. PICK v, w \in [1 .. 3 -> Nat] : t = Compared(v, w)
    BY DEF ToldInv
  <2>2. /\ t.first = v /\ t.second = w
        /\ t.comments = VersionsCompare(AsRead(v), AsRead(w))
    BY <2>1 DEF Compared
  <2> QED BY <2>2, ComparedRight
<1> QED BY <1>1, ToldInit, ToldNext, PTL DEF Spec

-----------------------------------------------------------------------------
(* The scope *)

\* What a way to end says of the arguments.
LEMMA ReadsAre ==
  /\ \A tag, reads : Written(tag, reads).reads = reads
  /\ \A tag, ends, reads : Torn(tag, ends, reads).reads = reads
  /\ \A reads : Silent(reads).reads = reads
  /\ \A reads : Refused(reads).reads = reads
  /\ \A reads : Crashed(reads).reads = reads
BY DEF Written, Torn, Silent, Refused, Crashed, Outcome

\* A function has no use for an argument it was not given, but for the diagram.
LEMMA OnlyUsageReadsMore ==
  ASSUME NEW cmd, NEW argc \in Nat \ {0}, NEW a, NEW o \in Outcomes(cmd, argc, a),
         Foreign(o.reads, argc) # {}
  PROVE  cmd = "usage" /\ argc < 3
<1>1. Foreign({}, argc) = {} /\ Foreign({1}, argc) = {} /\ Foreign(1 .. argc, argc) = {}
  BY DEF Foreign
<1>2. Foreign(1 .. 3, argc) # {} => argc < 3
  BY DEF Foreign
<1>3. CASE cmd = "total"
  <2>1. o \in Total(argc, a)            BY <1>3 DEF Outcomes
  <2>2. o \in {Refused({}), Written("total", {1}), Torn("total", "crash", {1}),
               Torn("total", "exit", {1})}
                                        BY <2>1 DEF Total
  <2>3. o.reads \in {{}, {1}}
                                        BY <2>2, ReadsAre
  <2> QED                               BY <1>1, <2>3
<1>4. CASE cmd = "list"
  <2>1. o \in List(argc, a)             BY <1>4 DEF Outcomes
  <2>2. o \in {Refused({}), Refused({1}), Written("list", {1})}
                                        BY <2>1 DEF List
  <2>3. o.reads \in {{}, {1}}
                                        BY <2>2, ReadsAre
  <2> QED                               BY <1>1, <2>3
<1>5. CASE cmd = "top"
  <2>1. o \in Top(argc, a)              BY <1>5 DEF Outcomes
  <2>2. o \in {Refused({}), Refused(1 .. argc), Written("top", 1 .. argc),
               Crashed(1 .. argc)}
                                        BY <2>1 DEF Top
  <2>3. o.reads \in {{}, 1 .. argc}
                                        BY <2>2, ReadsAre
  <2> QED                               BY <1>1, <2>3
<1>6. CASE cmd = "last_activity"
  <2>1. o \in LastActivity(argc, a)     BY <1>6 DEF Outcomes
  <2>2. o \in {Refused({}), Refused({1}), Written("last_activity", {1})}
                                        BY <2>1 DEF LastActivity
  <2>3. o.reads \in {{}, {1}}
                                        BY <2>2, ReadsAre
  <2> QED                               BY <1>1, <2>3
<1>7. CASE cmd = "24h_usage"
  <2>1. o \in Usage24h(a)               BY <1>7 DEF Outcomes
  <2>2. o.reads = {1}                   BY <2>1, ReadsAre, Zenon DEF Usage24h
  <2> QED                               BY <1>1, <2>2
<1>8. CASE cmd = "usage"
  <2>1. o \in Usage(a)                  BY <1>8 DEF Outcomes
  <2>2. o \in {Silent(1 .. 3), Crashed(1 .. 3), Refused(1 .. 3)}
                                        BY <2>1 DEF Usage
  <2>3. o.reads = 1 .. 3                BY <2>2, ReadsAre
  <2> QED                               BY <1>2, <1>8, <2>3
<1>9. CASE cmd = "search"
  <2>1. o \in Search(argc)              BY <1>9 DEF Outcomes
  <2>2. o \in {Refused({}), Written("search", {1})}
                                        BY <2>1 DEF Search
  <2>3. o.reads \in {{}, {1}}
                                        BY <2>2, ReadsAre
  <2> QED                               BY <1>1, <2>3
<1>10. CASE cmd = "throughput"
  <2>1. o \in Throughput(argc, a)       BY <1>10 DEF Outcomes
  <2>2. o = Refused({}) \/ (argc = 3 /\ o \in {Written("throughput", 1 .. 3),
                                               Crashed(1 .. 3), Refused(1 .. 3)})
                                        BY <2>1 DEF Throughput
  <2>3. o.reads = {} \/ (argc = 3 /\ o.reads = 1 .. 3)
                                        BY <2>2, ReadsAre
  <2> QED                               BY <1>1, <1>2, <2>3
<1>11. CASE cmd = "smbtad-report"
  <2>1. o \in SmbtadReport(argc, a)     BY <1>11 DEF Outcomes
  <2>2. o \in {Refused({}), Refused({1}), Written("smbtad-report-full", {1}),
               Written("smbtad-report-short", {1})}
                                        BY <2>1 DEF SmbtadReport
  <2>3. o.reads \in {{}, {1}}
                                        BY <2>2, ReadsAre
  <2> QED                               BY <1>1, <2>3
<1>12. CASE cmd = "self-check"
  <2>1. o.reads = {1}                   BY <1>12, ReadsAre DEF Outcomes, SelfCheck
  <2> QED                               BY <1>1, <2>1
<1>13. CASE cmd \notin {"total", "list", "top", "last_activity", "24h_usage", "usage",
                        "search", "throughput", "smbtad-report", "self-check"}
  <2>1. o.reads = {}                    BY <1>13, ReadsAre DEF Outcomes
  <2> QED                               BY <1>1, <2>1
<1> QED BY <1>3, <1>4, <1>5, <1>6, <1>7, <1>8, <1>9, <1>10, <1>11, <1>12, <1>13

\* How the sets of places change with a command that was said.
LEMMA SaidPlaces ==
  ASSUME said \in Seq(Commands), NEW c \in Commands, said' = Append(said, c)
  PROVE  /\ Place \in Nat /\ Len(said') = Place /\ said'[Place] = c
         /\ \A p \in Resets \cup ObjectPlaces \cup TimedPlaces : p \in Nat /\ p < Place
         /\ Resets' = Resets \cup {p \in {Place} : c.cmd \in {"global", "system"}}
         /\ ObjectPlaces' = ObjectPlaces \cup
              {p \in {Place} : c.cmd \in Objects \cup {"global", "system"}}
         /\ TimedPlaces' = TimedPlaces \cup {p \in {Place} : GivesTimes(c)}
<1>1. /\ Len(said) \in Nat /\ DOMAIN said = 1 .. Len(said)
      /\ DOMAIN said' = 1 .. Len(said) \cup {Place}
      /\ Len(said') = Place
      /\ \A p \in 1 .. Len(said) : said'[p] = said[p]
      /\ said'[Place] = c
  BY DEF Place
<1>2. /\ Place \in Nat
      /\ \A p \in 1 .. Len(said) : p \in Nat /\ p < Place
  BY <1>1 DEF Place
<1>3. \A p \in Resets \cup ObjectPlaces \cup TimedPlaces : p \in 1 .. Len(said)
  BY <1>1 DEF Resets, ObjectPlaces, TimedPlaces
<1>4. Resets' = Resets \cup {p \in {Place} : c.cmd \in {"global", "system"}}
  BY <1>1 DEF Resets
<1>5. ObjectPlaces' = ObjectPlaces \cup
              {p \in {Place} : c.cmd \in Objects \cup {"global", "system"}}
  BY <1>1 DEF ObjectPlaces
<1>6. TimedPlaces' = TimedPlaces \cup {p \in {Place} : GivesTimes(c)}
  BY <1>1 DEF TimedPlaces
<1> QED BY <1>1, <1>2, <1>3, <1>4, <1>5, <1>6

MayBeUnderstood(cmd, argc, a) == TRUE \in Understood(cmd, argc, a)

\* The times of a command are those it gives, unless it ends the program.
LEMMA TimesAreGiven ==
  ASSUME NEW c \in Commands, NEW last \in BOOLEAN, c.cmd \in Objects \cup {"global"},
         MayBeUnderstood(c.cmd, Len(Arguments(c, last)), Overlay(Arguments(c, last)))
  PROVE  IsTimed(c.cmd, Len(Arguments(c, last)), Overlay(Arguments(c, last)))
           <=> GivesTimes(c)
<1>1. PICK args : args = Arguments(c, last)
  OBVIOUS
<1>0. PICK none : none = ""
  OBVIOUS
<1>00. none \notin {"from", "since"} /\ none \notin {"date", Unset}
  BY <1>0, Zenon DEF Unset
<1>2. PICK a : a = Overlay(args)
  OBVIOUS
<1>3. PICK own \in Seq(Words) : own = c.args /\ Len(own) <= 5
  BY InterpreterAssumption
<1>31. Len(own) \in Nat /\ DOMAIN own = 1 .. Len(own)
  OBVIOUS
<1>4. /\ Len(args) \in Nat
      /\ \A i \in 1 .. Len(own) : args[i] = own[i]
      /\ \/ Len(args) = Len(own)
         \/ Len(args) = Len(own) + 1 /\ args[Len(own) + 1] = none
  <2>1. none \in Words
    BY <1>0, Zenon DEF Words
  <2>2. CASE args = own
    BY <1>31, <2>2
  <2>3. CASE args = Append(own, none)
    <3>1. /\ Len(args) = Len(own) + 1
          /\ \A i \in 1 .. Len(own) : args[i] = own[i]
          /\ args[Len(own) + 1] = none
      BY <2>1, <2>3
    <3> QED BY <1>31, <3>1
  <2>4. args = own \/ args = Append(own, none)
    BY <1>0, <1>1, <1>3, Zenon DEF Arguments
  <2> QED BY <2>2, <2>3, <2>4
<1>5. a[1] = (IF 1 <= Len(args) THEN args[1] ELSE slots[1])
      /\ a[2] = (IF 2 <= Len(args) THEN args[2] ELSE slots[2])
  BY <1>2 DEF Overlay, Slots
<1>6. MayBeUnderstood(c.cmd, Len(args), a)
  BY <1>1, <1>2
<1>7. PICK f : f = ArgFlag(c.cmd)
  OBVIOUS
<1>8. f \in {0, 1} /\ TimesAt(c.cmd) = 1 + f
  BY <1>7 DEF ArgFlag, TimesAt, Objects
<1>9. IsTimed(c.cmd, Len(args), a) <=> Len(args) >= 2 /\ a[1 + f] \in {"from", "since"}
  <2>1. PICK word : word = TimeWord(c.cmd, Len(args), a)
    OBVIOUS
  <2>2. word = IF Len(args) < 2 THEN none ELSE a[1 + f]
    BY <1>0, <1>7, <2>1, Zenon DEF TimeWord
  <2>3. PICK times : times = TimeArgs(c.cmd, Len(args), a)
    OBVIOUS
  <2>4. times = CASE word = "from" -> {2 + f, 4 + f}
                  [] word = "since" -> {2 + f}
                  [] OTHER -> {}
    BY <1>7, <2>1, <2>3, Zenon DEF TimeArgs
  <2>5. times # {} <=> word \in {"from", "since"}
    BY <2>4
  <2>6. word \in {"from", "since"} <=> Len(args) >= 2 /\ a[1 + f] \in {"from", "since"}
    BY <1>00, <1>4, <1>8, <2>2
  <2> QED BY <2>3, <2>5, <2>6, Zenon DEF IsTimed
<1>10. GivesTimes(c) <=> Len(own) >= 2 /\ own[1 + f] \in {"from", "since"}
  BY <1>3, <1>8 DEF GivesTimes
<1>11. CASE Len(own) >= 2
  BY <1>31, <1>4, <1>5, <1>8, <1>9, <1>10, <1>11, <1>1, <1>2
<1>12. CASE Len(own) < 2 /\ Len(args) < 2
  BY <1>1, <1>2, <1>31, <1>4, <1>9, <1>10, <1>12
<1>13. CASE Len(own) = 1 /\ Len(args) = 2
  <2>1. a[2] = none
    BY <1>4, <1>5, <1>13
  <2>2. ASSUME IsTimed(c.cmd, Len(args), a) PROVE FALSE
    <3>1. f = 0
      BY <1>00, <1>8, <1>9, <2>1, <2>2
    <3>2. 2 \in TimeArgs(c.cmd, Len(args), a)
      BY <1>7, <2>2, <3>1 DEF IsTimed, TimeArgs
    <3>3. PICK given : given = {a[i] : i \in TimeArgs(c.cmd, Len(args), a)}
      OBVIOUS
    <3>4. none \in given
      BY <2>1, <3>2, <3>3
    <3>5. ~(given \subseteq {"date"}) /\ ~(given \subseteq {"date", Unset})
      BY <1>00, <3>4
    <3> QED BY <1>6, <3>3, <3>5, Zenon DEF Understood, MayBeUnderstood
  <2> QED BY <1>1, <1>2, <1>10, <1>13, <2>2
<1>14. \/ Len(own) >= 2
       \/ (Len(own) < 2 /\ Len(args) < 2)
       \/ (Len(own) = 1 /\ Len(args) = 2)
  <2>1. PICK m \in Nat, n \in Nat : m = Len(own) /\ n = Len(args) /\ (n = m \/ n = m + 1)
    BY <1>31, <1>4
  <2>2. m >= 2 \/ (m < 2 /\ n < 2) \/ (m = 1 /\ n = 2)
    BY <2>1
  <2> QED BY <2>1, <2>2, Zenon
<1> QED BY <1>11, <1>12, <1>13, <1>14, Zenon

\* While the line is interpreted the object holds what the line has named.
Scope == {p \in ObjectPlaces \ Resets : Lasts(p)}
Span == {p \in TimedPlaces : Lasts(p)}
ScopeInv ==
  /\ said \in Seq(Commands)
  /\ pc \notin Ended =>
       /\ named = Scope /\ during = Span
       /\ title \in ObjectPlaces \cup {0} /\ \A p \in ObjectPlaces : p <= title
       /\ range \in TimedPlaces \cup {0} /\ \A p \in TimedPlaces : p <= range

ScopeIInv == ScopeInv /\ ResultIsInScope

\* A line begins with nothing said, nothing named and no result.
FreshLine ==
  /\ said = <<>> /\ named = {} /\ during = {} /\ range = 0 /\ title = 0
  /\ result = Nothing

LEMMA FreshScope == FreshLine => ScopeIInv
<1> SUFFICES ASSUME FreshLine PROVE ScopeIInv
  OBVIOUS
<1>1. said \in Seq(Commands) /\ DOMAIN said = {}
  BY DEF FreshLine
<1>2. Resets = {} /\ ObjectPlaces = {} /\ TimedPlaces = {}
  BY <1>1 DEF Resets, ObjectPlaces, TimedPlaces
<1>3. result.cmd \notin Bound \cup {"usage"} /\ result.foreign = {}
  BY DEF FreshLine, Nothing, Bound
<1> QED BY <1>1, <1>2, <1>3 DEF FreshLine, ScopeIInv, ScopeInv, Scope, Span, ResultIsInScope,
           ScopeIsNamed, DiagramHasTheLastTimes, ArgumentsAreOwn

LEMMA ScopeInit == Init => ScopeIInv
BY FreshScope DEF Init, FreshLine

\* A step that is not one of a command, and begins no line.
LEMMA ScopeStays ==
  ASSUME ScopeIInv, UNCHANGED <<said, named, during, range, title, result>>,
         pc' \notin Ended => pc \notin Ended
  PROVE  ScopeIInv'
<1>1. UNCHANGED <<Resets, ObjectPlaces, TimedPlaces>>
  BY DEF Resets, ObjectPlaces, TimedPlaces
<1>2. \A p : Lasts(p)' <=> Lasts(p)
  BY <1>1 DEF Lasts
<1>3. ScopeInv'
  BY <1>1, <1>2 DEF ScopeIInv, ScopeInv, Scope, Span
<1>4. ScopeIsNamed' /\ DiagramHasTheLastTimes'
  BY <1>1, <1>2 DEF ScopeIInv, ResultIsInScope, ScopeIsNamed, DiagramHasTheLastTimes
<1>5. ArgumentsAreOwn'
  BY <1>1 DEF ScopeIInv, ResultIsInScope, ArgumentsAreOwn
<1> QED BY <1>3, <1>4, <1>5 DEF ScopeIInv, ResultIsInScope

\* What a command, said at place n, does to the scope of its line.
LEMMA SaidScope ==
  ASSUME said \in Seq(Commands), NEW c \in Commands, said' = Append(said, c),
         NEW n, n = Place
  PROVE  /\ c.cmd \in {"global", "system"} =>
              /\ Scope' = {}
              /\ Span' = {p \in {n} : GivesTimes(c)}
         /\ c.cmd \notin {"global", "system"} =>
              /\ Scope' = Scope \cup {p \in {n} : c.cmd \in Objects}
              /\ Span' = Span \cup {p \in {n} : GivesTimes(c)}
<1> DEFINE resets == c.cmd \in {"global", "system"}
<1>1. /\ \A p \in Resets \cup ObjectPlaces \cup TimedPlaces : p \in Nat /\ p < n
      /\ n \in Nat
      /\ Resets' = Resets \cup {p \in {n} : resets}
      /\ ObjectPlaces' = ObjectPlaces \cup {p \in {n} : c.cmd \in Objects \/ resets}
      /\ TimedPlaces' = TimedPlaces \cup {p \in {n} : GivesTimes(c)}
  BY SaidPlaces
<1>2. \A p : Lasts(p)' <=> \A q \in Resets' : q <= p
  BY DEF Lasts
<1>3. \A q \in Resets' : q <= n
  BY <1>1
<1>4. /\ Scope' = {p \in ObjectPlaces' \ Resets' : \A q \in Resets' : q <= p}
      /\ Span' = {p \in TimedPlaces' : \A q \in Resets' : q <= p}
      /\ Scope = {p \in ObjectPlaces \ Resets : \A q \in Resets : q <= p}
      /\ Span = {p \in TimedPlaces : \A q \in Resets : q <= p}
  BY DEF Scope, Span, Lasts
<1>5. CASE resets
  <2>1. n \in Resets'
    BY <1>1, <1>5
  <2>2. \A p \in ObjectPlaces \cup TimedPlaces : ~(n <= p)
    BY <1>1
  <2>3. Scope' = {}
    BY <1>1, <1>4, <2>1, <2>2
  <2>4. Span' = {p \in {n} : GivesTimes(c)}
    BY <1>1, <1>3, <1>4, <2>1, <2>2
  <2> QED BY <1>5, <2>3, <2>4
<1>6. CASE ~resets
  <2>1. Resets' = Resets /\ n \notin Resets
    BY <1>1, <1>6
  <2>2. Scope' = Scope \cup {p \in {n} : c.cmd \in Objects}
    BY <1>1, <1>3, <1>4, <1>6, <2>1
  <2>3. Span' = Span \cup {p \in {n} : GivesTimes(c)}
    BY <1>1, <1>3, <1>4, <2>1
  <2> QED BY <1>6, <2>2, <2>3
<1> QED BY <1>5, <1>6

\* A command that carries on leaves the object as the line says it is.
LEMMA ObjectIsSaid ==
  ASSUME ScopeInv, NEW c \in Commands, pc \notin Ended, said' = Append(said, c),
         NEW n, n = Place,
         /\ c.cmd \in {"global", "system"} =>
              /\ named' = {}
              /\ during' = {p \in {n} : GivesTimes(c)}
         /\ c.cmd \notin {"global", "system"} =>
              /\ named' = named \cup {p \in {n} : c.cmd \in Objects}
              /\ during' = during \cup {p \in {n} : GivesTimes(c)},
         title' = IF c.cmd \in Objects \cup {"global", "system"} THEN n ELSE title,
         range' = IF GivesTimes(c) THEN n ELSE range
  PROVE  ScopeInv'
<1>1. /\ said \in Seq(Commands) /\ said' \in Seq(Commands)
      /\ named = Scope /\ during = Span
      /\ title \in ObjectPlaces \cup {0} /\ \A p \in ObjectPlaces : p <= title
      /\ range \in TimedPlaces \cup {0} /\ \A p \in TimedPlaces : p <= range
  BY DEF ScopeInv
<1>2. named' = Scope' /\ during' = Span'
  BY <1>1, SaidScope
<1>3. /\ n \in Nat
      /\ \A p \in ObjectPlaces \cup TimedPlaces : p \in Nat /\ p < n
      /\ ObjectPlaces' = ObjectPlaces \cup
           {p \in {n} : c.cmd \in Objects \cup {"global", "system"}}
      /\ TimedPlaces' = TimedPlaces \cup {p \in {n} : GivesTimes(c)}
  BY <1>1, SaidPlaces
<1>4. title' \in ObjectPlaces' \cup {0} /\ \A p \in ObjectPlaces' : p <= title'
  BY <1>1, <1>3
<1>5. range' \in TimedPlaces' \cup {0} /\ \A p \in TimedPlaces' : p <= range'
  BY <1>1, <1>3
<1> QED BY <1>1, <1>2, <1>4, <1>5 DEF ScopeInv

\* What comes of an object, or of "global", needs no look at what it did to the
\* object of the line: it is no function, and the arguments it uses beyond its
\* own are times.
LEMMA NamedResult ==
  ASSUME NEW c \in Commands, NEW last \in BOOLEAN, c.cmd \in Objects \cup {"global"},
         said \in Seq(Commands), said' = Append(said, c),
         NEW times,
         times = TimeArgs(c.cmd, Len(Arguments(c, last)), Overlay(Arguments(c, last))),
         result'.cmd = c.cmd,
         result'.foreign = Foreign(times, Len(Arguments(c, last))),
         \/ pc' \in Ended
         \/ times # {} <=> GivesTimes(c)
  PROVE  ResultIsInScope'
<1>1. ScopeIsNamed' /\ DiagramHasTheLastTimes'
  BY DEF ScopeIsNamed, DiagramHasTheLastTimes, Bound, Objects
<1>2. PICK n : n = Place
  OBVIOUS
<1>3. Len(said') = n /\ TimedPlaces' = TimedPlaces \cup {p \in {n} : GivesTimes(c)}
  BY <1>2, SaidPlaces
<1>4. result'.foreign # {} => times # {}
  BY DEF Foreign
<1>5. ArgumentsAreOwn'
  BY <1>3, <1>4 DEF ArgumentsAreOwn
<1> QED BY <1>1, <1>5 DEF ResultIsInScope

LEMMA ScopeObject ==
  ASSUME ScopeIInv, NEW c \in Commands, NEW last \in BOOLEAN, pc \notin Ended,
         said' = Append(said, c), NameObject(c, Arguments(c, last), last)
  PROVE  ScopeIInv'
<1>1. PICK args, argc, a, times, n :
        /\ args = Arguments(c, last) /\ argc = Len(args) /\ a = Overlay(args)
        /\ times = TimeArgs(c.cmd, argc, a) /\ n = Place
  OBVIOUS
<1>2. PICK understood \in Understood(c.cmd, argc, a), identified \in Identified(c.cmd) :
          /\ pc' = After(IF understood /\ identified THEN "return" ELSE "exit", last)
          /\ range' = IF times # {} /\ understood THEN n ELSE range
          /\ IF understood /\ identified
             THEN /\ named' = named \cup {n}
                  /\ during' = IF times # {} THEN during \cup {n} ELSE during
                  /\ title' = n
             ELSE UNCHANGED <<named, during, title>>
  BY <1>1, Zenon DEF NameObject, IsTimed
<1>3. /\ c.cmd \in Objects
      /\ result' = [Nothing EXCEPT !.cmd = c.cmd, !.foreign = Foreign(times, argc)]
  BY <1>1, Zenon DEF NameObject
<1>4. /\ c.cmd \notin {"global", "system"}
      /\ result'.cmd = c.cmd /\ result'.foreign = Foreign(times, argc)
  BY <1>3 DEF Nothing, Objects
<1>5. said \in Seq(Commands) /\ said' \in Seq(Commands) /\ ScopeInv
  BY DEF ScopeIInv, ScopeInv
<1>6. CASE ~(understood /\ identified)
  <2>1. pc' \in Ended
    BY <1>2, <1>6, AfterIs DEF Ended
  <2>2. ScopeInv'
    BY <1>5, <2>1 DEF ScopeInv
  <2>3. ResultIsInScope'
    BY <1>1, <1>3, <1>4, <1>5, <2>1, NamedResult
  <2> QED BY <2>2, <2>3 DEF ScopeIInv
<1>7. CASE understood /\ identified
  <2>1. MayBeUnderstood(c.cmd, argc, a)
    BY <1>2, <1>7, Zenon DEF MayBeUnderstood, Understood
  <2>2. times # {} <=> GivesTimes(c)
    <3>1. IsTimed(c.cmd, argc, a) <=> GivesTimes(c)
      BY <1>1, <1>3, <2>1, TimesAreGiven
    <3> QED BY <1>1, <3>1, Zenon DEF IsTimed
  <2>3. /\ named' = named \cup {n} /\ title' = n
        /\ during' = (IF times # {} THEN during \cup {n} ELSE during)
        /\ range' = (IF times # {} THEN n ELSE range)
    BY <1>2, <1>7, Zenon
  <2>4. ScopeInv'
    BY <1>1, <1>3, <1>4, <1>5, <2>2, <2>3, ObjectIsSaid
  <2>5. ResultIsInScope'
    BY <1>1, <1>3, <1>4, <1>5, <2>2, NamedResult
  <2> QED BY <2>4, <2>5 DEF ScopeIInv
<1> QED BY <1>6, <1>7

LEMMA ScopeGlobal ==
  ASSUME ScopeIInv, NEW c \in Commands, NEW last \in BOOLEAN, pc \notin Ended,
         said' = Append(said, c), GoGlobal(c, Arguments(c, last), last)
  PROVE  ScopeIInv'
<1>1. PICK args, argc, a, times, n :
        /\ args = Arguments(c, last) /\ argc = Len(args) /\ a = Overlay(args)
        /\ times = TimeArgs(c.cmd, argc, a) /\ n = Place
  OBVIOUS
<1>2. PICK understood \in Understood(c.cmd, argc, a) :
          /\ pc' = After(IF understood THEN "return" ELSE "exit", last)
          /\ range' = IF times # {} /\ understood THEN n ELSE range
          /\ IF understood
             THEN /\ named' = {} /\ title' = n
                  /\ during' = IF times # {} THEN {n} ELSE {}
             ELSE UNCHANGED <<named, during, title>>
  BY <1>1, Zenon DEF GoGlobal, IsTimed
<1>3. /\ c.cmd = "global"
      /\ result' = [Nothing EXCEPT !.cmd = c.cmd, !.foreign = Foreign(times, argc)]
  BY <1>1, Zenon DEF GoGlobal
<1>4. /\ c.cmd \notin Objects
      /\ result'.cmd = c.cmd /\ result'.foreign = Foreign(times, argc)
  BY <1>3 DEF Nothing, Objects
<1>5. said \in Seq(Commands) /\ said' \in Seq(Commands) /\ ScopeInv
  BY DEF ScopeIInv, ScopeInv
<1>6. CASE ~understood
  <2>1. pc' \in Ended
    BY <1>2, <1>6, AfterIs DEF Ended
  <2>2. ScopeInv'
    BY <1>5, <2>1 DEF ScopeInv
  <2>3. ResultIsInScope'
    BY <1>1, <1>3, <1>4, <1>5, <2>1, NamedResult
  <2> QED BY <2>2, <2>3 DEF ScopeIInv
<1>7. CASE understood
  <2>1. MayBeUnderstood(c.cmd, argc, a)
    BY <1>2, <1>7, Zenon DEF MayBeUnderstood, Understood
  <2>2. times # {} <=> GivesTimes(c)
    <3>1. IsTimed(c.cmd, argc, a) <=> GivesTimes(c)
      BY <1>1, <1>3, <2>1, TimesAreGiven
    <3> QED BY <1>1, <3>1, Zenon DEF IsTimed
  <2>3. /\ named' = {} /\ title' = n
        /\ during' = (IF times # {} THEN {n} ELSE {})
        /\ range' = (IF times # {} THEN n ELSE range)
    BY <1>2, <1>7, Zenon
  <2>4. ScopeInv'
    BY <1>1, <1>3, <1>4, <1>5, <2>2, <2>3, ObjectIsSaid
  <2>5. ResultIsInScope'
    BY <1>1, <1>3, <1>4, <1>5, <2>2, NamedResult
  <2> QED BY <2>4, <2>5 DEF ScopeIInv
<1> QED BY <1>6, <1>7

LEMMA ScopeSystem ==
  ASSUME ScopeIInv, NEW c \in Commands, NEW last \in BOOLEAN, pc \notin Ended,
         said' = Append(said, c), GoSystem(c, last)
  PROVE  ScopeIInv'
<1>1. PICK n : n = Place
  OBVIOUS
<1>2. /\ c.cmd = "system" /\ named' = {} /\ during' = {} /\ title' = n /\ range' = range
      /\ result'.cmd = "system" /\ result'.foreign = {}
  BY <1>1 DEF GoSystem, Nothing
<1>3. ~GivesTimes(c)
  BY <1>2 DEF GivesTimes, Objects
<1>4. ScopeInv'
  BY <1>1, <1>2, <1>3, ObjectIsSaid DEF ScopeIInv
<1>5. ResultIsInScope'
  BY <1>2 DEF ResultIsInScope, ScopeIsNamed, DiagramHasTheLastTimes, ArgumentsAreOwn, Bound
<1> QED BY <1>4, <1>5 DEF ScopeIInv

\* A function finds what the line has named, and names nothing.
LEMMA ScopeRun ==
  ASSUME ScopeIInv, NEW c \in Commands, NEW last \in BOOLEAN, pc \notin Ended,
         Arguments(c, last) # <<>>,
         said' = Append(said, c), Run(c, Arguments(c, last), last)
  PROVE  ScopeIInv'
<1>1. PICK args, argc, a, n :
        /\ args = Arguments(c, last) /\ argc = Len(args) /\ a = Overlay(args) /\ n = Place
  OBVIOUS
<1>2. /\ c.cmd \notin Objects \cup {"global", "system"}
      /\ UNCHANGED <<named, during, range, title>>
  BY Zenon DEF Run, object
<1>3. PICK o \in Outcomes(c.cmd, argc, a) :
       result' = [cmd |-> c.cmd,
                  scope |-> IF c.cmd \in Bound THEN named ELSE {},
                  during |-> IF c.cmd \in Bound THEN during ELSE {},
                  range |-> IF c.cmd = "usage" THEN range ELSE 0,
                  title |-> IF c.cmd \in Bound THEN title ELSE 0,
                  foreign |-> Foreign(o.reads, argc)]
  BY <1>1, Zenon DEF Run
<1>4. ~GivesTimes(c)
  BY <1>2 DEF GivesTimes
<1>5. ScopeInv'
  BY <1>1, <1>2, <1>4, ObjectIsSaid DEF ScopeIInv
<1>6. /\ said \in Seq(Commands)
      /\ named = Scope /\ during = Span
      /\ title \in ObjectPlaces \cup {0} /\ \A p \in ObjectPlaces : p <= title
      /\ range \in TimedPlaces \cup {0} /\ \A p \in TimedPlaces : p <= range
  BY DEF ScopeIInv, ScopeInv
<1>7. /\ Scope' = Scope /\ Span' = Span
      /\ ObjectPlaces' = ObjectPlaces /\ TimedPlaces' = TimedPlaces
      /\ Len(said') = n /\ said'[n] = c
  <2>1. /\ ObjectPlaces' = ObjectPlaces \cup
             {p \in {n} : c.cmd \in Objects \cup {"global", "system"}}
        /\ TimedPlaces' = TimedPlaces \cup {p \in {n} : GivesTimes(c)}
        /\ Len(said') = n /\ said'[n] = c
    BY <1>1, <1>6, SaidPlaces
  <2>2. /\ Scope' = Scope \cup {p \in {n} : c.cmd \in Objects}
        /\ Span' = Span \cup {p \in {n} : GivesTimes(c)}
    BY <1>1, <1>2, <1>6, SaidScope
  <2>3. /\ {p \in {n} : c.cmd \in Objects \cup {"global", "system"}} = {}
        /\ {p \in {n} : c.cmd \in Objects} = {} /\ {p \in {n} : GivesTimes(c)} = {}
    BY <1>2, <1>4
  <2> QED BY <2>1, <2>2, <2>3
<1>8. ScopeIsNamed'
  BY <1>3, <1>6, <1>7 DEF ScopeIsNamed, Scope, Span
<1>9. DiagramHasTheLastTimes'
  BY <1>3, <1>6, <1>7 DEF DiagramHasTheLastTimes
<1>10. argc \in Nat \ {0} /\ Len(c.args) <= argc
  <2>1. PICK own \in Seq(Words) : own = c.args
    BY InterpreterAssumption
  <2>2. PICK none \in Words : none = ""
    BY Zenon DEF Words
  <2>3. args = own \/ args = Append(own, none)
    BY <1>1, <2>1, <2>2, Zenon DEF Arguments
  <2>4. args \in Seq(Words) /\ Len(own) <= Len(args)
    BY <2>3
  <2> QED BY <1>1, <2>1, <2>4
<1>11. ArgumentsAreOwn'
  <2>1. result'.foreign = Foreign(o.reads, argc) /\ result'.cmd = c.cmd
    BY <1>3
  <2>2. Foreign(o.reads, argc) # {} => c.cmd = "usage" /\ argc < 3
    BY <1>10, OnlyUsageReadsMore
  <2>3. Len(c.args) \in Nat
    BY InterpreterAssumption
  <2>4. argc < 3 => Len(c.args) < 3
    BY <1>10, <2>3
  <2> QED BY <1>7, <2>1, <2>2, <2>4 DEF ArgumentsAreOwn
<1> QED BY <1>5, <1>8, <1>9, <1>11 DEF ScopeIInv, ResultIsInScope

LEMMA ScopeCommand ==
  ASSUME ScopeIInv, NEW c \in Commands, NEW last \in BOOLEAN, Command(c, last)
  PROVE  ScopeIInv'
<1>1. pc = "command" /\ pc \notin Ended
  BY DEF Command, Ended
<1>2. CASE NoParameter(c, last)
  BY <1>1, <1>2, ScopeStays DEF NoParameter, object
<1>3. CASE /\ Arguments(c, last) # <<>> /\ said' = Append(said, c)
           /\ \/ NameObject(c, Arguments(c, last), last)
              \/ GoGlobal(c, Arguments(c, last), last)
              \/ GoSystem(c, last)
              \/ Run(c, Arguments(c, last), last)
  BY <1>1, <1>3, ScopeObject, ScopeGlobal, ScopeSystem, ScopeRun
<1> QED BY <1>2, <1>3, Zenon DEF Command

LEMMA ScopeNext == ScopeIInv /\ [Next]_vars => ScopeIInv'
<1> SUFFICES ASSUME ScopeIInv, [Next]_vars
             PROVE  ScopeIInv'
  OBVIOUS
<1>1. CASE StartQuery
  BY <1>1, ScopeStays DEF StartQuery, object, Ended
<1>2. CASE OpenFile
  BY <1>2, ScopeStays DEF OpenFile, object, Ended
<1>3. CASE ReadLine
  BY <1>3, ScopeStays DEF ReadLine, object, Ended
<1>4. CASE ReadNothing
  BY <1>4, ScopeStays DEF ReadNothing, object, Ended
<1>5. CASE CloseFile
  BY <1>5, ScopeStays DEF CloseFile, object, Ended
<1>6. CASE StartLine \/ EndLine
  <2>1. FreshLine'
    BY <1>6 DEF StartLine, EndLine, Fresh, FreshLine
  <2> QED BY <2>1, FreshScope, PTL
<1>7. CASE CloseXml
  BY <1>7, ScopeStays DEF CloseXml, object, Ended
<1>8. CASE \E c \in Commands, last \in BOOLEAN : Command(c, last)
  BY <1>8, ScopeCommand
<1>9. CASE UNCHANGED vars
  BY <1>9, ScopeStays DEF vars, object
<1> QED
  BY <1>1, <1>2, <1>3, <1>4, <1>5, <1>6, <1>7, <1>8, <1>9, Zenon DEF Next, Stopped

\* Every function reports on the objects and times that its line has named since
\* the last "global" or "system", under the last one's name, every diagram is
\* drawn over the times given last, and no command but a diagram, or one with
\* times that are cut short, carries on with arguments it was not given:
\* whatever the commands, and however many there are in a line.
THEOREM ResultsAreInScope == Spec => []ResultIsInScope
<1>1. ScopeIInv => ResultIsInScope
  BY DEF ScopeIInv
<1> QED BY <1>1, ScopeInit, ScopeNext, PTL DEF Spec
=============================================================================
