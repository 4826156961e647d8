-------------------------- MODULE QtMonitor_proofs --------------------------
(***************************************************************************)
(* Proofs about smbtamonitor-qt: QtSession, for any names and any number   *)
(* of clicks, and QtTraffic, for steps and curves of every length.         *)
(*                                                                         *)
(* None of QtSession's invariants is inductive.  A start that is going on  *)
(* will call the monitor running, so what RunningIsTimed and               *)
(* RunningIsNotEnding say must hold from the click on (TimedInv).  A box is only ever the innermost of the  *)
(* calls, and stands for a look that has failed (BoxInv): when it is       *)
(* dismissed, StoppedIsStill has nothing to say.  And MonitorsWhatWasAsked *)
(* depends on how a string of options was made (Made).                     *)
(* What PointsInOrder of QtTraffic says is inductive.                      *)
(***************************************************************************)
EXTENDS QtSession, QtTraffic, SequenceTheorems, TLAPS

TimedInv ==
  running \/ frames # <<>> =>
    /\ timer \/ stoppedInside
    /\ stoppedInside \/ joined \/ ~sigterm

BoxInv ==
  \A i \in DOMAIN frames : frames[i] = "box" => i = Len(frames) /\ failed

\* A string made by WithForm, the form f having been read last.
Made(string, f) ==
  /\ string # <<>>
  /\ string[Len(string)] = f
  /\ \A i \in 2 .. Len(string) :
       ~string[i].dry /\ string[i].entries["object"] # Global

OptionsInv ==
  /\ reads > 0 => Made(configString, asked)
  /\ reads = 0 => configString = <<>>
  /\ child # "none" => pid > 0 /\ Made(options, form)
  /\ child \in {"bound", "listening"} => Accepted(options)

IInv == TypeOK /\ TimedInv /\ BoxInv /\ StoppedIsStill /\ OptionsInv
----------------------------------------------------------------------------
(* The stack of calls *)

LEMMA PushKeepsBoxes ==
  ASSUME NEW s \in Seq({"waiting", "box"}), NEW b \in BOOLEAN,
         \A i \in DOMAIN s : s[i] = "box" => i = Len(s) /\ b,
         s # <<>> => Last(s) = "waiting"
  PROVE  \A i \in DOMAIN Append(s, "waiting") : Append(s, "waiting")[i] # "box"
<1>1. \A i \in DOMAIN s : s[i] # "box"
  BY DEF Last
<1> QED BY <1>1

\* The innermost call apart, all calls are waiting.
LEMMA FrontWaits ==
  ASSUME NEW s \in Seq({"waiting", "box"}), NEW b \in BOOLEAN, s # <<>>,
         \A i \in DOMAIN s : s[i] = "box" => i = Len(s) /\ b
  PROVE  /\ Front(s) \in Seq({"waiting", "box"})
         /\ Len(Front(s)) = Len(s) - 1
         /\ \A i \in DOMAIN Front(s) : Front(s)[i] = "waiting"
<1>1. Len(s) \in Nat \ {0}
  OBVIOUS
<1>2. /\ Front(s) \in Seq({"waiting", "box"})
      /\ Len(Front(s)) = Len(s) - 1
      /\ DOMAIN Front(s) = 1 .. Len(s) - 1
      /\ \A i \in 1 .. Len(s) - 1 : Front(s)[i] = s[i]
  <2>1. \A i \in 1 .. Len(s) - 1 : s[i] \in {"waiting", "box"}
    BY <1>1
  <2> DEFINE t == SubSeq(s, 1, Len(s) - 1)
  <2>2. /\ t \in Seq({"waiting", "box"})
        /\ Len(t) = IF 1 <= Len(s) - 1 THEN Len(s) - 1 - 1 + 1 ELSE 0
        /\ \A i \in 1 .. Len(s) - 1 - 1 + 1 : t[i] = s[1 + i - 1]
    BY <1>1, <2>1, SubSeqProperties
  <2>3. Len(t) = Len(s) - 1 /\ \A i \in 1 .. Len(s) - 1 : t[i] = s[i]
    <3> HIDE DEF t
    <3>1. /\ Len(s) - 1 - 1 + 1 = Len(s) - 1
          /\ \A i \in 1 .. Len(s) - 1 : 1 + i - 1 = i
      BY <1>1
    <3>2. \A n \in Nat \ {0} : 1 <= n - 1 \/ n - 1 = 0
      OBVIOUS
    <3> QED BY <1>1, <2>2, <3>1, <3>2
  <2>4. DOMAIN t = 1 .. Len(s) - 1
    BY <2>2, <2>3
  <2> QED BY <2>2, <2>3, <2>4 DEF Front
<1>3. \A i \in 1 .. Len(s) - 1 : s[i] = "waiting"
  <2> SUFFICES ASSUME NEW i \in 1 .. Len(s) - 1 PROVE s[i] = "waiting"
    OBVIOUS
  <2>1. i \in DOMAIN s /\ i # Len(s) /\ s[i] \in {"waiting", "box"}
    BY <1>1
  <2> QED BY <2>1
<1> QED BY <1>2, <1>3
----------------------------------------------------------------------------
(* The string of options *)

LEMMA FormsAreMade ==
  ASSUME NEW string \in Seq(Forms), NEW f \in Forms,
         string = <<>> \/ \E g \in Forms : Made(string, g)
  PROVE  WithForm(string, f) \in Seq(Forms) /\ Made(WithForm(string, f), f)
<1> DEFINE Replaces(g) == g.dry \/ g.entries["object"] = Global
<1>1. CASE Replaces(f)
  BY <1>1 DEF WithForm, Made
<1>2. CASE ~Replaces(f)
  <2>1. /\ Append(string, f) \in Seq(Forms)
        /\ Len(Append(string, f)) = Len(string) + 1
        /\ Append(string, f)[Len(string) + 1] = f
        /\ \A i \in 1 .. Len(string) : Append(string, f)[i] = string[i]
    OBVIOUS
  <2>2. \A i \in 2 .. Len(string) : ~Replaces(string[i])
    BY DEF Made
  <2>3. \A i \in 2 .. Len(string) + 1 : ~Replaces(Append(string, f)[i])
    BY <1>2, <2>1, <2>2
  <2>4. Append(string, f) # <<>> /\ WithForm(string, f) = Append(string, f)
    BY <1>2, <2>1 DEF WithForm
  <2> QED BY <2>1, <2>3, <2>4 DEF Made
<1> QED BY <1>1, <1>2

\* What getopt_long makes of the last form of such a string.
LEMMA LastFormCounts ==
  ASSUME NEW opts \in Seq(Forms), NEW f \in Forms, Made(opts, f),
         NEW e \in Entries, Adds(f, e)
  PROVE  Entry(opts, e) = f.entries[e]
<1> DEFINE n  == Len(opts)
           at == {i \in DOMAIN opts : Adds(opts[i], e)}
<1>1. n \in DOMAIN opts /\ opts[n] = f
  BY DEF Made
<1>2. n \in at /\ \A j \in at : j <= n
  BY <1>1
<1>3. \A i \in at : (\A j \in at : j <= i) => i = n
  BY <1>2
<1>4. (CHOOSE i \in at : \A j \in at : j <= i) = n
  BY <1>2, <1>3
<1> HIDE DEF n
<1> QED BY <1>1, <1>2, <1>4 DEF Entry

\* -x stands in front of all other options or nowhere.
LEMMA DryIsFirst ==
  ASSUME NEW opts \in Seq(Forms), NEW f \in Forms, Made(opts, f)
  PROVE  /\ DryOf(opts) => Head(opts).dry
         /\ f.dry => DryOf(opts)
<1>1. Len(opts) \in DOMAIN opts /\ opts[Len(opts)] = f /\ Head(opts) = opts[1]
  BY DEF Made
<1>2. \A i \in DOMAIN opts : opts[i].dry => i = 1
  BY DEF Made
<1> QED BY <1>1, <1>2 DEF DryOf

\* A query for all leaves nothing of the forms before it.
LEMMA AllIsAsked ==
  ASSUME SessionAssumption,
         NEW opts \in Seq(Forms), NEW f \in Forms, Made(opts, f),
         ~f.dry, f.entries["object"] = Global
  PROVE  /\ ~DryOf(opts)
         /\ \A e \in Entries : Entry(opts, e) = f.entries[e]
<1>1. Len(opts) = 1 /\ opts[1] = f /\ DOMAIN opts = {1}
  <2>1. Len(opts) \in Nat \ {0} /\ opts[Len(opts)] = f
    BY DEF Made
  <2>2. Len(opts) \notin 2 .. Len(opts)
    BY <2>1 DEF Made
  <2>3. \A n \in Nat \ {0} : n \notin 2 .. n => n = 1
    OBVIOUS
  <2>4. Len(opts) = 1
    BY <2>1, <2>2, <2>3
  <2> QED BY <2>1, <2>4
<1>2. ~DryOf(opts)
  BY <1>1 DEF DryOf
<1>3. ASSUME NEW e \in Entries
      PROVE  Entry(opts, e) = f.entries[e]
  <2>1. CASE Adds(f, e)
    BY <2>1, LastFormCounts
  <2>2. CASE ~Adds(f, e)
    <3>1. {i \in DOMAIN opts : Adds(opts[i], e)} = {}
      BY <1>1, <2>2
    <3>2. Entry(opts, e) = Blank
      BY <3>1 DEF Entry
    <3> QED BY <2>2, <3>2 DEF Adds
  <2> QED BY <2>1, <2>2
<1> QED BY <1>2, <1>3
----------------------------------------------------------------------------
LEMMA InitEstablishesIInv == SessionAssumption /\ Init => IInv
<1> SUFFICES ASSUME Init PROVE IInv
  OBVIOUS
<1>1. TypeOK
  <2>1. app \in BOOLEAN /\ running \in BOOLEAN /\ timer \in BOOLEAN
    BY DEF Init
  <2>2. /\ sigterm \in BOOLEAN /\ failed \in BOOLEAN /\ stoppedInside \in BOOLEAN
        /\ joined \in BOOLEAN
    BY DEF Init
  <2>3. files \subseteq 1 .. pid
    BY DEF Init
  <2>4. configString \in Seq(Forms) /\ options \in Seq(Forms)
    BY DEF Init
  <2>5. frames \in Seq({"waiting", "box"})
    BY DEF Init
  <2>6. child \in Alive \cup {"none", "dead"}
    BY DEF Init
  <2>7. sock \in 0 .. pid /\ pid \in Nat /\ clicks \in Nat /\ reads \in Nat
    BY DEF Init
  <2>8. /\ asked \in Forms \cup {NoForm} /\ form \in Forms \cup {NoForm}
        /\ reads > 0 => asked \in Forms
    BY DEF Init
  <2> QED BY <2>1, <2>2, <2>3, <2>4, <2>5, <2>6, <2>7, <2>8 DEF TypeOK
<1>2. TimedInv
  BY DEF Init, TimedInv
<1>5. StoppedIsStill
  BY DEF Init, StoppedIsStill, Alive
<1>3. BoxInv
  BY DEF Init, BoxInv
<1>4. OptionsInv
  BY DEF Init, OptionsInv
<1> QED BY <1>1, <1>2, <1>3, <1>4, <1>5 DEF IInv

LEMMA OpenMonitorKeepsIInv ==
  ASSUME SessionAssumption, IInv, NEW f \in Forms, OpenMonitor(f)
  PROVE  IInv'
<1> USE DEF OpenMonitor, process, history, IInv
<1>1. configString' \in Seq(Forms) /\ Made(configString', f)
  <2>1. configString = <<>> \/ \E g \in Forms : Made(configString, g)
    BY DEF TypeOK, OptionsInv
  <2> QED BY <2>1, FormsAreMade DEF TypeOK
<1>2. TypeOK'
  BY <1>1 DEF TypeOK
<1>3. TimedInv' /\ BoxInv' /\ StoppedIsStill'
  BY DEF TimedInv, BoxInv, StoppedIsStill
<1>4. OptionsInv'
  BY <1>1 DEF OptionsInv, TypeOK, Made, Accepted
<1> QED BY <1>2, <1>3, <1>4

LEMMA StartKeepsIInv ==
  ASSUME SessionAssumption, IInv, Start
  PROVE  IInv'
<1> USE DEF Start, StartProcess, page, process, IInv
<1>1. TypeOK'
  <2>1. pid' \in {pid, pid + 1} /\ pid \in Nat
    BY DEF TypeOK
  <2>2. files \subseteq 1 .. pid /\ sock \in 0 .. pid
    BY DEF TypeOK
  <2>5. files' \subseteq 1 .. pid' /\ sock' \in 0 .. pid'
    <3>1. 1 .. pid \subseteq 1 .. pid' /\ 0 .. pid \subseteq 0 .. pid'
      BY <2>1
    <3>2. files' = files /\ sock' = sock
      OBVIOUS
    <3> QED BY <2>2, <3>1, <3>2
  <2>6. /\ app' \in BOOLEAN /\ running' \in BOOLEAN /\ timer' \in BOOLEAN
        /\ sigterm' \in BOOLEAN /\ failed' \in BOOLEAN /\ stoppedInside' \in BOOLEAN
        /\ joined' \in BOOLEAN
    BY DEF TypeOK
  <2>7. child' \in Alive \cup {"none", "dead"}
    BY DEF TypeOK, Alive
  <2>8. clicks' \in Nat /\ reads' \in Nat /\ (reads' > 0 => asked' \in Forms)
    BY DEF TypeOK
  <2>9. asked' \in Forms \cup {NoForm} /\ configString' \in Seq(Forms)
    BY DEF TypeOK
  <2>3. frames' \in Seq({"waiting", "box"})
    BY DEF TypeOK
  <2>4. form' \in Forms \cup {NoForm} /\ options' \in Seq(Forms)
    BY DEF TypeOK
  <2> QED BY <2>1, <2>3, <2>4, <2>5, <2>6, <2>7, <2>8, <2>9 DEF TypeOK
<1>2. frames' # <<>> /\ TimedInv'
  <2>1. frames' # <<>> /\ timer' = TRUE
    BY DEF TypeOK
  <2>2. joined' \/ ~sigterm'
    <3>1. CASE child = "none"
      BY <3>1
    <3>2. CASE child # "none"
      BY <3>2
    <3> QED BY <3>1, <3>2
  <2> QED BY <2>1, <2>2 DEF TimedInv
<1>3. BoxInv'
  BY PushKeepsBoxes DEF BoxInv, TypeOK, Clickable
<1>4. StoppedIsStill'
  BY <1>2 DEF StoppedIsStill
<1>5. OptionsInv'
  BY DEF OptionsInv, TypeOK, Made, Accepted
<1> QED BY <1>1, <1>2, <1>3, <1>4, <1>5

LEMMA DeadlineKeepsIInv ==
  ASSUME SessionAssumption, IInv, Deadline
  PROVE  IInv'
<1> USE DEF Deadline, page, process, IInv
<1>1. /\ Front(frames) \in Seq({"waiting", "box"})
      /\ Len(Front(frames)) = Len(frames) - 1
      /\ \A i \in DOMAIN Front(frames) : Front(frames)[i] = "waiting"
  BY FrontWaits DEF TypeOK, BoxInv
<1>2. TypeOK'
  <2>1. frames' \in Seq({"waiting", "box"})
    <3>1. Append(Front(frames), "box") \in Seq({"waiting", "box"})
      BY <1>1
    <3> QED BY <1>1, <3>1
  <2>2. sock' \in 0 .. pid
    BY DEF TypeOK, ConnectToServer
  <2>3. running' \in BOOLEAN /\ failed' \in BOOLEAN
    BY DEF TypeOK
  <2> QED BY <2>1, <2>2, <2>3 DEF TypeOK
<1>3. TimedInv'
  BY DEF TimedInv
<1>4. BoxInv'
  BY <1>1 DEF BoxInv
<1>5. StoppedIsStill'
  BY <1>1 DEF StoppedIsStill
<1>6. OptionsInv'
  BY DEF OptionsInv, Made, Accepted
<1> QED BY <1>2, <1>3, <1>4, <1>5, <1>6

LEMMA DismissBoxKeepsIInv ==
  ASSUME SessionAssumption, IInv, DismissBox
  PROVE  IInv'
<1> USE DEF DismissBox, page, process, history, IInv
<1>1. /\ Front(frames) \in Seq({"waiting", "box"})
      /\ \A i \in DOMAIN Front(frames) : Front(frames)[i] = "waiting"
  BY FrontWaits DEF TypeOK, BoxInv
<1>2. failed
  BY DEF TypeOK, BoxInv, Last
<1>3. TypeOK'
  BY <1>1 DEF TypeOK
<1>4. TimedInv' /\ BoxInv' /\ StoppedIsStill'
  BY <1>1, <1>2 DEF TimedInv, BoxInv, StoppedIsStill
<1>5. OptionsInv'
  BY DEF OptionsInv, Made, Accepted
<1> QED BY <1>3, <1>4, <1>5

LEMMA StopKeepsIInv ==
  ASSUME SessionAssumption, IInv, Stop
  PROVE  IInv'
<1> USE DEF Stop, page, IInv
<1>1. TypeOK'
  BY DEF TypeOK
<1>2. TimedInv' /\ BoxInv' /\ StoppedIsStill'
  BY DEF TypeOK, TimedInv, BoxInv, StoppedIsStill, Alive
<1>3. OptionsInv'
  BY DEF OptionsInv, Made, Accepted
<1> QED BY <1>1, <1>2, <1>3

LEMMA EventsKeepIInv ==
  ASSUME SessionAssumption, IInv, Quit \/ Reap \/ Disconnected
  PROVE  IInv'
<1> USE DEF Quit, Reap, Disconnected, page, process, history, IInv
<1>1. TypeOK'
  <2>1. app' \in BOOLEAN
    BY DEF TypeOK
  <2>2. sock' \in 0 .. pid
    BY DEF TypeOK
  <2>3. child' \in Alive \cup {"none", "dead"} /\ UNCHANGED <<files, pid>>
    BY DEF TypeOK
  <2> QED BY <2>1, <2>2, <2>3 DEF TypeOK
<1>2. TimedInv' /\ BoxInv' /\ StoppedIsStill'
  BY DEF TypeOK, TimedInv, BoxInv, StoppedIsStill, Alive
<1>3. OptionsInv'
  BY DEF OptionsInv, Made, Accepted
<1> QED BY <1>1, <1>2, <1>3

LEMMA ChildKeepsIInv ==
  ASSUME SessionAssumption, IInv, ChildBinds \/ ChildListens \/ ChildEnds
  PROVE  IInv'
<1> USE DEF ChildBinds, ChildListens, ChildEnds, page, history, IInv
<1>1. TypeOK'
  <2>1. pid \in Nat /\ files \subseteq 1 .. pid
    BY DEF TypeOK
  <2>2. child # "none" /\ pid > 0
    BY DEF OptionsInv, Alive
  <2>3. pid \in 1 .. pid /\ files' \subseteq files \cup {pid}
    BY <2>1, <2>2
  <2>4. files' \subseteq 1 .. pid
    BY <2>1, <2>3
  <2> QED BY <2>4 DEF TypeOK, Alive
<1>2. TimedInv' /\ BoxInv' /\ StoppedIsStill'
  BY DEF TypeOK, TimedInv, BoxInv, StoppedIsStill, Alive
<1>3. OptionsInv'
  BY DEF OptionsInv, Made, Accepted, Alive
<1> QED BY <1>1, <1>2, <1>3

LEMMA StepKeepsIInv == SessionAssumption /\ IInv /\ [Next]_vars => IInv'
<1> SUFFICES ASSUME SessionAssumption, IInv, [Next]_vars PROVE IInv'
  OBVIOUS
<1>1. ASSUME NEW f \in Forms, OpenMonitor(f) PROVE IInv'
  BY <1>1, OpenMonitorKeepsIInv
<1>2. CASE Start
  BY <1>2, StartKeepsIInv
<1>3. CASE Deadline
  BY <1>3, DeadlineKeepsIInv
<1>4. CASE DismissBox
  BY <1>4, DismissBoxKeepsIInv
<1>5. CASE Stop
  BY <1>5, StopKeepsIInv
<1>6. CASE Quit \/ Reap \/ Disconnected
  BY <1>6, EventsKeepIInv
<1>7. CASE ChildBinds \/ ChildListens \/ ChildEnds
  BY <1>7, ChildKeepsIInv
<1>8. CASE UNCHANGED vars
  BY <1>8 DEF vars, page, process, history, IInv, TypeOK, TimedInv, BoxInv,
              StoppedIsStill, OptionsInv, Made, Accepted
<1> QED BY <1>1, <1>2, <1>3, <1>4, <1>5, <1>6, <1>7, <1>8 DEF Next

LEMMA Invariance == Spec => []IInv
<1>1. SessionAssumption
  BY SessionAssumption
<1> QED BY <1>1, InitEstablishesIInv, StepKeepsIInv, PTL DEF Spec
----------------------------------------------------------------------------
(***************************************************************************)
(* Every variable keeps its type; the socket files there are belong to     *)
(* children that were started (StartProcess, ChildBinds).                  *)
(***************************************************************************)
THEOREM TypeCorrect == Spec => []TypeOK
BY Invariance, PTL DEF IInv

(***************************************************************************)
(* A running monitor has its timer, or was stopped inside a start.         *)
(***************************************************************************)
THEOREM TimerRuns == Spec => []RunningIsTimed
<1>1. IInv => RunningIsTimed
  BY DEF IInv, TimedInv, RunningIsTimed
<1> QED BY <1>1, Invariance, PTL

(***************************************************************************)
(* stopmonitor leaves neither timer nor child, unless a start has failed.  *)
(***************************************************************************)
THEOREM StopIsComplete == Spec => []StoppedIsStill
BY Invariance, PTL DEF IInv

(***************************************************************************)
(* The child of a running monitor was not told to end, unless the monitor  *)
(* was stopped inside a start, or started before the end of the last child *)
(* was noticed.                                                            *)
(***************************************************************************)
THEOREM RunningHasItsChild == Spec => []RunningIsNotEnding
<1>1. IInv => RunningIsNotEnding
  BY DEF IInv, TimedInv, RunningIsNotEnding
<1> QED BY <1>1, Invariance, PTL

(***************************************************************************)
(* A child does what the form said when it was started, in everything the  *)
(* form filled in, whatever was read before; after a query for all, in     *)
(* what it left blank too.                                                 *)
(***************************************************************************)
THEOREM AsksRight == Spec => []MonitorsWhatWasAsked
<1>1. SessionAssumption /\ IInv => MonitorsWhatWasAsked
  <2> SUFFICES ASSUME SessionAssumption, IInv, child \in {"bound", "listening"}
               PROVE  MonitorsWhatWasAsked
    BY DEF MonitorsWhatWasAsked
  <2>1. options \in Seq(Forms) /\ Made(options, form) /\ Accepted(options)
    BY DEF IInv, TypeOK, OptionsInv
  <2>2. Len(options) \in DOMAIN options /\ options[Len(options)] = form /\ form \in Forms
    BY <2>1 DEF Made
  <2>3. IF form.dry THEN DryOf(options) ELSE form.entries["object"] # Domain
    BY <2>1, <2>2, DryIsFirst DEF Accepted
  <2>4. DryOf(options) => Head(options).dry
    BY <2>1, <2>2, DryIsFirst
  <2>5. \A e \in Entries : Adds(form, e) => Entry(options, e) = form.entries[e]
    BY <2>1, <2>2, LastFormCounts
  <2>6. ~form.dry /\ form.entries["object"] = Global =>
          /\ ~DryOf(options)
          /\ \A e \in Entries : Entry(options, e) = form.entries[e]
    BY <2>1, <2>2, AllIsAsked
  <2> QED BY <2>3, <2>4, <2>5, <2>6 DEF MonitorsWhatWasAsked
<1> QED BY <1>1, SessionAssumption, Invariance, PTL
-----------------------------------------------------------------------------
(* The reading of traffic *)

\* The sums a step makes.
LEMMA SumsAreMade ==
  /\ Nothing \in Sums /\ LinesOf(Nothing) = {}
  /\ \A s, u \in Sums : /\ Plus(s, u) \in Sums
                        /\ LinesOf(Plus(s, u)) = LinesOf(s) \cup LinesOf(u)
  /\ \A t, is : /\ Added(t, is) \in Sums
                /\ LinesOf(Added(t, is)) = {i \in Lines : i \in is /\ written[i] = t}
<1>1. Nothing \in Sums /\ LinesOf(Nothing) = {}
  BY DEF Nothing, Sums, LinesOf
<1>2. ASSUME NEW s \in Sums, NEW u \in Sums
      PROVE  /\ Plus(s, u) \in Sums
             /\ LinesOf(Plus(s, u)) = LinesOf(s) \cup LinesOf(u)
  <2>1. /\ \A i \in Lines : s[i] \in Nat /\ u[i] \in Nat /\ Plus(s, u)[i] = s[i] + u[i]
        /\ Plus(s, u) \in Sums
    BY DEF Sums, Plus
  <2> QED BY <2>1 DEF LinesOf
<1>3. ASSUME NEW t, NEW is
      PROVE  /\ Added(t, is) \in Sums
             /\ LinesOf(Added(t, is)) = {i \in Lines : i \in is /\ written[i] = t}
  BY DEF Sums, Added, LinesOf
<1> QED BY <1>1, <1>2, <1>3

\* A new point moves the others back by one.
LEMMA PointIsFirst ==
  ASSUME NEW list \in [Indices -> Sums], NEW s \in Sums
  PROVE  /\ WithPoint(list, s) \in [Indices -> Sums]
         /\ WithPoint(list, s)[1] = s
         /\ \A k \in Indices : k # 1 => k - 1 \in Indices /\ WithPoint(list, s)[k] = list[k - 1]
BY TrafficAssumption DEF WithPoint, Indices

LEMMA TrafficTypeInit == TrafficInit => TrafficTypeOK
<1> SUFFICES ASSUME TrafficInit PROVE TrafficTypeOK
  OBVIOUS
<1>1. written \in Seq(Tag) /\ Len(written) <= MaxLines /\ taken \in 0 .. Len(written)
  BY TrafficAssumption DEF TrafficInit
<1>2. cut \in BOOLEAN /\ (cut => taken < Len(written))
  BY DEF TrafficInit
<1>3. i_s_count \in 0 .. StepSize - 1
  BY TrafficAssumption DEF TrafficInit
<1>4. /\ stack \in [Tag -> Sums] /\ sum \in [Tag -> Sums]
      /\ curve \in [Tag -> [Indices -> Sums]]
  BY SumsAreMade DEF TrafficInit
<1> QED BY <1>1, <1>2, <1>3, <1>4 DEF TrafficTypeOK

\* What a read adds, and when.
LEMMA ReadIsTyped ==
  ASSUME TrafficTypeOK, ReadFromSocket
  PROVE  /\ TrafficTypeOK'
         /\ taken <= taken'
         /\ \A t \in Tag :
              LinesOf(stack'[t]) = LinesOf(stack[t]) \cup
                {i \in Lines : i \in Whole(taken') /\ written[i] = t}
<1>1. PICK n \in taken .. Len(written), part \in BOOLEAN :
        /\ part => n < Len(written)
        /\ taken' = n /\ cut' = part
        /\ stack' = [t \in Tag |-> Plus(stack[t], Added(t, Whole(n)))]
        /\ UNCHANGED <<written, points>>
  BY Zenon DEF ReadFromSocket
<1>2. \A t \in Tag : stack[t] \in Sums
  BY DEF TrafficTypeOK
<1>3. \A t \in Tag :
        /\ stack'[t] \in Sums
        /\ LinesOf(stack'[t]) = LinesOf(stack[t]) \cup
             {i \in Lines : i \in Whole(n) /\ written[i] = t}
  BY <1>1, <1>2, SumsAreMade
<1>4. stack' \in [Tag -> Sums]
  BY <1>1, <1>3
<1>5. taken' \in 0 .. Len(written') /\ Len(written') <= MaxLines /\ taken <= taken'
  BY <1>1, TrafficAssumption DEF TrafficTypeOK
<1>6. cut' \in BOOLEAN /\ (cut' => taken' < Len(written'))
  BY <1>1, Zenon
<1>7. TrafficTypeOK'
  BY <1>1, <1>4, <1>5, <1>6 DEF TrafficTypeOK, points
<1> QED BY <1>1, <1>3, <1>5, <1>7

\* A tick of the middle of a step moves the stacks to the sums; the last one
\* moves both to the newest point, the others moving back by one.
Counts == sum' = Ticked /\ i_s_count + 1 < StepSize /\ i_s_count' = i_s_count + 1 /\ UNCHANGED curve
Fills ==
  /\ \A t \in Tag : sum'[t] = Nothing
  /\ sum' \in [Tag -> Sums] /\ curve' \in [Tag -> [Indices -> Sums]] /\ i_s_count' = 0
  /\ \A t \in Tag :
       /\ LinesOf(curve'[t][1]) = InHand(t)
       /\ \A k \in Indices : k # 1 => k - 1 \in Indices /\ curve'[t][k] = curve[t][k - 1]

LEMMA TickIs ==
  ASSUME TrafficTypeOK, SendToPoints
  PROVE  /\ \A t \in Tag : stack'[t] = Nothing
         /\ UNCHANGED socket
         /\ Counts \/ Fills
<1>1. stack' = [t \in Tag |-> Nothing] /\ UNCHANGED socket
  BY DEF SendToPoints
<1>2. CASE /\ i_s_count + 1 < StepSize
           /\ sum' = Ticked
           /\ i_s_count' = i_s_count + 1
           /\ UNCHANGED curve
  BY <1>1, <1>2 DEF Counts
<1>3. CASE /\ i_s_count + 1 = StepSize
           /\ curve' = [t \in Tag |-> WithPoint(curve[t], Filled[t])]
           /\ sum' = [t \in Tag |-> Nothing]
           /\ i_s_count' = 0
  <2>1. sum' \in [Tag -> Sums] /\ \A t \in Tag : sum'[t] = Nothing
    BY <1>3, SumsAreMade
  <2>2. ASSUME NEW t \in Tag
        PROVE  Filled[t] \in Sums /\ LinesOf(Filled[t]) = InHand(t)
    <3>1. stack[t] \in Sums /\ sum[t] \in Sums
      BY DEF TrafficTypeOK
    <3>2. Filled[t] = Plus(Plus(sum[t], stack[t]), stack[t])
      BY DEF Filled, Ticked
    <3> QED BY <3>1, <3>2, SumsAreMade DEF InHand
  <2>3. ASSUME NEW t \in Tag
        PROVE  /\ curve'[t] \in [Indices -> Sums]
               /\ curve'[t][1] = Filled[t]
               /\ \A k \in Indices : k # 1 => k - 1 \in Indices /\ curve'[t][k] = curve[t][k - 1]
    <3>1. curve[t] \in [Indices -> Sums]
      BY DEF TrafficTypeOK
    <3>2. curve'[t] = WithPoint(curve[t], Filled[t])
      BY <1>3
    <3> QED BY <2>2, <3>1, <3>2, PointIsFirst
  <2>4. curve' \in [Tag -> [Indices -> Sums]]
    BY <1>3, <2>3
  <2> QED BY <1>1, <1>3, <2>1, <2>2, <2>3, <2>4 DEF Fills
<1> QED BY <1>2, <1>3, Zenon DEF SendToPoints, ReceiveNumbers

LEMMA TrafficTypeNext == TrafficTypeOK /\ [TrafficNext]_trafficVars => TrafficTypeOK'
<1> SUFFICES ASSUME TrafficTypeOK, [TrafficNext]_trafficVars
             PROVE  TrafficTypeOK'
  OBVIOUS
<1>1. CASE Write
  <2>1. PICK t \in Tag : written' = Append(written, t)
    BY <1>1 DEF Write
  <2>2. /\ written' \in Seq(Tag) /\ Len(written') = Len(written) + 1
        /\ Len(written') <= MaxLines
    BY <1>1, <2>1, TrafficAssumption DEF TrafficTypeOK, Write
  <2>3. UNCHANGED <<taken, cut, stack, points>>
    BY <1>1 DEF Write
  <2> QED BY <2>2, <2>3 DEF TrafficTypeOK, points
<1>2. CASE ReadFromSocket
  BY <1>2, ReadIsTyped
<1>3. CASE SendToPoints
  <2>1. stack' \in [Tag -> Sums] /\ UNCHANGED socket
    BY <1>3, SumsAreMade DEF SendToPoints
  <2>2. CASE Counts
    <3>1. sum' \in [Tag -> Sums]
      <4>1. \A t \in Tag : sum'[t] = Plus(sum[t], stack[t])
        BY <2>2 DEF Counts, Ticked
      <4>2. \A t \in Tag : sum'[t] \in Sums
        BY <4>1, SumsAreMade DEF TrafficTypeOK
      <4> QED BY <2>2, <4>2 DEF Counts, Ticked
    <3>2. i_s_count' \in 0 .. StepSize - 1
      BY <2>2, TrafficAssumption DEF Counts, TrafficTypeOK
    <3> QED BY <2>1, <2>2, <3>1, <3>2 DEF Counts, TrafficTypeOK, socket
  <2>3. CASE Fills
    <3>1. i_s_count' \in 0 .. StepSize - 1
      BY <2>3, TrafficAssumption DEF Fills
    <3> QED BY <2>1, <2>3, <3>1 DEF Fills, TrafficTypeOK, socket
  <2> QED BY <1>3, <2>2, <2>3, TickIs
<1>4. CASE UNCHANGED trafficVars
  BY <1>4 DEF trafficVars, socket, points, TrafficTypeOK
<1> QED BY <1>1, <1>2, <1>3, <1>4 DEF TrafficNext

TrafficIInv == TrafficTypeOK /\ PointsInOrder

LEMMA PointsInit == TrafficInit => PointsInOrder
<1> SUFFICES ASSUME TrafficInit PROVE PointsInOrder
  OBVIOUS
<1>1. \A t \in Tag : /\ LinesOf(stack[t]) = {} /\ LinesOf(sum[t]) = {}
                     /\ \A k \in Indices : LinesOf(curve[t][k]) = {}
  BY SumsAreMade DEF TrafficInit
<1>2. \A t \in Tag, p \in 0 .. MaxIndex + 1 : LinesOf(Place(t, p)) = {}
  <2> SUFFICES ASSUME NEW t \in Tag, NEW p \in 0 .. MaxIndex + 1
               PROVE  LinesOf(Place(t, p)) = {}
    OBVIOUS
  <2>1. p \in {0, 1} \/ p - 1 \in Indices
    BY TrafficAssumption DEF Indices
  <2> QED BY <1>1, <2>1 DEF Place
<1> QED BY <1>1, <1>2 DEF PointsInOrder, Had, InHand

\* The places of a letter: the stack, the sum, and the points.
LEMMA PlacesAre ==
  ASSUME NEW t \in Tag
  PROVE  /\ Place(t, 0) = stack[t] /\ Place(t, 1) = sum[t]
         /\ \A k \in Indices : Place(t, k + 1) = curve[t][k]
         /\ \A p \in 0 .. MaxIndex + 1 : p \in {0, 1} \/ (p > 1 /\ p - 1 \in Indices)
         /\ Had(t) = UNION {LinesOf(Place(t, p)) : p \in 0 .. MaxIndex + 1}
<1>1. /\ Place(t, 0) = stack[t] /\ Place(t, 1) = sum[t]
      /\ \A k \in Indices : Place(t, k + 1) = curve[t][k]
  BY DEF Place, Indices
<1>2. \A p \in 0 .. MaxIndex + 1 : p \in {0, 1} \/ (p > 1 /\ p - 1 \in Indices)
  BY TrafficAssumption DEF Indices
<1>3. 0 \in 0 .. MaxIndex + 1 /\ 1 \in 0 .. MaxIndex + 1
      /\ \A k \in Indices : k + 1 \in 0 .. MaxIndex + 1
  BY TrafficAssumption DEF Indices
<1>4. Had(t) \subseteq UNION {LinesOf(Place(t, p)) : p \in 0 .. MaxIndex + 1}
  BY <1>1, <1>3 DEF Had, InHand
<1>5. ASSUME NEW p \in 0 .. MaxIndex + 1
      PROVE  LinesOf(Place(t, p)) \subseteq Had(t)
  <2>1. CASE p \in {0, 1}
    BY <1>1, <2>1 DEF Had, InHand
  <2>2. CASE p - 1 \in Indices /\ p > 1
    <3>1. Place(t, p) = curve[t][p - 1]
      BY <2>2 DEF Place
    <3> QED BY <2>2, <3>1 DEF Had
  <2> QED BY <1>2, <2>1, <2>2
<1> QED BY <1>1, <1>2, <1>4, <1>5

LEMMA PointsNext == TrafficIInv /\ [TrafficNext]_trafficVars => PointsInOrder'
<1> SUFFICES ASSUME TrafficIInv, [TrafficNext]_trafficVars
             PROVE  PointsInOrder'
  OBVIOUS
<1> USE DEF TrafficIInv
<1> DEFINE Old(t, p) == LinesOf(Place(t, p))
           All == 0 .. MaxIndex + 1
<1>1. \A t \in Tag :
        /\ \A i \in Had(t) : i <= taken /\ written[i] = t /\ i \in Lines
        /\ \A p, q \in All : p < q => \A i \in Old(t, p), j \in Old(t, q) : i > j
  BY DEF PointsInOrder, Had, InHand, LinesOf
<1>2. CASE Write
  <2>1. PICK w \in Tag : written' = Append(written, w)
    BY <1>2 DEF Write
  <2>2. UNCHANGED <<taken, cut, stack, points>>
    BY <1>2 DEF Write
  <2>3. \A i \in Lines : i <= taken => written'[i] = written[i]
    BY <2>1 DEF TrafficTypeOK, Lines
  <2>4. \A t \in Tag : Had(t)' = Had(t) /\ \A p : Place(t, p)' = Place(t, p)
    BY <2>2 DEF Had, InHand, Place, points
  <2> QED BY <1>1, <2>2, <2>3, <2>4 DEF PointsInOrder
<1>3. CASE ReadFromSocket
  <2>1. /\ taken <= taken' /\ taken \in Nat /\ taken' \in Nat
        /\ \A t \in Tag :
             LinesOf(stack'[t]) = LinesOf(stack[t]) \cup
               {i \in Lines : i \in Whole(taken') /\ written[i] = t}
    BY <1>3, ReadIsTyped DEF TrafficTypeOK
  <2>2. UNCHANGED <<written, points>>
    BY <1>3 DEF ReadFromSocket
  <2>3. \A i \in Whole(taken') : taken < i /\ i <= taken'
    BY <2>1 DEF Whole
  <2>4. ASSUME NEW t \in Tag, NEW i \in Had(t)'
        PROVE  i <= taken' /\ written'[i] = t
    <3>1. i \in Had(t) \/ (i \in Lines /\ i \in Whole(taken') /\ written[i] = t)
      BY <2>1, <2>2 DEF Had, InHand, points
    <3> QED BY <1>1, <2>1, <2>2, <2>3, <3>1 DEF Lines
  <2>5. ASSUME NEW t \in Tag, NEW p \in All, NEW q \in All, p < q,
               NEW i \in LinesOf(Place(t, p)'), NEW j \in LinesOf(Place(t, q)')
        PROVE  i > j
    <3>1. q # 0 /\ Place(t, q)' = Place(t, q)
      BY <2>2, <2>5, PlacesAre DEF Place, points
    <3>2. CASE p = 0 /\ i \in Whole(taken')
      <4>1. j \in Had(t)
        BY <2>5, <3>1, PlacesAre
      <4>2. j <= taken /\ j \in Nat /\ taken < i /\ i \in Nat
        BY <1>1, <2>1, <2>3, <3>2, <4>1 DEF Lines, Whole
      <4> QED BY <2>1, <4>2
    <3>3. CASE i \in Old(t, p)
      BY <1>1, <2>5, <3>1, <3>3
    <3>4. p = 0 => i \in Old(t, 0) \/ i \in Whole(taken')
      BY <2>1 DEF Place
    <3>5. p # 0 => Place(t, p)' = Place(t, p)
      BY <2>2 DEF Place, points
    <3> QED BY <3>2, <3>3, <3>4, <3>5
  <2> QED BY <2>4, <2>5 DEF PointsInOrder
<1>4. CASE SendToPoints
  <2>1. /\ \A t \in Tag : LinesOf(stack'[t]) = {}
        /\ UNCHANGED <<written, taken, cut>>
    BY <1>4, TickIs, SumsAreMade DEF socket
  <2>2. CASE Counts
    <3>1. ASSUME NEW t \in Tag
          PROVE  LinesOf(sum'[t]) = Old(t, 0) \cup Old(t, 1)
      BY <2>2, SumsAreMade DEF Counts, Ticked, TrafficTypeOK, Place
    <3>2. \A t \in Tag : Had(t)' = Had(t)
      BY <2>1, <2>2, <3>1 DEF Had, InHand, Counts, Place
    <3>3. ASSUME NEW t \in Tag, NEW p \in All, NEW q \in All, p < q,
                 NEW i \in LinesOf(Place(t, p)'), NEW j \in LinesOf(Place(t, q)')
          PROVE  i > j
      <4>1. p # 0
        BY <2>1, <3>3 DEF Place
      <4>2. q > 1 /\ q \notin {0, 1} /\ Place(t, q)' = Place(t, q)
        BY <2>2, <3>3, <4>1 DEF Place, Counts
      <4>3. CASE p = 1
        <5>1. i \in Old(t, 0) \/ i \in Old(t, 1)
          BY <3>1, <3>3, <4>3 DEF Place
        <5>2. 0 \in All /\ 1 \in All /\ 0 < q /\ 1 < q
          BY TrafficAssumption, <4>2
        <5> QED BY <1>1, <3>3, <4>2, <5>1, <5>2
      <4>4. CASE p # 1
        <5>1. Place(t, p)' = Place(t, p)
          BY <2>2, <4>1, <4>4 DEF Place, Counts
        <5> QED BY <1>1, <3>3, <4>2, <5>1
      <4> QED BY <4>3, <4>4
    <3> QED BY <1>1, <2>1, <3>2, <3>3 DEF PointsInOrder
  <2>3. CASE Fills
    <3>1. ASSUME NEW t \in Tag
          PROVE  /\ LinesOf(sum'[t]) = {}
                 /\ LinesOf(curve'[t][1]) = Old(t, 0) \cup Old(t, 1)
                 /\ \A k \in Indices :
                      k # 1 => k - 1 \in Indices /\ curve'[t][k] = curve[t][k - 1]
      <4>1. /\ sum'[t] = Nothing /\ LinesOf(curve'[t][1]) = InHand(t)
            /\ \A k \in Indices :
                 k # 1 => k - 1 \in Indices /\ curve'[t][k] = curve[t][k - 1]
        BY <2>3 DEF Fills
      <4>2. InHand(t) = Old(t, 0) \cup Old(t, 1)
        BY DEF InHand, Place
      <4> QED BY <4>1, <4>2, SumsAreMade
    <3>2. ASSUME NEW t \in Tag, NEW p \in All
          PROVE  \/ LinesOf(Place(t, p)') = {}
                 \/ p = 2 /\ LinesOf(Place(t, p)') = Old(t, 0) \cup Old(t, 1)
                 \/ p > 2 /\ p - 1 \in All /\ Place(t, p)' = Place(t, p - 1)
      <4>1. CASE p \in {0, 1}
        BY <2>1, <3>1, <4>1 DEF Place
      <4>2. CASE p = 2
        BY <3>1, <4>2 DEF Place
      <4>3. CASE p > 2
        <5>1. p - 1 \in Indices /\ p - 1 # 1
          BY <4>3, TrafficAssumption DEF Indices
        <5>2. Place(t, p)' = curve'[t][p - 1] /\ Place(t, p - 1) = curve[t][p - 2]
          BY <4>3 DEF Place
        <5>3. (p - 1) - 1 = p - 2
          OBVIOUS
        <5>4. p - 1 \in All
          BY <4>3, TrafficAssumption
        <5> QED BY <3>1, <4>3, <5>1, <5>2, <5>3, <5>4
      <4> QED BY <4>1, <4>2, <4>3
    <3>3. \A t \in Tag : Had(t)' \subseteq Had(t)
      <4> SUFFICES ASSUME NEW t \in Tag, NEW i \in Had(t)' PROVE i \in Had(t)
        OBVIOUS
      <4>1. CASE i \in LinesOf(stack'[t]) \/ i \in LinesOf(sum'[t])
        BY <2>1, <3>1, <4>1
      <4>2. CASE \E k \in Indices : i \in LinesOf(curve'[t][k])
        BY <3>1, <4>2 DEF Had, InHand, Place
      <4> QED BY <4>1, <4>2 DEF Had, InHand
    <3>4. ASSUME NEW t \in Tag, NEW p \in All, NEW q \in All, p < q,
                 NEW i \in LinesOf(Place(t, p)'), NEW j \in LinesOf(Place(t, q)')
          PROVE  i > j
      <4>1. \/ p = 2 /\ (i \in Old(t, 0) \/ i \in Old(t, 1))
            \/ p > 2 /\ p - 1 \in All /\ i \in Old(t, p - 1)
        BY <3>2, <3>4
      <4>2. q > 2 /\ q - 1 \in All /\ j \in Old(t, q - 1)
        BY <3>2, <3>4, <4>1
      <4>3. 0 \in All /\ 1 \in All /\ 0 < q - 1 /\ 1 < q - 1 /\ p - 1 < q - 1
        BY TrafficAssumption, <3>4, <4>2
      <4> QED BY <1>1, <4>1, <4>2, <4>3
    <3> QED BY <1>1, <2>1, <3>3, <3>4 DEF PointsInOrder
  <2> QED BY <1>4, <2>2, <2>3, TickIs
<1>5. CASE UNCHANGED trafficVars
  <2>1. \A t \in Tag : Had(t)' = Had(t) /\ \A p : Place(t, p)' = Place(t, p)
    BY <1>5 DEF Had, InHand, Place, trafficVars, points
  <2>2. UNCHANGED <<written, taken>>
    BY <1>5 DEF trafficVars, socket
  <2> QED BY <1>1, <2>1, <2>2 DEF PointsInOrder
<1> QED BY <1>2, <1>3, <1>4, <1>5 DEF TrafficNext

\* However reads and ticks interleave, for steps and curves of every length: a
\* line is added to the curve of its own letter and to one point only, and the
\* points are in the order of the lines.
THEOREM PointsAreInOrder == TrafficSpec => []PointsInOrder
<1>1. TrafficInit => TrafficIInv
  BY TrafficTypeInit, PointsInit DEF TrafficIInv
<1>2. TrafficIInv /\ [TrafficNext]_trafficVars => TrafficIInv'
  BY TrafficTypeNext, PointsNext DEF TrafficIInv
<1>3. TrafficIInv => PointsInOrder
  BY DEF TrafficIInv
<1> QED BY <1>1, <1>2, <1>3, PTL DEF TrafficSpec

\* What was added stays in a sum or a point until its point is the oldest of a
\* full curve, and every line whose end is read is added, unless the socket had
\* cut it: for steps and curves of every length.
THEOREM NothingLeavesEarly == TrafficSpec => LeavesAsOldest
<1>1. TrafficInit => TrafficTypeOK
  BY TrafficTypeInit
<1>2. ASSUME TrafficTypeOK, [TrafficNext]_trafficVars
      PROVE  [\A t \in Tag : Had(t) \cup Arrived(t)
                \subseteq Had(t)' \cup LinesOf(curve[t][MaxIndex])]_trafficVars
  <2> SUFFICES ASSUME NEW t \in Tag, TrafficNext
               PROVE  Had(t) \cup Arrived(t) \subseteq Had(t)' \cup LinesOf(curve[t][MaxIndex])
    BY <1>2
  <2>1. taken' = taken => Arrived(t) = {}
    BY <1>2 DEF Arrived, TrafficTypeOK
  <2>2. CASE Write
    <3>1. UNCHANGED <<taken, stack, sum, curve>>
      BY <2>2 DEF Write, points
    <3> QED BY <2>1, <3>1 DEF Had, InHand
  <2>3. CASE ReadFromSocket
    <3>1. /\ LinesOf(stack'[t]) = LinesOf(stack[t]) \cup
               {i \in Lines : i \in Whole(taken') /\ written[i] = t}
          /\ taken \in Nat /\ taken' \in Nat /\ taken' <= MaxLines
      BY <1>2, <2>3, ReadIsTyped, TrafficAssumption DEF TrafficTypeOK
    <3>2. UNCHANGED <<sum, curve>>
      BY <2>3 DEF ReadFromSocket, points
    <3>3. Arrived(t) \subseteq {i \in Lines : i \in Whole(taken') /\ written[i] = t}
      BY <3>1, TrafficAssumption DEF Arrived, Whole, Lines
    <3> QED BY <3>1, <3>2, <3>3 DEF Had, InHand
  <2>4. CASE SendToPoints
    <3>1. Arrived(t) = {}
      BY <1>2, <2>1, <2>4, TickIs DEF socket
    <3>2. CASE Counts
      <4>1. LinesOf(sum'[t]) = InHand(t)
        BY <1>2, <3>2, SumsAreMade DEF Counts, Ticked, TrafficTypeOK, InHand
      <4> QED BY <3>1, <3>2, <4>1 DEF Had, InHand, Counts
    <3>3. CASE Fills
      <4>1. LinesOf(curve'[t][1]) = InHand(t) /\ 1 \in Indices
        BY <3>3, TrafficAssumption DEF Fills, Indices
      <4>2. ASSUME NEW k \in Indices, k # MaxIndex
            PROVE  k + 1 \in Indices /\ curve'[t][k + 1] = curve[t][k]
        <5>1. k + 1 \in Indices /\ k + 1 # 1 /\ (k + 1) - 1 = k
          BY <4>2, TrafficAssumption DEF Indices
        <5> QED BY <3>3, <5>1 DEF Fills
      <4> QED BY <3>1, <4>1, <4>2 DEF Had
    <3> QED BY <1>2, <2>4, <3>2, <3>3, TickIs
  <2> QED BY <2>2, <2>3, <2>4 DEF TrafficNext
<1> QED BY <1>1, <1>2, TrafficTypeNext, PTL DEF TrafficSpec, LeavesAsOldest
=============================================================================
