----------------------------- MODULE QtSession -----------------------------
(***************************************************************************)
(* The life of a monitor in smbtamonitor-qt (src/monitor-qt): the page     *)
(* that collects the options, the start and stop buttons, the timer, the   *)
(* one QProcess that runs smbtamonitor-gen, and its socket.                *)
(*                                                                         *)
(* startmonitor runs the event loop for two seconds before it looks for    *)
(* the socket file of the child, so that every other handler, startmonitor *)
(* itself among them, can be served inside it.  `frames' is the stack of   *)
(* the calls of startmonitor: only the innermost can go on.                *)
(*                                                                         *)
(* The child is smbtamonitor-gen as the program sees it: it reads its      *)
(* options, makes its socket file, listens, and may end at any time.       *)
(* MonitorGen models the rest of it.                                       *)
(***************************************************************************)
EXTENDS Naturals, Sequences, SequencesExt

CONSTANTS Forms,     \* what the page of options may say
          Values,    \* what may be entered into it
          Domain,    \* a query for a domain, which becomes the option -d
          Global,    \* the query for all, the option -g
          Blank,     \* a line left empty, a box left unchecked
          NoForm,
          MaxReads,  \* bound: how often the monitor page is opened
          MaxClicks  \* bound: clicks on the start button that are served

\* What the page is made of, the box for the dry run apart.
Entries == {"object", "host", "port", "identify"}

ASSUME SessionAssumption ==
  /\ Forms \subseteq [dry : BOOLEAN, entries : [Entries -> Values]]
  /\ \A f \in Forms : f.entries["object"] # Blank
  /\ NoForm \notin Forms
  /\ Domain # Global /\ Domain # Blank /\ Global # Blank
  /\ MaxReads \in Nat /\ MaxClicks \in Nat

Alive == {"starting", "bound", "listening"}

VARIABLES
  asked,         \* the form as it was last read
  reads,
  configString,  \* ldata->configString: the forms whose options are in it
  app,           \* smbtamonitor-qt runs
  running, timer,
  frames,        \* calls of startmonitor, each "waiting" or showing its "box"
  clicks,
  pid,           \* ldata->pidString, socketString: the child that was last started
  child,         \* that process; "dead" is one QProcess has not noticed yet
  sigterm,       \* it was sent SIGTERM
  options,       \* the configuration string it was started with
  form,          \* the form as it was last read when it was started
  files,         \* the socket files there are, by pid
  sock,          \* the child monitorSocket is connected to, 0 if to none
  failed,        \* the last look for the child's socket file was in vain
  stoppedInside, \* since the last start: a stop was served inside a start
  joined         \* QProcess refused the last start: a child was still there

page == <<asked, reads, configString>>
history == <<failed, stoppedInside, joined>>
process == <<pid, child, sigterm, options, form, files>>
vars == <<page, app, running, timer, frames, clicks, process, sock, history>>

Init ==
  /\ asked = NoForm /\ reads = 0 /\ configString = <<>>
  /\ app = TRUE
  /\ running = FALSE /\ timer = FALSE
  /\ frames = <<>> /\ clicks = 0
  /\ pid = 0 /\ child = "none" /\ sigterm = FALSE
  /\ options = <<>> /\ form = NoForm
  /\ files = {}
  /\ sock = 0
  /\ failed = FALSE /\ stoppedInside = FALSE /\ joined = FALSE

\* A message box takes all clicks until it is dismissed.
Clickable == app /\ (frames # <<>> => Last(frames) = "waiting")
----------------------------------------------------------------------------
(* cf_readconfig, fr_setMonitorWidget *)

\* The form adds an option for the entry.  Of a dry run only -x is left.
Adds(f, e) == ~f.dry /\ f.entries[e] # Blank

\* Mutant: the options are put in front of those there are.
WithFormBefore(string, f) ==
  IF f.dry \/ f.entries["object"] = Global THEN <<f>> ELSE <<f>> \o string

\* A query for all and a dry run replace what there was, the options of any
\* other form are appended.  (The line of the object is taken to be filled in.)
WithForm(string, f) ==
  IF f.dry \/ f.entries["object"] = Global THEN <<f>> ELSE Append(string, f)

OpenMonitor(f) ==
  /\ Clickable
  /\ reads < MaxReads
  /\ reads' = reads + 1
  /\ asked' = f
  /\ configString' = WithForm(configString, f)
  /\ UNCHANGED <<app, running, timer, frames, clicks, process, sock, history>>
----------------------------------------------------------------------------
(* startmonitor *)

\* QProcess::start, which does nothing but warn when the process still runs.
StartProcess ==
  \/ /\ child = "none"
     /\ pid' = pid + 1
     /\ child' = "starting"
     /\ sigterm' = FALSE
     /\ options' = configString
     /\ form' = asked
     /\ UNCHANGED files
  \/ /\ child # "none"
     /\ UNCHANGED process

\* Mutant: the timer is left alone when the process runs already.
StartLazy ==
  /\ Clickable
  /\ reads > 0
  /\ clicks < MaxClicks
  /\ clicks' = clicks + 1
  /\ ~running
  /\ timer' = (child = "none" \/ timer)
  /\ StartProcess
  /\ frames' = Append(frames, "waiting")
  /\ stoppedInside' = FALSE
  /\ joined' = (child # "none")
  /\ UNCHANGED <<page, app, running, sock, failed>>

\* The button is on the monitor page, which has been opened then.
Start ==
  /\ Clickable
  /\ reads > 0
  /\ clicks < MaxClicks
  /\ clicks' = clicks + 1
  /\ ~running
  /\ timer' = TRUE
  /\ StartProcess
  /\ frames' = Append(frames, "waiting")
  /\ stoppedInside' = FALSE
  /\ joined' = (child # "none")
  /\ UNCHANGED <<page, app, running, sock, failed>>

\* connectToServer, which does nothing when the socket is connected.
ConnectToServer ==
  sock' = IF sock = 0 /\ child = "listening" THEN pid ELSE sock

\* Two seconds are over in the innermost call.  The end of an earlier child
\* was noticed in the meantime (sock \in {0, pid}): all events that are there
\* are served in the loop.
Deadline ==
  /\ app
  /\ frames # <<>> /\ Last(frames) = "waiting"
  /\ sock \in {0, pid}
  /\ \/ /\ pid \in files
        /\ running' = TRUE
        /\ ConnectToServer
        /\ failed' = FALSE
        /\ frames' = Front(frames)
     \/ /\ pid \notin files
        /\ frames' = Append(Front(frames), "box")
        /\ failed' = TRUE
        /\ UNCHANGED <<running, sock>>
  /\ UNCHANGED <<page, app, timer, clicks, process, stoppedInside, joined>>

\* The user reads "Unable to connect to the socket of the subprocess."
DismissBox ==
  /\ app
  /\ frames # <<>> /\ Last(frames) = "box"
  /\ frames' = Front(frames)
  /\ UNCHANGED <<page, app, running, timer, clicks, process, sock, history>>
----------------------------------------------------------------------------
(* stopmonitor *)

\* Mutant: the child is only terminated when it has been connected to.
StopConnected ==
  /\ Clickable
  /\ running
  /\ running' = FALSE
  /\ sigterm' = (sigterm \/ sock = pid)
  /\ timer' = FALSE
  /\ stoppedInside' = (frames # <<>>)
  /\ UNCHANGED <<page, app, frames, clicks, pid, child, options, form, files, sock,
                 failed, joined>>

\* Mutant: the monitor goes on being called running.
StopRunning ==
  /\ Clickable
  /\ running
  /\ sigterm' = (sigterm \/ child \in Alive)
  /\ timer' = FALSE
  /\ stoppedInside' = (frames # <<>>)
  /\ UNCHANGED <<page, app, running, frames, clicks, pid, child, options, form,
                 files, sock, failed, joined>>

Stop ==
  /\ Clickable
  /\ running
  /\ running' = FALSE
  /\ sigterm' = (sigterm \/ child \in Alive)
  /\ timer' = FALSE
  /\ stoppedInside' = (frames # <<>>)
  /\ UNCHANGED <<page, app, frames, clicks, pid, child, options, form, files, sock,
                 failed, joined>>

\* The quit button.  The process is neither terminated nor deleted.  (Served
\* inside a start, it takes effect when the outermost call returns.)
Quit ==
  /\ app
  /\ frames = <<>>
  /\ app' = FALSE
  /\ sock' = 0
  /\ UNCHANGED <<page, running, timer, frames, clicks, process, history>>

\* The event loop notices that the child has ended, and that the other end
\* of the socket was closed: no handler of the program is connected to either.
Reap ==
  /\ app /\ child = "dead"
  /\ child' = "none"
  /\ UNCHANGED <<page, app, running, timer, frames, clicks, pid, sigterm,
                 options, form, files, sock, history>>

Disconnected ==
  /\ app /\ sock # 0
  /\ sock = pid => child \notin Alive
  /\ sock' = 0
  /\ UNCHANGED <<page, app, running, timer, frames, clicks, process, history>>
----------------------------------------------------------------------------
(* smbtamonitor-gen *)

\* What getopt_long leaves of an entry: the last of its options counts.
Entry(opts, e) ==
  LET at == {i \in DOMAIN opts : Adds(opts[i], e)}
  IN  IF at = {} THEN Blank
      ELSE opts[CHOOSE i \in at : \A j \in at : j <= i].entries[e]

\* The option -x stays.
DryOf(opts) == \E i \in DOMAIN opts : opts[i].dry

\* -d wants a number and ends the program when given a name; without -x an
\* object and a host there must be.  (There is no configuration file.)
Accepted(opts) ==
  /\ \A i \in DOMAIN opts : ~opts[i].dry => opts[i].entries["object"] # Domain
  /\ DryOf(opts) \/ \A e \in {"object", "host"} : Entry(opts, e) # Blank

\* bind: the file is there, but nobody listens yet.
ChildBinds ==
  /\ child = "starting"
  /\ Accepted(options)
  /\ child' = "bound"
  /\ files' = files \cup {pid}
  /\ UNCHANGED <<page, app, running, timer, frames, clicks, pid, sigterm,
                 options, form, sock, history>>

ChildListens ==
  /\ child = "bound"
  /\ child' = "listening"
  /\ UNCHANGED <<page, app, running, timer, frames, clicks, pid, sigterm,
                 options, form, files, sock, history>>

\* It ends: by the signal, whose handler is there once it listens and
\* removes the file; or for a reason of its own, which leaves the file.
ChildEnds ==
  /\ child \in Alive
  /\ child' = "dead"
  /\ files' = IF sigterm /\ child = "listening" THEN files \ {pid} ELSE files
  /\ UNCHANGED <<page, app, running, timer, frames, clicks, pid, sigterm,
                 options, form, sock, history>>
----------------------------------------------------------------------------
Next ==
  \/ \E f \in Forms : OpenMonitor(f)
  \/ Start \/ Deadline \/ DismissBox \/ Stop \/ Quit
  \/ Reap \/ Disconnected
  \/ ChildBinds \/ ChildListens \/ ChildEnds

Spec == Init /\ [][Next]_vars

\* Time passes and events are served while the program runs; the user reads
\* the boxes; a process that was sent SIGTERM ends.
FairSpec ==
  /\ Spec
  /\ WF_vars(Deadline) /\ WF_vars(DismissBox)
  /\ WF_vars(Reap) /\ WF_vars(Disconnected)
  /\ WF_vars(sigterm /\ ChildEnds)
----------------------------------------------------------------------------
TypeOK ==
  /\ asked \in Forms \cup {NoForm}
  /\ reads \in Nat /\ (reads > 0 => asked \in Forms)
  /\ configString \in Seq(Forms)
  /\ app \in BOOLEAN /\ running \in BOOLEAN /\ timer \in BOOLEAN
  /\ frames \in Seq({"waiting", "box"})
  /\ clicks \in Nat
  /\ pid \in Nat
  /\ child \in Alive \cup {"none", "dead"}
  /\ sigterm \in BOOLEAN
  /\ options \in Seq(Forms)
  /\ form \in Forms \cup {NoForm}
  /\ files \subseteq 1 .. pid
  /\ sock \in 0 .. pid
  /\ failed \in BOOLEAN /\ stoppedInside \in BOOLEAN /\ joined \in BOOLEAN

(***************************************************************************)
(* The graph of a running monitor moves ("timeclassW->timer triggers the   *)
(* graph update", line 107), unless it was stopped inside a start: then    *)
(* the call of startmonitor that is further out finds the socket file of   *)
(* the child that is being terminated and calls the monitor running again, *)
(* without the timer.  QtTraffic takes the timer for granted.              *)
(***************************************************************************)
RunningIsTimed == running => timer \/ stoppedInside

(***************************************************************************)
(* When no start is going on and the monitor is not running, the timer is  *)
(* off and the child is gone or on its way out: unless its socket file was *)
(* looked for in vain.  Then both stay, and the stop button does nothing.  *)
(***************************************************************************)
StoppedIsStill ==
  app /\ ~running /\ frames = <<>> /\ ~failed =>
    ~timer /\ (child \in Alive => sigterm)

(***************************************************************************)
(* The child of a running monitor was not told to end: unless the monitor  *)
(* was stopped inside a start, or started again before the event loop had  *)
(* noticed the end of the child before.  QProcess::start refuses then, and *)
(* the socket file that is found is that of the child that is ending.      *)
(***************************************************************************)
RunningIsNotEnding == running /\ ~stoppedInside /\ ~joined => ~sigterm

(***************************************************************************)
(* A child that gets as far as its socket does what the form said when it  *)
(* was started, although the string of options is only ever added to: what *)
(* the form fills in counts, the object, the host, the port and `identify' *)
(* alike, and after a domain no child gets that far.  What it leaves blank *)
(* sticks from the forms before it, as does a dry run, until all are asked *)
(* for: then it is as the form says in everything.                         *)
(***************************************************************************)
MonitorsWhatWasAsked ==
  child \in {"bound", "listening"} =>
    /\ IF form.dry THEN DryOf(options) ELSE form.entries["object"] # Domain
    /\ DryOf(options) => Head(options).dry
    /\ \A e \in Entries : Adds(form, e) => Entry(options, e) = form.entries[e]
    /\ ~form.dry /\ form.entries["object"] = Global =>
         /\ ~DryOf(options)
         /\ \A e \in Entries : Entry(options, e) = form.entries[e]

(***************************************************************************)
(* A monitor that was stopped leaves no process, in whatever state its     *)
(* child was when stop was clicked.                                        *)
(***************************************************************************)
StopEndsTheChild ==
  \A p \in 1 .. MaxClicks :
    (pid = p /\ ~running /\ frames = <<>> /\ ~failed) ~>
      (pid # p \/ child \notin Alive \/ running \/ frames # <<>> \/ failed)
=============================================================================
