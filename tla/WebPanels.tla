------------------------------ MODULE WebPanels ------------------------------
(***************************************************************************)
(* websmbta: the panels of the overview page and the table behind them.    *)
(*                                                                         *)
(* A function that is started is saved as a row of the table Temp by the   *)
(* server process that serves the request, and shown as a panel when it    *)
(* answers; the next load of the page runs the user's rows again.  Every   *)
(* request of the page is asynchronous: the user may start more, close a   *)
(* panel, load another page, log out, log in as somebody else or leave     *)
(* while it is under way, and the answer to a page that has gone is        *)
(* dropped.  What a process does between the table and its answer is in    *)
(* WebFunctions; here it answers or, when File.open or File.delete raises, *)
(* ends without an answer.                                                 *)
(***************************************************************************)
EXTENDS WebFunctions

CONSTANTS Browsers,  \* browsers, each with a session and a page of its own
          User,      \* accounts
          Nobody     \* the account of a session that is not logged in

ASSUME PanelsAssumption == Nobody \notin User \cup Browsers

VARIABLES rows,      \* Temp: the rows of the table
          nextRow,   \* the id the table gives to the next row
          account,   \* the user of a browser's session
          page,      \* the panels a browser shows
          asked,     \* the request a server process serves
          deletes,   \* the requests for delete_function under way
          closed,    \* history: rows whose panel a browser has closed by its id
          served,    \* history: ids delete_function has answered for
          abandoned, \* history: users a browser has left without logging out
          late       \* history: rows saved when nobody was logged in as their user

panelsVars == <<rows, nextRow, account, page, asked, deletes, closed, served, abandoned, late>>

RowId == 1..MaxRow

\* A system function is saved in no row, and its panel has no id: they are left out.
Saved == Function \ {System}
Row == [id : RowId, user : User, fn : Saved]

\* A panel has the MD5 of something for its name: of the parameters when
\* start_function made it, of the command when temp_functions did.  Panels of one
\* name are one to the script.  Only temp_functions puts the row's id in: 0, no id.
Kind == {"start", "load"}
Panel == [kind : Kind, fn : Saved, id : RowId \cup {0}]
SameName(p, q) == p.kind = q.kind /\ p.fn = q.fn
PanelOf(r) == [kind |-> "load", fn |-> r.fn, id |-> r.id]

\* at: before or after the table is written or read;  browser: who waits for the
\* answer, Nobody when its page has gone;  user: of the session the request came with;
\* shows: the panels of the answer.
PageRequest == [at : {"table", "run"}, op : {"start", "load", "refresh"},
            browser : Browsers \cup {Nobody}, user : User, shows : SUBSET Panel]
NoRequest == [at |-> "idle"]

PanelsInit ==
  /\ rows = {} /\ nextRow = 1
  /\ account = [b \in Browsers |-> Nobody]
  /\ page = [b \in Browsers |-> {}]
  /\ asked = [p \in Process |-> NoRequest]
  /\ deletes = {}
  /\ closed = [b \in Browsers |-> {}]
  /\ served = {} /\ abandoned = {} /\ late = {}

RowsOf(u) == {r \in rows : r.user = u}
Ids(rs) == {r.id : r \in rs}
LoggedInAs(u) == \E b \in Browsers : account[b] = u

-----------------------------------------------------------------------------
(* The browser asks.                                                       *)

AskFor(b, op, at, shows) ==
  /\ account[b] # Nobody
  /\ \E p \in Process :
       /\ asked[p] = NoRequest
       /\ asked' = [asked EXCEPT ![p] = [at |-> at, op |-> op, browser |-> b,
                                         user |-> account[b], shows |-> shows]]

\* start_function for an object.
StartFunction(b, f) ==
  /\ AskFor(b, "start", "table", {[kind |-> "start", fn |-> f, id |-> 0]})
  /\ UNCHANGED <<rows, nextRow, account, page, deletes, closed, served, abandoned, late>>

\* refresh_function renders the panel anew, under the name it has, without an id.
Refresh(b) ==
  /\ \E panel \in page[b] : AskFor(b, "refresh", "run", {[panel EXCEPT !.id = 0]})
  /\ UNCHANGED <<rows, nextRow, account, page, deletes, closed, served, abandoned, late>>

\* closeFunction asks for the removal of the row whose id the first panel of the name
\* has, and takes all panels of the name away without waiting for an answer.
Close(b, panel) ==
  LET named == {q \in page[b] : SameName(q, panel)} IN
    /\ page' = [page EXCEPT ![b] = @ \ named]
    /\ \E first \in named :
         IF first.id = 0 THEN UNCHANGED <<deletes, closed>>
         ELSE /\ deletes' = deletes \cup {[id |-> first.id, user |-> account[b]]}
              /\ closed' = [closed EXCEPT ![b] = @ \cup {first.id}]
    /\ UNCHANGED <<rows, nextRow, account, asked, served, abandoned, late>>

-----------------------------------------------------------------------------
(* The browser goes to another page: nobody waits for the answers any      *)
(* more.                                                                   *)

DropAnswers(b) ==
  [p \in Process |-> IF asked[p] # NoRequest /\ asked[p].browser = b
                     THEN [asked[p] EXCEPT !.browser = Nobody] ELSE asked[p]]

Navigate(b) ==
  /\ page' = [page EXCEPT ![b] = {}]
  /\ UNCHANGED <<nextRow, deletes, closed, served, late>>

\* The overview page: a script asks for temp_functions.
Load(b, p) ==
  /\ account[b] # Nobody /\ asked[p] = NoRequest
  /\ Navigate(b)
  /\ asked' = [DropAnswers(b) EXCEPT ![p] =
                 [at |-> "table", op |-> "load", browser |-> b, user |-> account[b], shows |-> {}]]
  /\ UNCHANGED <<rows, account, abandoned>>

\* sessions#create
SessionCreate(b, u) ==
  /\ Navigate(b)
  /\ asked' = DropAnswers(b)
  /\ account' = [account EXCEPT ![b] = u]
  /\ abandoned' = abandoned \cup ({account[b]} \ {u, Nobody})
  /\ UNCHANGED rows

\* The browser is closed, and the session with it.
Leave(b) ==
  /\ account[b] # Nobody
  /\ Navigate(b)
  /\ asked' = DropAnswers(b)
  /\ account' = [account EXCEPT ![b] = Nobody]
  /\ abandoned' = abandoned \cup {account[b]}
  /\ UNCHANGED rows

\* Mutant: only the rows whose panels the browser shows are removed.
SessionDestroyShown(b) ==
  /\ account[b] # Nobody
  /\ Navigate(b)
  /\ asked' = DropAnswers(b)
  /\ rows' = {r \in rows : \A panel \in page[b] : panel.id # r.id}
  /\ account' = [account EXCEPT ![b] = Nobody]
  /\ abandoned' = abandoned \ {account[b]}

\* sessions#destroy
SessionDestroy(b) ==
  /\ account[b] # Nobody
  /\ Navigate(b)
  /\ asked' = DropAnswers(b)
  /\ rows' = rows \ RowsOf(account[b])
  /\ account' = [account EXCEPT ![b] = Nobody]
  /\ abandoned' = abandoned \ {account[b]}

-----------------------------------------------------------------------------
(* The server processes.                                                   *)

\* get_function saves the row for the user of the request's session.
SaveRow(p) ==
  /\ asked[p].at = "table" /\ asked[p].op = "start"
  /\ nextRow <= MaxRow
  /\ asked' = [asked EXCEPT ![p].at = "run"]
  /\ \E panel \in asked[p].shows :
       rows' = rows \cup {[id |-> nextRow, user |-> asked[p].user, fn |-> panel.fn]}
  /\ nextRow' = nextRow + 1
  /\ late' = IF LoggedInAs(asked[p].user) THEN late ELSE late \cup {nextRow}
  /\ UNCHANGED <<account, page, deletes, closed, served, abandoned>>

\* Mutant: everybody's rows are read.
ReadAllRows(p) ==
  /\ asked[p].at = "table" /\ asked[p].op = "load"
  /\ asked' = [asked EXCEPT ![p].at = "run", ![p].shows = {PanelOf(r) : r \in rows}]
  /\ UNCHANGED <<rows, nextRow, account, page, deletes, closed, served, abandoned, late>>

\* temp_functions reads the user's rows.  What a page reads before delete_function has
\* been answered is not closed any more.
ReadRows(p) ==
  /\ asked[p].at = "table" /\ asked[p].op = "load"
  /\ LET mine == RowsOf(asked[p].user) IN
       /\ asked' = [asked EXCEPT ![p].at = "run", ![p].shows = {PanelOf(r) : r \in mine}]
       /\ closed' = [b \in Browsers |-> IF asked[p].browser = b
                                        THEN closed[b] \ (Ids(mine) \ served) ELSE closed[b]]
  /\ UNCHANGED <<rows, nextRow, account, page, deletes, served, abandoned, late>>

\* Mutant: delete_function finds the row and leaves it.
DeleteNothing(d) ==
  /\ deletes' = deletes \ {d}
  /\ served' = served \cup {d.id}
  /\ UNCHANGED <<rows, nextRow, account, page, asked, closed, abandoned, late>>

\* delete_function removes the row, whoever it belongs to.
DeleteFunction(d) ==
  /\ rows' = {r \in rows : r.id # d.id}
  /\ deletes' = deletes \ {d}
  /\ served' = served \cup {d.id}
  /\ UNCHANGED <<nextRow, account, page, asked, closed, abandoned, late>>

\* The browser had not sent the request yet when it went to another page.
LoseDelete(d) ==
  /\ deletes' = deletes \ {d}
  /\ UNCHANGED <<rows, nextRow, account, page, asked, closed, served, abandoned, late>>

\* The answer of a refresh takes the place of the panels of its name, if there are any
\* left; another one adds its panels to the page.
Answered(p, b) ==
  LET shows == asked[p].shows
      named == {old \in page[b] : \E panel \in shows : SameName(old, panel)}
  IN IF asked[p].op # "refresh" THEN page[b] \cup shows
     ELSE IF named = {} THEN page[b]
     ELSE (page[b] \ named) \cup shows

Answer(p) ==
  /\ asked[p].at = "run"
  /\ page' = [b \in Browsers |-> IF asked[p].browser = b THEN Answered(p, b) ELSE page[b]]
  /\ asked' = [asked EXCEPT ![p] = NoRequest]
  /\ UNCHANGED <<rows, nextRow, account, deletes, closed, served, abandoned, late>>

\* File.open or File.delete raises.
Fail(p) ==
  /\ asked[p].at = "run"
  /\ asked' = [asked EXCEPT ![p] = NoRequest]
  /\ UNCHANGED <<rows, nextRow, account, page, deletes, closed, served, abandoned, late>>

Browse(b) ==
  \/ \E f \in Saved : StartFunction(b, f)
  \/ \E panel \in page[b] : Close(b, panel)
  \/ \E p \in Process : Load(b, p)
  \/ \E u \in User : SessionCreate(b, u)
  \/ Refresh(b) \/ SessionDestroy(b) \/ Leave(b)

PanelsNext ==
  \/ \E b \in Browsers : Browse(b)
  \/ \E p \in Process : SaveRow(p) \/ ReadRows(p) \/ Answer(p) \/ Fail(p)
  \/ \E d \in deletes : DeleteFunction(d) \/ LoseDelete(d)

PanelsSpec == PanelsInit /\ [][PanelsNext]_panelsVars

-----------------------------------------------------------------------------
PanelsTypeOK ==
  /\ rows \subseteq Row
  /\ nextRow \in 1..(MaxRow + 1)
  /\ account \in [Browsers -> User \cup {Nobody}]
  /\ page \in [Browsers -> SUBSET Panel]
  /\ asked \in [Process -> PageRequest \cup {NoRequest}]
  /\ deletes \subseteq [id : RowId, user : User]
  /\ closed \in [Browsers -> SUBSET RowId]
  /\ served \subseteq RowId /\ abandoned \subseteq User /\ late \subseteq RowId

-----------------------------------------------------------------------------
(* A panel that was closed by the id of its row does not come back into    *)
(* the browser, whatever is loaded, refreshed or answered later and in     *)
(* whichever order, but by a load that reads the table before              *)
(* delete_function has been answered (application.js does not wait for     *)
(* it).  The other rows of the same command, whose panels the close took   *)
(* away as well, were not closed.                                          *)
ClosedStaysClosed ==
  \A b \in Browsers : \A panel \in page[b] : panel.id \notin closed[b]

(* The rows of a user are gone when the last of the user's browsers logs   *)
(* out, and stay so: what is found later is a row that a start under way   *)
(* at the log-out saved after it, or is left by a browser that was closed  *)
(* or logged in as somebody else without a log-out.                        *)
LogOutForgets ==
  \A u \in User :
    ~ LoggedInAs(u) => u \in abandoned \/ Ids(RowsOf(u)) \subseteq late

(* delete_function does not ask whose the row is, and need not: a request  *)
(* for the removal of a row comes from a page of the row's user.           *)
ClosesOwn ==
  \A d \in deletes : \A r \in rows : r.id = d.id => r.user = d.user

=============================================================================
