------------------------------ MODULE WebUsers ------------------------------
(***************************************************************************)
(* websmbta: the accounts and who is logged in.                            *)
(*                                                                         *)
(* A request is served by one of several server processes, which share     *)
(* nothing but the table of users; each of its database statements is a    *)
(* step, so that requests of other browsers come in between.  The session  *)
(* is a cookie: it names an account for as long as the browser is open,    *)
(* whatever becomes of the account.  A browser waits for one answer at a   *)
(* time.                                                                   *)
(***************************************************************************)
EXTENDS Naturals, FiniteSets

CONSTANTS Browser,    \* browsers
          MaxId       \* bound on the accounts ever created

ASSUME WebAssumption == MaxId \in Nat

VARIABLES users,      \* the ids in the table
          admins,     \* those whose admin column is set
          nextId,     \* the id of the next row: AUTOINCREMENT gives none twice
          session,    \* session[:user_id] of a browser, 0 for nil
          form,       \* the edit form a browser shows
          req         \* where the request of a browser is

vars == <<users, admins, nextId, session, form, req>>

Id == 1..MaxId

\* box: the form has the check box "admin", which is there for administrators only.
NoForm == [id |-> 0, box |-> FALSE]
Form == [id : Id \cup {0}, box : BOOLEAN]

\* at: the next statement;  id: the account it is about;  admin: the value asked
\* for;  seen: what User.count gave.
Asked(at, id, admin) == [at |-> at, id |-> id, admin |-> admin, seen |-> 0]
Idle == Asked("idle", 0, FALSE)
Request == [at : {"idle", "createCount", "createSave", "updateSave", "deleteCount", "destroy"},
            id : Id \cup {0}, admin : BOOLEAN, seen : 0..MaxId]

TypeOK ==
  /\ users \subseteq Id /\ admins \subseteq users
  /\ nextId \in 1..(MaxId + 1)
  /\ \A i \in users : i < nextId
  /\ session \in [Browser -> Id \cup {0}]
  /\ form \in [Browser -> Form]
  /\ req \in [Browser -> Request]

Init ==
  /\ users = {} /\ admins = {} /\ nextId = 1
  /\ session = [b \in Browser |-> 0]
  /\ form = [b \in Browser |-> NoForm]
  /\ req = [b \in Browser |-> Idle]

\* check_user: only session[:user_id] is looked at, not the table.
LoggedIn(b) == session[b] # 0

Goto(b, r) == req' = [req EXCEPT ![b] = r]

-----------------------------------------------------------------------------
(* sessions_controller.rb                                                  *)

LogIn(b) ==
  /\ req[b] = Idle
  /\ ~ LoggedIn(b)
  /\ \E i \in users : session' = [session EXCEPT ![b] = i]
  /\ UNCHANGED <<users, admins, nextId, form, req>>

\* current_user.id comes first, and User.find raises for an account that is gone.
LogOut(b) ==
  /\ req[b] = Idle
  /\ session[b] \in users
  /\ session' = [session EXCEPT ![b] = 0]
  /\ form' = [form EXCEPT ![b] = NoForm]
  /\ UNCHANGED <<users, admins, nextId, req>>

\* The cookie ends with the browser.
CloseBrowser(b) ==
  /\ req[b] = Idle
  /\ LoggedIn(b)
  /\ session' = [session EXCEPT ![b] = 0]
  /\ form' = [form EXCEPT ![b] = NoForm]
  /\ UNCHANGED <<users, admins, nextId, req>>

-----------------------------------------------------------------------------
(* users_controller.rb: create                                             *)

\* is_admin lets nobody pass who is logged in without being an administrator, and
\* raises when the account is gone.  The check box is there for administrators.
Create(b) ==
  /\ req[b] = Idle
  /\ LoggedIn(b) => session[b] \in admins
  /\ \E a \in BOOLEAN :
       /\ a => LoggedIn(b)
       /\ Goto(b, Asked("createCount", 0, a))
  /\ UNCHANGED <<users, admins, nextId, session, form>>

\* Mutant: the number of users is not looked at.
CreateUncounted(b) ==
  /\ req[b].at = "createCount"
  /\ Goto(b, [req[b] EXCEPT !.at = "createSave", !.seen = Cardinality(users)])
  /\ UNCHANGED <<users, admins, nextId, session, form>>

CreateCount(b) ==
  /\ req[b].at = "createCount"
  /\ Goto(b, [req[b] EXCEPT !.at = "createSave", !.admin = @ \/ users = {},
                            !.seen = Cardinality(users)])
  /\ UNCHANGED <<users, admins, nextId, session, form>>

\* Validation and INSERT are one transaction.
CreateSave(b) ==
  /\ req[b].at = "createSave"
  /\ nextId <= MaxId
  /\ users' = users \cup {nextId}
  /\ admins' = IF req[b].admin THEN admins \cup {nextId} ELSE admins
  /\ nextId' = nextId + 1
  /\ Goto(b, Idle)
  /\ UNCHANGED <<session, form>>

\* The name is taken, or the passwords differ.
CreateRefused(b) ==
  /\ req[b].at = "createSave"
  /\ Goto(b, Idle)
  /\ UNCHANGED <<users, admins, nextId, session, form>>

-----------------------------------------------------------------------------
(* users_controller.rb: edit_user, edit_settings, update                   *)

\* The layout asks for current_user: a page is rendered only if the account is
\* there.
EditUser(b) ==
  /\ req[b] = Idle
  /\ session[b] \in users
  /\ \E i \in users : form' = [form EXCEPT ![b] = [id |-> i, box |-> i \in admins]]
  /\ UNCHANGED <<users, admins, nextId, session, req>>

\* User.update finds the row; columns that do not differ from it are not written.
Update(b) ==
  /\ req[b] = Idle
  /\ LoggedIn(b)
  /\ form[b].id \in users
  /\ \E a \in BOOLEAN :
       LET i == form[b].id IN
         IF form[b].box /\ a # (i \in admins)
         THEN Goto(b, Asked("updateSave", i, a))
         ELSE UNCHANGED req
  /\ form' = [form EXCEPT ![b] = NoForm]
  /\ UNCHANGED <<users, admins, nextId, session>>

\* UPDATE ... WHERE id = ... changes nothing when the row is gone.
UpdateSave(b) ==
  /\ req[b].at = "updateSave"
  /\ admins' = IF req[b].admin THEN admins \cup ({req[b].id} \cap users)
                               ELSE admins \ {req[b].id}
  /\ Goto(b, Idle)
  /\ UNCHANGED <<users, nextId, session, form>>

-----------------------------------------------------------------------------
(* users_controller.rb: delete                                             *)

\* Mutant: an account may remove itself.
DeleteSelf(b) ==
  /\ req[b] = Idle
  /\ LoggedIn(b)
  /\ \E i \in users : Goto(b, Asked("deleteCount", i, FALSE))
  /\ UNCHANGED <<users, admins, nextId, session, form>>

\* find_by_id and the comparison with the session.
Delete(b) ==
  /\ req[b] = Idle
  /\ LoggedIn(b)
  /\ \E i \in users \ {session[b]} :
       Goto(b, Asked("deleteCount", i, FALSE))
  /\ UNCHANGED <<users, admins, nextId, session, form>>

DeleteCount(b) ==
  /\ req[b].at = "deleteCount"
  /\ Goto(b, IF Cardinality(users) = 1 THEN Idle
             ELSE [req[b] EXCEPT !.at = "destroy", !.seen = Cardinality(users)])
  /\ UNCHANGED <<users, admins, nextId, session, form>>

\* DELETE ... WHERE id = ... is content with no row at all.
Destroy(b) ==
  /\ req[b].at = "destroy"
  /\ users' = users \ {req[b].id}
  /\ admins' = admins \ {req[b].id}
  /\ Goto(b, Idle)
  /\ UNCHANGED <<nextId, session, form>>

Next ==
  \E b \in Browser :
    \/ LogIn(b) \/ LogOut(b) \/ CloseBrowser(b)
    \/ Create(b) \/ CreateCount(b) \/ CreateSave(b) \/ CreateRefused(b)
    \/ EditUser(b) \/ Update(b) \/ UpdateSave(b)
    \/ Delete(b) \/ DeleteCount(b) \/ Destroy(b)

Spec == Init /\ [][Next]_vars

-----------------------------------------------------------------------------
(* The last account is never removed by someone who has an account, and    *)
(* never by a request alone: only a browser whose own account was removed  *)
(* while its cookie lives on can empty the table, and only if User.count   *)
(* and destroy of its request were overtaken, so that it counted more      *)
(* accounts than there are when it removes one.                            *)
LastGoesByAStranger ==
  [][users # {} /\ users' = {} =>
       \E b \in Browser :
         /\ req[b].at = "destroy"
         /\ session[b] \notin users
         /\ req[b].seen > Cardinality(users)]_vars

(* The last administrator goes by being deprived of the right, or by the   *)
(* hand of one who is none: administrators who remove others remain.       *)
AdminRemains ==
  [][admins # {} /\ admins' = {} =>
       \E b \in Browser :
         \/ req[b].at = "updateSave" /\ ~ req[b].admin
         \/ req[b].at = "destroy" /\ session[b] \notin admins]_vars

(* "You have to create an first account, which is automatically an         *)
(* administrator account" (smbta-guide.html): also when several browsers   *)
(* sign up at once; and an account that comes into an empty table later is *)
(* one, unless its request counted before the table was emptied.           *)
FirstIsAdmin ==
  [][users = {} /\ users' # {} =>
       \/ admins' = users'
       \/ nextId > 1 /\ \E b \in Browser : req[b].at = "createSave" /\ req[b].seen > 0]_vars

(* The cookie of an account that is gone never becomes the cookie of       *)
(* somebody else, however many accounts are removed and added.             *)
CookieStaysYours ==
  [][\A b \in Browser :
       session[b] # 0 /\ session[b] \notin users /\ session'[b] = session[b] =>
         session'[b] \notin users']_vars
=============================================================================
